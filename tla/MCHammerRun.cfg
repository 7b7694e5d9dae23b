SPECIFICATION FairSpec
CONSTANTS
    Threads = {t1, t2, t3}
    Plans <- MCPlans
INVARIANTS
    TakenWhole
    NoLostWakeup
    HangsOnlyByPanic
    ScopeDrains
PROPERTIES
    ImplementsDelivery
    Ends
CHECK_DEADLOCK FALSE
