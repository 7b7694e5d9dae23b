SPECIFICATION FairSearch
CONSTANTS
    Keys <- MCNums
    Designs <- MCNums
    NoDesign = NoDesign
    Tools <- MCTools
    MaxNum = 12
    StartNum = 3
    MaxCrashes = 2
INVARIANTS
    LargestFound
    CrashCostsOne
PROPERTY
    SearchEnds
CHECK_DEADLOCK FALSE
