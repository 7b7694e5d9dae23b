SPECIFICATION PipeSpec
CONSTANTS
    Lines = 6
    Small = 2
    Large = 5
INVARIANTS
    OkMeansAll
    DirOutlivesTool
PROPERTIES
    Finishes
    HangsOnlyIfNeverOpened
\* The reader ends, and one whose tool never opens the pipe hangs.
CHECK_DEADLOCK FALSE
