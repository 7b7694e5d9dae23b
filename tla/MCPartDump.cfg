SPECIFICATION Spec
CONSTANTS
    NoSpeed = 0
    NoClass = "none"
    Dumps <- MCDumps
INVARIANTS
    Faithful
    ClassesKept
CHECK_DEADLOCK FALSE
