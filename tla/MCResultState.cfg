SPECIFICATION Spec
CONSTANTS
    Cases <- MCCases
    DefaultVal = 9
INVARIANTS
    Unanimous
    DbTrue
    NoFalseAlarm
\* The session ends with the last part, or panics.
CHECK_DEADLOCK FALSE
