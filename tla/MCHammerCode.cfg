SPECIFICATION CodeSpec
CONSTANTS
    BitCounts <- MCBitCounts
    Positions = {p1, p2}
    MaxWidth = 5
INVARIANTS
    CodesFit
    Attributed
    DiagnosisSharp
CHECK_DEADLOCK FALSE
