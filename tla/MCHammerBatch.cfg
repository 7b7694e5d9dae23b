SPECIFICATION Spec
CONSTANTS
    k1 = k1
    k2 = k2
    p1 = p1
    p2 = p2
    Keys = {k1, k2}
    Props = {p1, p2}
    Multis = {"m"}
    Values <- MCValues
    Generators <- MCGenerators
    MaxGens = 3
INVARIANTS
    DemandsMet
    MatricesAgree
    EveryPropExercised
CHECK_DEADLOCK FALSE
