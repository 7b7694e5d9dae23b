SPECIFICATION Spec
CONSTANTS
    d1 = d1
    d2 = d2
    d3 = d3
    k1 = k1
    Keys = {k1}
    Designs = {d1, d2, d3}
    NoDesign = NoDesign
    Tools <- MCTools
INVARIANTS
    CacheServes
PROPERTIES
    ImplementsMemo
