CONSTANTS
    a = a
    b = b
    c = c
    g = g
    h = h
    o1 = o1
    o2 = o2
    t1 = t1
    t2 = t2
    Tiled = {a, b}
    Global = {g, h}
    Tiles = {t1, t2}
    Offsets = {o1, o2}
    Places <- MCPlaces
    NoTiles = NoTiles
    Truths <- MCTruths
    Flagged = {b}
    Designs <- MCDesigns
    MaxSamples = 3
SPECIFICATION Spec
INVARIANT Exact
INVARIANT Explained
INVARIANT IndexAgree
INVARIANT NeverFails
PROPERTY ReturnsSettled
PROPERTY ImplementsOracle
