CONSTANTS
    a = a
    b = b
    c = c
    g = g
    h = h
    o1 = o1
    o2 = o2
    t1 = t1
    t2 = t2
    Tiled = {a, b, c}
    Global = {}
    Tiles = {t1, t2}
    Offsets = {o1, o2}
    Places <- MCPlaces
    NoTiles = NoTiles
    Truths <- TripleTruths
    Flagged = {a}
    Designs <- TripleDesigns
    MaxSamples = 3
SPECIFICATION FairSpec
INVARIANT Sound
PROPERTY ProcessTerminates
