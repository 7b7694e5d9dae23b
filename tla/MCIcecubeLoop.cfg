SPECIFICATION Spec
CONSTANTS
    t1 = t1
    t2 = t2
    k1 = k1
    k2 = k2
    k3 = k3
    n = n
    Threads = {t1, t2}
    Keys = {k1, k2, k3}
    SpeedKeys = {"s"}
    Pips = {"p"}
    Names = {n}
    Colbuf = colbuf
    Tasks = 2
    Enough = 1
    Every = 2
    RowN = 5
    Layouts <- MCLayouts
    Designs <- MCDesigns
SYMMETRY Symmetry
INVARIANTS
    Regains
    ColbufTrue
    NoOrphans
CHECK_DEADLOCK FALSE
