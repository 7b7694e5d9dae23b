CONSTANTS
    Cols = 3
    Rows = 2
    Wires <- MCWires
    Kind <- MCKind
    ConnClasses <- MCConnClasses
    Opposite <- MCOpposite
    RegionSlots = {"R"}
    TileClasses <- MCTileClasses
    MainPass <- MCMainPass
    Sites <- MCSites
    Required <- MCRequired
    PairSites <- MCPairSites
    TermSites <- MCTermSites
    RootMaps <- MCRootMaps
    Corners <- MCCorners
    Dead <- MCDead
    Depth <- MCDepth
    MaxConns = 2
    MaxLinks = 2
SPECIFICATION Spec
INVARIANTS
    BackAndForth
    TreesAgree
    SwitchesAgree
CHECK_DEADLOCK FALSE
