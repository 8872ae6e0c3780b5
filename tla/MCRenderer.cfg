SPECIFICATION FairSpec
CONSTANTS
    None = None
    ALL <- MCProducts
    Cuts = 2
    Angle <- MCAngle
    Vcps = {35, 212}
    BaseGrids <- MCBaseGrids
    DerivedGrids <- MCDerivedGrids
    LutCacheCap = 2
    MaxStartupReconfigures = 1
    MaxRevision = 2
INVARIANTS
    GpuHoldsUploaded
    FrameIsCoherent
PROPERTIES
    SelectionIsTheOperators
    NewDataIsPresented
CHECK_DEADLOCK FALSE
