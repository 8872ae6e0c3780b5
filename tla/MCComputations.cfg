SPECIFICATION BenchSpec
CONSTANTS
    None = None
    ResetAfter = 2
    MaxRestarts = 70
    GpuInputs <- MCGpuInputs
    ChunkInputs <- MCChunkInputs
    SweepInputs <- MCSweepInputs
    TiltInputs <- MCTiltInputs
    PaletteInputs <- MCPaletteInputs
    MapInputs <- MCMapInputs
    MaxDecompressed = 5000
    Circle = 8
    SuperRes = 4
    Standard = 2
    InferAt = 3
    SlantRange <- MCSlantRange
    BeamHeight <- MCBeamHeight
    LayerWater <- MCLayerWater
    AzEq <- MCAzEq
    PageSize = 2
    Entries = 6
INVARIANTS
    GpuChoiceIsSound
    ChunkIsDecodedWhole
    GridIsExactScatter
    DerivedFromNewestTilts
    LutFollowsThresholds
    MapIsDrawnFaithfully
    ListingIsComplete
PROPERTIES
    CrashLoopBacksOff
CHECK_DEADLOCK FALSE
