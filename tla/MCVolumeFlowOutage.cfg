SPECIFICATION FairSpec
CONSTANTS
    Elevations = {1, 2}
    Vcps = {35, 212}
    Times <- MCTimes
    None = None
    WatchdogTimeout = 1
    Streams <- MCStreams
    Origin <- MCOrigin
    BaseProducts = {"Reflectivity"}
    RetainedElevationCap = 2
    EventLogCapacity = 1
    EventChannelCapacity = 1
    ComputeChannelCapacity = 1
    MaxPanics = 0
    MCLaterVcps = {35, 212}
    MCVolumes = 1
    MCUndecodable = 1
PROPERTIES
    RenderedSweepIsImmutable
CHECK_DEADLOCK FALSE
