SPECIFICATION Spec
CONSTANTS
    Elevations = {1, 2}
    Vcps = {35, 212}
    Times <- MCTimes
    None = None
    WatchdogTimeout = 1
    Streams <- MCStreams
    Origin <- MCOrigin
    BaseProducts = {"Reflectivity"}
    RetainedElevationCap = 1
    EventLogCapacity = 1
    EventChannelCapacity = 1
    ComputeChannelCapacity = 1
    MaxPanics = 1
    MCLaterVcps = {35, 212}
    MCVolumes = 2
    MCUndecodable = 1
INVARIANTS
    DerivedFromClosingVolume
    NewestVolumeIsShown
PROPERTIES
    DerivedPrecedesNextPattern
    ImplementsMergedDisplay

