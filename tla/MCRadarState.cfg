SPECIFICATION Spec
CONSTANTS
    Elevations = {1, 2}
    VolumeIds = {1, 2}
    VcpNumbers = {0, 212}
    SweepGrids <- MCSweepGrids
    DerivedGrids <- MCDerivedGrids
    Sites = {"KTLX"}
    None = None
    EventLogCapacity = 2
    MaxRevision = 3
    MaxReports = 3
INVARIANTS
    RevisionIdentifiesContent
    OnePattern
PROPERTIES
    ShownDataNeverRegresses
CHECK_DEADLOCK FALSE
