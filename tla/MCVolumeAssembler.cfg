SPECIFICATION FairSpec
CONSTANTS
    Elevations = {1, 2}
    Vcps = {35, 212}
    Times = {1, 2, 3}
    Inputs <- MCInputs
    None = None
    WatchdogTimeout = 2
    MaxChunks = 4
INVARIANTS
    TypeOK
    NothingCarriedOver
    SweepClosureIsPermanent
    SweepsHaveIdentity
PROPERTIES
    NoSweepForgotten
    IdentityIsStable
    StalledVolumeCloses
CHECK_DEADLOCK FALSE
