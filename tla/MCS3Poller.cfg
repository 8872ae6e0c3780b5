SPECIFICATION FairSpec
CONSTANTS
    None = None
    ReanchorEmptyPolls = 1
    StuckEmptyPolls = 2
    StalledAfter = 2
    UploadedKinds <- MCUploadedKinds
    MaxVolume = 3
    KeysPerVolume = 2
    MaxFailures = 2
INVARIANTS
    DeliveredOnceInOrder
    CursorIsExact
PROPERTIES
    TargetNeverRetreats
    StuckVolumeIsLeft
    GapIsPassed
CHECK_DEADLOCK FALSE
