SPECIFICATION FairSpec
CONSTANTS
    None = None
    ReanchorEmptyPolls = 1
    StuckEmptyPolls = 2
    StalledAfter = 2
    UploadedKinds <- MCUploadedKinds
    MaxVolume = 4
    KeysPerVolume = 1
    MaxFailures = 1
PROPERTIES
    NeverStallsOnAbsentDirectory
CHECK_DEADLOCK FALSE
