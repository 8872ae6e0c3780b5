SPECIFICATION FairSpec
CONSTANTS
    None = None
    MalformedKeys = {"view..x"}
    KDOX = KDOX
    KTLX = KTLX
    KXXX = KXXX
    Sites = {KDOX, KTLX}
    DisplayProducts = {0, 1, 2}
    Instances = {a, b}
    Launches <- MCLaunches
    Edits <- MCEdits
    ViewValues <- MCViewValues
    InitialText <- MCText
    MaxLaunches = 2
    MaxChanges = 2
    MaxEdits = 1
INVARIANTS
    ViewIsRestored
PROPERTIES
    SaveKeepsOtherLines
    EndsWithPipelineJoined
CHECK_DEADLOCK FALSE
