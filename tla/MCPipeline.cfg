SPECIFICATION FairSpec
CONSTANTS
    Capacity <- MCCapacity
    MaxOwed <- MCMaxOwed
    MaxPanics = 2
INVARIANTS
    StopsOnlyOnShutdown
PROPERTIES
    ShutdownCompletes
CHECK_DEADLOCK FALSE
