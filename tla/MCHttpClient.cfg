SPECIFICATION FairSpec
CONSTANTS
    None = None
    Responses <- MCResponses
    MaxHead = 2
    MaxHeaderCount = 2
    MaxBody = 2
    DiscardCap = 1
    MaxRequests = 3
INVARIANTS
    OwnAnswer
    ReusedConnectionIsClean
PROPERTIES
    RetriedOnlyUnanswered
    RequestEnds
CHECK_DEADLOCK FALSE
