\* Every order of two headers, and of three that name each other; up to two chunks each way.
CONSTANTS
    Requests <- MCRequests
    Responses <- MCResponses
    Resolved <- MCResolved
    MaxChunks = 2
    MaxReplies = 2
SPECIFICATION FairSpec
INVARIANTS
    
    EndedBodyIsWhole
    ReplyDelivered
PROPERTIES
    BodyEnds
    BodyStreams
CHECK_DEADLOCK FALSE
