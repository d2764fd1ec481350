\* A body of which one chunk is on its way.
CONSTANTS
    MaxChunks = 1
    MaxReplies = 0
SPECIFICATION FairSpec
PROPERTY AbortEndsRequest
CHECK_DEADLOCK FALSE
