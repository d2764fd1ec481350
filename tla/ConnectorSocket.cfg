\* A request with up to two chunks, an answer with up to two.
CONSTANTS
    MaxChunks = 2
    MaxReplies = 2
SPECIFICATION FairSpec
INVARIANTS
    CrashNeedsEndOrBadDest
    NormalCloseIsWhole
    ReplacedOnce
    ConnectionReleased
PROPERTIES
    EndNoticed
    RequestEnds
CHECK_DEADLOCK FALSE
