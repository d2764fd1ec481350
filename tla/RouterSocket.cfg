\* A request with up to two body chunks, a response with up to two frames.
CONSTANTS
    MaxChunks = 2
    MaxFrames = 2
SPECIFICATION FairSpec
INVARIANTS
    StatusBeforeReturn
    CrashNeedsFailure
    LateWriteNeedsFailure
    CountLeaksOnlyOnError
PROPERTY HandlerReturns
CHECK_DEADLOCK FALSE
