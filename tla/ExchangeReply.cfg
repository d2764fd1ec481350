\* What the client takes for the end of a response.
CONSTANTS
    Requests <- FewRequests
    Responses <- MCResponses
    Resolved <- MCResolved
    MaxChunks = 1
    MaxReplies = 1
SPECIFICATION Spec
INVARIANT EndedReplyIsWhole
CHECK_DEADLOCK FALSE
