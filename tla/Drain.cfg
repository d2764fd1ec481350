\* Two connectors with a window of one, and two requests.
CONSTANTS
    Connectors = {c1, c2}
    Window = 1
    Requests = {r1, r2}
    NoSocket = NoSocket
SPECIFICATION FairSpec
INVARIANTS
    BrokenOnlyInGaps
    OneForgottenEach
PROPERTIES
    WindowsKept
    Served
CHECK_DEADLOCK FALSE
