\* A router and a connector in one process, as the end-to-end tests run them.
CONSTANTS
    Requests = {r1}
    Calls = {c1, c2}
    Websockets = {w1}
    Names = {n1}
    Packages = {"router", "connector"}
SPECIFICATION FairSpec
INVARIANTS
    GracefulExit
    WaitCoversCounted
    MovesFollowList
PROPERTY Exits
CHECK_DEADLOCK FALSE
