\* Two sockets of any routes, two requests, one service or ip launched in the
\* dark, one deregistration.
CONSTANTS
    Sockets = {s1, s2}
    Requests = {r1, r2}
    Services = {"a"}
    NoName = NoName
    Star = Star
    Ips = {"10.0.0.1"}
    Address = "10.0.0.1:5000"
    NoQueue = NoQueue
    MaxCalls = 1
    MaxDeregisters = 1
SPECIFICATION Spec
SYMMETRY Symmetric
INVARIANTS
    AcquiredOnce
    RightSocket
    DarkIsolated
    IdleSocketAtHome
    ClosedSocketGone
CHECK_DEADLOCK FALSE
