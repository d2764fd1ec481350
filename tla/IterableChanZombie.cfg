\* One socket and one poller are enough for a poll to overtake Offer.
CONSTANTS
    Sockets = {s1}
    Pollers = {p1}
    Capacity = 1
    NoSocket = NoSocket
SPECIFICATION Spec
INVARIANT LenAliveIsPollable
