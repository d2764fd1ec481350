\* Two sockets on a channel of one, so that an Offer blocks, and two concurrent
\* pollers, so that every step of one call meets every step of another.
CONSTANTS
    Sockets = {s1, s2}
    Pollers = {p1, p2}
    Capacity = 1
    NoSocket = NoSocket
SPECIFICATION FairSpec
INVARIANTS
    LeavesOnce
    LengthConservation
PROPERTIES
    ReachableUntilLeft
    PoolSpec
    OfferCompletes
    PollReturns
