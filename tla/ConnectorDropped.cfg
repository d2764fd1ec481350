\* The instance of Connector.cfg, against what the code expects of its limit.
CONSTANTS
    Window = 1
    Listings = 2
    MaxPending = 2
    MaxRequests = 1
    MaxAttempts = 2
SPECIFICATION Spec
INVARIANT SlotNeverDropped
CHECK_DEADLOCK FALSE
