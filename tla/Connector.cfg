\* A window of one to a router that is listed twice, as the end-to-end test does, and
\* one request.
CONSTANTS
    Window = 1
    Listings = 2
    MaxPending = 2
    MaxRequests = 1
    MaxAttempts = 2
SPECIFICATION FairSpec
INVARIANTS
    WindowAccounting
    RetryBacksOff
    OneLateDial
PROPERTIES
    WindowKept
    SlotRefilled
CHECK_DEADLOCK FALSE
