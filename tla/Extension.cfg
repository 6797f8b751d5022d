\* Three packets push an entry out of a table of two; two requests overlap across a
\* reload, or one of them is refused.
CONSTANTS
    Sources = {r1, r2}
    Known = {r1}
    WINDOW = 1
    LIMIT = 2
    MaxDelay = 1
    MaxCopies = 2
    MaxPackets = 3
    MaxBoots = 2
    JOIN_WINDOW = 2
    MaxWindow = 3
    MaxRequests = 2
    MaxReloads = 1
    MaxUserPermits = 1
SPECIFICATION ExtensionSpec
INVARIANTS
    WindowHasReason
    ReturnStaysOpen
PROPERTIES
    PublishedOnce
    FreshIsPublished
    OneHeartbeat
    HeartbeatsGoOn
    RequestsEnd
CHECK_DEADLOCK FALSE
