\* A hold is longer than a release may go unnoticed, and the limit of a virtual press
\* longer than a hold.  A unit of time is one period of the task.
CONSTANTS
    JOIN_HOLD = 4
    RESET_HOLD = 4
    LEAVE_MIN_RED = 1
    LEAVE_TIMEOUT = 1
    RESULT = 1
    EVENT_PULSE = 2
    HEARTBEAT_PERIOD = 3
    LEASE_TIMEOUT = 1
    LEASE_WDT_GUARD = 1
    FINAL_PULSE_GRACE = 0
    TENTH = 1
    RESTORE_PERIOD = 4
    UNARMED_PERIOD = 4
    WARNING_PERIOD = 2
    LEASE_WARN = 0
    DEBOUNCE = 1
    HOLD_LIMIT = 5
    QUEUE_LENGTH = 1
    PERIOD = 1
    MaxLag = 1
    MaxTime = 7
    MaxMoves = 4
SPECIFICATION Spec
PROPERTIES
    ReleaseStopsHold
    HeldAndAnnounced
    VirtualHoldLimited
CHECK_DEADLOCK FALSE
