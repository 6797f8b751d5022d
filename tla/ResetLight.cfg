\* A unit of time is one period of the task.
CONSTANTS
    JOIN_HOLD = 1
    RESET_HOLD = 1
    LEAVE_MIN_RED = 3
    LEAVE_TIMEOUT = 5
    RESULT = 3
    EVENT_PULSE = 0
    HEARTBEAT_PERIOD = 30
    LEASE_TIMEOUT = 30
    LEASE_WDT_GUARD = 0
    FINAL_PULSE_GRACE = 0
    TENTH = 1
    RESTORE_PERIOD = 4
    UNARMED_PERIOD = 4
    WARNING_PERIOD = 3
    LEASE_WARN = 29
    QUEUE_LENGTH = 1
    PERIOD = 1
    MaxDelay = 1
    MaxClock = 11
    MaxMoves = 4
SPECIFICATION ResetSpec
PROPERTIES
    ResetIsSeen
CHECK_DEADLOCK FALSE
