\* A unit of time is one period of the UI task.  The lease times out after 4 of
\* them, three of which are the watchdog's.
CONSTANTS
    JOIN_HOLD = 1
    RESET_HOLD = 2
    LEAVE_MIN_RED = 1
    LEAVE_TIMEOUT = 1
    RESULT = 1
    EVENT_PULSE = 2
    HEARTBEAT_PERIOD = 5
    LEASE_TIMEOUT = 4
    LEASE_WDT_GUARD = 3
    FINAL_PULSE_GRACE = 2
    TENTH = 2
    RESTORE_PERIOD = 4
    UNARMED_PERIOD = 4
    WARNING_PERIOD = 3
    LEASE_WARN = 1
    PERIOD = 1
    WDT_RETRY = 1
    QUEUE_LENGTH = 1
    MaxTime = 8
    MaxMoves = 3
    MaxBites = 1
    MaxFailures = 1
SPECIFICATION Spec
INVARIANTS
    SilenceIsNoticed
PROPERTIES
    BitesOnlySilence
    LastPulseSeen
CHECK_DEADLOCK FALSE
