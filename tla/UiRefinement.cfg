\* A unit of time is of the order of a second.  The two holds differ; which is the
\* longer does not matter, as no code compares them, and with the shorter one for the
\* reset a whole forced reset fits into MaxTime: a hold of 1, the time-out at 2 and the
\* terminal pattern at 3.  The pulses only drive the light, which no property looks at.
CONSTANTS
    JOIN_HOLD = 2
    RESET_HOLD = 1
    LEAVE_MIN_RED = 1
    LEAVE_TIMEOUT = 1
    RESULT = 1
    EVENT_PULSE = 0
    HEARTBEAT_PERIOD = 0
    LEASE_TIMEOUT = 2
    LEASE_WDT_GUARD = 1
    FINAL_PULSE_GRACE = 0
    MaxTime = 3
    MaxGap = 2
    MaxLag = 1
SPECIFICATION Spec
INVARIANTS
    TypeOK
    NoUnderflow
    LeaseBelongsToSession
    NoWatchdogLoop
PROPERTIES
    HoldBeforeAction
    SpentHoldStaysSpent
    KeepsPromise
