\* A frame is three pieces, and the driver's buffer holds one frame and a part of
\* another: the second one may be cut before its newline.
CONSTANTS
    BODY = 2
    QUEUE_LENGTH = 2
    TX_BUFFER = 5
    MAX_LINE = 3
    MaxEvents = 5
    MaxMishaps = 2
SPECIFICATION Spec
INVARIANTS
    OnlyBlamedAreLost
PROPERTIES
    KeepsPromise
    NeverBlocks
CHECK_DEADLOCK FALSE
