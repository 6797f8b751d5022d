\* Two requests of any setup or installation; two records stand for the twelve, and
\* one retry for the three.
CONSTANTS
    Handlers = {h1, h2}
    Operations = {"gateway", "direct", "install_router", "restore_direct"}
    RECORDS = 2
    RETRIES = 1
    MaxCopies = 2
    MaxPresses = 3
SPECIFICATION FairSpec
INVARIANTS
    TimeoutRestored
PROPERTIES
    ShownIsWritten
    SetupSettles
CHECK_DEADLOCK FALSE
