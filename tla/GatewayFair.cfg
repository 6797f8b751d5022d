CONSTANTS
    QUEUE_LENGTH = 2
    MaxBoots = 1
    MaxAlarms = 1
    Faults = {"start", "schedule", "post", "arm"}
SPECIFICATION FairHistorySpec
INVARIANTS
    ForcedResultIsDurable
PROPERTIES
    ResetEnds
    RetriesContinue
CHECK_DEADLOCK FALSE
