CONSTANTS
    QUEUE_LENGTH = 2
    MaxBoots = 2
    MaxAlarms = 2
    Faults = {"start", "schedule", "post", "queue", "arm"}
SPECIFICATION HistorySpec
INVARIANTS
    GatewayTypeOK
    MarkerIsShown
    OneCommissioning
    NeverStranded
PROPERTIES
    EndsFinally
    WipesOnlyWhenRenounced
    JoinsOnlyWhenAsked
CHECK_DEADLOCK FALSE
