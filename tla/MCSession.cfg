SPECIFICATION Spec
CONSTANTS
    MaxTurns = 2
    MaxCalls = 2
    Name = {"done", "requeueAfter", "patch", "unknown"}
    Registered = {"done", "requeueAfter", "patch"}
    DoneReason = {"tool_calls", "stop"}
INVARIANTS TypeOK ConversationWellFormed SignalEndsSession TraceTellsSession TurnsAreBounded
PROPERTY SessionEnds
CHECK_DEADLOCK FALSE
