SPECIFICATION Spec
CONSTANTS
    MaxTurns = 2
    MaxCalls = 1
    Name = {"done", "requeueAfter", "patch"}
    Registered = {"done", "requeueAfter", "patch"}
    DoneReason = {"tool_calls", "stop"}
INVARIANT EveryToolCallAnswered
CHECK_DEADLOCK FALSE
