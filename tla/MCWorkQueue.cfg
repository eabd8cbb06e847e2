SPECIFICATION Spec
CONSTANTS
    GVR = {pods, tasks}
    Key = {a, b, c}
INVARIANTS TypeOK QueueInv
PROPERTIES ImplementsLifecycle ShutdownDrains
CHECK_DEADLOCK FALSE
