SPECIFICATION HSpec
CONSTANTS
    GVR = {"pods", "tasks"}
    Key = {a}
    GVK <- MCGVK
    NoGVK = NoGVK
    NoGVR = NoGVR
    Skill = {1, 2}
    Triggers <- MCTriggers
    RESTMapping <- MCMapping
    MaxVersion = 2
    Window = 1
    MaxStall = 0
    MaxTime = 1
INVARIANTS TypeOK NoUpdateForgotten WorkersHoldTheirKey DrainedAtReturn SessionsAreTriggered
PROPERTIES KeepsLifecycle SessionsSpaced SkipsAreJustified ImplementsLimiter
CHECK_DEADLOCK FALSE
