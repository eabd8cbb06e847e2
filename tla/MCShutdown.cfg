SPECIFICATION Spec
CONSTANTS
    GVR = {"pods"}
    Key = {a}
    GVK <- MCGVK
    NoGVK = NoGVK
    NoGVR = NoGVR
    Skill = {1}
    Triggers <- MCTriggers
    RESTMapping <- MCMapping
    MaxVersion = 1
    Window = 1
    MaxStall = 0
    MaxTime = 1
PROPERTY RunReturns
CHECK_DEADLOCK FALSE
