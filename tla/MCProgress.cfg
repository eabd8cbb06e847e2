SPECIFICATION Spec
CONSTANTS
    GVR = {"pods"}
    Key = {a, b}
    GVK <- MCGVK
    NoGVK = NoGVK
    NoGVR = NoGVR
    Skill = {1}
    Triggers <- MCTriggers
    RESTMapping <- MCMapping
    MaxVersion = 2
    Window = 1
    MaxStall = 0
    MaxTime = 0
PROPERTIES UpdatesAreLookedUp StopsWhenServing
CHECK_DEADLOCK FALSE
