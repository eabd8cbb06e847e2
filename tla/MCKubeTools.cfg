SPECIFICATION Spec
CONSTANTS
    Skill = {"fire-due-pod", "update-fire-status"}
    GVR = {"tasks"}
    Key = {a}
    GVK <- MCGVK
    RESTMapping <- MCMapping
    MainField = {"suspend"}
    StatusField = {"nextFireTime", "fires"}
    Value = {1, 2}
    FieldManager <- MCManager
    NoName = NoName
    NoGVR = NoGVR
    Unset = Unset
    Nobody = Nobody
PROPERTY SkillsMergeCleanly
CHECK_DEADLOCK FALSE
