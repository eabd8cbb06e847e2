SPECIFICATION HSpec
CONSTANTS
    MaxSteps = 2
    Dir = {1, 2}
    Root = 0
    Text <- MCText
    NoFile = NoFile
    NoDir = NoDir
    None = None
    MaxEvents = 2
    MaxEdits = 1
PROPERTY InvalidSkillKeepsPrevious
CHECK_DEADLOCK FALSE
