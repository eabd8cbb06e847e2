SPECIFICATION Spec
CONSTANTS
    MaxSteps = 2
    Line <- MCLine
    Allowed = {"patch"}
    MaxLines = 6
INVARIANTS LintReadsProcedure LintReadsBackticks
PROPERTY BeginningsPass
CHECK_DEADLOCK FALSE
