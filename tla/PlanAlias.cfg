SPECIFICATION Spec
CONSTANTS
    MaxNodes = 3
    MaxEdits = 2
    AttemptEdits = 1
    MaxLinks = 2
    MaxBinding = 2
    MaxAttempts = 0
    MaxDirectives = 0
    MaxPlans = 2
    MaxTransient = 2
    Executors = {e1, e2}
    FirstChildren = {1}
    ChildCounts = {1}
    Capabilities = {"narrow"}
    Declared = {"Pending"}

SYMMETRY Symmetry
PROPERTY OwnReportOnly
CHECK_DEADLOCK FALSE
