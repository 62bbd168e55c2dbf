SPECIFICATION Spec
CONSTANTS
    MaxNodes = 3
    MaxEdits = 2
    AttemptEdits = 1
    MaxLinks = 2
    MaxBinding = 2
    MaxAttempts = 2
    MaxDirectives = 1
    MaxPlans = 1
    MaxTransient = 2
    Executors = {e1, e2}
    FirstChildren = {1, 2}
    ChildCounts = {1}
    Capabilities = {"narrow"}
    Declared = {"Pending"}

SYMMETRY Symmetry
INVARIANTS TypeOK NoOrphanedWork LeaseFollowsAttempt NoStaleDirective
PROPERTIES ReviewBoundary CompletionEarned LastAttemptSettles
CHECK_DEADLOCK FALSE
