SPECIFICATION Spec
CONSTANTS
    None = None
    MaxTerminals = 1
    Builds = {TRUE, FALSE}
    MaxCommands = 2
    MaxTurns = 1
    MaxMishaps = 0
INVARIANT
    AcknowledgedSurvives
CHECK_DEADLOCK FALSE
