SPECIFICATION Spec
CONSTANTS
    None = None
    MaxTerminals = 1
    Builds = {FALSE}
    MaxCommands = 2
    MaxTurns = 1
    MaxMishaps = 0
PROPERTY
    BatchedUpdateAccepted
CHECK_DEADLOCK FALSE
