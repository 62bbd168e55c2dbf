SPECIFICATION Spec
CONSTANTS
    None = None
    MaxTerminals = 1
    Builds = {TRUE, FALSE}
    MaxCommands = 3
    MaxTurns = 1
    MaxMishaps = 1
INVARIANTS
    TypeOK
    EventIdentity
    DurableBeforeAck
    RecentSavepointRecovers
PROPERTIES
    FrontierAgrees
CHECK_DEADLOCK FALSE
