SPECIFICATION FairSpec
CONSTANTS
    NumAgents = 3
    NumBatches = 2
    MaxTasks = 2
    Caps = {0, 1}
    ThreadLimits = {1, 2}
    MaxPolicyUpdates = 1
    MaxCancels = 1
INVARIANTS
    TypeOK
    BatchBounded
    SlotHasTask
    SlotsHandedOn
PROPERTIES
    StartsWithinLimit
    TerminalIsFinal
    QueuedChildStarts
CHECK_DEADLOCK FALSE
