SPECIFICATION Spec
CONSTANTS
    MaxInputs = 1
    MaxCommands = 2
    MaxBatches = 1
    MaxResults = 1
    Requests <- MCRequests
INVARIANTS SettledWhenWaiting
CHECK_DEADLOCK FALSE
