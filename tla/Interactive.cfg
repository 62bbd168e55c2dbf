SPECIFICATION Spec
CONSTANTS
    MaxInputs = 2
    MaxCommands = 3
    MaxBatches = 2
    MaxResults = 1
    Requests <- MCRequests
INVARIANTS TypeOK WaitingMeansDrained HandoffNotLost
PROPERTIES OkMeansRecorded SuspendedStays ComesToRest
CHECK_DEADLOCK FALSE
