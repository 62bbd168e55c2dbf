SPECIFICATION Spec
CONSTANTS
    MaxInputs = 1
    MaxCommands = 2
    MaxBatches = 1
    MaxResults = 1
    Requests <- MCRequests
PROPERTIES LateResultsAnswered
CHECK_DEADLOCK FALSE
