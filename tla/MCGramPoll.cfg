SPECIFICATION Spec
CONSTANTS
    Requests <- PollJobs
    Mask <- AllStates
    ClientOps <- PollOps
    SegStarted = FALSE
    Condor = FALSE
    MaxQueries = 1
    MaxSubmissions = 1
    GridMonitor = TRUE
    OutOfMemory = TRUE
    PostFails = TRUE
INVARIANTS
    QueriesAnswered
CHECK_DEADLOCK FALSE
