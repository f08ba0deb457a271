SPECIFICATION SpecRecovery
CONSTANTS
    Requests <- RestartJobs
    Mask <- AllStates
    ClientOps <- RestartOps
    SegStarted = FALSE
    Condor = FALSE
    MaxQueries = 1
    MaxSubmissions = 2
    GridMonitor = FALSE
    OutOfMemory = FALSE
    PostFails = FALSE
    MaxCrashes = 2
    MaxRestarts = 1
INVARIANTS
    NoLostWakeup
    RestartInvariant
CHECK_DEADLOCK FALSE
