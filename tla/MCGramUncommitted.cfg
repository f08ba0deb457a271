SPECIFICATION SpecRecovery
CONSTANTS
    Requests <- TwoPhaseJobs
    Mask <- AllStates
    ClientOps <- CommitOnly
    SegStarted = TRUE
    Condor = TRUE
    MaxQueries = 1
    MaxSubmissions = 2
    GridMonitor = FALSE
    OutOfMemory = FALSE
    PostFails = FALSE
    MaxCrashes = 1
    MaxRestarts = 0
INVARIANTS
    NoSubmitBeforeCommit
CHECK_DEADLOCK FALSE
