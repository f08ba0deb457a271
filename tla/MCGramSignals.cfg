SPECIFICATION Spec
CONSTANTS
    Requests <- PlainJobs
    Mask <- AllStates
    ClientOps <- SignalOps
    SegStarted = TRUE
    Condor = FALSE
    MaxQueries = 2
    MaxSubmissions = 1
    GridMonitor = FALSE
    OutOfMemory = FALSE
    PostFails = FALSE
INVARIANTS
    NoLostWakeup
    QueriesMatchState
    ScriptQueryLive
    PauseBalanced
    StatusCoherent
CHECK_DEADLOCK FALSE
