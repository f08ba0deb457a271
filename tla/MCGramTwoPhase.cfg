SPECIFICATION FairSpec
CONSTANTS
    Requests <- TwoPhaseJobs
    Mask <- AllStates
    ClientOps <- TwoPhaseOps
    SegStarted = TRUE
    Condor = FALSE
    MaxQueries = 1
    MaxSubmissions = 1
    GridMonitor = FALSE
    OutOfMemory = FALSE
    PostFails = FALSE
INVARIANTS
    NoSubmitBeforeCommit
    SubmittedJobNotified
    RequestInvariant
PROPERTIES
    JobSettles
    QueryAnswered
CHECK_DEADLOCK FALSE
