SPECIFICATION SpecRecovery
CONSTANTS
    Requests <- CondorJobs
    Mask <- AllStates
    ClientOps <- CancelOnly
    SegStarted = TRUE
    Condor = TRUE
    MaxQueries = 1
    MaxSubmissions = 2
    GridMonitor = FALSE
    OutOfMemory = FALSE
    PostFails = FALSE
    MaxCrashes = 2
    MaxRestarts = 0
INVARIANTS
    AtMostOneSubmission
    KnownJobNotResubmitted
    StageOutBeforeDone
    SubmitRecorded
CHECK_DEADLOCK FALSE
