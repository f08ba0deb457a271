SPECIFICATION FairSpec
CONSTANTS
    j1 = j1
    j2 = j2
    j3 = j3
    j4 = j4
    Jobs = {j1, j2, j3, j4}
    DryRuns = {j4}
    NEvents = 2
INVARIANTS
    NoEventLost
    SegInvariant
PROPERTY
    TerminalDelivered
CHECK_DEADLOCK FALSE
