SPECIFICATION Spec
CONSTANTS
  Data = {"write"}
  Setups <- MCTwoTimers
  BlockIn = {}
  Overlap = FALSE
INVARIANT TimerArmed
CHECK_DEADLOCK FALSE
