SPECIFICATION Spec
CONSTANTS
  Data = {"write"}
  Setups <- MCSetups
  BlockIn = {"write"}
  Overlap = FALSE
INVARIANTS HandleInvariant AssertionsHold CloseBarrier CalledBackOnce AskedBeforeCallback
PROPERTY CloseCompletes
CHECK_DEADLOCK FALSE
