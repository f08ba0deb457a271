SPECIFICATION Spec
CONSTANTS
  Reads = {r1, r2, r3, r4}
  NoCancel = FALSE
INVARIANTS ReadInvariant EofLast CloseAfterReads AssertionsHold
PROPERTY ReadSideEnds
CHECK_DEADLOCK FALSE
