SPECIFICATION FairSpec
CONSTANTS
  ThreadModels = {TRUE, FALSE}
  Directions = {TRUE, FALSE}
  Modes = {TRUE, FALSE}
INVARIANTS TransferInvariant AssertionsHold CompleteIsLast
PROPERTY TransferEnds
