SPECIFICATION Spec
CONSTANTS
  BTreeOrder = 2
  Blocks = 6
  Requests <- SixAtOnce
  Sizes = {0}
INVARIANT OldestInTree
CHECK_DEADLOCK FALSE
