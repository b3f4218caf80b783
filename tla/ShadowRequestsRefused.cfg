SPECIFICATION Spec
CONSTANTS
  Ops = {o1}
  Kinds = {"write"}
  Settings = {TRUE}
  QueueLimit = 2
  MaxChunks = 2
INVARIANT UnshadowedIsRefused
CHECK_DEADLOCK FALSE
