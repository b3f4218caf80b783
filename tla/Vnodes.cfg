SPECIFICATION Spec
CONSTANTS
  VnodeIds = {v, w}
  Disk = {v, w}
  Objects = {o1, o2, o3}
  Entries = {e1, e2}
  Threads = {t1, t2, t3}
  MaxReuses = 1
  None = None
SYMMETRY Symmetry
INVARIANT OneCountedObject
INVARIANT NoRecursion
PROPERTY LentUntilReclaimed
CHECK_DEADLOCK FALSE
