SPECIFICATION ShadowSpec
CONSTANTS
  Files = {f1, f2}
  Brink = 1
  Step = 4
  MinSize = 8
  RecordSizes = {2, 3}
  TerminatorSize = 1
  MaxSizes <- QuotaOrNot
  SwitchSizes <- EarlyAndLate
  MaxRecords = 3
  Ops = {o1, o2}
  Kinds = {"write", "pageout", "clean", "open", "reclaim"}
  Settings = {TRUE, FALSE}
  QueueLimit = 2
  MaxChunks = 1
  Requests = {r, s}
  Tasks = {d1, d2}
  Completers = {k1, k2}
  TaskLimit = 1
  MaxUses = 2
  Eager = FALSE
  NoTask = NoTask
  NoRequest = NoRequest
INVARIANT RoomKept
INVARIANT CutoffIsFinal
PROPERTY UntriedFileStays
INVARIANT RequestHeld
INVARIANT OriginalAfterShadow
INVARIANT CompletionLast
INVARIANT TaskAccounted
INVARIANT RefusedIfUnshadowed
SYMMETRY OpSymmetry
CHECK_DEADLOCK FALSE
