SPECIFICATION AccessSpec
CONSTANTS
  Capacity = 2
  MaxSize = 7
  Threads = {p1, p2}
  MaxID = 3
  Callers = {p1, p2}
  MaxUnits = 4
  MaxCalls = 3
  Rights = {"r", "w"}
  DeviceRead = "r"
  DeviceWrite = "w"
  FullWrite = {"w"}
  Users = {"root", "ann", "bob"}
  Root = "root"
  NoGuid = {"bob"}
  Subjects = {"all", "staff", "guests"}
  Membership <- Groups
  Acls <- Lists
  Requests = {{"w"}, {"r", "w"}}
  Announcers = {a1, a2}
  Checkers = {c1}
  Sessions = {s1, s2}
  Entries = {e1, e2, e3}
  None = None
INVARIANT NoDoubleUse
INVARIANT TreeKept
INVARIANT ReadBack
INVARIANT AnswersReach
INVARIANT VerdictRight
INVARIANT DecisionStands
INVARIANT ActiveListed
INVARIANT EntriesCounted
CHECK_DEADLOCK FALSE
