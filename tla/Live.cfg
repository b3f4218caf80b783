SPECIFICATION LiveSpec
CONSTANTS
  Producers = {p1, p2}
  Consumers = {c1}
  Clients = {a}
  Users = {u, v}
  service = service
  logger = logger
  Nobody = Nobody
  Ops = {o1, o2}
  Kinds = {"write"}
  Settings = {FALSE}
  QueueLimit = 1
  MaxChunks = 1
  FileIds = {f1, f2}
  Callers = {t1}
  Services = {s1}
  injector = injector
  closer = closer
  NoThread = NoThread
  NoBuffer = NoBuffer
PROPERTY EveryEntryRemoved
PROPERTY UnregisterReturns
PROPERTY HookReturns
PROPERTY RecordFinishes
PROPERTY Drains
CHECK_DEADLOCK FALSE
