SPECIFICATION ServiceSpec
CONSTANTS
  QueueSize = 10
  HeaderSize = 2
  DataSizes = {1, 3}
  MaxEntries = 6
  Producers = {p1, p2}
  Consumers = {c1, second}
  Clients = {a, b}
  Users = {u, v}
  service = service
  log = log
  second = second
  Nobody = Nobody
  Registries = {service, log}
  RegisterOrder <- InRegisterOrder
  UndoOrder <- InLeaveOrder
  StopOrder <- InLeaveOrder
SYMMETRY ThreadSymmetry
INVARIANT RingIntact
INVARIANT NobodySleepsOver
PROPERTY Fifo
INVARIANT ClientAlive
INVARIANT NoMixedClients
INVARIANT NothingLeftBehind
PROPERTY Leases
CHECK_DEADLOCK FALSE
