SPECIFICATION Spec
CONSTANTS
  Callers = {c1}
  Services = {s}
  injector = injector
  closer = closer
  Buffers = {b}
  QueueLimit = 1
  MaxPackets = 3
  MaxInputs = 3
  NoThread = NoThread
  NoBuffer = NoBuffer
INVARIANT NoneForgotten
INVARIANT InOrder
INVARIANT NothingAfterDetach
CHECK_DEADLOCK FALSE
