SPECIFICATION RingSpec
CONSTANTS
  QueueSize = 9
  HeaderSize = 2
  DataSizes = {1, 2}
  Producers = {p1, p2}
  Consumers = {c1}
  MaxEntries = 5
INVARIANT TurnIsSignalled
CHECK_DEADLOCK FALSE
