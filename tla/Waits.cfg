SPECIFICATION WaitsSpec
CONSTANTS
  SettersOfEvent = {s1, s2}
  Uses = {"completion", "terminated", "reaper"}
  MaxRounds = 3
  Requests = {r, s}
  Tasks = {d1, d2}
  Completers = {k1}
  NoTask = NoTask
  NoRequest = NoRequest
INVARIANT NoMissedWakeup
INVARIANT NoTouchAfterReturn
PROPERTY ResetAfterWait
PROPERTY IsLatch
PROPERTY EverybodyGoesOn
PROPERTY CommandReturns
CHECK_DEADLOCK FALSE
