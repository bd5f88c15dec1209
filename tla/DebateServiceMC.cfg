SPECIFICATION ServiceSpec
CONSTANTS
  c1 = c1
  c2 = c2
  w1 = w1
  w2 = w2
  a = a
  x = x
  Connections = {c1, c2}
  TurnLimits = {3}
  MessageIds = {a}
  Payloads = {x}
  PickupTimeout = 1
  ResponseTimeout = 1
  Waiters = {w1, w2}
  WaitDurations = {3}
  MaxTime = 4
INVARIANT NoLostWakeup
PROPERTY TimeoutHidesNothing
PROPERTY EveryWaitEnds
ACTION_CONSTRAINT ByFirstConnection
CHECK_DEADLOCK FALSE
