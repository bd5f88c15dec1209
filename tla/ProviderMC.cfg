SPECIFICATION FairSpec
CONSTANTS
  c1 = c1
  c2 = c2
  c3 = c3
  Calls = {c1, c2, c3}
  Transports = {"stdio", "http"}
  MaxQueue = 1
  MaxRestarts = 2
  MaxSessionIncidents = 2
INVARIANT AtMostOneExecution
INVARIANT StopIsFinal
PROPERTY EveryCallSettles
CHECK_DEADLOCK FALSE
