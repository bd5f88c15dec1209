SPECIFICATION FairSpec
CONSTANTS
  c1 = c1
  c2 = c2
  c3 = c3
  Calls = {c1, c2, c3}
  Transports = {"stdio"}
  MaxQueue = 1
  MaxRestarts = 1
  MaxSessionIncidents = 1
INVARIANT CancellationIsLocal
CHECK_DEADLOCK FALSE
