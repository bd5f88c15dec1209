SPECIFICATION FairSpec
CONSTANTS
  c1 = c1
  c2 = c2
  w1 = w1
  w2 = w2
  k1 = k1
  k2 = k2
  Actors <- OneActor
  Calls = {k1, k2}
  MaxActive = 1
  MaxPerClient = 1
  MaxRetained = 1
  MaxCoordination = 2
  RunnerBound = 2
  WorkBound = 0
PROPERTY EveryCallEnds
CHECK_DEADLOCK FALSE
