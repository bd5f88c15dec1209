SPECIFICATION Spec
CONSTANTS
  c1 = c1
  c2 = c2
  w1 = w1
  w2 = w2
  k1 = k1
  k2 = k2
  Actors <- ThreeActors
  Calls = {k1, k2}
  MaxActive = 2
  MaxPerClient = 1
  MaxRetained = 2
  MaxCoordination = 2
  RunnerBound = 2
  WorkBound = 3
CONSTRAINT OneKind
SYMMETRY CallSymmetry
INVARIANT CancelReachesProcess
PROPERTY AnsweredCancelLeavesNoProcess
PROPERTY ImplementsClaimBoard

CHECK_DEADLOCK FALSE
