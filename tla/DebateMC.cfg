SPECIFICATION Spec
CONSTANTS
  c1 = c1
  c2 = c2
  a = a
  b = b
  d = d
  x = x
  Connections = {c1, c2}
  TurnLimits = {3, 4}
  MessageIds = {a, b, d}
  Payloads = {x}
  PickupTimeout = 2
  ResponseTimeout = 2
  MaxTime = 5
SYMMETRY ConnectionSymmetry
INVARIANT TurnIsNeverLost
INVARIANT ReplayRepeatsAnswer
PROPERTY ImplementsProtocol
CHECK_DEADLOCK FALSE
