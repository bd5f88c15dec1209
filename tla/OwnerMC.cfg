SPECIFICATION OwnerSpec
CONSTANTS
  p1 = p1
  p2 = p2
  r1 = r1
  r2 = r2
  r3 = r3
  i1 = i1
  i2 = i2
  s1 = s1
  t1 = t1
  t2 = t2
  q1 = q1
  q2 = q2
  g1 = g1
  x1 = x1
  x2 = x2
  g2 = g2
  Providers = {p1, p2}
  Refs = {r1, r2, r3}
  Intents = {i1, i2}
  MaxCrashes = 1
  Operations = {"a", "b"}
  Payloads = {1, 2}
  States = {"requested", "ready"}
  MaxWrites = 3
  MaxLives = 2
  Sessions = {s1}
  HostTokens = {t1, t2}
  Requests = {q1, q2}
  Processes = {g1, g2}
  IdleTtl = 2
  AbsoluteTtl = 3
  TokenIdle = 2
  MaxHostTokens = 1
  Transactions = {x1, x2}
  Limit = 1
  PeerLimit = 2
  Window = 2
  MaxTime = 4
  MaxSlip = 1
SYMMETRY Symmetry
INVARIANT CredentialsStand
INVARIANT NoOrphans
INVARIANT DiskIsActive
PROPERTY AccessEnds
INVARIANT FailuresAreRationed
INVARIANT SecretsAgree
INVARIANT LedgerKeepsItsWord
CHECK_DEADLOCK FALSE
