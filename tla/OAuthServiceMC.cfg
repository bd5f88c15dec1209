SPECIFICATION OAuthSpec
CONSTANTS
  g1 = g1
  g2 = g2
  c1 = c1
  c2 = c2
  x1 = x1
  x2 = x2
  GrantIds = {g1, g2}
  Dynamic = {c1, c2}
  Static = "static"
  Clients = {c1, c2, "static"}
  TxIds = {x1, x2}
  MaxDynamic = 1
  MaxPending = 1
  PendingTtl = 1
  CodeTtl = 1
  AccessTtl = 1
  RefreshTtl = 1
  Grace = 1
  MaxTokens = 4
  MaxHistory = 1
  MaxSerial = 2
  MaxTime = 2
  LongAccess = 1
  LongRefresh = 3
  LongGrace = 2
  ManyTokens = 5
  ManyHistory = 2
  ManySerials = 3
  LongTime = 4
SYMMETRY Symmetry
INVARIANT ReusedFamilyIsGone
PROPERTY AnswersRepeat
INVARIANT ConsentStands
INVARIANT RegistryDurable
PROPERTY NoActiveClientDropped
CHECK_DEADLOCK FALSE
