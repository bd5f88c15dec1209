SPECIFICATION Spec
CONSTANTS
  c1 = c1
  s1 = s1
  s2 = s2
  Slots = {s1, s2}
  Clients = {c1}
  Host = "host"
  MaxPolicies = 2
  Calls <- MCCalls
  Withdrawn = {"core.exec"}
INVARIANT LeasesFollowExchanges
INVARIANT AuditTellsTheAnswer
PROPERTY SignalsAreServed
CHECK_DEADLOCK FALSE
