---------------------------- MODULE OAuthServiceMC ----------------------------
(* Bounds for TLC, and two kinds of behaviour.  In one the service runs with    *)
(* short lifetimes: two dynamic clients that compete for one place and the      *)
(* static client, two transactions, two grants.  In the other the store is      *)
(* called by itself for the grants of two standing consents, with room for      *)
(* three generations of each family and a clock that passes the grace, the      *)
(* access and the refresh lifetime.                                             *)
EXTENDS OAuthService

CONSTANTS g1, g2, c1, c2, x1, x2,
  LongAccess, LongRefresh, LongGrace, ManyTokens, ManyHistory, ManySerials, LongTime

VARIABLE alone   \* the store is called by itself

Store == INSTANCE OAuthGrants WITH
  Clients <- {Static}, AccessTtl <- LongAccess, RefreshTtl <- LongRefresh, Grace <- LongGrace,
  MaxTokens <- ManyTokens, MaxHistory <- ManyHistory, MaxSerial <- ManySerials,
  MaxTime <- LongTime

Consented ==
  /\ lru = <<>> /\ disk = <<>> /\ callback = FALSE /\ drawn = {} /\ touched = {}
  /\ flow = [x \in TxIds |-> Closed(NoFlow)]
  /\ consent = [x \in TxIds |-> "full"]
  /\ origin \in {o \in [GrantIds -> TxIds] : IsInjective(o)}

OAuthInit ==
  \/ alone = FALSE /\ ServiceInit
  \/ alone = TRUE /\ Store!Init /\ Consented

OAuthNext ==
  \/ ~alone /\ ServiceNext /\ UNCHANGED alone
  \/ alone /\ Store!Next /\ UNCHANGED serviceVars /\ UNCHANGED alone

OAuthSpec == OAuthInit /\ [][OAuthNext]_<<vars, alone>>

Symmetry == Permutations({g1, g2}) \cup Permutations({c1, c2}) \cup Permutations({x1, x2})
=============================================================================
