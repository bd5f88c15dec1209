------------------------------ MODULE OAuthGrants ------------------------------
(***************************************************************************)
(* The durable OAuth grant store (src/src/auth/oauth-grant-store.ts): every *)
(* grant is a family of one access and one refresh token per rotation.     *)
(* Rotating a refresh token retires it into refresh_history together with  *)
(* the salt its successors are derived from, so a client that lost the     *)
(* answer can fetch the same successors again within a grace period, and a *)
(* later use of the retired token revokes the whole family.                *)
(*                                                                         *)
(* A token is named by its grant and a serial number that is fresh for each *)
(* salt: tokens derived from the same parent and salt (#rotationTokens of  *)
(* oauth-service.ts, 1183-1226) are the same token.                        *)
(*                                                                         *)
(* Every method is one SQLite transaction (320-330) that first prunes what *)
(* has expired: a call that returns is one action, a call that throws is   *)
(* rolled back and is no action.                                           *)
(***************************************************************************)
EXTENDS Integers, FiniteSets

CONSTANTS
  GrantIds,    \* random grant identifiers; each is used once
  Clients,     \* registered clients
  AccessTtl,   \* ACCESS_TOKEN_TTL_SECONDS
  RefreshTtl,  \* REFRESH_TOKEN_TTL_SECONDS
  Grace,       \* refreshRotationGraceSeconds; 0 refuses every retry
  MaxTokens,   \* capacity of the table tokens
  MaxHistory,  \* capacity of the table refresh_history
  MaxSerial,   \* bound on the rotations of one family
  MaxTime      \* bound on the clock

ASSUME TtlAssumption ==
  /\ AccessTtl \in Nat \ {0} /\ RefreshTtl \in Nat \ {0} /\ Grace \in Nat
  /\ MaxTokens \in Nat /\ MaxHistory \in Nat /\ MaxSerial \in Nat /\ MaxTime \in Nat

Profiles == {"full", "gateway-only"}
NoDefault == "none"
NoGrant == [client |-> "none", surface |-> "full", ceiling |-> "full"]
NoClient == "none"
Never == 0           \* expiresAt IS NULL; the clock starts at 1

ASSUME ClientsAssumption == NoClient \notin Clients

VARIABLES
  now,       \* the wall clock
  grants,    \* table grants: the row of each grant id, or NoGrant
  tokens,    \* table tokens
  history,   \* table refresh_history
  defaults,  \* table client_defaults
  serial,    \* the last serial number of each family; 0: the id is not drawn yet
  answered,  \* history: the answers given to presented refresh tokens
  reused     \* history: grants whose retired token came back after the grace

grantVars == <<now, grants, tokens, history, defaults, serial, answered, reused>>

-----------------------------------------------------------------------------

Expired(e, t) == e # Never /\ e <= t

\* The rows that prune leaves: grants without a token go, and their history
\* with them.
PrunedTokens == {t \in tokens : ~Expired(t.expires, now)}
Alive(g) == grants[g] # NoGrant /\ \E t \in PrunedTokens : t.grant = g
PrunedHistory == {h \in history : ~Expired(h.expires, now) /\ Alive(h.grant)}
PrunedGrants == [g \in GrantIds |-> IF Alive(g) THEN grants[g] ELSE NoGrant]

Pruned ==
  /\ grants' = PrunedGrants /\ tokens' = PrunedTokens /\ history' = PrunedHistory

\* ON DELETE CASCADE of the rows that name a deleted grant.
Cascade(rows, gs) == {r \in rows : r.grant \notin gs}

\* DELETE FROM grants for the grants gs.
Deleted(gs) ==
  /\ grants' = [g \in GrantIds |-> IF g \in gs THEN NoGrant ELSE grants[g]]
  /\ tokens' = Cascade(tokens, gs)
  /\ history' = {h \in history : h.grant \notin gs}

\* The same after a prune.
Dropped(gs) ==
  /\ grants' = [g \in GrantIds |-> IF g \in gs THEN NoGrant ELSE PrunedGrants[g]]
  /\ tokens' = Cascade(PrunedTokens, gs)
  /\ history' = {h \in PrunedHistory : h.grant \notin gs}

Access(g, n) == [kind |-> "access", grant |-> g, serial |-> n, expires |-> now + AccessTtl]

\* Only a gateway-only ceiling gets a refresh token without an end.
Refresh(g, n, ceiling) ==
  [kind |-> "refresh", grant |-> g, serial |-> n,
   expires |-> IF ceiling = "gateway-only" THEN Never ELSE now + RefreshTtl]

XIsLive(kind, g, n) == TRUE

IsLive(kind, g, n) ==
  \E t \in PrunedTokens : t.kind = kind /\ t.grant = g /\ t.serial = n

XSurfaceOf(c, profile) == IF defaults[c] = NoDefault THEN profile ELSE defaults[c]

\* issue: the client's request and the owner's default only reduce.
SurfaceOf(c, profile) ==
  IF profile = "gateway-only" \/ defaults[c] = "gateway-only" THEN "gateway-only" ELSE "full"

Init ==
  /\ now = 1
  /\ grants = [g \in GrantIds |-> NoGrant]
  /\ tokens = {} /\ history = {}
  /\ defaults = [c \in Clients |-> NoDefault]
  /\ serial = [g \in GrantIds |-> 0]
  /\ answered = {} /\ reused = {}

\* issue: the profile the owner consented to becomes the ceiling.
Issue(g, c, profile) ==
  /\ serial[g] = 0
  /\ Cardinality(PrunedTokens) + 2 <= MaxTokens
  /\ grants' = [PrunedGrants EXCEPT ![g] =
       [client |-> c, surface |-> SurfaceOf(c, profile), ceiling |-> profile]]
  /\ tokens' = PrunedTokens \cup {Access(g, 1), Refresh(g, 1, profile)}
  /\ history' = PrunedHistory
  /\ serial' = [serial EXCEPT ![g] = 1]
  /\ UNCHANGED <<now, defaults, answered, reused>>

\* A refresh token presented within its lifetime although an answer to it is
\* a grace old.
Overdue(g, n) ==
  \E a \in answered : /\ a.grant = g /\ a.serial = n
                       /\ now - a.at >= Grace /\ ~Expired(a.expires, now)
Answer(g, n, next, expires) ==
  [grant |-> g, serial |-> n, successor |-> next, at |-> now, expires |-> expires]
Presented(g, n) == reused' = IF Overdue(g, n) THEN reused \cup {g} ELSE reused

\* DELETE FROM tokens WHERE tokenHash: a rotated token is no longer live.
Retiring(t) == PrunedTokens \ {t}

\* rotate of a live refresh token.
Rotate(t) ==
  LET g == t.grant
      next == serial[g] + 1
  IN
  /\ t \in PrunedTokens /\ t.kind = "refresh"
  /\ serial[g] < MaxSerial
  /\ Cardinality(PrunedHistory) < MaxHistory
  /\ Cardinality(Retiring(t)) + 2 <= MaxTokens
  /\ tokens' = Retiring(t) \cup {Access(g, next), Refresh(g, next, grants[g].ceiling)}
  /\ history' = PrunedHistory \cup
       {[grant |-> g, serial |-> t.serial, expires |-> t.expires, at |-> now,
         successor |-> next]}
  /\ grants' = PrunedGrants
  /\ serial' = [serial EXCEPT ![g] = next]
  /\ answered' = answered \cup {Answer(g, t.serial, next, t.expires)}
  /\ Presented(g, t.serial)
  /\ UNCHANGED <<now, defaults>>

XTooLate(h) == now - h.at > Grace

TooLate(h) == Grace = 0 \/ now - h.at >= Grace

\* rotate of a retired token after the grace: the family is revoked.
Reuse(h) ==
  /\ h \in PrunedHistory /\ TooLate(h)
  /\ Dropped({h.grant})
  /\ Presented(h.grant, h.serial)
  /\ UNCHANGED <<now, defaults, serial, answered>>

\* rotate of a retired token within the grace answers the same successors, if
\* both are still live.
Retry(h) ==
  LET g == h.grant
      answers == IsLive("access", g, h.successor) /\ IsLive("refresh", g, h.successor)
  IN
  /\ h \in PrunedHistory /\ ~TooLate(h)
  /\ Pruned
  /\ answered' = IF answers
       THEN answered \cup {Answer(g, h.serial, h.successor, h.expires)} ELSE answered
  /\ Presented(g, h.serial)
  /\ UNCHANGED <<now, defaults, serial>>

\* rotate of a token that is neither live nor in the history finds nothing.
PresentUnknown(g, n) ==
  /\ ~IsLive("refresh", g, n)
  /\ ~\E h \in PrunedHistory : h.grant = g /\ h.serial = n
  /\ Pruned
  /\ Presented(g, n)
  /\ UNCHANGED <<now, defaults, serial, answered>>

\* findToken, listConnections, prune, and every call that finds nothing.
Look ==
  /\ Pruned
  /\ UNCHANGED <<now, defaults, serial, answered, reused>>

\* restrictByAccessToken: a connection may give up the full profile only.
RestrictByAccessToken(g) ==
  /\ \E t \in PrunedTokens : t.kind = "access" /\ t.grant = g
  /\ grants' = [PrunedGrants EXCEPT ![g].surface = "gateway-only"]
  /\ tokens' = PrunedTokens /\ history' = PrunedHistory
  /\ UNCHANGED <<now, defaults, serial, answered, reused>>

MaySet(g, profile) ==
  Alive(g) /\ ~(profile = "full" /\ grants[g].ceiling = "gateway-only")

\* setGrantProfile, the owner's.
SetGrantProfile(g, profile) ==
  /\ MaySet(g, profile)
  /\ grants' = [PrunedGrants EXCEPT ![g].surface = profile]
  /\ tokens' = PrunedTokens /\ history' = PrunedHistory
  /\ UNCHANGED <<now, defaults, serial, answered, reused>>

SetClientDefault(c, profile) ==
  /\ defaults' = [defaults EXCEPT ![c] = profile]
  /\ UNCHANGED <<now, grants, tokens, history, serial, answered, reused>>

RevokeGrant(g) ==
  /\ grants[g] # NoGrant
  /\ Deleted({g})
  /\ UNCHANGED <<now, defaults, serial, answered, reused>>

RevokeClient(c) ==
  /\ Deleted({g \in GrantIds : grants[g].client = c})
  /\ defaults' = [defaults EXCEPT ![c] = NoDefault]
  /\ UNCHANGED <<now, serial, answered, reused>>

RevokeAll ==
  /\ Deleted(GrantIds)
  /\ defaults' = [c \in Clients |-> NoDefault]
  /\ UNCHANGED <<now, serial, answered, reused>>

Tick ==
  /\ now < MaxTime
  /\ now' = now + 1
  /\ UNCHANGED <<grants, tokens, history, defaults, serial, answered, reused>>

Next ==
  \/ \E g \in GrantIds :
       \/ \E c \in Clients, profile \in Profiles : Issue(g, c, profile)
       \/ \E n \in 1..serial[g] : PresentUnknown(g, n)
       \/ RestrictByAccessToken(g)
       \/ \E profile \in Profiles : SetGrantProfile(g, profile)
       \/ RevokeGrant(g)
  \/ \E t \in tokens : Rotate(t)
  \/ \E h \in history : Reuse(h) \/ Retry(h)
  \/ \E c \in Clients : RevokeClient(c) \/ \E profile \in Profiles : SetClientDefault(c, profile)
  \/ RevokeAll
  \/ Look
  \/ Tick

Spec == Init /\ [][Next]_grantVars

-----------------------------------------------------------------------------

GrantRow == [client : Clients, surface : Profiles, ceiling : Profiles]
TokenRow == [kind : {"access", "refresh"}, grant : GrantIds, serial : Nat \ {0}, expires : Nat]
HistoryRow ==
  [grant : GrantIds, serial : Nat \ {0}, expires : Nat, at : Nat, successor : Nat \ {0}]
AnswerRow ==
  [grant : GrantIds, serial : Nat \ {0}, successor : Nat \ {0}, at : Nat, expires : Nat]

\* The rows keep their domains, and every token and every retired token
\* belongs to a grant that exists (the foreign keys).
TypeOK ==
  /\ now \in Nat \ {0}
  /\ grants \in [GrantIds -> GrantRow \cup {NoGrant}]
  /\ tokens \subseteq TokenRow /\ history \subseteq HistoryRow
  /\ \A t \in tokens : grants[t.grant] # NoGrant
  /\ \A h \in history : grants[h.grant] # NoGrant
  /\ defaults \in [Clients -> Profiles \cup {NoDefault}]
  /\ serial \in [GrantIds -> Nat]
  /\ answered \subseteq AnswerRow
  /\ reused \subseteq GrantIds

\* A family never forks: at most one refresh token of a grant is live, the
\* newest, and no live one has been retired - however rotations, lost answers,
\* retries and expiries interleave (rotate, 482-530).
OneLiveRefresh ==
  /\ \A t \in tokens : t.kind = "refresh" => t.serial = serial[t.grant]
  /\ \A h \in history : h.serial < h.successor /\ h.successor <= serial[h.grant]
  /\ \A h, i \in history : h.grant = i.grant /\ h.serial = i.serial => h = i

\* Whoever presents a refresh token, first or again, is answered with one and
\* the same successor pair, and only while that pair is live: a stale retry
\* does not revive a successor that was rotated or has expired.
AnswersRepeat ==
  [][\A a \in answered' \ answered :
       /\ \A b \in answered' : (b.grant = a.grant /\ b.serial = a.serial) => b.successor = a.successor
       /\ \A kind \in {"access", "refresh"} :
            \E t \in tokens' : t.kind = kind /\ t.grant = a.grant /\ t.serial = a.successor]_grantVars

\* Once a refresh token comes back within its lifetime, but a grace or more
\* after it was answered, every token of its family is gone for good.
ReusedFamilyIsGone ==
  \A g \in reused : grants[g] = NoGrant /\ \A t \in tokens : t.grant # g

\* A grant consented to as gateway-only stays gateway-only, whatever the client
\* asks for, the owner's default says or the owner sets later; only such
\* grants have refresh tokens that never expire.
CeilingHolds ==
  /\ \A g \in GrantIds : grants[g].ceiling = "gateway-only" => grants[g].surface = "gateway-only"
  /\ \A t \in tokens : t.expires = Never =>
       t.kind = "refresh" /\ grants[t.grant].ceiling = "gateway-only"

=============================================================================
