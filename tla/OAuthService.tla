------------------------------ MODULE OAuthService ------------------------------
(***************************************************************************)
(* The OAuth authority (src/src/auth/oauth-service.ts) over its grant      *)
(* store: dynamically registered clients in least-recently-used order and  *)
(* their file, authorization transactions and codes in memory, grants in   *)
(* the database.                                                           *)
(*                                                                         *)
(* A transaction and the code it turns into are one record of flow, named  *)
(* by the transaction.  Every method is synchronous, so it is one action;  *)
(* it first drops what has expired (#purgeExpired), and what it dropped    *)
(* stays dropped when it then throws (Purge).  A crash inside a method     *)
(* leaves what a crash after it leaves, since the file and the database    *)
(* are written before memory changes; only the owner's revocations write   *)
(* twice, and RevokeClientFails and RevokeAllFails stand for their halves. *)
(* Scopes, resource, redirect and PKCE checks are refusals: they end in    *)
(* Purge, or in BeginRefused.  The owner's profile settings touch the grant *)
(* store alone and are left to OAuthGrants.                                *)
(***************************************************************************)
EXTENDS OAuthGrants, SequencesExt

CONSTANTS
  Dynamic,     \* identifiers of registered clients; each is drawn once
  Static,      \* the configured client
  TxIds,       \* authorization transactions; each is drawn once
  MaxDynamic,  \* maxDynamicClients
  MaxPending,  \* maxPendingAuthorizations
  PendingTtl,  \* PENDING_AUTHORIZATION_TTL_SECONDS
  CodeTtl      \* AUTHORIZATION_CODE_TTL_SECONDS

ASSUME ServiceAssumption ==
  /\ Clients = Dynamic \cup {Static} /\ Static \notin Dynamic
  /\ MaxDynamic \in Nat \ {0} /\ MaxPending \in Nat \ {0}
  /\ PendingTtl \in Nat \ {0} /\ CodeTtl \in Nat \ {0}

NoTx == "none"

ASSUME TxIdsAssumption == NoTx \notin TxIds

NoFlow == [stage |-> "none", client |-> Static, profile |-> "full", expires |-> 1,
           callback |-> FALSE]

VARIABLES
  lru,       \* #dynamicClientIds, least recently used first
  disk,      \* oauth-clients.json
  callback,  \* the static client's extra callback is registered
  flow,      \* #pending and #codes
  drawn,     \* client identifiers drawn so far
  consent,   \* history: what the owner approved, or that he took it back
  origin,    \* history: the transaction each grant was issued for
  touched    \* history: clients of which the owner changed the file directly,
             \* or whose revocation failed halfway

serviceVars == <<lru, disk, callback, flow, drawn, consent, origin, touched>>
vars == <<grantVars, serviceVars>>

-----------------------------------------------------------------------------

Known(c) == c = Static \/ c \in ToSet(lru)

Open(f) == f.stage \in {"pending", "code"}
Closed(f) == [f EXCEPT !.stage = "gone"]

\* #purgeExpired
PurgedFlow ==
  [x \in TxIds |-> IF Open(flow[x]) /\ flow[x].expires <= now
                   THEN Closed(flow[x]) ELSE flow[x]]

\* #clientHasActiveState
HasActiveState(c) ==
  \/ \E x \in TxIds : Open(PurgedFlow[x]) /\ PurgedFlow[x].client = c
  \/ \E t \in PrunedTokens : grants[t.grant].client = c

ServiceInit ==
  /\ Init
  /\ lru = <<>> /\ disk = <<>> /\ callback = FALSE
  /\ flow = [x \in TxIds |-> NoFlow]
  /\ drawn = {}
  /\ consent = [x \in TxIds |-> "none"]
  /\ origin = [g \in GrantIds |-> NoTx]
  /\ touched = {}

\* A call that throws or finds nothing, authorizationDetails, verifyAccessToken:
\* what has expired is dropped.
Purge ==
  /\ Look
  /\ flow' = PurgedFlow
  /\ UNCHANGED <<lru, disk, callback, drawn, consent, origin, touched>>

MayEvict(c) == ~HasActiveState(c)

\* #dynamicClientEvictionCandidate: the first idle client makes room.
HasRoom == Len(lru) < MaxDynamic \/ \E c \in ToSet(lru) : MayEvict(c)

Remaining ==
  IF Len(lru) < MaxDynamic THEN lru ELSE RemoveAt(lru, SelectInSeq(lru, MayEvict))

XSwapped(saved, next) == next

\* registerClient swaps its maps only after the file is written.
Swapped(saved, next) == IF saved THEN next ELSE lru

RegisterClient(c, saved) ==
  LET next == Append(Remaining, c)
  IN
  /\ c \notin drawn /\ HasRoom
  /\ Look
  /\ disk' = IF saved THEN next ELSE disk
  /\ lru' = Swapped(saved, next)
  /\ drawn' = drawn \cup {c}
  /\ flow' = PurgedFlow
  /\ UNCHANGED <<callback, consent, origin, touched>>

HasPendingRoom == Cardinality({x \in TxIds : PurgedFlow[x].stage = "pending"}) < MaxPending

\* A set of identifiers, in insertion order, without c.
Without(s, c) == RemoveFirst(s, c)

\* A client that begins, even in vain, becomes the most recently used.
MovedToEnd(c) == IF c \in ToSet(lru) THEN Append(Without(lru, c), c) ELSE lru

BeginRefused(c) ==
  /\ Known(c) /\ HasPendingRoom
  /\ lru' = MovedToEnd(c)
  /\ Look
  /\ flow' = PurgedFlow
  /\ UNCHANGED <<disk, callback, drawn, consent, origin, touched>>

\* beginAuthorization: the client may ask for less than full; only the static
\* client may propose a callback that is not registered.
BeginAuthorization(x, c, profile, proposes) ==
  /\ flow[x].stage = "none" /\ Known(c) /\ HasPendingRoom
  /\ proposes => c = Static /\ ~callback
  /\ flow' = [PurgedFlow EXCEPT ![x] =
       [stage |-> "pending", client |-> c, profile |-> profile,
        expires |-> now + PendingTtl, callback |-> proposes]]
  /\ lru' = MovedToEnd(c)
  /\ Look
  /\ UNCHANGED <<disk, callback, drawn, consent, origin, touched>>

\* The client's request wins over the owner's choice.
Approved(f, profile) == IF f.profile = "gateway-only" THEN "gateway-only" ELSE profile

\* History: what client and owner agree on.
Agreed(f, profile) == IF "gateway-only" \in {f.profile, profile} THEN "gateway-only" ELSE "full"

\* approveAuthorization with the owner's secret; when the proposed callback
\* cannot be stored the call throws (Purge).
ApproveAuthorization(x, profile) ==
  /\ PurgedFlow[x].stage = "pending"
  /\ flow' = [PurgedFlow EXCEPT ![x].stage = "code",
                                ![x].profile = Approved(flow[x], profile),
                                ![x].expires = now + CodeTtl]
  /\ consent' = [consent EXCEPT ![x] = IF @ = "none" THEN Agreed(flow[x], profile) ELSE @]
  /\ callback' = (callback \/ flow[x].callback)
  /\ Look
  /\ UNCHANGED <<lru, disk, drawn, origin, touched>>

DenyAuthorization(x) ==
  /\ PurgedFlow[x].stage = "pending"
  /\ flow' = [PurgedFlow EXCEPT ![x].stage = "gone"]
  /\ Look
  /\ UNCHANGED <<lru, disk, callback, drawn, consent, origin, touched>>

\* onCommitted: the code goes once the grant is in the database.
Consumed(f) == Closed(f)

\* exchangeAuthorizationCode; when the store refuses the grant the code stays
\* (Purge).
ExchangeAuthorizationCode(x, g) ==
  /\ PurgedFlow[x].stage = "code" /\ Known(flow[x].client)
  /\ Issue(g, flow[x].client, flow[x].profile)
  /\ flow' = [PurgedFlow EXCEPT ![x] = Consumed(@)]
  /\ origin' = [origin EXCEPT ![g] = x]
  /\ UNCHANGED <<lru, disk, callback, drawn, consent, touched>>

\* exchangeRefreshToken by the client the token belongs to.
ExchangeRefreshToken ==
  /\ \/ \E t \in tokens : Known(grants[t.grant].client) /\ Rotate(t)
     \/ \E h \in history : Known(grants[h.grant].client) /\ (Reuse(h) \/ Retry(h))
  /\ flow' = PurgedFlow
  /\ UNCHANGED <<lru, disk, callback, drawn, consent, origin, touched>>

\* History: a completed revocation takes the consents xs back.
TakenBack(xs) ==
  consent' = [x \in TxIds |-> IF x \in xs THEN "revoked" ELSE consent[x]]
ConsentsOf(gs) == {origin[g] : g \in gs} \ {NoTx}

\* revokeToken by the client and revokeTokenByOwner: any live or retired token
\* names its family.
RevokeToken(g) ==
  /\ \/ \E t \in PrunedTokens : t.grant = g
     \/ \E h \in PrunedHistory : h.grant = g
  /\ Dropped({g})
  /\ TakenBack(ConsentsOf({g}))
  /\ flow' = PurgedFlow
  /\ UNCHANGED <<now, defaults, serial, answered, reused>>
  /\ UNCHANGED <<lru, disk, callback, drawn, origin, touched>>

\* OwnerConnectionService.revokeGrant goes straight to the store.
OwnerRevokesGrant(g) ==
  /\ RevokeGrant(g)
  /\ TakenBack(ConsentsOf({g}))
  /\ UNCHANGED <<lru, disk, callback, flow, drawn, origin, touched>>

\* restrictConnection by a client that is still registered (#accessRecord).
RestrictConnection(g) ==
  /\ Known(grants[g].client)
  /\ RestrictByAccessToken(g)
  /\ UNCHANGED serviceVars

FlowsOf(c) == {x \in TxIds : flow[x].stage # "none" /\ flow[x].client = c}

XEnded(xs) ==
  [x \in TxIds |-> IF x \in xs /\ PurgedFlow[x].stage = "pending"
                   THEN Closed(PurgedFlow[x]) ELSE PurgedFlow[x]]

\* The transactions and codes xs are deleted.
Ended(xs) ==
  [x \in TxIds |-> IF x \in xs /\ Open(flow[x]) THEN Closed(flow[x]) ELSE PurgedFlow[x]]

\* revokeClientByOwner: the file first, then memory and the database.
RevokeClientByOwner(c) ==
  /\ disk' = IF c \in ToSet(lru) THEN Without(lru, c) ELSE disk
  /\ lru' = Without(lru, c)
  /\ flow' = Ended(FlowsOf(c))
  /\ Dropped({g \in GrantIds : PrunedGrants[g].client = c})
  /\ defaults' = [defaults EXCEPT ![c] = NoDefault]
  /\ TakenBack(FlowsOf(c))
  /\ UNCHANGED <<now, serial, answered, reused, callback, drawn, origin, touched>>

\* The file is written, then the database fails: the client lost its file entry
\* and its transactions, but not its grants.  A crash in between adds only the
\* loss of memory (Restart).
RevokeClientFails(c) ==
  /\ c \in ToSet(lru)
  /\ disk' = Without(lru, c)
  /\ flow' = Ended(FlowsOf(c))
  /\ Look
  /\ touched' = touched \cup {c}
  /\ UNCHANGED <<lru, callback, drawn, consent, origin>>

RevokeAllByOwner ==
  /\ disk' = IF lru = <<>> THEN disk ELSE <<>>
  /\ lru' = <<>>
  /\ flow' = Ended(TxIds)
  /\ Dropped(GrantIds)
  /\ defaults' = [c \in Clients |-> NoDefault]
  /\ TakenBack({x \in TxIds : flow[x].stage # "none"})
  /\ UNCHANGED <<now, serial, answered, reused, callback, drawn, origin, touched>>

\* As above; the database may fail before the transactions are cleared, in
\* listConnections, or after, in revokeAll.
RevokeAllFails ==
  /\ lru # <<>>
  /\ disk' = <<>>
  /\ flow' \in {PurgedFlow, Ended(TxIds)}
  /\ Look
  /\ touched' = touched \cup ToSet(lru)
  /\ UNCHANGED <<lru, callback, drawn, consent, origin>>

\* The owner edits oauth-clients.json: he removes a client or puts one back.
EditRegistry(c) ==
  /\ IF c \in ToSet(disk)
     THEN disk' = Without(disk, c)
     ELSE c \in drawn /\ Len(disk) < MaxDynamic /\ disk' = Append(disk, c)
  /\ touched' = touched \cup {c}
  /\ UNCHANGED <<grantVars, lru, callback, flow, drawn, consent, origin>>

XMayReload == TRUE

\* reloadClientsByOwner refuses to drop a client with active state.
MayReload == \A c \in ToSet(lru) \ ToSet(disk) : ~HasActiveState(c)

ReloadClientsByOwner ==
  /\ MayReload
  /\ lru' = disk
  /\ Look
  /\ flow' = PurgedFlow
  /\ UNCHANGED <<disk, callback, drawn, consent, origin, touched>>

\* A crash or a stop, and the constructor of the next process: file and
\* database survive, transactions and codes do not.
Restart ==
  /\ lru' = disk
  /\ flow' = [x \in TxIds |-> IF Open(flow[x]) THEN Closed(flow[x]) ELSE flow[x]]
  /\ UNCHANGED <<grantVars, disk, callback, drawn, consent, origin, touched>>

Time == Tick /\ UNCHANGED serviceVars

ServiceNext ==
  \/ \E c \in Dynamic :
       \/ \E saved \in BOOLEAN : RegisterClient(c, saved)
       \/ EditRegistry(c)
       \/ RevokeClientFails(c)
  \/ \E c \in Clients : BeginRefused(c) \/ RevokeClientByOwner(c)
  \/ \E x \in TxIds :
       \/ \E c \in Clients, profile \in Profiles, proposes \in BOOLEAN :
            BeginAuthorization(x, c, profile, proposes)
       \/ \E profile \in Profiles : ApproveAuthorization(x, profile)
       \/ DenyAuthorization(x)
       \/ \E g \in GrantIds : ExchangeAuthorizationCode(x, g)
  \/ ExchangeRefreshToken
  \/ \E g \in GrantIds : RevokeToken(g) \/ OwnerRevokesGrant(g) \/ RestrictConnection(g)
  \/ RevokeAllByOwner \/ RevokeAllFails
  \/ ReloadClientsByOwner
  \/ Restart
  \/ Purge
  \/ Time

ServiceSpec == ServiceInit /\ [][ServiceNext]_vars

-----------------------------------------------------------------------------

FlowRow == [stage : {"none", "pending", "code", "gone"}, client : Clients,
            profile : Profiles, expires : Nat, callback : BOOLEAN]

\* The maps keep their domains; the registry in memory and on disk holds each
\* client once and never more than its limit, so that a restart can load it.
ServiceTypeOK ==
  /\ TypeOK
  /\ \A s \in {lru, disk} :
       /\ s \in Seq(Dynamic) /\ Len(s) <= MaxDynamic
       /\ Cardinality(ToSet(s)) = Len(s)
  /\ callback \in BOOLEAN
  /\ flow \in [TxIds -> FlowRow]
  /\ drawn \subseteq Dynamic /\ touched \subseteq Dynamic
  /\ consent \in [TxIds -> Profiles \cup {"none", "revoked"}]
  /\ origin \in [GrantIds -> TxIds \cup {NoTx}]

\* Every code and every grant rests on a consent that stands: the owner
\* approved that client's transaction with at least that profile, and no
\* completed revocation - of the token, the client or everything - has taken it
\* back since.  One consent is worth one grant, however often its code is
\* presented and whatever fails or crashes around the exchange (756-863).  A
\* callback is registered only by an approved transaction.
ConsentStands ==
  /\ \A g, h \in GrantIds : origin[g] = origin[h] /\ origin[g] # NoTx => g = h
  /\ \A g \in GrantIds : grants[g] # NoGrant =>
       LET x == origin[g]
       IN  /\ x # NoTx
           /\ grants[g].client = flow[x].client
           /\ consent[x] \in {"full", grants[g].ceiling}
  /\ \A x \in TxIds : flow[x].stage = "code" => consent[x] \in {"full", flow[x].profile}
  /\ callback => \E x \in TxIds : flow[x].callback /\ consent[x] # "none"

\* Only a restart makes the service forget a client that still has a
\* transaction, a code or a live token: registration evicts idle clients only,
\* and a reload does not drop one the owner has not revoked
\* (docs/USER_GUIDE.md, 326-328).
NoActiveClientDropped ==
  [][\A c \in ToSet(lru) \ ToSet(lru') : Restart \/ ~HasActiveState(c)']_vars

\* What a restart loads is what the process knew: file and memory hold the same
\* clients, whichever save failed and whatever was evicted, except for clients
\* whose entry the owner edited or whose revocation failed halfway.
RegistryDurable ==
  \A c \in Dynamic \ touched : c \in ToSet(lru) <=> c \in ToSet(disk)

=============================================================================
