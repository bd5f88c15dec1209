------------------------------ MODULE OwnerAccess ------------------------------
(* Who gets in: the sessions and the login of the owner's console                   *)
(* (src/src/owner/web-console.ts), the control plane (src/src/control-plane/        *)
(* server.ts), the pages and endpoints of OAuth (src/src/auth/oauth-http-router.ts), *)
(* the limiters before each of them, host tokens (src/src/auth/host-token-store.ts), *)
(* and the owner's secret, which every gateway process resolves when it starts      *)
(* (src/src/auth/owner-secret-store.ts).                                            *)
(*                                                                                  *)
(* Everything is dated by the wall clock, which can be set back.  One peer is       *)
(* enough: a limiter keeps its counters apart.  No door shares a limiter with       *)
(* another, so a behaviour is about one; the two that change host tokens do it by   *)
(* the same calls.                                                                  *)
EXTENDS FiniteSets, Naturals, Sequences

CONSTANTS
  Sessions,      \* session tokens, each generated once
  HostTokens,    \* host tokens, each generated once
  Requests,      \* requests to the console and the control plane that may be open at once
  Processes,     \* gateway processes that may start over one state directory
  IdleTtl,       \* SESSION_IDLE_TTL_MS
  AbsoluteTtl,   \* SESSION_ABSOLUTE_TTL_MS
  TokenIdle,     \* HOST_TOKEN_IDLE_SECONDS
  MaxHostTokens, \* MAX_HOST_TOKENS
  Transactions,  \* authorization transactions that await the owner's consent
  Limit, Window, \* of a limiter
  PeerLimit,     \* OWNER_PEER_FAILURE_LIMIT, over all transactions
  MaxTime,       \* bound: the time that passes
  MaxSlip        \* bound: how far the clock is set back, all in all

ASSUME AccessAssumption ==
  /\ {IdleTtl, AbsoluteTtl, TokenIdle, MaxHostTokens, Limit, PeerLimit, Window} \subseteq Nat \ {0}
  /\ MaxTime \in Nat \ {0} /\ MaxSlip \in Nat /\ "peer" \notin Transactions

\* A token of a session is no host token, and a process none of the sentinels.
ASSUME NamesAreApart ==
  /\ Sessions \cap HostTokens = {}
  /\ Processes \cap {"absent", "empty", "environment", "none"} = {}

VARIABLES
  elapsed,       \* the time that has passed
  slip,          \* how far the wall clock is behind it
  session,       \* session token -> its record
  door,          \* where the requests come: "console", "control", "consent" or "oauth"
  counter,       \* the counters of its limiters: the peer's, and of each transaction
  hostToken,     \* host token -> its row
  request,       \* request -> where it is
  secretFile,    \* the file of the owner's secret
  process,       \* process -> where its start is
  opened,        \* history: session token, host token -> when it was issued or last used
  ended,         \* history: the tokens that were revoked, logged out or let expire
  spent          \* history: when a limiter let a request through, or a wrong secret was
                 \* answered as one

accessVars == <<elapsed, slip, door, session, counter, hostToken, request, secretFile, process,
                opened, ended, spent>>

Keys == {"peer"} \cup Transactions
NoSession == [csrf |-> "none"]
NoCounter == [count |-> 0]
NoToken == [used |-> 0]
NoRequest == [step |-> "none"]
Off == [step |-> "off"]
Time == 1..MaxTime + MaxSlip
now == elapsed - slip

Less(a, b) == IF a < b THEN a ELSE b
More(a, b) == IF a < b THEN b ELSE a

AccessInit ==
  /\ elapsed = MaxSlip + 1 /\ slip = 0
  /\ session = [s \in Sessions |-> NoSession]
  /\ door \in {"console", "control", "consent", "oauth"}
  /\ counter = [k \in Keys |-> NoCounter]
  /\ hostToken = [t \in HostTokens |-> NoToken]
  /\ request = [r \in Requests |-> NoRequest]
  /\ secretFile = "absent" /\ process = [g \in Processes |-> Off]
  /\ opened = [t \in Sessions \cup HostTokens |-> 0] /\ ended = {}
  /\ spent = [k \in Keys |-> <<>>]

AccessTypeOK ==
  /\ elapsed \in Time /\ slip \in 0..MaxSlip
  /\ session \in [Sessions -> {NoSession} \cup [idle : Nat, absolute : Nat]]
  /\ counter \in [Keys -> {NoCounter} \cup [count : 1..More(Limit, PeerLimit), reset : Nat]]
  /\ hostToken \in [HostTokens -> {NoToken} \cup [used : Nat, live : {TRUE}]]
  /\ request \in [Requests -> {NoRequest} \cup [step : {"login", "act"}]]
  /\ secretFile \in {"absent", "empty"} \cup Processes
  /\ process \in [Processes -> {Off} \cup
       [step : {"generate", "writing", "raced", "started"}, secret : Processes \cup {"environment", "none"}]]
  /\ ended \subseteq Sessions \cup HostTokens

-------------------------------------------------------------------------------
(* The limiters.                                                                    *)

Most(k) == IF k = "peer" /\ door = "consent" THEN PeerLimit ELSE Limit

\* purgeExpired, which check and consume begin with.
Counters == [k \in Keys |-> IF counter[k] # NoCounter /\ counter[k].reset <= now
                            THEN NoCounter ELSE counter[k]]
XFull(k) == Counters[k].count > Most(k)
Full(k) == Counters[k].count >= Most(k)

\* consume, where there is room.
Consumed(ks) ==
  /\ counter' = [k \in Keys |->
       IF k \notin ks THEN Counters[k]
       ELSE IF Counters[k] = NoCounter THEN [count |-> 1, reset |-> now + Window]
       ELSE [Counters[k] EXCEPT !.count = @ + 1]]
  /\ spent' = [k \in Keys |-> IF k \in ks THEN Append(spent[k], elapsed) ELSE spent[k]]

\* check, or a consume without room.
Checked == counter' = Counters /\ UNCHANGED spent

\* consume after a wrong secret.  The console answers one beyond the limit as limited;
\* the control plane and the consent page have checked without an await, and never have
\* one.
WrongSecret(ks) == IF \E k \in ks : Full(k) THEN Checked ELSE Consumed(ks)

-------------------------------------------------------------------------------
(* Sessions.                                                                        *)

Over(x) == x.idle <= now \/ x.absolute <= now
\* pruneExpiredSessions
Kept == [s \in Sessions |-> IF session[s] # NoSession /\ Over(session[s]) THEN NoSession
                            ELSE session[s]]
Gone == {s \in Sessions : session[s] # Kept[s]}

XRenewed(s) == [Kept EXCEPT ![s].idle = now + IdleTtl, ![s].absolute = now + IdleTtl]
\* requireSession: what is idle moves, what is absolute does not.
Renewed(s) == [Kept EXCEPT ![s].idle = Less(now + IdleTtl, Kept[s].absolute)]

\* A login asks the limiter before it awaits its body.
LoginAsks(r) ==
  /\ door = "console"
  /\ request[r] = NoRequest
  /\ Checked
  /\ request' = [request EXCEPT ![r] = IF Full("peer") THEN NoRequest ELSE [step |-> "login"]]
  /\ UNCHANGED <<elapsed, slip, door, session, hostToken, secretFile, process, opened, ended>>

LoginFails(r) ==
  /\ request[r].step = "login"
  /\ request' = [request EXCEPT ![r] = NoRequest]
  /\ WrongSecret({"peer"})
  /\ UNCHANGED <<elapsed, slip, door, session, hostToken, secretFile, process, opened, ended>>

LogsIn(r) ==
  /\ request[r].step = "login"
  /\ request' = [request EXCEPT ![r] = NoRequest]
  /\ \E s \in Sessions :
       /\ opened[s] = 0
       /\ session' = [Kept EXCEPT ![s] = [idle |-> now + IdleTtl, absolute |-> now + AbsoluteTtl]]
       /\ opened' = [opened EXCEPT ![s] = now]
  /\ ended' = ended \cup Gone
  /\ UNCHANGED <<elapsed, slip, door, counter, hostToken, secretFile, process, spent>>

\* A request with a session: it is renewed at once; without its csrf token it goes no
\* further, otherwise it awaits its body or acts.
Admitted(r, s) ==
  /\ request[r] = NoRequest
  /\ Kept[s] # NoSession
  /\ session' = Renewed(s)
  /\ \E csrf \in BOOLEAN :
       request' = [request EXCEPT ![r] =
                     IF csrf THEN [step |-> "act"] ELSE NoRequest]
  /\ ended' = ended \cup Gone
  /\ UNCHANGED <<elapsed, slip, door, counter, hostToken, secretFile, process, opened, spent>>

NotAdmitted(s) ==
  /\ opened[s] # 0 /\ Kept[s] = NoSession
  /\ session' = Kept /\ ended' = ended \cup Gone
  /\ UNCHANGED <<elapsed, slip, door, counter, hostToken, request, secretFile, process, opened, spent>>

\* Logout has no body: what it removes, it has admitted in the same step.
LogsOut(s) ==
  /\ Kept[s] # NoSession
  /\ session' = [Kept EXCEPT ![s] = NoSession]
  /\ ended' = ended \cup Gone \cup {s}
  /\ UNCHANGED <<elapsed, slip, door, counter, hostToken, request, secretFile, process, opened, spent>>

\* The control plane is asked with the secret itself.
ControlAsks(r) ==
  /\ door = "control"
  /\ request[r] = NoRequest
  /\ \/ Full("peer") /\ Checked /\ UNCHANGED request
     \/ ~ Full("peer") /\ WrongSecret({"peer"}) /\ UNCHANGED request
     \/ ~ Full("peer") /\ Checked /\ request' = [request EXCEPT ![r] = [step |-> "act"]]
  /\ UNCHANGED <<elapsed, slip, door, session, hostToken, secretFile, process, opened, ended>>

-------------------------------------------------------------------------------
(* The pages and endpoints of OAuth.                                                *)

\* The consent for a transaction, its body read: limited, refused for another reason or
\* approved, or with a wrong secret, which both limiters count.  OAuthService has the
\* effect of an approval.
ConsentAsked(x) ==
  /\ door = "consent"
  /\ \/ Checked
     \/ ~ (Full(x) \/ Full("peer")) /\ WrongSecret({x, "peer"})
  /\ UNCHANGED <<elapsed, slip, door, session, hostToken, request, secretFile, process, opened,
                 ended>>

\* Registration, the start of an authorization, or the token endpoints, each with its
\* limiter: what it lets through awaits its body, if there is one.
OAuthAsked(r) ==
  /\ door = "oauth"
  /\ request[r] = NoRequest
  /\ IF Full("peer") THEN Checked /\ UNCHANGED request
     ELSE Consumed({"peer"}) /\ request' = [request EXCEPT ![r] = [step |-> "act"]]
  /\ UNCHANGED <<elapsed, slip, door, session, hostToken, secretFile, process, opened, ended>>

\* The body has come, and with it the call of OAuthService; the exchange and the
\* revocation share a limiter.
OAuthCalled(r) ==
  /\ door = "oauth" /\ request[r].step = "act"
  /\ request' = [request EXCEPT ![r] = NoRequest]
  /\ UNCHANGED <<elapsed, slip, door, session, counter, hostToken, secretFile, process, opened,
                 ended, spent>>

-------------------------------------------------------------------------------
(* Host tokens.                                                                     *)

Idle(x) == now >= x.used + TokenIdle
LiveTokens == {t \in HostTokens : hostToken[t] # NoToken}
IdleTokens == {t \in LiveTokens : Idle(hostToken[t])}
Without(gone) == [t \in HostTokens |-> IF t \in gone THEN NoToken ELSE hostToken[t]]

Manages(r) == door \in {"console", "control"} /\ request[r].step = "act"

\* manageHostTokens, for a request of the owner whose body has come, or which has none:
\* a list or an issue prunes first; each is a transaction, and nothing is awaited between.
TokensListed(r) ==
  /\ Manages(r)
  /\ hostToken' = Without(IdleTokens) /\ ended' = ended \cup IdleTokens
  /\ request' = [request EXCEPT ![r] = NoRequest]
  /\ UNCHANGED <<elapsed, slip, door, session, counter, secretFile, process, opened, spent>>

TokenIssued(r, t) ==
  /\ Manages(r)
  /\ opened[t] = 0 /\ Cardinality(LiveTokens \ IdleTokens) < MaxHostTokens
  /\ hostToken' = [Without(IdleTokens) EXCEPT ![t] = [used |-> now, live |-> TRUE]]
  /\ opened' = [opened EXCEPT ![t] = now] /\ ended' = ended \cup IdleTokens
  /\ request' = [request EXCEPT ![r] = NoRequest]
  /\ UNCHANGED <<elapsed, slip, door, session, counter, secretFile, process, spent>>

TokenRevoked(r, t) ==
  /\ Manages(r)
  /\ hostToken' = Without({t}) /\ ended' = IF t \in LiveTokens THEN ended \cup {t} ELSE ended
  /\ request' = [request EXCEPT ![r] = NoRequest]
  /\ UNCHANGED <<elapsed, slip, door, session, counter, secretFile, process, opened, spent>>

\* The other operations of the console and the control plane change none of this.
Other(r) ==
  /\ Manages(r)
  /\ request' = [request EXCEPT ![r] = NoRequest]
  /\ UNCHANGED <<elapsed, slip, door, session, counter, hostToken, secretFile, process, opened,
                 ended, spent>>

\* authenticate: the moment of the last use never goes back.
XUsed(x) == now
Used(x) == More(now, x.used)

TokenUsed(t) ==
  /\ door \in {"console", "control"}
  /\ t \in LiveTokens \ IdleTokens
  /\ hostToken' = [hostToken EXCEPT ![t].used = Used(hostToken[t])]
  /\ opened' = [opened EXCEPT ![t] = More(now, @)]
  /\ UNCHANGED <<elapsed, slip, door, session, counter, request, secretFile, process, ended, spent>>

TokenFound(t) ==
  /\ door \in {"console", "control"}
  /\ t \in IdleTokens
  /\ hostToken' = Without({t}) /\ ended' = ended \cup {t}
  /\ UNCHANGED <<elapsed, slip, door, session, counter, request, secretFile, process, opened, spent>>

-------------------------------------------------------------------------------
(* The owner's secret.                                                              *)

Reaches(g, step, secret) ==
  process' = [process EXCEPT ![g] = [step |-> step, secret |-> secret]]

\* readStoredSecret: a file without a secret in it is refused, and so is the start.
ReadsSecret(g, ifAbsent) ==
  IF secretFile = "absent" THEN ifAbsent
  ELSE IF secretFile = "empty" THEN process' = [process EXCEPT ![g] = Off]
  ELSE Reaches(g, "started", secretFile)

GatewayStarts(g) ==
  /\ process[g] = Off
  /\ ReadsSecret(g, Reaches(g, "generate", "none"))
  /\ UNCHANGED secretFile

XMayCreate == TRUE
\* The flag "wx": a file that has come to be there is not written over.
MayCreate == secretFile = "absent"

SecretCreated(g) ==
  /\ process[g].step = "generate"
  /\ IF MayCreate THEN secretFile' = "empty" /\ Reaches(g, "writing", "none")
                  ELSE Reaches(g, "raced", "none") /\ UNCHANGED secretFile

\* The secret is in the file, or it cannot be written: then the verifier of the
\* environment is taken if there is one.
SecretWritten(g) ==
  /\ process[g].step = "writing"
  /\ secretFile' = g /\ Reaches(g, "started", g)

NotWritten(g) ==
  /\ process[g].step \in {"generate", "writing"}
  /\ Reaches(g, "started", "environment") \/ process' = [process EXCEPT ![g] = Off]
  /\ UNCHANGED secretFile

SecretRaced(g) ==
  /\ process[g].step = "raced"
  /\ ReadsSecret(g, process' = [process EXCEPT ![g] = Off])
  /\ UNCHANGED secretFile

GatewayEnds(g) ==
  /\ process[g] # Off
  /\ process' = [process EXCEPT ![g] = Off]
  /\ UNCHANGED secretFile

SecretStep(g) ==
  /\ \/ GatewayStarts(g) \/ SecretCreated(g) \/ SecretWritten(g) \/ NotWritten(g)
     \/ SecretRaced(g) \/ GatewayEnds(g)
  /\ UNCHANGED <<elapsed, slip, door, session, counter, hostToken, request, opened, ended, spent>>

-------------------------------------------------------------------------------
Tick ==
  /\ elapsed < MaxTime + MaxSlip /\ elapsed' = elapsed + 1
  /\ UNCHANGED <<slip, door, session, counter, hostToken, request, secretFile, process, opened, ended,
                 spent>>

ClockSetBack ==
  /\ slip < MaxSlip /\ slip' = slip + 1
  /\ UNCHANGED <<elapsed, door, session, counter, hostToken, request, secretFile, process, opened,
                 ended, spent>>

AccessNext ==
  \/ \E r \in Requests :
       \/ LoginAsks(r) \/ LoginFails(r) \/ LogsIn(r) \/ ControlAsks(r) \/ OAuthAsked(r)
       \/ OAuthCalled(r)
       \/ \E s \in Sessions : Admitted(r, s)
       \/ TokensListed(r) \/ Other(r)
       \/ \E t \in HostTokens : TokenIssued(r, t) \/ TokenRevoked(r, t)
  \/ \E s \in Sessions : NotAdmitted(s) \/ LogsOut(s)
  \/ \E t \in HostTokens : TokenUsed(t) \/ TokenFound(t)
  \/ \E x \in Transactions : ConsentAsked(x)
  \/ Tick
  \/ ClockSetBack

StartNext == \E g \in Processes : SecretStep(g)

-------------------------------------------------------------------------------
(* Properties.                                                                      *)

\* A session that was logged out, or was found over once, lets nobody in again, and none
\* does after the absolute time since its login, however often it is used; a revoked or
\* idle host token neither, while one that is in use is not let expire.  The clock can be
\* set back meanwhile.
AccessEnds ==
  [][/\ \A r \in Requests, s \in Sessions :
          Admitted(r, s) => s \notin ended /\ now < opened[s] + AbsoluteTtl
     /\ \A t \in HostTokens :
          /\ TokenUsed(t) => t \notin ended
          /\ TokenFound(t) => now >= opened[t] + TokenIdle]_accessVars

\* Whatever requests overlap and wherever the windows of a limiter begin: in no stretch
\* of a window's length does a peer, or a transaction, get more than twice the limit of
\* requests through, or of wrong secrets answered as such.
FailuresAreRationed ==
  \A k \in Keys : \A i \in DOMAIN spent[k] :
    LET j == i + 2 * Most(k)
    IN  j \in DOMAIN spent[k] => spent[k][j] - spent[k][i] >= Window

\* Processes that start at once over an empty state directory end up with one secret,
\* the one the file tells the owner.
SecretsAgree ==
  \A g \in Processes :
    process[g].step = "started" /\ process[g].secret # "environment"
      => process[g].secret = secretFile
=============================================================================
