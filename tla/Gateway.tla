--------------------------------- MODULE Gateway ---------------------------------
(* One MCP exchange of the gateway from its bearer token to its last release:    *)
(* the request handler of src/src/app/http-server.ts and the tool handlers of    *)
(* src/src/protocol/mcp-server.ts.                                               *)
(*                                                                               *)
(* An exchange captures what it runs under at two moments, its connection when   *)
(* the bearer is authenticated and its policy generation right after; grants and *)
(* policies go on changing while it awaits.  Its peer may leave, and then the    *)
(* exchange may end while the tool handler still runs.  What requireHarness and  *)
(* the work of a tool decide is left open here: CodingSession and the modules of *)
(* the other components have it.                                                 *)
EXTENDS GatewayTools, Naturals, FiniteSets

CONSTANTS
  Slots,       \* exchanges that may run at once
  Clients,     \* OAuth clients
  Host,        \* the client of a Host Token, whose profile is always Gateway-only
  Calls,       \* bound: slot -> the tools its callers call, of DOMAIN Handlers
  Withdrawn,   \* the capabilities that policies after the first do not grant
  MaxPolicies  \* bound: policy generations of a behaviour

ASSUME GatewayAssumption ==
  /\ Calls \in [Slots -> SUBSET DOMAIN Handlers] /\ Host \notin Clients
  /\ IsFiniteSet(Slots) /\ MaxPolicies \in Nat \ {0}

VARIABLES
  policy,     \* the version of the active generation
  refs,       \* generation -> leases of its provider runtime
  profile,    \* client -> surface profile of its grant
  slot,       \* the exchanges, as below
  life,       \* the process: "starting", "up", "draining", "closed"
  signal,     \* SIGTERM or SIGINT came
  ended       \* the generation that shutdown stopped, 0 before

lifeVars == <<life, signal, ended>>
vars == <<policy, refs, profile, slot, life, signal, ended>>

Version == 1..MaxPolicies
Callers == Clients \cup {Host}
Profiles == {"full", "gateway-only"}

\* Where an exchange stands: the awaits of the request handler (its bearer, the body,
\* close) and those of the tool handler.
HttpStage == {"connect", "body", "close"}
ToolStage == {"dispatch", "harness", "work", "record", "invoke", "resolve"}

FreeSlot == [stage |-> "free"]
Exchange ==
  [stage : HttpStage \cup ToolStage, caller : Callers, profile : Profiles,
   version : {0} \cup Version,       \* the generation it leased
   tool : DOMAIN Handlers \cup {"none"},
   gone : BOOLEAN,                   \* the peer left: the request's signal is aborted
   attached : BOOLEAN,               \* the exchange still waits for its handler
   acted : BOOLEAN,                  \* the tool changed what it acts on
   audits : 0..2, audit : Signalled \cup {"none", "denied"},
   predicted : {"no", "recorded", "lost"} \cup Signalled,
   answer : {"none", "result", "error", "not-executed"}]

TypeOK ==
  /\ policy \in Version /\ refs \in [Version -> 0..Cardinality(Slots)]
  /\ profile \in [Clients -> Profiles]
  /\ slot \in [Slots -> Exchange \cup {FreeSlot}]
  /\ life \in {"starting", "up", "draining", "closed"} /\ signal \in BOOLEAN
  /\ ended \in {0} \cup Version

Init ==
  /\ policy = 1 /\ refs = [v \in Version |-> 0]
  /\ profile = [c \in Clients |-> "full"]
  /\ slot = [s \in Slots |-> FreeSlot]
  /\ life = "starting" /\ signal = FALSE /\ ended = 0

\* A generation's provider runtime is stopped when it was replaced and nobody
\* leases it, or by shutdown.
Stopped(v) == (v # policy /\ refs[v] = 0) \/ v = ended
Leases(s) == slot[s] # FreeSlot /\ slot[s].version # 0 /\ slot[s].attached

\* The capabilities of a generation.
Capabilities == {Handlers[tool].needs : tool \in DOMAIN Handlers}
Grants(v) == IF v = 1 THEN Capabilities ELSE Capabilities \ Withdrawn

-------------------------------------------------------------------------------
\* The exchange up to its handler.

\* A bearer arrives at /mcp and is verified, an OAuth token or a Host Token.
Arrive(s, c) ==
  /\ life = "up" /\ slot[s] = FreeSlot
  /\ slot' = [slot EXCEPT ![s] =
       [stage |-> "connect", caller |-> c, profile |-> "gateway-only", version |-> 0,
        tool |-> "none", gone |-> FALSE, attached |-> TRUE, acted |-> FALSE,
        audits |-> 0, audit |-> "none", predicted |-> "no", answer |-> "none"]]
  /\ UNCHANGED <<policy, refs, profile, lifeVars>>

\* authenticateConnection: the profile of the grant now.  Then, in the same turn,
\* the active generation is leased.
Connect(s) ==
  /\ slot[s].stage = "connect"
  /\ slot' = [slot EXCEPT ![s].stage = "body", ![s].version = policy,
                          ![s].profile = IF slot[s].caller = Host THEN "gateway-only"
                                         ELSE profile[slot[s].caller]]
  /\ refs' = [refs EXCEPT ![policy] = @ + 1]
  /\ UNCHANGED <<policy, profile, lifeVars>>

\* The grant is gone, or the workspace is refused: the lease goes back at once.
ConnectRefused(s) ==
  /\ slot[s].stage = "connect"
  /\ slot' = [slot EXCEPT ![s] = FreeSlot]
  /\ UNCHANGED <<policy, refs, profile, lifeVars>>

\* The body is too large, no JSON or no supported request: the finally runs.
BadBody(s) ==
  /\ slot[s].stage = "body"
  /\ slot' = [slot EXCEPT ![s].stage = "close", ![s].answer = "error"]
  /\ UNCHANGED <<policy, refs, profile, lifeVars>>

\* Whether createMcpServer registered the tool for this exchange, and enabled it.
Registered(s, tool) ==
  LET x == slot[s]
  IN /\ Handlers[tool].needs \in Grants(x.version)
     /\ Visible(x.profile, tool)
     /\ Handlers[tool].needs = "grant" => x.caller # Host

\* A tools/call is dispatched to its handler, or answered as an unknown tool.
Dispatch(s, tool) ==
  /\ slot[s].stage = "body"
  /\ slot' = [slot EXCEPT ![s] =
       IF Registered(s, tool) THEN [@ EXCEPT !.stage = "dispatch", !.tool = tool]
       ELSE [@ EXCEPT !.stage = "close", !.answer = "error"]]
  /\ UNCHANGED <<policy, refs, profile, lifeVars>>

-------------------------------------------------------------------------------
\* The tool handlers.

Handler(s) == Handlers[slot[s].tool]

\* The audit event is written in the finally, whatever the result is.
XAudits(s, result) == Handler(s).audited /\ result # "cancelled"
Audits(s, result) == Handler(s).audited

\* The handler returns: its finally has audited, and its answer is there.
Finish(s, result, answer, acted) ==
  slot' = [slot EXCEPT ![s].stage = "close", ![s].answer = answer, ![s].acted = acted,
             ![s].audits = IF Audits(s, result) THEN @ + 1 ELSE @,
             ![s].audit = IF Audits(s, result) THEN result ELSE @]

\* requireHarness is awaited by a gated tool, and only on the full surface.
Gate(s) ==
  /\ slot[s].stage = "dispatch" /\ slot[s].tool \notin HarnessTools
  /\ slot' = [slot EXCEPT ![s].stage =
                IF Handler(s).gated /\ slot[s].profile = "full" THEN "harness" ELSE "work"]
  /\ UNCHANGED <<policy, refs, profile, lifeVars>>

Admit(s) ==
  /\ slot[s].stage = "harness"
  /\ slot' = [slot EXCEPT ![s].stage = "work"]
  /\ UNCHANGED <<policy, refs, profile, lifeVars>>

\* A HarnessError: "operationExecuted: false".
Reject(s) ==
  /\ slot[s].stage = "harness"
  /\ Finish(s, "error", "not-executed", FALSE)
  /\ UNCHANGED <<policy, refs, profile, lifeVars>>

\* A harness tool: it answers, or its error is a HarnessError too.
RunHarnessTool(s) ==
  /\ slot[s].stage = "dispatch" /\ slot[s].tool \in HarnessTools
  /\ Finish(s, "success", "result", TRUE) \/ Finish(s, "error", "not-executed", FALSE)
  /\ UNCHANGED <<policy, refs, profile, lifeVars>>

\* What the caller is told of a result: the tool's own answer, or an error.
Reply(s, result) ==
  IF result = "success" \/ (Handler(s).reports /\ result \in {"cancelled", "timeout"})
  THEN "result" ELSE "error"

\* The work of a tool that is no provider's and no harness tool: it ends one way or
\* another, and the change is made or not; a dry run succeeds without one.
Work(s) ==
  /\ slot[s].stage = "work" /\ slot[s].tool \notin {"provider", "connection.restrict"}
  /\ \E result \in Handler(s).outcomes, acted \in BOOLEAN :
       /\ result \in {"cancelled"} => slot[s].gone
       /\ acted => Handler(s).acts # "nothing" /\ (result = "success" \/ Handler(s).late)
       /\ \E denied \in BOOLEAN :
            /\ denied => result = "error" /\ Handler(s).denies /\ ~ acted
            /\ Finish(s, IF denied THEN "denied" ELSE result, Reply(s, result), acted)
  /\ UNCHANGED <<policy, refs, profile, lifeVars>>

\* connection.restrict: the grant loses the full surface for good, if it still lives.
RestrictConnection(s) ==
  /\ slot[s].stage = "work" /\ slot[s].tool = "connection.restrict"
  /\ \/ /\ profile' = [profile EXCEPT ![slot[s].caller] = "gateway-only"]
        /\ Finish(s, "success", "result", TRUE)
     \/ /\ Finish(s, "error", "error", FALSE)
        /\ UNCHANGED profile
  /\ UNCHANGED <<policy, refs, lifeVars>>

\* A provider call: the provider must still be ready, then the prediction seam may
\* record an expectation, and the provider is invoked.
ProviderReady(s) ==
  /\ slot[s].stage = "work" /\ slot[s].tool = "provider"
  /\ \/ Finish(s, "error", "error", FALSE)
     \/ /\ ~ Stopped(slot[s].version)
        /\ \E stage \in {"record", "invoke"} : slot' = [slot EXCEPT ![s].stage = stage]
  /\ UNCHANGED <<policy, refs, profile, lifeVars>>

\* recordSeamPrediction never throws: an id, or none for any failure or its timeout.
Record(s) ==
  /\ slot[s].stage = "record"
  /\ \E predicted \in {"no", "recorded"} :
       /\ predicted = "recorded" => ~ Stopped(slot[s].version) /\ ~ slot[s].gone
       /\ slot' = [slot EXCEPT ![s].stage = "invoke", ![s].predicted = predicted]
  /\ UNCHANGED <<policy, refs, profile, lifeVars>>

\* provider.invoke: a runtime that was stopped before or during the call answers an
\* error, and stop() counts as a cancellation; a call that failed, timed out or was
\* cancelled may have been executed.
Invoke(s) ==
  /\ slot[s].stage = "invoke"
  /\ \E result \in Signalled, acted \in BOOLEAN :
       /\ result = "success" => acted /\ ~ Stopped(slot[s].version)
       /\ result = "cancelled" => slot[s].gone \/ Stopped(slot[s].version)
       /\ IF slot[s].predicted = "recorded"
          THEN slot' = [slot EXCEPT ![s].stage = "resolve", ![s].acted = acted,
                          ![s].audit = result]
          ELSE Finish(s, result, Reply(s, result), acted)
  /\ UNCHANGED <<policy, refs, profile, lifeVars>>

\* The finally: resolveSeamPrediction tells the learning provider the result, and
\* never throws: that provider may be gone, fail or be late.  Then the audit.
Resolve(s) ==
  /\ slot[s].stage = "resolve"
  /\ \E told \in {"lost"} \cup (IF Stopped(slot[s].version) THEN {} ELSE {slot[s].audit}) :
       slot' = [slot EXCEPT ![s].stage = "close", ![s].audits = @ + 1, ![s].predicted = told,
                  ![s].answer = Reply(s, slot[s].audit)]
  /\ UNCHANGED <<policy, refs, profile, lifeVars>>

-------------------------------------------------------------------------------
\* The end of an exchange, and what goes on around it.

\* The leases when the exchange of slot s ends: its own is given back, once.
XReturned(s) == [refs EXCEPT ![slot[s].version] = @ - 1]
Returned(s) == IF slot[s].attached THEN [refs EXCEPT ![slot[s].version] = @ - 1] ELSE refs

\* The peer of a call leaves, and the request's signal is aborted.
PeerLeaves(s) ==
  /\ slot[s].stage \in ToolStage /\ ~ slot[s].gone
  /\ slot' = [slot EXCEPT ![s].gone = TRUE]
  /\ UNCHANGED <<policy, refs, profile, lifeVars>>

\* The exchange does not wait for its handler then: its finally closes the server and
\* gives the lease back while the handler runs on.
Detach(s) ==
  /\ slot[s].stage \in ToolStage /\ slot[s].gone /\ slot[s].attached
  /\ slot' = [slot EXCEPT ![s].attached = FALSE]
  /\ refs' = Returned(s)
  /\ UNCHANGED <<policy, profile, lifeVars>>

\* requestHandler.close() is done: the lease goes back.
Release(s) ==
  /\ slot[s].stage = "close"
  /\ refs' = Returned(s)
  /\ slot' = [slot EXCEPT ![s] = FreeSlot]
  /\ UNCHANGED <<policy, profile, lifeVars>>

\* The owner gives a grant its profile back; the owner changes the policy.
OwnerRestores(c) ==
  /\ profile[c] = "gateway-only"
  /\ profile' = [profile EXCEPT ![c] = "full"]
  /\ UNCHANGED <<policy, refs, slot, lifeVars>>

\* A reload may publish its generation at any time, also when shutdown is over.
PolicyChange ==
  /\ policy < MaxPolicies /\ policy' = policy + 1
  /\ UNCHANGED <<refs, profile, slot, lifeVars>>

-------------------------------------------------------------------------------
\* The process: bootstrap, the signal handlers of entry.ts, and shutdown.

\* bootstrap returns its lifecycle.  A signal that came meanwhile is served now.
XServed == "up"
Served == IF signal THEN "draining" ELSE "up"
Started ==
  /\ life = "starting"
  /\ life' = Served
  /\ UNCHANGED <<policy, refs, profile, slot, signal, ended>>

\* A listener cannot be bound: shutdown runs at once, with nobody connected.
StartFails ==
  /\ life = "starting"
  /\ life' = "closed" /\ ended' = policy
  /\ UNCHANGED <<policy, refs, profile, slot, signal>>

\* A signal; shutdown begins when there is a lifecycle, and only once.
Signal ==
  /\ ~ signal /\ signal' = TRUE
  /\ life' = IF life = "up" THEN "draining" ELSE life
  /\ UNCHANGED <<policy, refs, profile, slot, ended>>

\* closeServerBounded gives up: the connections that are left are cut.
DrainTimesOut ==
  /\ life = "draining"
  /\ \E s \in Slots : slot[s] # FreeSlot /\ ~ slot[s].gone
  /\ slot' = [s \in Slots |-> IF slot[s] = FreeSlot THEN FreeSlot
                              ELSE [slot[s] EXCEPT !.gone = TRUE]]
  /\ UNCHANGED <<policy, refs, profile, life, signal, ended>>

\* No connection is left: the active generation is stopped, then the stores close.
Drained == \A s \in Slots : slot[s] # FreeSlot => slot[s].gone
CloseStores ==
  /\ life = "draining" /\ Drained
  /\ life' = "closed" /\ ended' = policy
  /\ UNCHANGED <<policy, refs, profile, slot, signal>>

Next ==
  \/ \E s \in Slots :
       \/ \E c \in Callers : Arrive(s, c)
       \/ Connect(s) \/ ConnectRefused(s) \/ BadBody(s)
       \/ \E tool \in Calls[s] : Dispatch(s, tool)
       \/ Gate(s) \/ Admit(s) \/ Reject(s) \/ RunHarnessTool(s)
       \/ Work(s) \/ RestrictConnection(s) \/ ProviderReady(s) \/ Record(s) \/ Invoke(s) \/ Resolve(s)
       \/ PeerLeaves(s) \/ Detach(s) \/ Release(s)
  \/ \E c \in Clients : OwnerRestores(c)
  \/ PolicyChange
  \/ Started \/ StartFails \/ Signal \/ DrainTimesOut \/ CloseStores

\* The code's own awaits end: node settles them, the tools' work is bounded by its own
\* timeouts, and a body that does not come is cut by the server's requestTimeout.
Progress(s) ==
  \/ Connect(s) \/ ConnectRefused(s) \/ BadBody(s) \/ Gate(s) \/ Admit(s) \/ Reject(s)
  \/ RunHarnessTool(s) \/ Work(s) \/ RestrictConnection(s) \/ ProviderReady(s) \/ Record(s) \/ Invoke(s)
  \/ Resolve(s) \/ Release(s)

Spec == /\ Init /\ [][Next]_vars
        /\ \A s \in Slots : WF_vars(Progress(s))
        /\ WF_vars(Started \/ StartFails) /\ WF_vars(DrainTimesOut) /\ WF_vars(CloseStores)

-------------------------------------------------------------------------------
\* Correctness.

\* A generation has exactly as many leases as exchanges wait for it, whichever of the
\* early returns, errors or departed peers ended the others: none leaks, none is given
\* back twice.
LeasesFollowExchanges ==
  \A v \in Version :
    refs[v] = Cardinality({s \in Slots : Leases(s) /\ slot[s].version = v})

\* When a call is over it left the one audit event its tool promises, and the event
\* tells what the caller was told: an audited success was answered as a result, and
\* whatever else was audited as an error, but for a command whose timeout or caller cut
\* it off: that one's exit is answered as a result.  What is reported as denied, or as
\* not executed, left no change behind.  A prediction that was recorded before the call
\* is settled, with the audited result, before the answer goes out.
AuditTellsTheAnswer ==
  \A s \in Slots :
    LET x == slot[s]
    IN x # FreeSlot /\ x.stage = "close" /\ x.tool # "none" =>
         /\ x.audits = IF Handlers[x.tool].audited THEN 1 ELSE 0
         /\ Handlers[x.tool].audited =>
              (x.answer = "result" <=>
                 \/ x.audit = "success"
                 \/ x.tool = "core.exec" /\ x.audit \in {"timeout", "cancelled"})
         /\ x.answer = "not-executed" \/ x.audit = "denied" => ~ x.acted
         /\ x.predicted \in {"no", "lost", x.audit}

\* A signal is never lost, also one that comes while the gateway starts.
SignalsAreServed == signal ~> (life = "closed")
=============================================================================
