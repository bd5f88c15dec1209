-------------------------------- MODULE Provider --------------------------------
(***************************************************************************)
(* One supervised MCP provider: the supervisor's state machine, queue and  *)
(* restart loop (src/src/extension/supervisor.ts) over its transport       *)
(* adapter, a stdio child (stdio-adapter.ts) or a remote endpoint          *)
(* (streamable-http-adapter.ts), with the attestation of its tools         *)
(* (attestDeclaredTools in runtime.ts) and the readiness check the gateway *)
(* makes before a call (mcp-server.ts, 2274-2297).                         *)
(*                                                                         *)
(* An action is what runs from one event to the next: a timer, an answer,  *)
(* a child's exit, a caller.  What follows an event through promises alone *)
(* belongs to it, since no timer or message comes in between: an aborted   *)
(* stdio call is rejected, reported and makes its restart in one action.   *)
(* Two such gaps stay visible: the stretch of stop() that awaits the       *)
(* adapter, and a call that waits for a session recovery.                  *)
(***************************************************************************)
EXTENDS Integers, SequencesExt

CONSTANTS
  Calls,               \* calls in flight at the gateway
  Transports,          \* the transports considered, of "stdio" and "http"
  MaxQueue,            \* maxQueue
  MaxRestarts,         \* maxRestarts
  MaxSessionIncidents  \* maxSessionRecoveryIncidents

ASSUME ProviderAssumption ==
  /\ Transports \subseteq {"stdio", "http"}
  /\ MaxQueue \in Nat /\ MaxRestarts \in Nat /\ MaxSessionIncidents \in Nat \ {0}

NoCall == "none"
ASSUME CallsAssumption == NoCall \notin Calls

Fresh == [stage |-> "new", ran |-> 0, aborted |-> FALSE, late |-> FALSE]

VARIABLES
  transport,  \* the provider's transport
  sup,        \* the supervisor: state, restart loop, incident, session incidents
  phase,      \* of stop(): "running", "stopping", "stopped"
  attempt,    \* an adapter.start() in flight: "none", "running", "cancelled"
  gen,        \* the child or session: "none", "booting", "live" (and attested)
  queue,      \* queue
  active,     \* activeCall
  call,       \* each call's stage; ran: dispatches that may have executed it
  blame       \* history: what the last incident was begun by

vars == <<transport, sup, phase, attempt, gen, queue, active, call, blame>>

-----------------------------------------------------------------------------

Runnable == {"ready", "degraded"}

Done(r) == [r EXCEPT !.stage = "done"]
Finish(cs) == [c \in Calls |-> IF c \in cs THEN Done(call[c]) ELSE call[c]]

\* beginIncident: an incident that is still open is kept.
Begun(s) == IF s.incident \in {"none", "recovered"} THEN [s EXCEPT !.incident = "recovering"] ELSE s

\* One turn of the restart loop: sleep before try n, or give up.
NextTry(s, n) ==
  IF phase # "running" THEN [s EXCEPT !.loop = "none"]
  ELSE IF n > MaxRestarts
       THEN [s EXCEPT !.state = "quarantined", !.incident = "quarantined", !.loop = "none"]
       ELSE [s EXCEPT !.loop = "sleep", !.tries = n]

\* scheduleRestart: one loop at a time; too many lost sessions quarantine.
Restarted(s, session) ==
  LET b == Begun(s)
  IN  IF b.loop \in {"sleep", "attempt"} THEN b
      ELSE IF session /\ b.recent >= MaxSessionIncidents
      THEN [b EXCEPT !.state = "quarantined", !.incident = "quarantined"]
      ELSE NextTry([b EXCEPT !.state = "restarting",
                             !.recent = IF session THEN @ + 1 ELSE @], 1)

\* A fault reported by the outcome of a call.
AfterFault(session) ==
  IF sup.state \in Runnable THEN Restarted(sup, session) ELSE Begun(sup)

Blamed(s, what) ==
  blame' = IF s.incident = "recovering" /\ sup.incident \in {"none", "recovered"} THEN what ELSE blame

XGaveUp(s) == FALSE

GaveUp(s) == s.state = "quarantined"

\* drain, and rejectQueued when the supervisor gives up: from supervisor state s
\* and generation g on, with calls as given and slot the call that is active.
Sent(r, g) ==
  [r EXCEPT !.stage = "sent", !.ran = IF g = "live" THEN @ + 1 ELSE @]

Proceed(s, calls, slot, q, g) ==
  /\ sup' = s /\ gen' = g
  /\ IF GaveUp(s)
     THEN /\ queue' = <<>> /\ active' = slot
          /\ call' = [c \in Calls |-> IF c \in ToSet(q) THEN Done(calls[c]) ELSE calls[c]]
     ELSE IF slot = NoCall /\ s.state \in Runnable /\ q # <<>>
     THEN /\ queue' = Tail(q) /\ active' = Head(q)
          /\ call' = [calls EXCEPT ![Head(q)] = Sent(@, g)]
     ELSE queue' = q /\ active' = slot /\ call' = calls

Init ==
  /\ transport \in Transports
  /\ sup = [state |-> "declared", loop |-> "none", tries |-> 0, incident |-> "none", recent |-> 0]
  /\ phase = "running" /\ attempt = "none" /\ gen = "none"
  /\ queue = <<>> /\ active = NoCall
  /\ call = [c \in Calls |-> Fresh]
  /\ blame = "none"

-----------------------------------------------------------------------------

\* start(): the first attempt.
Start ==
  /\ sup.state = "declared" /\ phase = "running"
  /\ sup' = [sup EXCEPT !.state = "starting", !.loop = "first"]
  /\ attempt' = "running"
  /\ gen' = "booting"
  /\ UNCHANGED <<transport, phase, queue, active, call, blame>>

\* The backoff of the restart loop is over.
SleepEnds ==
  /\ sup.loop = "sleep"
  /\ IF phase # "running"
     THEN sup' = [sup EXCEPT !.loop = "none"] /\ UNCHANGED <<attempt, gen>>
     ELSE /\ sup' = [sup EXCEPT !.state = "starting", !.loop = "attempt"]
          /\ attempt' = "running"
          /\ gen' = "booting"
  /\ UNCHANGED <<transport, phase, queue, active, call, blame>>

\* A stdio provider that does not know discovery is stopped and spawned again
\* as a legacy one, in the same attempt.
FallsBack ==
  /\ transport = "stdio" /\ attempt = "running"
  /\ gen' = "booting"
  /\ UNCHANGED <<transport, sup, phase, attempt, queue, active, call, blame>>

\* adapter.start() and the attestation succeed.
AttemptSucceeds ==
  LET ready == [sup EXCEPT !.state = "ready", !.loop = "none",
                           !.incident = IF @ = "none" THEN "none" ELSE "recovered"]
  IN
  /\ attempt = "running"
  /\ attempt' = "none"
  /\ Proceed(IF sup.state = "starting" THEN ready ELSE [sup EXCEPT !.loop = "none"],
             call, active, queue, "live")
  /\ UNCHANGED <<transport, phase, blame>>

\* They fail, time out, or were cancelled by stop().
AttemptFails ==
  LET next == CASE sup.loop = "first" -> Restarted([sup EXCEPT !.state = "failed", !.loop = "none"], FALSE)
                [] sup.loop = "attempt" /\ sup.state = "starting" ->
                     NextTry([sup EXCEPT !.state = "restarting"], sup.tries + 1)
                [] OTHER -> [sup EXCEPT !.loop = "none"]
  IN
  /\ attempt \in {"running", "cancelled"}
  /\ attempt' = "none"
  /\ Proceed(next, call, active, queue, "none")
  /\ Blamed(next, "fault")
  /\ UNCHANGED <<transport, phase>>

\* isReady of the runtime catalog.
IsReady == phase = "running" /\ sup.state = "ready" /\ gen = "live"

\* The gateway refuses a call to a provider that is not ready; an admitted one
\* is invoked at once, or after the learning seam's deadline.
Request(c) ==
  /\ call[c].stage = "new"
  /\ call' = [call EXCEPT ![c].stage = IF IsReady THEN "admitted" ELSE "done"]
  /\ UNCHANGED <<transport, sup, phase, attempt, gen, queue, active, blame>>

\* invoke and enqueue, by a caller that may have gone away.
Invoke(c, aborted) ==
  LET r == [call EXCEPT ![c].late = phase # "running"]
      accepted == /\ sup.state \in Runnable \cup {"restarting"}
                  /\ Len(queue) < MaxQueue
                  /\ ~aborted
  IN
  /\ call[c].stage = "admitted"
  /\ IF accepted
     THEN Proceed(sup, [r EXCEPT ![c].stage = "queued"], active, Append(queue, c), gen)
     ELSE call' = Finish({c}) /\ UNCHANGED <<sup, gen, queue, active>>
  /\ UNCHANGED <<transport, phase, attempt, blame>>

AbortQueued(c) ==
  /\ call[c].stage = "queued"
  /\ \E i \in DOMAIN queue : queue[i] = c /\ queue' = RemoveAt(queue, i)
  /\ call' = Finish({c})
  /\ UNCHANGED <<transport, sup, phase, attempt, gen, active, blame>>

Dispatched(c) == c = active /\ call[c].stage \in {"sent", "resent"}

\* The provider answers, with a result or with an error of the request itself.
Answer(c, ok) ==
  LET s == IF ok /\ sup.incident = "recovered" THEN [sup EXCEPT !.incident = "none"] ELSE sup
  IN
  /\ Dispatched(c) /\ gen = "live"
  /\ Proceed(s, Finish({c}), NoCall, queue, gen)
  /\ UNCHANGED <<transport, phase, attempt, blame>>

\* The call settles with an error, the fault is the provider's.
Faulted(c, session, g, what) ==
  /\ Proceed(AfterFault(session), Finish({c}), NoCall, queue, g)
  /\ Blamed(AfterFault(session), what)
  /\ UNCHANGED <<transport, phase, attempt>>

\* A malformed or failed answer, or no generation to send to; a malformed line
\* also stops a child.
Fault(c) ==
  /\ Dispatched(c)
  /\ \E g \in IF transport = "stdio" THEN {gen, "none"} ELSE {gen} : Faulted(c, FALSE, g, "fault")

\* The child exits; a call it was working on is rejected.
ProcessExits ==
  /\ transport = "stdio" /\ gen = "live"
  /\ IF active # NoCall /\ Dispatched(active)
     THEN Faulted(active, FALSE, "none", "fault")
     ELSE gen' = "none" /\ UNCHANGED <<transport, sup, phase, attempt, queue, active, call, blame>>

XReplayable(session) == TRUE

\* Only a refused session proves that the request was not executed.
Replayable(session) == session

\* The endpoint refuses a call: its session is gone (404), or it fails with the
\* call possibly executed.  The first refusal waits for the recovery, keeping the
\* slot; a second one is a fault.
Refused(c, session) ==
  LET refused == [call EXCEPT ![c].ran = IF session THEN @ - 1 ELSE @]
      g == IF session THEN "none" ELSE gen
  IN
  /\ transport = "http" /\ Dispatched(c) /\ gen = "live"
  /\ IF call[c].stage = "sent" /\ Replayable(session)
     THEN LET s == Restarted(sup, session) IN
          /\ Proceed(s, [refused EXCEPT ![c].stage = "recovering"], c, queue, g)
          /\ Blamed(s, "fault")
          /\ UNCHANGED <<transport, phase, attempt>>
     ELSE /\ Proceed(AfterFault(session), [refused EXCEPT ![c].stage = "done"], NoCall, queue, g)
          /\ Blamed(AfterFault(session), "fault")
          /\ UNCHANGED <<transport, phase, attempt>>

\* The recovery a call waits for is over.
Resume(c) ==
  /\ call[c].stage = "recovering" /\ sup.loop = "none"
  /\ IF call[c].aborted \/ phase # "running"
     THEN Proceed(sup, Finish({c}), NoCall, queue, gen) /\ UNCHANGED blame
     ELSE IF sup.state \in Runnable
     THEN /\ call' = [call EXCEPT ![c] = [Sent(@, gen) EXCEPT !.stage = "resent"]]
          /\ UNCHANGED <<sup, gen, queue, active, blame>>
     ELSE Proceed(Begun(sup), Finish({c}), NoCall, queue, gen) /\ Blamed(Begun(sup), "fault")
  /\ UNCHANGED <<transport, phase, attempt>>

\* The caller goes away while the provider works: a child is stopped, and the
\* rejection of its requests is reported as a transport failure; a request to an
\* endpoint is only given up.
AbortActive(c) ==
  /\ Dispatched(c)
  /\ IF transport = "stdio" /\ gen = "live"
     THEN Faulted(c, FALSE, "none", "cancel")
     ELSE /\ Proceed(sup, Finish({c}), NoCall, queue, gen)
          /\ UNCHANGED <<transport, phase, attempt, blame>>

AbortRecovering(c) ==
  /\ call[c].stage = "recovering"
  /\ call' = [call EXCEPT ![c].aborted = TRUE]
  /\ UNCHANGED <<transport, sup, phase, attempt, gen, queue, active, blame>>

\* The request timer; a child that is working is stopped.
Timeout(c) ==
  /\ c = active
  /\ Faulted(c, FALSE, IF transport = "stdio" /\ Dispatched(c) /\ gen = "live"
                       THEN "none" ELSE gen, "fault")

\* An invalid-session incident leaves the rolling window.
IncidentExpires ==
  /\ sup.recent > 0
  /\ sup' = [sup EXCEPT !.recent = @ - 1]
  /\ UNCHANGED <<transport, phase, attempt, gen, queue, active, call, blame>>

XCancelled(a) == a

\* stop() starts a new epoch: an attempt in flight can no longer succeed.
Cancelled(a) == IF a = "running" THEN "cancelled" ELSE a

\* stop() up to its await: the active and the queued calls settle.
Stop ==
  /\ phase = "running"
  /\ phase' = "stopping"
  /\ sup' = IF sup.loop = "first" THEN [sup EXCEPT !.state = "failed", !.loop = "none"] ELSE sup
  /\ attempt' = Cancelled(attempt)
  /\ gen' = "none"
  /\ queue' = <<>> /\ active' = NoCall
  /\ call' = Finish(ToSet(queue) \cup ({active} \ {NoCall}))
  /\ UNCHANGED <<transport, blame>>

StopEnds ==
  /\ phase = "stopping"
  /\ phase' = "stopped"
  /\ sup' = [sup EXCEPT !.state = "stopped"]
  /\ UNCHANGED <<transport, attempt, gen, queue, active, call, blame>>

\* The next request.
Again(c) ==
  /\ call[c].stage = "done"
  /\ call' = [call EXCEPT ![c] = Fresh]
  /\ UNCHANGED <<transport, sup, phase, attempt, gen, queue, active, blame>>

AttemptEnds == AttemptSucceeds \/ AttemptFails

CallStep(c) ==
  \/ Request(c) \/ Again(c)
  \/ \E aborted \in BOOLEAN : Invoke(c, aborted)
  \/ \E ok \in BOOLEAN : Answer(c, ok)
  \/ \E session \in BOOLEAN : Refused(c, session)
  \/ Fault(c) \/ Resume(c) \/ Timeout(c)
  \/ AbortQueued(c) \/ AbortActive(c) \/ AbortRecovering(c)

Next ==
  \/ Start \/ SleepEnds \/ FallsBack \/ AttemptEnds
  \/ ProcessExits \/ IncidentExpires
  \/ Stop \/ StopEnds
  \/ \E c \in Calls : CallStep(c)

Spec == Init /\ [][Next]_vars

\* The timers of the restart loop and of the active call fire, attempts are bounded
\* by their deadline and settled promises run their continuations; a call that was
\* admitted is invoked.  Nothing is asked of the callers: they may never call again.
Fairness ==
  /\ WF_vars(Start) /\ WF_vars(SleepEnds) /\ WF_vars(AttemptEnds) /\ WF_vars(StopEnds)
  /\ \A c \in Calls :
       /\ WF_vars(Timeout(c)) /\ WF_vars(Resume(c)) /\ WF_vars(Invoke(c, FALSE))

FairSpec == Spec /\ Fairness

-----------------------------------------------------------------------------

TypeOK ==
  /\ transport \in Transports
  /\ sup \in [state : {"declared", "starting", "ready", "restarting", "quarantined",
                       "stopped", "failed"},
              loop : {"none", "first", "sleep", "attempt"}, tries : 0..MaxRestarts,
              incident : {"none", "recovering", "recovered", "quarantined"},
              recent : 0..MaxSessionIncidents]
  /\ phase \in {"running", "stopping", "stopped"}
  /\ attempt \in {"none", "running", "cancelled"}
  /\ gen \in {"none", "booting", "live"}
  /\ queue \in Seq(Calls) /\ Len(queue) <= MaxQueue
  /\ \A c \in Calls : call[c].stage = "queued" <=> c \in ToSet(queue)
  /\ active \in Calls \cup {NoCall}
  /\ \A c \in Calls : call[c].stage \in {"sent", "resent", "recovering"} <=> c = active
  /\ blame \in {"none", "fault", "cancel"}

\* A call is executed at most once: it is dispatched again only after a refusal
\* that proves the first dispatch was not executed (docs/THREAT_MODEL.md, 37),
\* and a call rejected in the queue was never dispatched.
AtMostOneExecution ==
  \A c \in Calls : call[c].ran \in {0, 1} /\ (call[c].stage = "queued" => call[c].ran = 0)

\* Once stop() has returned, the state stays stopped and no child, session or
\* start attempt that could still succeed is left behind, whatever was starting,
\* falling back or restarting at the time.
StopIsFinal ==
  phase = "stopped" => sup.state = "stopped" /\ gen = "none" /\ attempt # "running"

\* Every admitted call settles, through any sequence of timeouts, recoveries and
\* quarantines and across stop(), unless it is invoked while stop() already
\* awaits the adapter.
EveryCallSettles ==
  \A c \in Calls :
    call[c].stage \notin {"new", "done"} ~> (call[c].stage = "done" \/ call[c].late)

\* ARCHITECTURE.md, 97-98: "active cancellation does not create or overwrite a
\* shared recovery incident, restart the provider or consume its budget".
CancellationIsLocal == blame # "cancel"

=============================================================================
