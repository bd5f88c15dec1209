----------------------------- MODULE DebateService -----------------------------
(***************************************************************************)
(* The Debate service (src/src/debate/service.ts) over its store: which    *)
(* calls notify, and the bounded wait with its in-process waiter registry  *)
(* (src/src/debate/waiters.ts).                                            *)
(*                                                                         *)
(* The process is single-threaded: everything a call does up to an await   *)
(* is one action.  A wait therefore has two kinds of steps, the one that   *)
(* ends with going to sleep on a registration and the one that runs when   *)
(* the sleep has settled; any other call may run in between, also between  *)
(* the settling (notify, timer, abort) and the continuation.  All the      *)
(* clock readings of one such step are one instant.                        *)
(***************************************************************************)
EXTENDS DebateStore

CONSTANTS
  Waiters,        \* slots for concurrent debate.wait calls
  WaitDurations   \* the maxWaitMs a call may ask for

ASSUME WaitsAssumption == WaitDurations \subseteq Nat \ {0}

VARIABLES
  closed,   \* the service was closed
  refs,     \* refs of the signal in the registry's map, 0 when it has no entry
  waits     \* the state of each wait call

serviceVars == <<now, debate, member, messages, answers, closed, refs, waits>>

\* outcome is what the last call in the slot returned or threw.
NoWait == [pc |-> "idle", role |-> "creator", conn |-> NoConnection, after |-> 0,
           deadline |-> 0, wakeAt |-> 0, onSignal |-> FALSE, aborted |-> FALSE,
           outcome |-> "none"]

Least(i, j) == IF i < j THEN i ELSE j
Greatest(i, j) == IF i < j THEN j ELSE i

-----------------------------------------------------------------------------
(* The registry.  r is a record of refs and waits.  onSignal says that the *)
(* signal a registration holds is the one in the map: notify and the last  *)
(* cancel drop the entry, after which old registrations hold a dead one.   *)

Registry == [refs |-> refs, waits |-> waits]

Register(r, w) ==
  [refs |-> r.refs + 1, waits |-> [r.waits EXCEPT ![w].onSignal = TRUE]]

\* Only a registration on the current signal counts down, and the last one
\* removes the entry.
Cancel(r, w) ==
  IF r.waits[w].onSignal
  THEN [refs |-> r.refs - 1,
        waits |-> [v \in Waiters |->
          [r.waits[v] EXCEPT !.onSignal = @ /\ v # w /\ r.refs > 1]]]
  ELSE r

Notified(r) ==
  [refs |-> 0,
   waits |-> [v \in Waiters |->
     [r.waits[v] EXCEPT !.onSignal = FALSE,
       !.pc = IF @ = "asleep" /\ r.waits[v].onSignal THEN "awake" ELSE @]]]

Put(r) == refs' = r.refs /\ waits' = r.waits

Notify == Put(Notified(Registry))

Quiet == UNCHANGED <<refs, waits>>

-----------------------------------------------------------------------------
(* The wait.                                                               *)

WaitActionable(d, p, after) ==
  \/ d.sequence > after
  \/ d.status \notin {"waiting", "active"}
  \/ d.status = "active" /\ d.current = p

XNoDurableTimer(d, deadline) == now + Greatest(1, deadline - now)

XNoRequestTimer(d, deadline) ==
  IF d.status = "active" THEN now + (IF d.acked THEN d.response ELSE d.pickup) + 1
  ELSE MaxTime + 1

\* When the timer of a sleep on row d fires.
WakeAt(d, deadline) ==
  LET due     == IF d.acked THEN d.response ELSE d.pickup
      durable == Greatest(0, due - now) + 1
  IN  now + Greatest(1, IF d.status = "active" /\ due # Never
                        THEN Least(deadline - now, durable)
                        ELSE deadline - now)

Asleep(r, w, d) ==
  LET s == Register(r, w) IN
  [s EXCEPT !.waits[w].pc = "asleep",
            !.waits[w].wakeAt = WakeAt(d, s.waits[w].deadline)]

Returned(r, w, outcome) ==
  [r EXCEPT !.waits[w] = [NoWait EXCEPT !.outcome = outcome]]

NotifiedIf(changed, r) == IF changed THEN Notified(r) ELSE r

\* The first read of a call, its fast path, then registration, the second
\* read at the same instant, and the sleep.
WaitCall(w, p, c, after, duration) ==
  LET row  == ReadRow(p)
      call == [NoWait EXCEPT !.role = p, !.conn = c, !.after = after,
                             !.deadline = now + duration]
      r    == NotifiedIf(row # debate, Registry)
      s    == [r EXCEPT !.waits[w] = call]
  IN
  /\ ~closed
  /\ waits[w].pc = "idle"
  /\ now + duration <= MaxTime
  /\ Read(p, c)
  /\ Put(IF WaitActionable(row, p, after)
         THEN Returned(s, w, "actionable")
         ELSE Asleep(s, w, row))
  /\ UNCHANGED closed

\* The sleep's timer.
TimerFires(w) ==
  /\ waits[w].pc = "asleep"
  /\ now >= waits[w].wakeAt
  /\ waits' = [waits EXCEPT ![w].pc = "awake"]
  /\ UNCHANGED <<now, debate, member, messages, answers, closed, refs>>

\* The request's AbortSignal: it rejects a sleep, and is looked at again
\* before the next one.
AbortWait(w) ==
  /\ waits[w].pc \in {"asleep", "awake"} /\ ~waits[w].aborted
  /\ waits' = [waits EXCEPT ![w].aborted = TRUE,
                            ![w].pc = IF @ = "asleep" THEN "rejected" ELSE @]
  /\ UNCHANGED <<now, debate, member, messages, answers, closed, refs>>

\* The continuation of a sleep that was rejected, or whose service closed, or
\* whose membership is gone: the registration is cancelled and the call throws.
WaitThrows(w) ==
  LET k == waits[w]
      gone == ~VerifyMembership(k.role, k.conn)
  IN
  /\ \/ k.pc = "rejected"
     \/ k.pc = "awake" /\ (closed \/ gone)
  /\ Put(Returned(Cancel(Registry, w), w,
       IF k.pc = "rejected" THEN "wait_cancelled"
       ELSE IF closed THEN "debate_store_closed"
       ELSE "membership_invalid"))
  /\ UNCHANGED <<now, debate, member, messages, answers, closed>>

XTimesOutBeforeReading(w) ==
  LET k   == waits[w]
      row == ReadRow(k.role)
      r   == NotifiedIf(row # debate, Cancel(Registry, w))
  IN
  /\ k.pc = "awake" /\ ~closed
  /\ Read(k.role, k.conn)
  /\ Put(IF now >= k.deadline THEN Returned(r, w, "timed_out")
         ELSE IF WaitActionable(row, k.role, k.after) THEN Returned(r, w, "actionable")
         ELSE IF k.aborted THEN Returned(r, w, "wait_cancelled")
         ELSE Asleep(r, w, row))
  /\ UNCHANGED closed

\* The continuation of a sleep that was notified or timed out.
WaitContinues(w) ==
  LET k   == waits[w]
      row == ReadRow(k.role)
      r   == NotifiedIf(row # debate, Cancel(Registry, w))
  IN
  /\ k.pc = "awake" /\ ~closed
  /\ Read(k.role, k.conn)
  /\ Put(IF WaitActionable(row, k.role, k.after) THEN Returned(r, w, "actionable")
         ELSE IF now >= k.deadline THEN Returned(r, w, "timed_out")
         ELSE IF k.aborted THEN Returned(r, w, "wait_cancelled")
         ELSE Asleep(r, w, row))
  /\ UNCHANGED closed

-----------------------------------------------------------------------------
(* The other calls, with the notifications they make.                      *)

ServiceCreate(c, n, f) == Create(c, n, f) /\ Quiet

ServiceJoin(c) == Join(c) /\ Notify

\* read notifies when it recorded an expiry or an acknowledgement.
ServiceRead(p, c) == Read(p, c) /\ Put(NotifiedIf(ReadRow(p) # debate, Registry))

\* A replayed send notifies nobody, even when it recorded an expiry.
ServiceSend(p, c, id, content, expected) ==
  \/ Send(p, c, id, content, expected) /\ Notify
  \/ SendReplay(p, c, id, content, expected) /\ Quiet

ServiceStop(p, c) == StopMember(p, c) /\ Notify

\* listForOwner and readForOwner record an expiry without notifying.
OwnerLooks == OwnerRead /\ Quiet

StopAsOwner == OwnerStop /\ Notify

ResumeAsOwner == OwnerResume /\ Notify

DeleteAsOwner == OwnerDelete /\ Notify

Close ==
  /\ ~closed
  /\ closed' = TRUE
  /\ Notify
  /\ UNCHANGED storeVars

\* The process ends, at any point between two calls, and a new one opens the
\* same database: the waits are gone with their connections.
Restart ==
  /\ closed' = FALSE
  /\ refs' = 0
  /\ waits' = [w \in Waiters |-> NoWait]
  /\ UNCHANGED storeVars

ServiceInit ==
  /\ Init
  /\ closed = FALSE
  /\ refs = 0
  /\ waits = [w \in Waiters |-> NoWait]

ServiceCall ==
  \/ \E c \in Connections, n \in TurnLimits, f \in Roles : ServiceCreate(c, n, f)
  \/ \E c \in Connections : ServiceJoin(c)
  \/ \E p \in Roles, c \in Connections :
       \/ ServiceRead(p, c)
       \/ \E id \in MessageIds, content \in Payloads, expected \in 0..Len(messages) :
            ServiceSend(p, c, id, content, expected)
       \/ ServiceStop(p, c)
  \/ OwnerLooks
  \/ StopAsOwner
  \/ ResumeAsOwner
  \/ DeleteAsOwner

ServiceNext ==
  \/ ~closed /\ ServiceCall /\ UNCHANGED closed
  \/ \E w \in Waiters, p \in Roles, c \in Connections,
        after \in {0, debate.sequence}, duration \in WaitDurations :
       WaitCall(w, p, c, after, duration)
  \/ \E w \in Waiters :
       TimerFires(w) \/ AbortWait(w) \/ WaitThrows(w) \/ WaitContinues(w)
  \/ Close
  \/ Restart
  \/ Tick /\ UNCHANGED <<closed, refs, waits>>

\* Time passes, due timers fire, and settled promises run their continuation;
\* nothing is assumed of the callers.
Fairness ==
  /\ WF_serviceVars(Tick /\ UNCHANGED <<closed, refs, waits>>)
  /\ \A w \in Waiters :
       /\ WF_serviceVars(TimerFires(w))
       /\ WF_serviceVars(WaitThrows(w))
       /\ WF_serviceVars(WaitContinues(w))

ServiceSpec == ServiceInit /\ [][ServiceNext]_serviceVars /\ Fairness

-----------------------------------------------------------------------------
(* What the service promises.                                              *)

\* No lost wakeup: if a wait that sleeps would return were it to look now, its
\* timer is at most one unit away - also for the expiries that nobody is told
\* of (an owner's list or read, a replayed send, or no call at all).
NoLostWakeup ==
  \A w \in Waiters :
    (waits[w].pc = "asleep" /\ ~closed
     /\ (~Exists \/ WaitActionable(Seen, waits[w].role, waits[w].after))) =>
       waits[w].wakeAt <= now + 1

\* A wait reports a timeout only when its time is over and it has nothing to
\* report: a message, a turn or an end of the debate is never hidden behind a
\* timeout.
TimeoutHidesNothing ==
  [][\A w \in Waiters :
       (waits[w].pc # "idle" /\ waits'[w].outcome = "timed_out") =>
         /\ now >= waits[w].deadline
         /\ ~WaitActionable(Seen', waits[w].role, waits[w].after)]_serviceVars

\* Every wait returns or throws, whatever the callers do or fail to do.
EveryWaitEnds ==
  \A w \in Waiters : (waits[w].pc # "idle") ~> (waits[w].pc = "idle")

=============================================================================
