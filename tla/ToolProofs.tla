------------------------------- MODULE ToolProofs -------------------------------
(* Theorems about what runs behind the gateway's tools.                             *)
(*                                                                                  *)
(* First the calls of a supervised provider, for any set of calls, any queue        *)
(* length, restart budget and session budget, over either transport.  Then the      *)
(* coding tools, for any numbers of calls, clients, context tokens, paths and       *)
(* changes: contexts and skills, writes and edits, commands.                        *)
EXTENDS Provider, CodingSession, SequenceTheorems, TLAPS

-------------------------------------------------------------------------------
(* The inductive invariant of a provider.                                           *)

Waiting == {"new", "admitted", "queued", "recovering"}
AtProvider == {"sent", "resent"}

CallRecord ==
  [stage : Waiting \cup AtProvider \cup {"done"}, ran : Int, aborted : BOOLEAN, late : BOOLEAN]

Supervisor ==
  [state : {"declared", "starting", "ready", "restarting", "quarantined", "stopped", "failed"},
   loop : {"none", "first", "sleep", "attempt"}, tries : 0..MaxRestarts,
   incident : {"none", "recovering", "recovered", "quarantined"},
   recent : 0..MaxSessionIncidents]

\* How often a call ran: never while it waits, and once when a live generation has it.
Counted(r, g) ==
  /\ r.ran \in {0, 1}
  /\ r.stage \in Waiting => r.ran = 0
  /\ r.stage \in AtProvider /\ g = "live" => r.ran = 1

\* The queue holds the queued calls, each once, and slot the one that was taken from it.
IsQueue(calls, q) ==
  /\ q \in Seq(Calls) /\ Len(q) <= MaxQueue
  /\ \A i, j \in 1..Len(q) : q[i] = q[j] => i = j
  /\ \A c \in Calls : calls[c].stage = "queued" <=> \E i \in 1..Len(q) : q[i] = c

IsSlot(calls, slot) ==
  /\ slot \in Calls \cup {NoCall}
  /\ \A c \in Calls : calls[c].stage \in AtProvider \cup {"recovering"} <=> c = slot

Consistent(calls, slot, q, g) ==
  /\ calls \in [Calls -> CallRecord]
  /\ \A c \in Calls : Counted(calls[c], g)
  /\ IsQueue(calls, q) /\ IsSlot(calls, slot)

\* A call is at the provider only while the supervisor runs it, and waits for a
\* recovery only while it is not being stopped.
Placed(calls, s, p) ==
  \A c \in Calls :
    /\ calls[c].stage \in AtProvider => s.state \in Runnable \cup {"stopped"}
    /\ calls[c].stage = "recovering" => p = "running"

\* The supervisor, its restart loop and stop().
Controlled(s, p, a, g) ==
  /\ s \in Supervisor /\ p \in {"running", "stopping", "stopped"}
  /\ a \in {"none", "running", "cancelled"} /\ g \in {"none", "booting", "live"}
  /\ a = "running" => s.state = "starting" /\ s.loop \in {"first", "attempt"} /\ p = "running"
  /\ s.loop = "first" => a = "running"
  /\ s.loop # "none" => s.state \notin Runnable
  /\ p # "running" => g = "none"
  /\ p = "stopped" <=> s.state = "stopped"

Unchanging == transport \in Transports /\ blame \in {"none", "fault", "cancel"}

IInv ==
  /\ Unchanging
  /\ Controlled(sup, phase, attempt, gen)
  /\ Consistent(call, active, queue, gen)
  /\ Placed(call, sup, phase)

-------------------------------------------------------------------------------
(* Sequences: the queue without one of its calls.                                *)

LEMMA RemoveAtProperties ==
  ASSUME NEW S, NEW q \in Seq(S), NEW i \in 1..Len(q)
  PROVE  /\ RemoveAt(q, i) \in Seq(S) /\ Len(RemoveAt(q, i)) = Len(q) - 1
         /\ \A j \in 1..(Len(q) - 1) :
              RemoveAt(q, i)[j] = IF j < i THEN q[j] ELSE q[j + 1]
<1> DEFINE a == SubSeq(q, 1, i - 1)
           b == SubSeq(q, i + 1, Len(q))
<1>1. Len(q) \in Nat /\ i \in Nat /\ 1 <= i /\ i <= Len(q) /\ \A j \in 1..Len(q) : q[j] \in S
  BY LenProperties, ElementOfSeq
<1>2. /\ a \in Seq(S) /\ Len(a) = i - 1
      /\ \A j \in 1..(i - 1) : a[j] = q[j]
  <2>1. \A j \in 1..(i - 1) : q[j] \in S
    BY <1>1
  <2>2. /\ a \in Seq(S) /\ Len(a) = (IF 1 <= i - 1 THEN (i - 1) - 1 + 1 ELSE 0)
        /\ \A j \in 1..((i - 1) - 1 + 1) : a[j] = q[1 + j - 1]
    BY <1>1, <2>1, SubSeqProperties
  <2> QED
    BY <1>1, <2>2
<1>3. /\ b \in Seq(S) /\ Len(b) = Len(q) - i
      /\ \A j \in 1..(Len(q) - i) : b[j] = q[i + j]
  <2>1. \A j \in (i + 1)..Len(q) : q[j] \in S
    BY <1>1
  <2>2. /\ b \in Seq(S) /\ Len(b) = (IF i + 1 <= Len(q) THEN Len(q) - (i + 1) + 1 ELSE 0)
        /\ \A j \in 1..(Len(q) - (i + 1) + 1) : b[j] = q[(i + 1) + j - 1]
    BY <1>1, <2>1, SubSeqProperties
  <2> QED
    BY <1>1, <2>2
<1> HIDE DEF a, b
<1>4. /\ a \o b \in Seq(S) /\ Len(a \o b) = Len(a) + Len(b)
      /\ \A j \in 1..(Len(a) + Len(b)) :
           (a \o b)[j] = IF j <= Len(a) THEN a[j] ELSE b[j - Len(a)]
  BY <1>2, <1>3, ConcatProperties
<1>5. ASSUME NEW j \in 1..(Len(q) - 1)
      PROVE  (a \o b)[j] = IF j < i THEN q[j] ELSE q[j + 1]
  <2>1. CASE j < i
    BY <1>1, <1>2, <1>3, <1>4, <2>1
  <2>2. CASE ~ (j < i)
    <3>1. (a \o b)[j] = b[j - (i - 1)] /\ j - (i - 1) \in 1..(Len(q) - i)
      BY <1>1, <1>2, <1>3, <1>4, <2>2
    <3>2. i + (j - (i - 1)) = j + 1
      BY <1>1
    <3> QED
      BY <1>3, <2>2, <3>1, <3>2
  <2> QED
    BY <2>1, <2>2
<1>6. RemoveAt(q, i) = a \o b
  BY DEF RemoveAt, a, b
<1>7. Len(a) + Len(b) = Len(q) - 1
  BY <1>1, <1>2, <1>3
<1> QED
  BY <1>4, <1>5, <1>6, <1>7

-------------------------------------------------------------------------------
(* The records of calls.                                                         *)

LEMMA CallsApart == NoCall \notin Calls
  BY CallsAssumption

\* A generation that is no longer live changes nothing about the calls.
LEMMA GenerationEnds ==
  ASSUME NEW calls, NEW slot, NEW q, NEW g, NEW h, h = "live" => g = "live",
         Consistent(calls, slot, q, g)
  PROVE  Consistent(calls, slot, q, h)
  BY DEF Consistent, Counted

\* With the slot empty no call is at the provider or waits for a recovery.
LEMMA NobodyPlaced ==
  ASSUME NEW calls, NEW q, NEW g, Consistent(calls, NoCall, q, g), NEW s, NEW p
  PROVE  Placed(calls, s, p)
  BY CallsApart DEF Consistent, IsSlot, Placed

\* A call that is not in the queue changes, and does not enter it.
LEMMA CallMoves ==
  ASSUME NEW calls, NEW slot, NEW q, NEW g, Consistent(calls, slot, q, g),
         NEW c \in Calls, calls[c].stage # "queued",
         NEW r \in CallRecord, Counted(r, g), r.stage # "queued",
         NEW next \in Calls \cup {NoCall},
         IF r.stage \in AtProvider \cup {"recovering"}
         THEN slot = c /\ next = c
         ELSE next = IF slot = c THEN NoCall ELSE slot
  PROVE  Consistent([calls EXCEPT ![c] = r], next, q, g)
<1> DEFINE after == [calls EXCEPT ![c] = r]
<1>1. after \in [Calls -> CallRecord] /\ \A d \in Calls : after[d] = IF d = c THEN r ELSE calls[d]
  BY DEF Consistent
<1> HIDE DEF after
<1>2. \A d \in Calls : Counted(after[d], g)
  BY <1>1 DEF Consistent
<1>3. IsQueue(after, q)
  BY <1>1 DEF Consistent, IsQueue
<1>4. IsSlot(after, next)
  BY <1>1, CallsApart DEF Consistent, IsSlot
<1>5. Consistent(after, next, q, g)
  BY <1>1, <1>2, <1>3, <1>4 DEF Consistent
<1> QED
  BY <1>5 DEF after

LEMMA DoneRecord ==
  ASSUME NEW r \in CallRecord, NEW g, Counted(r, g)
  PROVE  Done(r) \in CallRecord /\ Done(r).stage = "done" /\ Counted(Done(r), g)
<1>1. Done(r) \in CallRecord /\ Done(r).stage = "done" /\ Done(r).ran = r.ran
  BY DEF Done, CallRecord
<1> QED
  BY <1>1 DEF Counted, Waiting, AtProvider

\* The call that holds the slot settles.
LEMMA ActiveSettles ==
  ASSUME Consistent(call, active, queue, gen), NEW c \in Calls, c = active,
         NEW g, g = "live" => gen = "live"
  PROVE  Consistent(Finish({c}), NoCall, queue, g)
<1>1. Finish({c}) = [call EXCEPT ![c] = Done(call[c])]
  BY DEF Finish, Consistent
<1>2. Consistent(call, active, queue, g)
  BY GenerationEnds
<1>3. Counted(call[c], g) /\ call[c] \in CallRecord /\ call[c].stage # "queued"
  BY <1>2 DEF Consistent, IsSlot, AtProvider
<1>4. Done(call[c]) \in CallRecord /\ Done(call[c]).stage = "done" /\ Counted(Done(call[c]), g)
  BY <1>3, DoneRecord
<1> DEFINE r == Done(call[c])
<1>5. r \in CallRecord /\ Counted(r, g) /\ r.stage = "done"
      /\ r.stage \notin AtProvider \cup {"recovering"}
  BY <1>4 DEF AtProvider
<1> HIDE DEF r
<1>6. Consistent([call EXCEPT ![c] = r], NoCall, queue, g)
  BY <1>2, <1>3, <1>5, CallMoves
<1> QED
  BY <1>1, <1>6 DEF r

-------------------------------------------------------------------------------
(* Draining the queue.                                                           *)

LEMMA SentRecord ==
  ASSUME NEW r \in CallRecord, r.ran = 0, NEW g
  PROVE  /\ Sent(r, g) \in CallRecord /\ Sent(r, g).stage = "sent"
         /\ Sent(r, g).ran \in {0, 1} /\ (g = "live" => Sent(r, g).ran = 1)
<1> DEFINE n == IF g = "live" THEN 1 ELSE 0
<1>1. n \in {0, 1} /\ n \in Int /\ (g = "live" => n = 1)
  OBVIOUS
<1>2. Sent(r, g) = [r EXCEPT !.stage = "sent", !.ran = n]
  BY DEF Sent
<1> HIDE DEF n
<1> QED
  BY <1>1, <1>2 DEF CallRecord, AtProvider

\* The first of the queue is dispatched.
LEMMA HeadIsSent ==
  ASSUME NEW calls, NEW q, NEW g, Consistent(calls, NoCall, q, g), q # <<>>
  PROVE  Consistent([calls EXCEPT ![Head(q)] = Sent(@, g)], Head(q), Tail(q), g)
<1> DEFINE h == Head(q)
           after == [calls EXCEPT ![h] = Sent(@, g)]
<1>1. q \in Seq(Calls) /\ Len(q) \in Nat /\ Len(q) >= 1
  BY EmptySeq, LenProperties DEF Consistent, IsQueue
<1>2. h \in Calls /\ h = q[1] /\ Tail(q) \in Seq(Calls) /\ Len(Tail(q)) = Len(q) - 1
  BY <1>1, HeadTailProperties
<1>3. \A i \in 1..Len(Tail(q)) : Tail(q)[i] = q[i + 1]
  BY <1>1, HeadTailProperties
<1> HIDE DEF h
<1>4. calls[h] \in CallRecord /\ calls[h].stage = "queued" /\ calls[h].ran = 0
  BY <1>1, <1>2 DEF Consistent, IsQueue, Counted, Waiting
<1> DEFINE r == Sent(calls[h], g)
<1>5. r \in CallRecord /\ r.stage = "sent" /\ r.ran \in {0, 1} /\ (g = "live" => r.ran = 1)
  BY <1>4, SentRecord
<1> HIDE DEF r
<1>6. after \in [Calls -> CallRecord] /\ \A d \in Calls : after[d] = IF d = h THEN r ELSE calls[d]
  BY <1>2, <1>5 DEF Consistent, r
<1> HIDE DEF after
<1>7. \A d \in Calls : Counted(after[d], g)
  <2>1. Counted(r, g)
    BY <1>5 DEF Counted, Waiting
  <2> QED
    BY <1>6, <2>1 DEF Consistent
<1>8. IsQueue(after, Tail(q))
  <2>1. Len(Tail(q)) <= MaxQueue
    BY <1>1, <1>2, ProviderAssumption DEF Consistent, IsQueue
  <2>2. \A i, j \in 1..Len(Tail(q)) : Tail(q)[i] = Tail(q)[j] => i = j
    BY <1>1, <1>2, <1>3 DEF Consistent, IsQueue
  <2>3. ASSUME NEW d \in Calls, after[d].stage = "queued"
        PROVE  \E i \in 1..Len(Tail(q)) : Tail(q)[i] = d
    <3>1. d # h /\ calls[d].stage = "queued"
      BY <1>5, <1>6, <2>3
    <3>2. PICK i \in 1..Len(q) : q[i] = d
      BY <3>1 DEF Consistent, IsQueue
    <3>3. i # 1 /\ i - 1 \in 1..Len(Tail(q)) /\ (i - 1) + 1 = i
      BY <1>1, <1>2, <3>1, <3>2
    <3> QED
      BY <1>3, <3>2, <3>3
  <2>4. ASSUME NEW i \in 1..Len(Tail(q)), NEW d \in Calls, Tail(q)[i] = d
        PROVE  after[d].stage = "queued"
    <3>1. i + 1 \in 1..Len(q) /\ q[i + 1] = d /\ i + 1 # 1 /\ 1 \in 1..Len(q)
      BY <1>1, <1>2, <1>3, <2>4
    <3>2. d # h
      BY <1>2, <3>1 DEF Consistent, IsQueue
    <3> QED
      BY <1>6, <3>1, <3>2 DEF Consistent, IsQueue
  <2> QED
    BY <1>2, <2>1, <2>2, <2>3, <2>4 DEF IsQueue
<1>9. IsSlot(after, h)
  BY <1>2, <1>4, <1>5, <1>6, CallsApart DEF Consistent, IsSlot, AtProvider
<1>10. Consistent(after, h, Tail(q), g)
  BY <1>6, <1>7, <1>8, <1>9 DEF Consistent
<1> QED
  BY <1>10 DEF after, h

\* The queue is rejected.
LEMMA QueueRejected ==
  ASSUME NEW calls, NEW slot, NEW q, NEW g, Consistent(calls, slot, q, g)
  PROVE  Consistent([c \in Calls |-> IF c \in ToSet(q) THEN Done(calls[c]) ELSE calls[c]],
                    slot, <<>>, g)
<1> DEFINE after == [c \in Calls |-> IF c \in ToSet(q) THEN Done(calls[c]) ELSE calls[c]]
<1>1. \A c \in Calls : c \in ToSet(q) <=> calls[c].stage = "queued"
  BY LenProperties DEF Consistent, IsQueue, ToSet
<1>2. \A c \in Calls : calls[c] \in CallRecord /\ Counted(calls[c], g)
  BY DEF Consistent
<1>3. \A c \in Calls : /\ Done(calls[c]) \in CallRecord /\ Done(calls[c]).stage = "done"
                       /\ Counted(Done(calls[c]), g)
  BY <1>2, DoneRecord
<1>4. /\ after \in [Calls -> CallRecord]
      /\ \A c \in Calls : after[c] = IF calls[c].stage = "queued" THEN Done(calls[c]) ELSE calls[c]
  BY <1>1, <1>2, <1>3
<1> HIDE DEF after
<1>5. IsQueue(after, <<>>)
  BY <1>3, <1>4, EmptySeq, ProviderAssumption DEF IsQueue
<1>6. IsSlot(after, slot)
  BY <1>3, <1>4 DEF Consistent, IsSlot, AtProvider
<1>7. Consistent(after, slot, <<>>, g)
  BY <1>2, <1>3, <1>4, <1>5, <1>6 DEF Consistent
<1> QED
  BY <1>7 DEF after

\* What a step that ends in a drain has to show.
LEMMA Proceeds ==
  ASSUME NEW s, NEW calls, NEW slot, NEW q, NEW g, Proceed(s, calls, slot, q, g),
         Consistent(calls, slot, q, g), Placed(calls, s, phase'),
         Controlled(s, phase', attempt', g), Unchanging'
  PROVE  IInv'
<1>1. sup' = s /\ gen' = g
  BY DEF Proceed
<1> SUFFICES Consistent(call', active', queue', g) /\ Placed(call', s, phase')
  BY <1>1 DEF IInv
<1>2. CASE GaveUp(s)
  <2> DEFINE after == [c \in Calls |-> IF c \in ToSet(q) THEN Done(calls[c]) ELSE calls[c]]
  <2>1. queue' = <<>> /\ active' = slot /\ call' = after
    BY <1>2 DEF Proceed
  <2>2. Consistent(after, slot, <<>>, g)
    BY QueueRejected
  <2>3. Placed(after, s, phase')
    BY DEF Placed, Done, Consistent, CallRecord, AtProvider
  <2> QED
    BY <2>1, <2>2, <2>3
<1>3. CASE ~ GaveUp(s) /\ slot = NoCall /\ s.state \in Runnable /\ q # <<>>
  <2>1. /\ queue' = Tail(q) /\ active' = Head(q)
        /\ call' = [calls EXCEPT ![Head(q)] = Sent(@, g)]
    BY <1>3 DEF Proceed
  <2>2. Consistent(call', active', queue', g)
    BY <1>3, <2>1, HeadIsSent
  <2>3. ASSUME NEW c \in Calls, call'[c].stage = "recovering" PROVE FALSE
    <3>1. c = active'
      BY <2>2, <2>3 DEF Consistent, IsSlot
    <3>2. calls[c].ran = 0 /\ calls[c] \in CallRecord
      <4>1. q[1] = c /\ 1 \in 1..Len(q)
        BY <1>3, <2>1, <3>1, EmptySeq, HeadTailProperties, LenProperties DEF Consistent, IsQueue
      <4> QED
        BY <4>1 DEF Consistent, IsQueue, Counted, Waiting
    <3>3. call'[c].stage = "sent"
      BY <2>1, <3>1, <3>2, SentRecord DEF Consistent
    <3> QED
      BY <2>3, <3>3
  <2>4. Placed(call', s, phase')
    BY <1>3, <2>3 DEF Placed
  <2> QED
    BY <2>2, <2>4
<1>4. CASE ~ GaveUp(s) /\ ~ (slot = NoCall /\ s.state \in Runnable /\ q # <<>>)
  BY <1>4 DEF Proceed
<1> QED
  BY <1>2, <1>3, <1>4

\* The same, of a step after which the slot is empty.
LEMMA ProceedsEmpty ==
  ASSUME NEW s, NEW calls, NEW q, NEW g, Proceed(s, calls, NoCall, q, g),
         Consistent(calls, NoCall, q, g), Controlled(s, phase', attempt', g), Unchanging'
  PROVE  IInv'
  BY NobodyPlaced, Proceeds

-------------------------------------------------------------------------------
(* The restart loop.                                                             *)

LEMMA BegunKeeps ==
  ASSUME NEW s \in Supervisor
  PROVE  /\ Begun(s) \in Supervisor /\ Begun(s).state = s.state /\ Begun(s).loop = s.loop
         /\ Begun(s).tries = s.tries /\ Begun(s).recent = s.recent
  BY DEF Begun, Supervisor

LEMMA NextTryKeeps ==
  ASSUME NEW s \in Supervisor, NEW n \in Nat
  PROVE  /\ NextTry(s, n) \in Supervisor /\ NextTry(s, n).loop \in {"none", "sleep"}
         /\ NextTry(s, n).state \in {s.state, "quarantined"}
<1>1. CASE phase # "running"
  <2>1. NextTry(s, n) = [s EXCEPT !.loop = "none"]
    BY <1>1 DEF NextTry
  <2> QED
    BY <2>1 DEF Supervisor
<1>2. CASE phase = "running" /\ n > MaxRestarts
  <2>1. NextTry(s, n) =
          [s EXCEPT !.state = "quarantined", !.incident = "quarantined", !.loop = "none"]
    BY <1>2 DEF NextTry
  <2> QED
    BY <2>1 DEF Supervisor
<1>3. CASE phase = "running" /\ ~ (n > MaxRestarts)
  <2>1. NextTry(s, n) = [s EXCEPT !.loop = "sleep", !.tries = n] /\ n \in 0..MaxRestarts
    BY <1>3, ProviderAssumption DEF NextTry
  <2> QED
    BY <2>1 DEF Supervisor
<1> QED
  BY <1>1, <1>2, <1>3

\* A restart is scheduled or the supervisor gives up.
LEMMA RestartedKeeps ==
  ASSUME NEW s \in Supervisor, s.loop = "none", NEW session \in BOOLEAN
  PROVE  /\ Restarted(s, session) \in Supervisor
         /\ Restarted(s, session).loop \in {"none", "sleep"}
         /\ Restarted(s, session).state \in {"restarting", "quarantined"}
<1> DEFINE b == Begun(s)
<1>1. b \in Supervisor /\ b.loop = "none"
  BY BegunKeeps
<1> HIDE DEF b
<1>2. CASE session /\ b.recent >= MaxSessionIncidents
  <2>1. Restarted(s, session) = [b EXCEPT !.state = "quarantined", !.incident = "quarantined"]
    BY <1>1, <1>2 DEF Restarted, b
  <2> QED
    BY <1>1, <2>1 DEF Supervisor
<1>3. CASE ~ (session /\ b.recent >= MaxSessionIncidents)
  <2> DEFINE n == IF session THEN b.recent + 1 ELSE b.recent
             r == [b EXCEPT !.state = "restarting", !.recent = n]
  <2>1. Restarted(s, session) = NextTry(r, 1)
    BY <1>1, <1>3 DEF Restarted, b
  <2>2. n \in 0..MaxSessionIncidents
    BY <1>1, <1>3, ProviderAssumption DEF Supervisor
  <2> HIDE DEF n
  <2>3. r \in Supervisor /\ r.state = "restarting"
    BY <1>1, <2>2 DEF Supervisor
  <2> HIDE DEF r
  <2> QED
    BY <2>1, <2>3, NextTryKeeps
<1> QED
  BY <1>2, <1>3

LEMMA RestartControlled ==
  ASSUME NEW s \in Supervisor, s.loop = "none", NEW session \in BOOLEAN,
         NEW p \in {"running", "stopping"}, NEW a \in {"none", "cancelled"},
         NEW g \in {"none", "booting", "live"}, p # "running" => g = "none"
  PROVE  Controlled(Restarted(s, session), p, a, g)
  BY RestartedKeeps DEF Controlled, Runnable

\* A fault is taken in any state.
LEMMA FaultControlled ==
  ASSUME IInv, NEW session \in BOOLEAN, NEW g \in {gen, "none"}
  PROVE  Controlled(AfterFault(session), phase, attempt, g)
<1>1. CASE sup.state \in Runnable
  <2>1. /\ sup \in Supervisor /\ sup.loop = "none" /\ phase \in {"running", "stopping"}
        /\ attempt \in {"none", "cancelled"} /\ g \in {"none", "booting", "live"}
        /\ phase # "running" => g = "none"
    BY <1>1 DEF IInv, Controlled, Runnable
  <2> QED
    BY <1>1, <2>1, RestartControlled DEF AfterFault
<1>2. CASE sup.state \notin Runnable
  <2>1. AfterFault(session) = Begun(sup) /\ sup \in Supervisor
    BY <1>2 DEF AfterFault, IInv, Controlled
  <2> QED
    BY <2>1, BegunKeeps DEF IInv, Controlled
<1> QED
  BY <1>1, <1>2

LEMMA BlamedKeeps ==
  ASSUME IInv, NEW s, NEW what \in {"fault", "cancel"}, Blamed(s, what), transport' = transport
  PROVE  Unchanging'
  BY DEF IInv, Blamed, Unchanging

\* The active call settles with a fault.
LEMMA FaultedKeeps ==
  ASSUME IInv, NEW c \in Calls, c = active, NEW session \in BOOLEAN,
         NEW g \in {gen, "none"}, NEW what \in {"fault", "cancel"},
         Faulted(c, session, g, what)
  PROVE  IInv'
<1>1. Proceed(AfterFault(session), Finish({c}), NoCall, queue, g)
  BY DEF Faulted
<1>2. Consistent(Finish({c}), NoCall, queue, g)
  BY ActiveSettles DEF IInv
<1>3. phase' = phase /\ attempt' = attempt
  BY DEF Faulted
<1>4. Controlled(AfterFault(session), phase', attempt', g)
  BY <1>3, FaultControlled
<1>5. Unchanging'
  BY BlamedKeeps DEF Faulted
<1> QED
  BY <1>1, <1>2, <1>4, <1>5, ProceedsEmpty

-------------------------------------------------------------------------------
(* Every action keeps the invariant.                                             *)

LEMMA InitHolds == Init => IInv
<1> SUFFICES ASSUME Init PROVE IInv
  OBVIOUS
<1>1. Controlled(sup, phase, attempt, gen)
  BY ProviderAssumption DEF Init, Controlled, Supervisor, Runnable
<1>2. Fresh \in CallRecord /\ Fresh.stage = "new" /\ Counted(Fresh, gen)
  BY DEF Fresh, CallRecord, Counted, Waiting, AtProvider
<1>3. Consistent(call, active, queue, gen)
  <2>1. IsQueue(call, queue)
    BY <1>2, EmptySeq, ProviderAssumption DEF Init, IsQueue
  <2>2. IsSlot(call, active)
    BY <1>2, CallsApart DEF Init, IsSlot, AtProvider
  <2>3. call \in [Calls -> CallRecord] /\ \A c \in Calls : call[c] = Fresh
    BY <1>2 DEF Init
  <2> QED
    BY <1>2, <2>1, <2>2, <2>3 DEF Consistent
<1>4. Placed(call, sup, phase)
  BY <1>2 DEF Init, Placed, AtProvider
<1> QED
  BY <1>1, <1>3, <1>4 DEF Init, IInv, Unchanging

\* No call is at the provider while the supervisor neither runs nor was stopped.
LEMMA NobodyAtProvider ==
  ASSUME IInv, sup.state \notin Runnable \cup {"stopped"}
  PROVE  \A c \in Calls : call[c].stage \notin AtProvider
  BY DEF IInv, Placed

\* A generation begins while no call is at the provider.
LEMMA GenerationBegins ==
  ASSUME IInv, sup.state \notin Runnable \cup {"stopped"}, NEW g, NEW s
  PROVE  Consistent(call, active, queue, g) /\ Placed(call, s, phase)
  BY NobodyAtProvider DEF IInv, Consistent, Counted, Placed

LEMMA StartStep ==
  ASSUME IInv, Start
  PROVE  IInv'
<1>1. Controlled(sup', phase', attempt', gen')
  BY DEF Start, IInv, Controlled, Supervisor, Runnable
<1>2. Consistent(call, active, queue, gen') /\ Placed(call, sup', phase)
  BY GenerationBegins DEF Start, Runnable
<1> QED
  BY <1>1, <1>2 DEF Start, IInv, Unchanging

LEMMA SleepEndsStep ==
  ASSUME IInv, SleepEnds
  PROVE  IInv'
<1>1. CASE phase # "running"
  <2>1. Controlled(sup', phase', attempt', gen')
    BY <1>1 DEF SleepEnds, IInv, Controlled, Supervisor, Runnable
  <2>2. Placed(call, sup', phase)
    BY <1>1 DEF SleepEnds, IInv, Placed, Controlled, Supervisor
  <2> QED
    BY <1>1, <2>1, <2>2 DEF SleepEnds, IInv, Unchanging
<1>2. CASE phase = "running"
  <2>1. Controlled(sup', phase', attempt', gen')
    BY <1>2 DEF SleepEnds, IInv, Controlled, Supervisor, Runnable
  <2>2. Consistent(call, active, queue, gen') /\ Placed(call, sup', phase)
    BY <1>2, GenerationBegins DEF SleepEnds, IInv, Controlled, Runnable
  <2> QED
    BY <1>2, <2>1, <2>2 DEF SleepEnds, IInv, Unchanging
<1> QED
  BY <1>1, <1>2

LEMMA FallsBackStep ==
  ASSUME IInv, FallsBack
  PROVE  IInv'
<1>1. Controlled(sup', phase', attempt', gen')
  BY DEF FallsBack, IInv, Controlled
<1>2. Consistent(call, active, queue, gen') /\ Placed(call, sup, phase)
  BY GenerationBegins DEF FallsBack, IInv, Controlled, Runnable
<1> QED
  BY <1>1, <1>2 DEF FallsBack, IInv, Unchanging

LEMMA AttemptSucceedsStep ==
  ASSUME IInv, AttemptSucceeds
  PROVE  IInv'
<1> DEFINE s == [sup EXCEPT !.state = "ready", !.loop = "none",
                   !.incident = IF @ = "none" THEN "none" ELSE "recovered"]
<1>1. sup.state = "starting" /\ sup \in Supervisor /\ phase = "running"
  BY DEF AttemptSucceeds, IInv, Controlled
<1>2. Proceed(s, call, active, queue, "live")
  BY <1>1 DEF AttemptSucceeds
<1>3. s \in Supervisor /\ s.state = "ready" /\ s.loop = "none"
  BY <1>1 DEF Supervisor
<1> HIDE DEF s
<1>4. attempt' = "none" /\ phase' = phase /\ Unchanging'
  BY DEF AttemptSucceeds, IInv, Unchanging
<1>5. Controlled(s, phase', attempt', "live")
  BY <1>1, <1>3, <1>4 DEF Controlled
<1>6. Consistent(call, active, queue, "live") /\ Placed(call, s, phase')
  BY <1>1, <1>4, GenerationBegins DEF Runnable
<1> QED
  BY <1>2, <1>4, <1>5, <1>6, Proceeds

LEMMA AttemptFailsStep ==
  ASSUME IInv, AttemptFails
  PROVE  IInv'
<1> DEFINE next == CASE sup.loop = "first" -> Restarted([sup EXCEPT !.state = "failed", !.loop = "none"], FALSE)
                [] sup.loop = "attempt" /\ sup.state = "starting" ->
                     NextTry([sup EXCEPT !.state = "restarting"], sup.tries + 1)
                [] OTHER -> [sup EXCEPT !.loop = "none"]
<1>1. Proceed(next, call, active, queue, "none") /\ Blamed(next, "fault")
  BY DEF AttemptFails
<1>2. sup \in Supervisor /\ attempt' = "none" /\ phase' = phase /\ transport' = transport
  BY DEF AttemptFails, IInv, Controlled
<1>3. Unchanging'
  BY <1>1, <1>2, BlamedKeeps
<1>4. Consistent(call, active, queue, "none")
  BY GenerationEnds DEF IInv
<1>5. Controlled(next, phase', attempt', "none") /\ Placed(call, next, phase')
  <2>1. CASE sup.loop = "first"
    <3> DEFINE b == [sup EXCEPT !.state = "failed", !.loop = "none"]
    <3>1. b \in Supervisor /\ b.loop = "none" /\ next = Restarted(b, FALSE)
      BY <1>2, <2>1 DEF Supervisor
    <3>2. phase = "running" /\ sup.state = "starting"
      BY <2>1 DEF IInv, Controlled
    <3> HIDE DEF b, next
    <3>3. Controlled(next, phase', attempt', "none")
      BY <1>2, <3>1, <3>2, RestartControlled
    <3>4. Placed(call, next, phase')
      BY <1>2, <3>2, GenerationBegins DEF Runnable
    <3> QED
      BY <3>3, <3>4
  <2>2. CASE sup.loop = "attempt" /\ sup.state = "starting"
    <3> DEFINE b == [sup EXCEPT !.state = "restarting"]
               n == sup.tries + 1
    <3>1. b \in Supervisor /\ b.state = "restarting" /\ next = NextTry(b, n)
      BY <1>2, <2>2 DEF Supervisor
    <3>2. n \in Nat
      BY <1>2, ProviderAssumption DEF Supervisor
    <3> HIDE DEF b, n, next
    <3>3. next \in Supervisor /\ next.loop \in {"none", "sleep"}
          /\ next.state \in {"restarting", "quarantined"}
      BY <3>1, <3>2, NextTryKeeps
    <3>4. phase # "stopped"
      BY <2>2 DEF IInv, Controlled
    <3>5. Controlled(next, phase', attempt', "none")
      BY <1>2, <3>3, <3>4 DEF IInv, Controlled, Runnable
    <3>6. Placed(call, next, phase')
      BY <1>2, <2>2, GenerationBegins DEF Runnable
    <3> QED
      BY <3>5, <3>6
  <2>3. CASE sup.loop # "first" /\ ~ (sup.loop = "attempt" /\ sup.state = "starting")
    <3>1. next = [sup EXCEPT !.loop = "none"]
      BY <2>3
    <3> HIDE DEF next
    <3>2. next \in Supervisor /\ next.loop = "none" /\ next.state = sup.state
      BY <1>2, <3>1 DEF Supervisor
    <3>3. Controlled(next, phase', attempt', "none")
      BY <1>2, <3>2 DEF IInv, Controlled
    <3>4. Placed(call, next, phase')
      BY <1>2, <3>2 DEF IInv, Placed
    <3> QED
      BY <3>3, <3>4
  <2> QED
    BY <2>1, <2>2, <2>3
<1> HIDE DEF next
<1> QED
  BY <1>1, <1>3, <1>4, <1>5, Proceeds

\* A step that changes one call, which neither is in the queue nor enters the slot.
LEMMA OffSlot ==
  ASSUME IInv, NEW c \in Calls, call[c].stage \in {"new", "admitted", "done"},
         NEW r \in CallRecord, Counted(r, gen), r.stage \in {"new", "admitted", "done"},
         call' = [call EXCEPT ![c] = r],
         UNCHANGED <<transport, sup, phase, attempt, gen, queue, active, blame>>
  PROVE  IInv'
<1>1. Consistent(call, active, queue, gen) /\ active # c
  BY DEF IInv, Consistent, IsSlot, AtProvider
<1>2. r.stage \notin AtProvider \cup {"recovering"} /\ r.stage # "queued"
      /\ call[c].stage # "queued" /\ active \in Calls \cup {NoCall}
  BY <1>1 DEF AtProvider, Consistent, IsSlot
<1>3. Consistent(call', active, queue, gen)
  BY <1>1, <1>2, CallMoves
<1>4. Placed(call', sup, phase)
  BY <1>2 DEF IInv, Placed, Consistent
<1> QED
  BY <1>3, <1>4 DEF IInv, Unchanging

LEMMA RequestStep ==
  ASSUME IInv, NEW c \in Calls, Request(c)
  PROVE  IInv'
<1> DEFINE stage == IF IsReady THEN "admitted" ELSE "done"
           r == [call[c] EXCEPT !.stage = stage]
<1>1. call[c] \in CallRecord /\ Counted(call[c], gen) /\ call[c].stage = "new"
  BY DEF IInv, Consistent, Request
<1>2. call' = [call EXCEPT ![c] = r]
  BY DEF Request
<1>3. stage \in {"admitted", "done"}
  OBVIOUS
<1> HIDE DEF stage
<1>4. r \in CallRecord /\ r.stage = stage /\ r.ran = call[c].ran
  BY <1>1, <1>3 DEF CallRecord, Waiting
<1> HIDE DEF r
<1>5. Counted(r, gen)
  BY <1>1, <1>3, <1>4 DEF Counted, Waiting, AtProvider
<1> QED
  BY <1>1, <1>2, <1>3, <1>4, <1>5, OffSlot DEF Request

LEMMA AgainStep ==
  ASSUME IInv, NEW c \in Calls, Again(c)
  PROVE  IInv'
<1>1. Fresh \in CallRecord /\ Fresh.stage = "new" /\ Counted(Fresh, gen)
  BY DEF Fresh, CallRecord, Counted, Waiting, AtProvider
<1> QED
  BY <1>1, OffSlot DEF Again

\* A call is appended to the queue.
LEMMA CallQueued ==
  ASSUME NEW calls, NEW slot, NEW q, NEW g, Consistent(calls, slot, q, g), Len(q) < MaxQueue,
         NEW c \in Calls, calls[c].stage = "admitted",
         NEW r \in CallRecord, r.stage = "queued", r.ran = 0
  PROVE  Consistent([calls EXCEPT ![c] = r], slot, Append(q, c), g)
<1> DEFINE after == [calls EXCEPT ![c] = r]
           longer == Append(q, c)
<1>1. after \in [Calls -> CallRecord] /\ \A d \in Calls : after[d] = IF d = c THEN r ELSE calls[d]
  BY DEF Consistent
<1>2. q \in Seq(Calls) /\ Len(q) \in Nat
  BY LenProperties DEF Consistent, IsQueue
<1>3. /\ longer \in Seq(Calls) /\ Len(longer) = Len(q) + 1
      /\ \A i \in 1..Len(q) : longer[i] = q[i]
      /\ longer[Len(q) + 1] = c
  BY <1>2, AppendProperties
<1> HIDE DEF after, longer
<1>4. \A d \in Calls : Counted(after[d], g)
  <2>1. Counted(r, g)
    BY DEF Counted, AtProvider
  <2> QED
    BY <1>1, <2>1 DEF Consistent
<1>5. \A i \in 1..Len(q) : q[i] # c
  BY DEF Consistent, IsQueue
<1>6. IsQueue(after, longer)
  <2>1. Len(longer) <= MaxQueue
    BY <1>2, <1>3, ProviderAssumption
  <2>2. ASSUME NEW i \in 1..Len(longer), NEW j \in 1..Len(longer), longer[i] = longer[j]
        PROVE  i = j
    <3>1. (i \in 1..Len(q) \/ i = Len(q) + 1) /\ (j \in 1..Len(q) \/ j = Len(q) + 1)
      BY <1>2, <1>3
    <3> QED
      BY <1>3, <1>5, <2>2, <3>1 DEF Consistent, IsQueue
  <2>3. ASSUME NEW d \in Calls
        PROVE  after[d].stage = "queued" <=> \E i \in 1..Len(longer) : longer[i] = d
    <3>1. CASE d = c
      <4>1. Len(q) + 1 \in 1..Len(longer)
        BY <1>2, <1>3
      <4> QED
        BY <1>1, <1>3, <3>1, <4>1
    <3>2. CASE d # c
      <4>1. after[d].stage = "queued" <=> \E i \in 1..Len(q) : q[i] = d
        BY <1>1, <3>2 DEF Consistent, IsQueue
      <4>2. (\E i \in 1..Len(q) : q[i] = d) => \E i \in 1..Len(longer) : longer[i] = d
        BY <1>2, <1>3
      <4>3. ASSUME NEW i \in 1..Len(longer), longer[i] = d PROVE i \in 1..Len(q) /\ q[i] = d
        BY <1>2, <1>3, <3>2, <4>3
      <4> QED
        BY <4>1, <4>2, <4>3
    <3> QED
      BY <3>1, <3>2
  <2> QED
    BY <1>3, <2>1, <2>2, <2>3 DEF IsQueue
<1>7. IsSlot(after, slot)
  BY <1>1 DEF Consistent, IsSlot, AtProvider
<1>8. Consistent(after, slot, longer, g)
  BY <1>1, <1>4, <1>6, <1>7 DEF Consistent
<1> QED
  BY <1>8 DEF after, longer

LEMMA InvokeStep ==
  ASSUME IInv, NEW c \in Calls, NEW aborted \in BOOLEAN, Invoke(c, aborted)
  PROVE  IInv'
<1> DEFINE accepted == /\ sup.state \in Runnable \cup {"restarting"}
                       /\ Len(queue) < MaxQueue /\ ~ aborted
<1>1. call[c].stage = "admitted" /\ call[c] \in CallRecord /\ Counted(call[c], gen)
      /\ call[c].ran = 0
  BY DEF Invoke, IInv, Consistent, Counted, Waiting
<1>2. CASE accepted
  <2> DEFINE late == phase # "running"
             r == [call[c] EXCEPT !.late = late, !.stage = "queued"]
             after == [call EXCEPT ![c] = r]
  <2>1. Proceed(sup, after, active, Append(queue, c), gen)
    <3>1. [[call EXCEPT ![c].late = late] EXCEPT ![c].stage = "queued"] = after
      BY DEF IInv, Consistent
    <3> QED
      BY <1>2, <3>1 DEF Invoke
  <2>2. late \in BOOLEAN
    OBVIOUS
  <2> HIDE DEF late
  <2>3. r \in CallRecord /\ r.stage = "queued" /\ r.ran = 0
    BY <1>1, <2>2 DEF CallRecord, Waiting
  <2> HIDE DEF r
  <2>4. Consistent(after, active, Append(queue, c), gen)
    BY <1>1, <1>2, <2>3, CallQueued DEF IInv
  <2>5. Placed(after, sup, phase)
    BY <2>3 DEF IInv, Placed, Consistent, AtProvider
  <2> HIDE DEF after
  <2>6. phase' = phase /\ attempt' = attempt /\ Unchanging'
    BY DEF Invoke, IInv, Unchanging
  <2>7. Controlled(sup, phase', attempt', gen)
    BY <2>6 DEF IInv
  <2> QED
    BY <2>1, <2>4, <2>5, <2>6, <2>7, Proceeds
<1>3. CASE ~ accepted
  <2>1. call' = [call EXCEPT ![c] = Done(call[c])]
    BY <1>3 DEF Invoke, Finish, IInv, Consistent
  <2>2. Done(call[c]) \in CallRecord /\ Done(call[c]).stage = "done"
        /\ Counted(Done(call[c]), gen)
    BY <1>1, DoneRecord
  <2> QED
    BY <1>1, <1>3, <2>1, <2>2, OffSlot DEF Invoke
<1> QED
  BY <1>2, <1>3

LEMMA AbortQueuedStep ==
  ASSUME IInv, NEW c \in Calls, AbortQueued(c)
  PROVE  IInv'
<1>1. Consistent(call, active, queue, gen) /\ queue \in Seq(Calls) /\ Len(queue) \in Nat
  BY LenProperties DEF IInv, Consistent, IsQueue
<1>2. PICK i \in 1..Len(queue) : queue[i] = c /\ queue' = RemoveAt(queue, i)
  BY <1>1, LenProperties DEF AbortQueued
<1>3. /\ queue' \in Seq(Calls) /\ Len(queue') = Len(queue) - 1
      /\ \A j \in 1..(Len(queue) - 1) : queue'[j] = IF j < i THEN queue[j] ELSE queue[j + 1]
  BY <1>1, <1>2, RemoveAtProperties
<1>4. call[c] \in CallRecord /\ Counted(call[c], gen) /\ call[c].stage = "queued"
  BY <1>1 DEF Consistent, AbortQueued
<1> DEFINE r == Done(call[c])
<1>5. call' = [call EXCEPT ![c] = r]
  BY <1>1 DEF AbortQueued, Finish, Consistent
<1>6. r \in CallRecord /\ r.stage = "done" /\ Counted(r, gen)
  BY <1>4, DoneRecord
<1> HIDE DEF r
<1>7. call' \in [Calls -> CallRecord]
      /\ \A d \in Calls : call'[d] = IF d = c THEN r ELSE call[d]
  BY <1>1, <1>5, <1>6 DEF Consistent
<1>8. \A d \in Calls : Counted(call'[d], gen)
  BY <1>1, <1>6, <1>7 DEF Consistent
<1>9. IsQueue(call', queue')
  <2>1. Len(queue') <= MaxQueue
    BY <1>1, <1>3, ProviderAssumption DEF Consistent, IsQueue
  <2>2. ASSUME NEW j \in 1..Len(queue'), NEW k \in 1..Len(queue'), queue'[j] = queue'[k]
        PROVE  j = k
    <3> DEFINE at(n) == IF n < i THEN n ELSE n + 1
    <3>1. queue'[j] = queue[at(j)] /\ queue'[k] = queue[at(k)]
      BY <1>3
    <3>2. at(j) \in 1..Len(queue) /\ at(k) \in 1..Len(queue)
      BY <1>1, <1>3
    <3>3. at(j) = at(k)
      BY <1>1, <2>2, <3>1, <3>2 DEF Consistent, IsQueue
    <3> QED
      BY <1>1, <1>3, <3>3
  <2>3. ASSUME NEW d \in Calls, call'[d].stage = "queued"
        PROVE  \E j \in 1..Len(queue') : queue'[j] = d
    <3>1. d # c /\ call[d].stage = "queued"
      BY <1>6, <1>7, <2>3
    <3>2. PICK k \in 1..Len(queue) : queue[k] = d
      BY <1>1, <3>1 DEF Consistent, IsQueue
    <3>3. k # i
      BY <1>2, <3>1, <3>2
    <3>4. CASE k < i
      <4>1. k \in 1..(Len(queue) - 1)
        BY <1>1, <3>4
      <4> QED
        BY <1>3, <3>2, <3>4, <4>1
    <3>5. CASE ~ (k < i)
      <4>1. k - 1 \in 1..(Len(queue) - 1) /\ ~ (k - 1 < i) /\ (k - 1) + 1 = k
        BY <1>1, <3>3, <3>5
      <4> QED
        BY <1>3, <3>2, <4>1
    <3> QED
      BY <3>4, <3>5
  <2>4. ASSUME NEW d \in Calls, NEW j \in 1..Len(queue'), queue'[j] = d
        PROVE  call'[d].stage = "queued"
    <3> DEFINE k == IF j < i THEN j ELSE j + 1
    <3>1. queue[k] = d /\ k \in 1..Len(queue) /\ k # i
      BY <1>1, <1>3, <2>4
    <3> HIDE DEF k
    <3>2. d # c
      BY <1>1, <1>2, <3>1 DEF Consistent, IsQueue
    <3> QED
      BY <1>1, <1>7, <3>1, <3>2 DEF Consistent, IsQueue
  <2> QED
    BY <1>3, <2>1, <2>2, <2>3, <2>4 DEF IsQueue
<1>10. IsSlot(call', active)
  BY <1>1, <1>4, <1>6, <1>7 DEF Consistent, IsSlot, AtProvider
<1>11. Consistent(call', active, queue', gen)
  BY <1>7, <1>8, <1>9, <1>10 DEF Consistent
<1>12. Placed(call', sup, phase)
  BY <1>6, <1>7 DEF IInv, Placed, AtProvider
<1> QED
  BY <1>11, <1>12 DEF AbortQueued, IInv, Unchanging

LEMMA AnswerStep ==
  ASSUME IInv, NEW c \in Calls, NEW ok \in BOOLEAN, Answer(c, ok)
  PROVE  IInv'
<1> DEFINE s == IF ok /\ sup.incident = "recovered" THEN [sup EXCEPT !.incident = "none"] ELSE sup
<1>1. Proceed(s, Finish({c}), NoCall, queue, gen)
  BY DEF Answer
<1>2. Consistent(Finish({c}), NoCall, queue, gen)
  BY ActiveSettles DEF IInv, Answer, Dispatched
<1>3. s \in Supervisor /\ s.state = sup.state /\ s.loop = sup.loop
  BY DEF IInv, Controlled, Supervisor
<1> HIDE DEF s
<1>4. phase' = phase /\ attempt' = attempt /\ Unchanging'
  BY DEF Answer, IInv, Unchanging
<1>5. Controlled(s, phase', attempt', gen)
  BY <1>3, <1>4 DEF IInv, Controlled
<1> QED
  BY <1>1, <1>2, <1>4, <1>5, ProceedsEmpty

LEMMA FaultStep ==
  ASSUME IInv, NEW c \in Calls, Fault(c)
  PROVE  IInv'
<1>1. PICK g \in {gen, "none"} : Faulted(c, FALSE, g, "fault")
  BY DEF Fault
<1> QED
  BY <1>1, FaultedKeeps DEF Fault, Dispatched

LEMMA ProcessExitsStep ==
  ASSUME IInv, ProcessExits
  PROVE  IInv'
<1>1. CASE active # NoCall /\ Dispatched(active)
  <2>1. active \in Calls /\ Faulted(active, FALSE, "none", "fault")
    BY <1>1 DEF ProcessExits, IInv, Consistent, IsSlot
  <2> QED
    BY <2>1, FaultedKeeps
<1>2. CASE ~ (active # NoCall /\ Dispatched(active))
  <2>1. gen' = "none" /\ UNCHANGED <<transport, sup, phase, attempt, queue, active, call, blame>>
    BY <1>2 DEF ProcessExits
  <2>2. Consistent(call, active, queue, "none")
    BY GenerationEnds DEF IInv
  <2>3. Controlled(sup, phase, attempt, "none")
    BY DEF IInv, Controlled
  <2> QED
    BY <2>1, <2>2, <2>3 DEF IInv, Unchanging
<1> QED
  BY <1>1, <1>2

\* A call with another count.
Recounted(r, n, stage) == [r EXCEPT !.ran = n, !.stage = stage]

LEMMA RecountedRecord ==
  ASSUME NEW r \in CallRecord, NEW n \in Int, NEW stage \in {"recovering", "done"}
  PROVE  /\ Recounted(r, n, stage) \in CallRecord
         /\ Recounted(r, n, stage).stage = stage /\ Recounted(r, n, stage).ran = n
  BY DEF Recounted, CallRecord, Waiting

\* A request that reached a live endpoint ran once; a refused session takes that back.
LEMMA RefusedStep ==
  ASSUME IInv, NEW c \in Calls, NEW session \in BOOLEAN, Refused(c, session)
  PROVE  IInv'
<1> DEFINE n == IF session THEN call[c].ran - 1 ELSE call[c].ran
           g == IF session THEN "none" ELSE gen
           refused == [call EXCEPT ![c].ran = IF session THEN @ - 1 ELSE @]
           w == Recounted(call[c], n, "recovering")
           d == Recounted(call[c], n, "done")
<1>1. /\ c = active /\ call[c].stage \in AtProvider /\ gen = "live"
      /\ call[c] \in CallRecord /\ call[c].ran = 1 /\ call \in [Calls -> CallRecord]
  BY DEF Refused, Dispatched, AtProvider, IInv, Consistent, Counted
<1>2. /\ phase = "running" /\ sup \in Supervisor /\ sup.state \in Runnable
      /\ sup.loop = "none" /\ attempt \in {"none", "cancelled"}
  BY <1>1 DEF IInv, Controlled, Placed, Runnable
<1>3. n \in {0, 1} /\ n \in Int /\ (session => n = 0) /\ g \in {gen, "none"}
  BY <1>1
<1>4. /\ [refused EXCEPT ![c].stage = "recovering"] = [call EXCEPT ![c] = w]
      /\ [refused EXCEPT ![c].stage = "done"] = [call EXCEPT ![c] = d]
  BY <1>1 DEF Recounted
<1>5. phase' = phase /\ attempt' = attempt /\ transport' = transport
  BY DEF Refused
<1>6. Consistent(call, active, queue, g)
  BY <1>3, GenerationEnds DEF IInv
<1>7. CASE call[c].stage = "sent" /\ Replayable(session)
  <2> DEFINE s == Restarted(sup, session)
  <2>1. session /\ n = 0 /\ g = "none"
    BY <1>3, <1>7 DEF Replayable
  <2>2. Proceed(s, [call EXCEPT ![c] = w], c, queue, g) /\ Blamed(s, "fault")
    BY <1>4, <1>7 DEF Refused
  <2> HIDE DEF n, g, refused
  <2>3. w \in CallRecord /\ w.stage = "recovering" /\ w.ran = 0
    BY <1>1, <2>1, RecountedRecord
  <2> HIDE DEF w, s
  <2>4. Counted(w, g)
    BY <2>3 DEF Counted, AtProvider
  <2>5. Consistent([call EXCEPT ![c] = w], c, queue, g)
    BY <1>1, <1>6, <2>3, <2>4, CallMoves DEF AtProvider
  <2>6. Placed([call EXCEPT ![c] = w], s, phase')
    BY <1>1, <1>2, <1>5, <2>3 DEF Placed, IInv, Consistent, IsSlot, AtProvider
  <2>7. Controlled(s, phase', attempt', g)
    BY <1>2, <1>5, <2>1, RestartControlled DEF s
  <2>8. Unchanging'
    BY <1>5, <2>2, BlamedKeeps
  <2> QED
    BY <2>2, <2>5, <2>6, <2>7, <2>8, Proceeds
<1>8. CASE ~ (call[c].stage = "sent" /\ Replayable(session))
  <2>1. /\ Proceed(AfterFault(session), [call EXCEPT ![c] = d], NoCall, queue, g)
        /\ Blamed(AfterFault(session), "fault")
    BY <1>4, <1>8 DEF Refused
  <2> HIDE DEF n, g, refused
  <2>2. d \in CallRecord /\ d.stage = "done" /\ d.ran \in {0, 1}
    BY <1>1, <1>3, RecountedRecord
  <2> HIDE DEF d
  <2>3. Counted(d, g)
    BY <2>2 DEF Counted, AtProvider, Waiting
  <2>4. Consistent([call EXCEPT ![c] = d], NoCall, queue, g)
    BY <1>1, <1>6, <2>2, <2>3, CallMoves DEF AtProvider
  <2>5. Controlled(AfterFault(session), phase', attempt', g)
    BY <1>3, <1>5, FaultControlled
  <2>6. Unchanging'
    BY <1>5, <2>1, BlamedKeeps
  <2> QED
    BY <2>1, <2>4, <2>5, <2>6, ProceedsEmpty
<1> QED
  BY <1>7, <1>8

\* A call whose recovery is over is sent for the second time, or settles.
LEMMA ResumeStep ==
  ASSUME IInv, NEW c \in Calls, Resume(c)
  PROVE  IInv'
<1>1. /\ c = active /\ call[c].stage = "recovering" /\ call[c] \in CallRecord
      /\ call[c].ran = 0 /\ call \in [Calls -> CallRecord] /\ sup \in Supervisor
  BY DEF Resume, IInv, Consistent, Counted, IsSlot, Waiting, Controlled
<1>2. phase' = phase /\ attempt' = attempt /\ transport' = transport
  BY DEF Resume
<1>3. Consistent(Finish({c}), NoCall, queue, gen)
  BY <1>1, ActiveSettles DEF IInv
<1>4. CASE call[c].aborted \/ phase # "running"
  <2>1. Proceed(sup, Finish({c}), NoCall, queue, gen) /\ blame' = blame
    BY <1>4 DEF Resume
  <2>2. Controlled(sup, phase', attempt', gen) /\ Unchanging'
    BY <1>2, <2>1 DEF IInv, Unchanging
  <2> QED
    BY <1>3, <2>1, <2>2, ProceedsEmpty
<1>5. CASE ~ (call[c].aborted \/ phase # "running") /\ sup.state \in Runnable
  <2> DEFINE r == [Sent(call[c], gen) EXCEPT !.stage = "resent"]
  <2>1. call' = [call EXCEPT ![c] = r] /\ UNCHANGED <<sup, gen, queue, active, blame>>
    BY <1>5 DEF Resume
  <2>2. r \in CallRecord /\ r.stage = "resent" /\ r.ran \in {0, 1} /\ (gen = "live" => r.ran = 1)
    <3>1. Sent(call[c], gen) \in CallRecord /\ Sent(call[c], gen).ran \in {0, 1}
          /\ (gen = "live" => Sent(call[c], gen).ran = 1)
      BY <1>1, SentRecord
    <3> QED
      BY <3>1 DEF CallRecord, AtProvider
  <2> HIDE DEF r
  <2>3. Counted(r, gen)
    BY <2>2 DEF Counted, Waiting
  <2>4. Consistent(call', active, queue, gen)
    BY <1>1, <2>1, <2>2, <2>3, CallMoves DEF IInv, AtProvider
  <2>5. Placed(call', sup, phase)
    BY <1>1, <1>5, <2>1, <2>2 DEF Placed, IInv
  <2> QED
    BY <1>2, <2>1, <2>4, <2>5 DEF IInv, Unchanging
<1>6. CASE ~ (call[c].aborted \/ phase # "running") /\ sup.state \notin Runnable
  <2>1. Proceed(Begun(sup), Finish({c}), NoCall, queue, gen) /\ Blamed(Begun(sup), "fault")
    BY <1>6 DEF Resume
  <2>2. Controlled(Begun(sup), phase', attempt', gen)
    BY <1>1, <1>2, BegunKeeps DEF IInv, Controlled
  <2>3. Unchanging'
    BY <1>2, <2>1, BlamedKeeps
  <2> QED
    BY <1>3, <2>1, <2>2, <2>3, ProceedsEmpty
<1> QED
  BY <1>4, <1>5, <1>6

LEMMA AbortActiveStep ==
  ASSUME IInv, NEW c \in Calls, AbortActive(c)
  PROVE  IInv'
<1>1. c = active
  BY DEF AbortActive, Dispatched
<1>2. CASE transport = "stdio" /\ gen = "live"
  BY <1>1, <1>2, FaultedKeeps DEF AbortActive
<1>3. CASE ~ (transport = "stdio" /\ gen = "live")
  <2>1. /\ Proceed(sup, Finish({c}), NoCall, queue, gen)
        /\ UNCHANGED <<transport, phase, attempt, blame>>
    BY <1>3 DEF AbortActive
  <2>2. Consistent(Finish({c}), NoCall, queue, gen)
    BY <1>1, ActiveSettles DEF IInv
  <2>3. Controlled(sup, phase', attempt', gen) /\ Unchanging'
    BY <2>1 DEF IInv, Unchanging
  <2> QED
    BY <2>1, <2>2, <2>3, ProceedsEmpty
<1> QED
  BY <1>2, <1>3

LEMMA AbortRecoveringStep ==
  ASSUME IInv, NEW c \in Calls, AbortRecovering(c)
  PROVE  IInv'
<1> DEFINE r == [call[c] EXCEPT !.aborted = TRUE]
<1>1. /\ c = active /\ call[c].stage = "recovering" /\ call[c] \in CallRecord
      /\ Counted(call[c], gen)
  BY DEF AbortRecovering, IInv, Consistent, IsSlot
<1>2. call' = [call EXCEPT ![c] = r]
  BY DEF AbortRecovering
<1>3. r \in CallRecord /\ r.stage = "recovering" /\ r.ran = call[c].ran
  BY <1>1 DEF CallRecord
<1> HIDE DEF r
<1>4. Counted(r, gen)
  BY <1>1, <1>3 DEF Counted
<1>5. Consistent(call', active, queue, gen)
  BY <1>1, <1>2, <1>3, <1>4, CallMoves DEF IInv, AtProvider
<1>6. Placed(call', sup, phase)
  BY <1>1, <1>2, <1>3 DEF IInv, Placed, Consistent
<1> QED
  BY <1>5, <1>6 DEF AbortRecovering, IInv, Unchanging

LEMMA TimeoutStep ==
  ASSUME IInv, NEW c \in Calls, Timeout(c)
  PROVE  IInv'
<1>1. PICK g \in {gen, "none"} : Faulted(c, FALSE, g, "fault")
  BY DEF Timeout
<1> QED
  BY <1>1, FaultedKeeps DEF Timeout

LEMMA IncidentExpiresStep ==
  ASSUME IInv, IncidentExpires
  PROVE  IInv'
<1>1. /\ sup' \in Supervisor /\ sup'.state = sup.state /\ sup'.loop = sup.loop
  <2>1. sup \in Supervisor /\ sup.recent - 1 \in 0..MaxSessionIncidents
    BY ProviderAssumption DEF IncidentExpires, IInv, Controlled, Supervisor
  <2> QED
    BY <2>1 DEF IncidentExpires, Supervisor
<1>2. Controlled(sup', phase, attempt, gen)
  BY <1>1 DEF IInv, Controlled
<1>3. Placed(call, sup', phase)
  BY <1>1 DEF IInv, Placed
<1> QED
  BY <1>2, <1>3 DEF IncidentExpires, IInv, Unchanging

\* stop() settles the active and the queued calls and ends the attempt and the generation.
LEMMA StopStep ==
  ASSUME IInv, Stop
  PROVE  IInv'
<1>1. Consistent(call, active, queue, gen)
  BY DEF IInv
<1>2. \A c \in Calls : c \in ToSet(queue) <=> call[c].stage = "queued"
  BY <1>1, LenProperties DEF Consistent, IsQueue, ToSet
<1>3. \A c \in Calls : /\ call[c] \in CallRecord /\ Counted(call[c], gen)
                       /\ Done(call[c]) \in CallRecord /\ Done(call[c]).stage = "done"
                       /\ Counted(Done(call[c]), gen)
  BY <1>1, DoneRecord DEF Consistent
<1>4. \A c \in Calls : call'[c] = IF call[c].stage = "queued" \/ c = active
                                  THEN Done(call[c]) ELSE call[c]
  BY <1>2, CallsApart DEF Stop, Finish
<1>5. call' \in [Calls -> CallRecord]
  BY <1>3 DEF Stop, Finish
<1>6. \A c \in Calls : Counted(call'[c], "none")
  BY <1>3, <1>4 DEF Counted
<1>7. IsQueue(call', <<>>)
  BY <1>3, <1>4, EmptySeq, ProviderAssumption DEF IsQueue
<1>8. IsSlot(call', NoCall)
  <2>1. ASSUME NEW c \in Calls PROVE call'[c].stage \notin AtProvider \cup {"recovering"}
    <3>1. c # active => call[c].stage \notin AtProvider \cup {"recovering"}
      BY <1>1 DEF Consistent, IsSlot
    <3> QED
      BY <1>3, <1>4, <3>1 DEF AtProvider
  <2> QED
    BY <2>1, CallsApart DEF IsSlot
<1>9. Consistent(call', NoCall, <<>>, "none")
  BY <1>5, <1>6, <1>7, <1>8 DEF Consistent
<1>10. Placed(call', sup', phase')
  BY <1>9, NobodyPlaced
<1>11. Controlled(sup', phase', attempt', "none")
  BY DEF Stop, Cancelled, IInv, Controlled, Supervisor, Runnable
<1> QED
  BY <1>9, <1>10, <1>11 DEF Stop, IInv, Unchanging

LEMMA StopEndsStep ==
  ASSUME IInv, StopEnds
  PROVE  IInv'
<1>1. Controlled(sup', phase', attempt', gen')
  BY DEF StopEnds, IInv, Controlled, Supervisor, Runnable
<1>2. Placed(call, sup', phase')
  BY DEF StopEnds, IInv, Placed, Controlled, Supervisor
<1> QED
  BY <1>1, <1>2 DEF StopEnds, IInv, Unchanging

-------------------------------------------------------------------------------
(* The theorems.                                                                 *)

LEMMA StepHolds == IInv /\ [Next]_vars => IInv'
<1> SUFFICES ASSUME IInv, [Next]_vars PROVE IInv'
  OBVIOUS
<1>1. ASSUME NEW c \in Calls, CallStep(c) PROVE IInv'
  BY <1>1, RequestStep, AgainStep, InvokeStep, AnswerStep, RefusedStep, FaultStep, ResumeStep,
     TimeoutStep, AbortQueuedStep, AbortActiveStep, AbortRecoveringStep DEF CallStep
<1>2. CASE Start \/ SleepEnds \/ FallsBack \/ AttemptEnds \/ ProcessExits \/ IncidentExpires
  BY <1>2, StartStep, SleepEndsStep, FallsBackStep, AttemptSucceedsStep, AttemptFailsStep,
     ProcessExitsStep, IncidentExpiresStep DEF AttemptEnds
<1>3. CASE Stop \/ StopEnds
  BY <1>3, StopStep, StopEndsStep
<1>4. CASE UNCHANGED vars
  BY <1>4 DEF vars, IInv, Unchanging
<1> QED
  BY <1>1, <1>2, <1>3, <1>4 DEF Next

LEMMA Invariance == Spec => []IInv
  BY InitHolds, StepHolds, PTL DEF Spec

\* The queue holds each queued call once and never more than maxQueue of them, one call
\* at most holds the slot, and the budgets of restarts and sessions are kept.
THEOREM TypeCorrect == Spec => []TypeOK
<1>1. IInv => TypeOK
  <2> SUFFICES ASSUME IInv PROVE TypeOK
    OBVIOUS
  <2>1. /\ queue \in Seq(Calls) /\ Len(queue) <= MaxQueue
        /\ \A c \in Calls : call[c].stage = "queued" <=> c \in ToSet(queue)
    BY LenProperties DEF IInv, Consistent, IsQueue, ToSet
  <2>2. /\ active \in Calls \cup {NoCall}
        /\ \A c \in Calls : call[c].stage \in {"sent", "resent", "recovering"} <=> c = active
    BY DEF IInv, Consistent, IsSlot, AtProvider
  <2> QED
    BY <2>1, <2>2 DEF IInv, Unchanging, Controlled, Supervisor, TypeOK
<1> QED
  BY <1>1, Invariance, PTL

\* A call is executed at most once, through any number of lost sessions, recoveries,
\* restarts and timeouts, and a call that is still queued was never dispatched.
THEOREM ExecutedAtMostOnce == Spec => []AtMostOneExecution
<1>1. IInv => AtMostOneExecution
  BY DEF IInv, Consistent, Counted, Waiting, AtMostOneExecution
<1> QED
  BY <1>1, Invariance, PTL

\* After stop() nothing is left that runs or could still start, whatever was starting,
\* falling back, sleeping or recovering when it was called.
THEOREM StopIsTheEnd == Spec => []StopIsFinal
<1>1. IInv => StopIsFinal
  BY DEF IInv, Controlled, StopIsFinal
<1> QED
  BY <1>1, Invariance, PTL

-------------------------------------------------------------------------------
(* The coding context: the inductive invariant of its part.                         *)

\* What a discovery of the key answers as long as nothing was edited.
First(key) == [global |-> 1, project |-> IF key = "project" THEN 1 ELSE 0]

\* The counters of the world lag behind the changes, so that each stays in its range.
Paced == version <= changes + 1 /\ \A key \in Keys : disk[key] <= changes + 1

\* The form of an operation: only a bootstrap with a project discovers twice, only a skill
\* is read from its file, under the revision that was just found, and whatever a receipt let
\* in names a token.
Shaped(o) ==
  /\ o.step = "rediscover" => o.kind = "bootstrap" /\ o.key = "project"
  /\ o.step = "rediscover" => o.held # NoSnapshot
  /\ o.step \in {"resolve", "discover"} /\ o.kind # "bootstrap" => o.held # NoSnapshot
  /\ o.step \in {"resolve", "discover", "skill-file"} /\ o.kind # "bootstrap" => o.token \in Tokens
  /\ o.step = "resolve" => o.key = "project" /\ o.found = NoSnapshot
  /\ o.step = "skill-file" => o.kind \in {"instructions", "resource"} /\ o.found = o.held
  /\ o.step = "admitted" /\ o.kind = "instructions" => o.read = o.held[o.key]

AllShaped == \A s \in Slots : op[s] # NoOp => Shaped(op[s])

\* The operation awaits a discovery of the key, and whoever holds the promise of one does.
InWait(o, key) ==
  /\ o.step \in {"discover", "rediscover"}
  /\ o.found = NoSnapshot
  /\ key = IF o.step = "rediscover" THEN "global" ELSE o.key

CallersWait ==
  \A key \in Keys, s \in Slots :
    s \in discoveries[key].callers => op[s] # NoOp /\ InWait(op[s], key)

Idle(s) == \A key \in Keys : s \notin discoveries[key].callers

\* As long as nothing changed: receipts and operations stand for the first instructions.
Original(r) ==
  ~ r.expired /\ r.version = 1 /\ r.globalRevision = 1 /\ r.revision = First(r.key)

Steady(o) ==
  /\ o.version = 1
  /\ o.kind # "bootstrap" /\ o.step \in {"resolve", "discover", "skill-file"} => o.held = First(o.key)
  /\ o.step = "rediscover" => o.held = First(o.key) /\ o.found \in {NoSnapshot, First("global")}
  /\ o.step = "discover" => o.found \in {NoSnapshot, First(o.key)}

\* A token that a bootstrap is about to hand out has its receipt, and is nobody else's.
Promised(s) ==
  /\ op[s].token \in Tokens
  /\ receipts[op[s].token] # NoReceipt /\ receipts[op[s].token].client = op[s].client
  /\ \A c \in Clients : held[c] # op[s].token
  /\ \A r \in Slots \ {s} : op[r] # NoOp /\ op[r].step = "booted" => op[r].token # op[s].token

Undisturbed ==
  changes = 0 =>
    /\ \A key \in Keys : discoveries[key].global \in {0, 1}
    /\ \A t \in Tokens : receipts[t] # NoReceipt => Original(receipts[t])
    /\ \A s \in Slots : op[s] # NoOp => Steady(op[s])
    /\ \A s \in Slots : op[s] # NoOp /\ op[s].step = "booted" => Promised(s)

ContextInv ==
  /\ HarnessTypeOK /\ version \in Version /\ held \in [Clients -> Tokens \cup {NoToken}]
  /\ Paced /\ AllShaped /\ CallersWait /\ Undisturbed /\ SessionsSurvive

-------------------------------------------------------------------------------
(* Writes and edits: their inductive invariant.                                     *)

\* The form of a call: only who holds the lock writes, a new file was not there, and what
\* is over tells what it did.
Written(c) ==
  /\ c.committed => c.step \in {"unlink", "finally", "answered"}
  /\ c.step \in Locked => ~ c.dry
  /\ c.dry => ~ c.committed
  /\ c.step = "recheck" \/ c.step = "rename" => c.exists
  /\ c.step = "link" => ~ c.exists
  /\ c.step = "unlink" => c.committed /\ ~ c.exists
  /\ c.step = "finally" => c.outcome # "none"
  /\ c.step \in {"finally", "answered"} =>
       /\ c.outcome = "applied" => c.committed
       /\ c.step = "answered" /\ c.outcome = "applied" => ~ CreatedByAnEdit(c)
       /\ c.committed =>
            \/ c.outcome = "applied"
            \/ c.step = "answered" /\ c.outcome = "cancelled" /\ c.tool = "edit" /\ c.interrupted
            \/ c.step = "answered" /\ c.outcome = "conflict" /\ CreatedByAnEdit(c)
            \/ c.outcome = "refused" /\ ~ c.exists

Holds(w) == write[w] # NoWrite /\ write[w].step \in Locked

\* A target is in the set as long as a call holds it, and one call at most does.
Locks ==
  /\ \A w \in Slots : Holds(w) => write[w].target \in writing
  /\ \A w, v \in Slots : Holds(w) /\ Holds(v) /\ write[w].target = write[v].target => w = v

\* From the second read to the rename, only an outsider's content can come.
Guarded ==
  \A w \in Slots :
    At(w, "rename") => Held(w) \in {write[w].expected, Outside, Absent}

FilesInv ==
  /\ FilesTypeOK /\ Locks /\ Guarded
  /\ \A w \in Slots : write[w] # NoWrite => Written(write[w])

-------------------------------------------------------------------------------
(* Commands: their inductive invariant.                                             *)

\* Only what is answered has an outcome, and one that was ended left nobody.
Ended(x) ==
  /\ x.step # "answered" => x.outcome = "none"
  /\ x.step = "validate" => ~ x.leader /\ x.descendant = "none" /\ x.cause = "none" /\ ~ x.listening
  /\ x.outcome \in {"timed-out", "cancelled"} => ~ x.leader /\ x.descendant = "none"

CommandsInv == CommandsTypeOK /\ \A r \in Slots : run[r] # NoRun => Ended(run[r])

SInv == ContextInv /\ FilesInv /\ CommandsInv /\ part \in {"context", "tools"}

-------------------------------------------------------------------------------
(* Operations and receipts, one at a time.                                          *)

OpRecord ==
  [step : Awaiting \cup Outcome, kind : Kind, client : Clients, version : Version,
   token : Tokens \cup {NoToken}, key : Keys, held : Snapshot \cup {NoSnapshot},
   found : Snapshot \cup {NoSnapshot}, read : {0} \cup Revision]

\* An operation is none or a record, and what it stands at tells which.
LEMMA Operations ==
  ASSUME HarnessTypeOK, NEW s \in Slots
  PROVE  /\ op[s] # NoOp => op[s] \in OpRecord
         /\ op[s] = NoOp => op[s].step = "none"
         /\ op[s] \in Op
<1>1. op[s] \in OpRecord \cup {NoOp}
  BY DEF HarnessTypeOK, Op, OpRecord
<1>2. op[s] = NoOp => op[s].step = "none"
  BY DEF NoOp
<1>3. op[s] \in Op
  BY DEF HarnessTypeOK
<1> QED
  BY <1>1, <1>2, <1>3

LEMMA RecordsAreOps ==
  ASSUME NEW x \in OpRecord
  PROVE  x \in Op /\ x # NoOp
<1>1. x \in Op
  BY DEF OpRecord, Op
<1>2. x.step \in Awaiting \cup Outcome
  BY DEF OpRecord
<1>3. x.step # "none"
  BY <1>2 DEF Awaiting, Outcome
<1>4. NoOp.step = "none"
  BY DEF NoOp
<1> QED
  BY <1>1, <1>3, <1>4

\* Whoever moves an operation on changes its step, and may note what it holds or read.
LEMMA OpMoves ==
  ASSUME NEW o \in OpRecord, NEW step \in Awaiting \cup Outcome
  PROVE  LET x == [o EXCEPT !.step = step]
         IN /\ x \in OpRecord /\ x.step = step
            /\ x.kind = o.kind /\ x.client = o.client /\ x.version = o.version
            /\ x.token = o.token /\ x.key = o.key /\ x.held = o.held /\ x.found = o.found
            /\ x.read = o.read
  BY DEF OpRecord

LEMMA OpBegins ==
  ASSUME NEW kind \in Kind, NEW client \in Clients, NEW v \in Version,
         NEW token \in Tokens \cup {NoToken}, NEW key \in Keys
  PROVE  LET x == Opened(kind, client, v, token, key)
         IN /\ x \in OpRecord
            /\ x.step = IF key = "project" THEN "resolve" ELSE "discover"
            /\ x.kind = kind /\ x.client = client /\ x.version = v
            /\ x.token = token /\ x.key = key /\ x.held = NoSnapshot /\ x.found = NoSnapshot
<1>1. (IF key = "project" THEN "resolve" ELSE "discover") \in Awaiting \cup Outcome
  BY DEF Awaiting
<1> QED
  BY <1>1 DEF Opened, OpRecord

InFlight == [running : {TRUE}, global : {0} \cup Revision, callers : SUBSET Slots]

LEMMA DiscoveryShape ==
  ASSUME NEW d \in Discovery
  PROVE  /\ d.global \in {0} \cup Revision
         /\ d.callers \subseteq Slots
         /\ d.running => d \in InFlight
<1>1. d \in InFlight \/ d = NoDiscovery
  BY Zenon DEF Discovery, InFlight
<1>2. CASE d = NoDiscovery
  BY <1>2 DEF NoDiscovery
<1>3. CASE d \in InFlight
  BY <1>3 DEF InFlight
<1> QED
  BY <1>1, <1>2, <1>3

\* An operation that awaits no discovery holds no promise of one.
LEMMA IdleCalls ==
  ASSUME ContextInv, NEW s \in Slots,
         \/ op[s] = NoOp
         \/ op[s].step \notin {"discover", "rediscover"}
         \/ op[s].found # NoSnapshot
  PROVE  Idle(s)
BY DEF ContextInv, CallersWait, InWait, Idle

\* Who asks for a discovery holds that promise and no other, and nobody else's changes.
LEMMA Discoveries ==
  ASSUME HarnessTypeOK, NEW s \in Slots, Idle(s), NEW key \in Keys, Discover(s, key)
  PROVE  /\ discoveries' \in [Keys -> Discovery]
         /\ \A k \in Keys : discoveries'[k].callers \subseteq discoveries[k].callers \cup {s}
         /\ \A k \in Keys : s \in discoveries'[k].callers => k = key
         /\ \A k \in Keys : discoveries'[k].global \in {0, discoveries[k].global}
<1>1. discoveries \in [Keys -> Discovery]
  BY DEF HarnessTypeOK
<1>2. PICK e : e = discoveries[key]
  OBVIOUS
<1>3. PICK d : d = IF e.running THEN [e EXCEPT !.callers = @ \cup {s}]
                   ELSE [running |-> TRUE, global |-> 0, callers |-> {s}]
  OBVIOUS
<1>4. discoveries' = [discoveries EXCEPT ![key] = d]
  BY <1>2, <1>3 DEF Discover
<1>5. d \in InFlight /\ d.callers \subseteq e.callers \cup {s} /\ d.global \in {0, e.global}
  <2>1. CASE e.running
    <3>1. e \in InFlight
      BY <1>1, <1>2, <2>1, DiscoveryShape
    <3>2. d = [e EXCEPT !.callers = @ \cup {s}]
      BY <1>3, <2>1
    <3> QED
      BY <3>1, <3>2 DEF InFlight
  <2>2. CASE ~ e.running
    BY <1>3, <2>2 DEF InFlight
  <2> QED
    BY <2>1, <2>2
<1>6. d \in Discovery
  BY <1>5, Zenon DEF Discovery, InFlight
<1> QED
  BY <1>1, <1>2, <1>4, <1>5, <1>6 DEF Idle

Certain(r) ==
  /\ \A t \in Tokens : r[t] # NoReceipt => Original(r[t])
  /\ \A t \in Tokens : receipts[t] # NoReceipt =>
       r[t] # NoReceipt /\ r[t].client = receipts[t].client

\* One operation moves: what it has to show so that everything about the context stands.
LEMMA ContextMoves ==
  ASSUME ContextInv, NEW s \in Slots, NEW x \in Op, op' = [op EXCEPT ![s] = x],
         UNCHANGED <<disk, changes, version, held>>,
         x # NoOp => Shaped(x),
         discoveries' \in [Keys -> Discovery],
         \A key \in Keys : discoveries'[key].callers \subseteq discoveries[key].callers \cup {s},
         \A key \in Keys : s \in discoveries'[key].callers => x # NoOp /\ InWait(x, key),
         changes = 0 => \A key \in Keys : discoveries'[key].global \in {0, 1},
         receipts' \in [Tokens -> Receipt \cup {NoReceipt}],
         changes = 0 => Certain(receipts'),
         changes = 0 /\ x # NoOp => Steady(x),
         changes = 0 /\ x # NoOp /\ x.step = "booted" =>
           /\ x.token \in Tokens
           /\ receipts'[x.token] # NoReceipt /\ receipts'[x.token].client = x.client
           /\ \A c \in Clients : held[c] # x.token
           /\ \A r \in Slots \ {s} :
                op[r] # NoOp /\ op[r].step = "booted" => op[r].token # x.token
  PROVE  ContextInv'
<1>1. HarnessTypeOK /\ op \in [Slots -> Op]
  BY DEF ContextInv, HarnessTypeOK
<1>2. op' \in [Slots -> Op] /\ op'[s] = x /\ \A r \in Slots \ {s} : op'[r] = op[r]
  BY <1>1
<1>3. HarnessTypeOK'
  BY <1>1, <1>2 DEF HarnessTypeOK
<1>4. (version \in Version /\ held \in [Clients -> Tokens \cup {NoToken}] /\ Paced)'
  BY DEF ContextInv, Paced
<1>5. AllShaped'
  BY <1>2 DEF ContextInv, AllShaped, Shaped
<1>6. CallersWait'
  <2>1. SUFFICES ASSUME NEW key \in Keys, NEW r \in Slots, r \in discoveries'[key].callers
                 PROVE  op'[r] # NoOp /\ InWait(op'[r], key)
    BY DEF CallersWait, InWait
  <2>2. CASE r = s
    BY <1>2, <2>1, <2>2
  <2>3. CASE r # s
    <3>1. op'[r] = op[r] /\ r \in discoveries[key].callers
      BY <1>2, <2>1, <2>3
    <3> QED
      BY <3>1 DEF ContextInv, CallersWait
  <2> QED
    BY <2>2, <2>3
<1>7. Undisturbed'
  <2>1. SUFFICES ASSUME changes = 0 PROVE Undisturbed'
    BY DEF Undisturbed
  <2>2. Certain(receipts')
    BY <2>1
  <2>3. \A r \in Slots : op'[r] # NoOp => Steady(op'[r])
    BY <1>2, <2>1 DEF ContextInv, Undisturbed
  <2>4. ASSUME NEW r \in Slots, op'[r] # NoOp, op'[r].step = "booted"
        PROVE  Promised(r)'
    <3>1. CASE r = s
      BY <1>2, <2>1, <2>4, <3>1 DEF Promised
    <3>2. CASE r # s
      <4>1. op'[r] = op[r] /\ Promised(r)
        BY <1>2, <2>1, <2>4, <3>2 DEF ContextInv, Undisturbed
      <4>2. PICK t : t = op[r].token
        OBVIOUS
      <4>3. receipts'[t] # NoReceipt /\ receipts'[t].client = op[r].client /\ t \in Tokens
        BY <2>2, <4>1, <4>2 DEF Promised, Certain
      <4>4. \A q \in Slots \ {r} : op'[q] # NoOp /\ op'[q].step = "booted" => op'[q].token # t
        <5>1. ASSUME NEW q \in Slots \ {r}, op'[q] # NoOp, op'[q].step = "booted"
              PROVE  op'[q].token # t
          <6>1. CASE q = s
            BY <1>2, <2>1, <2>4, <4>1, <4>2, <5>1, <6>1
          <6>2. CASE q # s
            BY <1>2, <4>1, <4>2, <5>1, <6>2 DEF Promised
          <6> QED
            BY <6>1, <6>2
        <5> QED
          BY <5>1
      <4> QED
        BY <4>1, <4>2, <4>3, <4>4 DEF Promised
    <3> QED
      BY <3>1, <3>2
  <2>5. \A t \in Tokens : receipts'[t] # NoReceipt => Original(receipts'[t])
    BY <2>2 DEF Certain
  <2> QED
    BY <2>1, <2>3, <2>4, <2>5 DEF Undisturbed, Original, Steady
<1>8. SessionsSurvive'
  <2>1. SUFFICES ASSUME changes = 0, NEW c \in Clients, held[c] # NoToken
                 PROVE  Good(c, version, held[c])'
    BY DEF SessionsSurvive
  <2>2. PICK t : t = held[c]
    OBVIOUS
  <2>3. t \in Tokens /\ receipts[t] # NoReceipt /\ receipts[t].client = c
    BY <2>1, <2>2 DEF ContextInv, SessionsSurvive, Good, Known
  <2>4. receipts'[t] # NoReceipt /\ receipts'[t].client = c /\ Original(receipts'[t])
    BY <2>1, <2>3 DEF Certain
  <2>5. version = 1
    BY <2>1, CodingAssumption DEF ContextInv, Paced, Version
  <2> QED
    BY <2>2, <2>3, <2>4, <2>5 DEF Good, Known, Stale, Original
<1> QED
  BY <1>3, <1>4, <1>5, <1>6, <1>7, <1>8 DEF ContextInv

LEMMA NothingSweeps ==
  ASSUME ContextInv
  PROVE  /\ receipts \in [Tokens -> Receipt \cup {NoReceipt}]
         /\ discoveries \in [Keys -> Discovery]
         /\ changes = 0 => Certain(receipts) /\ version = 1
         /\ changes = 0 => \A key \in Keys : discoveries[key].global \in {0, 1}
         /\ changes \in 0..MaxChanges
<1>1. version \in Version /\ version <= changes + 1
  BY DEF ContextInv, Paced
<1>2. changes = 0 => version = 1
  BY <1>1, CodingAssumption DEF Version
<1> QED
  BY <1>2 DEF ContextInv, HarnessTypeOK, Undisturbed, Certain

\* An operation that holds no promise asks for a discovery and awaits it.
LEMMA OperationAwaits ==
  ASSUME ContextInv, NEW s \in Slots, Idle(s), NEW key \in Keys, Discover(s, key),
         NEW x \in Op, x # NoOp, InWait(x, key), op' = [op EXCEPT ![s] = x],
         UNCHANGED <<disk, changes, version, held>>, Shaped(x), changes = 0 => Steady(x),
         receipts' \in [Tokens -> Receipt \cup {NoReceipt}],
         changes = 0 => Certain(receipts')
  PROVE  ContextInv'
<1>1. /\ discoveries' \in [Keys -> Discovery]
      /\ \A k \in Keys : discoveries'[k].callers \subseteq discoveries[k].callers \cup {s}
      /\ \A k \in Keys : s \in discoveries'[k].callers => k = key
      /\ \A k \in Keys : discoveries'[k].global \in {0, discoveries[k].global}
  BY Discoveries DEF ContextInv
<1>2. \A k \in Keys : s \in discoveries'[k].callers => x # NoOp /\ InWait(x, k)
  BY <1>1
<1>3. changes = 0 => \A k \in Keys : discoveries'[k].global \in {0, 1}
  BY <1>1, NothingSweeps
<1>4. x.step # "booted"
  BY DEF InWait
<1> QED
  BY <1>1, <1>2, <1>3, <1>4, ContextMoves

\* The check of a receipt takes none away that is good, and none at all at first.
LEMMA Checks ==
  ASSUME ContextInv, NEW client \in Clients, NEW v \in Version, NEW token \in Tokens \cup {NoToken},
         changes = 0 => v = 1
  PROVE  /\ Checked(client, v, token) \in [Tokens -> Receipt \cup {NoReceipt}]
         /\ changes = 0 => Certain(Checked(client, v, token))
         /\ Known(client, token) => token \in Tokens /\ receipts[token] \in Receipt
<1>1. receipts \in [Tokens -> Receipt \cup {NoReceipt}]
  BY NothingSweeps
<1>2. ASSUME changes = 0, Known(client, token) PROVE ~ Stale(v, token)
  <2>1. token \in Tokens /\ receipts[token] # NoReceipt
    BY <1>2 DEF Known
  <2>2. Original(receipts[token])
    BY <1>2, <2>1, NothingSweeps DEF Certain
  <2> QED
    BY <1>2, <2>2 DEF Stale, Original
<1> QED
  BY <1>1, <1>2, NothingSweeps DEF Checked, Known

LEMMA BootstrapBegins ==
  ASSUME ContextInv, NEW s \in Slots, op[s] = NoOp, NEW c \in Clients,
         NEW v \in 1..version, NEW key \in Keys, Bootstrap(s, c, v, key), UNCHANGED <<version, held>>
  PROVE  ContextInv'
<1>1. v \in Version /\ (changes = 0 => v = 1)
  BY NothingSweeps, CodingAssumption DEF ContextInv, Version
<1>2. PICK x : x = Opened("bootstrap", c, v, NoToken, key)
  OBVIOUS
<1>3. /\ x \in OpRecord /\ x.step = IF key = "project" THEN "resolve" ELSE "discover"
      /\ x.kind = "bootstrap" /\ x.version = v /\ x.key = key
      /\ x.held = NoSnapshot /\ x.found = NoSnapshot
  BY <1>1, <1>2, OpBegins DEF Kind
<1>4. op' = [op EXCEPT ![s] = x] /\ UNCHANGED <<disk, changes, receipts>>
  BY <1>2 DEF Bootstrap
<1>5. x \in Op /\ x # NoOp
  BY <1>3, RecordsAreOps
<1>6. Shaped(x)
  BY <1>3 DEF Shaped
<1>7. changes = 0 => Steady(x)
  BY <1>1, <1>3 DEF Steady
<1>8. CASE key = "project"
  <2>1. UNCHANGED discoveries
    BY <1>8 DEF Bootstrap
  <2>2. x.step = "resolve" /\ Idle(s)
    BY <1>3, <1>8, IdleCalls
  <2> QED
    BY <1>4, <1>5, <1>6, <1>7, <2>1, <2>2, NothingSweeps, ContextMoves DEF Idle
<1>9. CASE key = "global"
  <2>1. Discover(s, "global") /\ x.step = "discover" /\ "global" \in Keys
    BY <1>3, <1>9 DEF Bootstrap, Keys
  <2>2. HarnessTypeOK /\ Idle(s)
    BY IdleCalls DEF ContextInv
  <2>3. InWait(x, "global")
    BY <1>3, <1>9, <2>1 DEF InWait
  <2> QED
    BY <1>4, <1>5, <1>6, <1>7, <2>1, <2>2, <2>3, NothingSweeps, OperationAwaits
<1> QED
  BY <1>8, <1>9 DEF Keys

LEMMA SnapshotsAreFound == ASSUME NEW x \in Snapshot PROVE x # NoSnapshot
BY CodingAssumption DEF Snapshot, NoSnapshot, Revision

LEMMA RequireBegins ==
  ASSUME ContextInv, NEW s \in Slots, op[s] = NoOp,
         NEW kind \in Kind \ {"bootstrap"}, NEW c \in Clients, NEW v \in 1..version, NEW token \in Tokens \cup {NoToken},
         Require(s, kind, c, v, token), UNCHANGED <<version, held>>
  PROVE  ContextInv'
<1>1. v \in Version /\ (changes = 0 => v = 1)
  BY NothingSweeps, CodingAssumption DEF ContextInv, Version
<1>2. receipts' = Checked(c, v, token) /\ UNCHANGED <<disk, changes>>
  BY DEF Require
<1>3. /\ receipts' \in [Tokens -> Receipt \cup {NoReceipt}]
      /\ changes = 0 => Certain(receipts')
      /\ Known(c, token) => token \in Tokens /\ receipts[token] \in Receipt
  BY <1>1, <1>2, Checks
<1>4. CASE Good(c, v, token)
  <2>1. token \in Tokens /\ receipts[token] \in Receipt /\ receipts[token] # NoReceipt
    BY <1>3, <1>4 DEF Good, Known
  <2>2. PICK r : r = receipts[token]
    OBVIOUS
  <2>3. r \in Receipt /\ r.key \in Keys /\ r.revision \in Snapshot
    BY <2>1, <2>2 DEF Receipt
  <2>4. PICK b : b = Opened(kind, c, v, token, r.key)
    OBVIOUS
  <2>5. /\ b \in OpRecord /\ b.step = IF r.key = "project" THEN "resolve" ELSE "discover"
        /\ b.kind = kind /\ b.version = v /\ b.key = r.key /\ b.token = token
        /\ b.found = NoSnapshot
    BY <1>1, <2>1, <2>3, <2>4, OpBegins
  <2>6. PICK x : x = [b EXCEPT !.held = r.revision]
    OBVIOUS
  <2>7. /\ x \in OpRecord /\ x.step = b.step /\ x.kind = kind /\ x.version = v /\ x.key = r.key
        /\ x.token = token /\ x.found = NoSnapshot /\ x.held = r.revision
    BY <2>3, <2>5, <2>6 DEF OpRecord
  <2>8. op' = [op EXCEPT ![s] = x]
        /\ IF r.key = "global" THEN Discover(s, "global") ELSE UNCHANGED discoveries
    BY <1>4, <2>2, <2>4, <2>6 DEF Require
  <2>9. x \in Op /\ x # NoOp
    BY <2>7, RecordsAreOps
  <2>10. Shaped(x)
    <3>1. x.held # NoSnapshot
      BY <2>3, <2>7, SnapshotsAreFound
    <3> QED
      BY <2>1, <2>5, <2>7, <3>1 DEF Shaped
  <2>11. ASSUME changes = 0 PROVE Steady(x)
    <3>1. Original(r)
      BY <2>1, <2>2, <2>11, NothingSweeps DEF Certain
    <3> QED
      BY <1>1, <2>5, <2>7, <2>11, <3>1 DEF Steady, Original
  <2>12. CASE r.key = "project"
    <3>1. UNCHANGED discoveries /\ Idle(s) /\ x.step = "resolve"
      BY <2>5, <2>7, <2>8, <2>12, IdleCalls
    <3> QED
      BY <1>2, <1>3, <2>8, <2>9, <2>10, <2>11, <3>1, NothingSweeps, ContextMoves DEF Idle
  <2>13. CASE r.key = "global"
    <3>1. /\ Discover(s, "global") /\ x.step = "discover" /\ "global" \in Keys
          /\ HarnessTypeOK /\ Idle(s)
      BY <2>5, <2>7, <2>8, <2>13, IdleCalls DEF Keys, ContextInv
    <3>2. InWait(x, "global")
      BY <2>7, <2>13, <3>1 DEF InWait
    <3> QED
      BY <1>2, <1>3, <2>8, <2>9, <2>10, <2>11, <3>1, <3>2, NothingSweeps, OperationAwaits
  <2> QED
    BY <2>3, <2>12, <2>13 DEF Keys
<1>5. CASE ~ Good(c, v, token)
  <2>1. PICK b : b = Opened(kind, c, v, token, "global")
    OBVIOUS
  <2>2. b \in OpRecord /\ b.version = v
    BY <1>1, <2>1, OpBegins DEF Keys
  <2>3. PICK x : x = [b EXCEPT !.step = "rejected"]
    OBVIOUS
  <2>4. x \in OpRecord /\ x.step = "rejected" /\ x.version = v
    BY <2>2, <2>3, OpMoves DEF Outcome
  <2>5. op' = [op EXCEPT ![s] = x] /\ UNCHANGED discoveries
    BY <1>5, <2>1, <2>3 DEF Require
  <2>6. x \in Op /\ x # NoOp
    BY <2>4, RecordsAreOps
  <2>7. Shaped(x) /\ (changes = 0 => Steady(x)) /\ Idle(s)
    BY <1>1, <2>4, IdleCalls DEF Shaped, Steady
  <2> QED
    BY <1>2, <1>3, <2>4, <2>5, <2>6, <2>7, NothingSweeps, ContextMoves DEF Idle
<1> QED
  BY <1>4, <1>5

\* One that only changes the step of an operation that stands at an await, and the receipts.
LEMMA StepMoves ==
  ASSUME ContextInv, NEW s \in Slots, op[s] # NoOp, NEW x \in OpRecord, op' = [op EXCEPT ![s] = x],
         UNCHANGED <<disk, changes, version, held, discoveries>>,
         op[s].step \notin {"discover", "rediscover"} \/ op[s].found # NoSnapshot,
         x.version = op[s].version, x.step \in {"admitted", "rejected", "skill-file"},
         Shaped(x),
         changes = 0 /\ x.step = "skill-file" /\ x.kind # "bootstrap" => x.held = First(x.key),
         receipts' \in [Tokens -> Receipt \cup {NoReceipt}],
         changes = 0 => Certain(receipts')
  PROVE  ContextInv'
<1>1. x \in Op /\ x # NoOp /\ Idle(s)
  BY RecordsAreOps, IdleCalls
<1>2. changes = 0 => Steady(x)
  <2>1. changes = 0 => Steady(op[s])
    BY DEF ContextInv, Undisturbed
  <2> QED
    BY <2>1 DEF Steady
<1> QED
  BY <1>1, <1>2, NothingSweeps, ContextMoves DEF Idle

LEMMA ProjectResolvedKeeps ==
  ASSUME ContextInv, NEW s \in Slots, op[s] # NoOp, ProjectResolved(s), UNCHANGED <<version, held>>
  PROVE  ContextInv'
<1>1. PICK o : o = op[s]
  OBVIOUS
<1>2. o \in OpRecord /\ o.step = "resolve" /\ Shaped(o) /\ (changes = 0 => Steady(o))
  BY <1>1, Operations DEF ContextInv, AllShaped, Undisturbed, ProjectResolved
<1>3. UNCHANGED <<disk, receipts, changes>>
  BY DEF ProjectResolved
<1>4. CASE op' = [op EXCEPT ![s].step = "discover"] /\ Discover(s, "project")
  <2>1. PICK x : x = [o EXCEPT !.step = "discover"]
    OBVIOUS
  <2>2. /\ x \in OpRecord /\ x.step = "discover" /\ x.kind = o.kind /\ x.version = o.version
        /\ x.token = o.token /\ x.key = o.key /\ x.held = o.held /\ x.found = NoSnapshot
    BY <1>2, <2>1, OpMoves DEF Awaiting, Shaped
  <2>3. op' = [op EXCEPT ![s] = x]
    BY <1>1, <1>4, <2>1
  <2>4. x \in Op /\ x # NoOp /\ Shaped(x) /\ (changes = 0 => Steady(x))
    BY <1>2, <2>2, RecordsAreOps DEF Shaped, Steady
  <2>5. o.key = "project"
    BY <1>2 DEF Shaped
  <2>6. HarnessTypeOK /\ "project" \in Keys /\ InWait(x, "project") /\ Idle(s)
    BY <1>1, <1>2, <2>2, <2>5, IdleCalls DEF ContextInv, Keys, InWait
  <2> QED
    BY <1>3, <1>4, <2>2, <2>3, <2>4, <2>6, NothingSweeps, OperationAwaits
<1>5. CASE op' = [op EXCEPT ![s].step = "rejected"] /\ UNCHANGED discoveries
  <2>1. PICK x : x = [o EXCEPT !.step = "rejected"]
    OBVIOUS
  <2>2. x \in OpRecord /\ x.step = "rejected" /\ x.version = o.version
    BY <1>2, <2>1, OpMoves DEF Outcome
  <2>3. op' = [op EXCEPT ![s] = x] /\ Shaped(x)
    BY <1>1, <1>5, <2>1, <2>2 DEF Shaped
  <2> QED
    BY <1>1, <1>2, <1>3, <1>5, <2>2, <2>3, NothingSweeps, StepMoves
<1> QED
  BY <1>4, <1>5 DEF ProjectResolved

LEMMA OutdatedKeeps ==
  ASSUME ContextInv, NEW s \in Slots, op[s] # NoOp, Outdated(s), UNCHANGED <<version, held>>
  PROVE  ContextInv'
<1>1. PICK o : o = op[s]
  OBVIOUS
<1>2. /\ o \in OpRecord /\ o.step = "discover" /\ o.kind # "bootstrap" /\ Shaped(o)
      /\ changes = 0 => Steady(o)
      /\ o.found \notin {NoSnapshot, o.held}
  BY <1>1, Operations DEF ContextInv, AllShaped, Undisturbed, Outdated
<1>3. PICK x : x = [o EXCEPT !.step = "rejected"]
  OBVIOUS
<1>4. x \in OpRecord /\ x.step = "rejected" /\ x.version = o.version
  BY <1>2, <1>3, OpMoves DEF Outcome
<1>5. op' = [op EXCEPT ![s] = x] /\ Shaped(x) /\ receipts' = [receipts EXCEPT ![o.token] = NoReceipt]
      /\ UNCHANGED <<disk, discoveries, changes>>
  BY <1>1, <1>3, <1>4 DEF Shaped, Outdated
<1>6. changes # 0
  BY <1>2 DEF Steady
<1>7. receipts' \in [Tokens -> Receipt \cup {NoReceipt}]
  BY <1>5, NothingSweeps
<1> QED
  BY <1>1, <1>2, <1>4, <1>5, <1>6, <1>7, NothingSweeps, StepMoves

LEMMA AdmittedKeeps ==
  ASSUME ContextInv, NEW s \in Slots, op[s] # NoOp, Admitted(s), UNCHANGED <<version, held>>
  PROVE  ContextInv'
<1>1. PICK o : o = op[s]
  OBVIOUS
<1>2. o \in OpRecord /\ o.kind \in {"require", "list"} /\ o.found # NoSnapshot
  <2>1. /\ o \in OpRecord /\ o.kind \in {"require", "list"} /\ o.step = "discover"
        /\ o.found = o.held /\ Shaped(o)
    BY <1>1, Operations DEF ContextInv, AllShaped, Admitted
  <2> QED
    BY <2>1 DEF Shaped
<1>3. PICK x : x = [o EXCEPT !.step = "admitted"]
  OBVIOUS
<1>4. x \in OpRecord /\ x.step = "admitted" /\ x.version = o.version /\ x.kind = o.kind
  BY <1>2, <1>3, OpMoves DEF Outcome
<1>5. op' = [op EXCEPT ![s] = x] /\ Shaped(x) /\ UNCHANGED <<disk, discoveries, receipts, changes>>
  BY <1>1, <1>2, <1>3, <1>4 DEF Shaped, Admitted
<1> QED
  BY <1>1, <1>2, <1>4, <1>5, NothingSweeps, StepMoves

LEMMA SkillCheckedKeeps ==
  ASSUME ContextInv, NEW s \in Slots, op[s] # NoOp, SkillChecked(s), UNCHANGED <<version, held>>
  PROVE  ContextInv'
<1>1. PICK o : o = op[s]
  OBVIOUS
<1>2. /\ o \in OpRecord /\ o.step = "discover" /\ o.kind \in {"instructions", "resource"} /\ Shaped(o)
      /\ changes = 0 => Steady(o)
      /\ o.found = o.held
  BY <1>1, Operations DEF ContextInv, AllShaped, Undisturbed, SkillChecked
<1>3. PICK step \in {"skill-file", "rejected"} : op' = [op EXCEPT ![s].step = step]
  BY Zenon DEF SkillChecked
<1>4. PICK x : x = [o EXCEPT !.step = step]
  OBVIOUS
<1>5. op' = [op EXCEPT ![s] = x]
  BY <1>1, <1>3, <1>4
<1>6. /\ x \in OpRecord /\ x.step \in {"skill-file", "rejected"} /\ x.version = o.version
      /\ x.kind = o.kind /\ x.token = o.token /\ x.key = o.key /\ x.held = o.held /\ x.found = o.found
  BY <1>2, <1>3, <1>4, OpMoves DEF Outcome, Awaiting
<1>7. /\ receipts' = Checked(o.client, o.version, o.token)
      /\ UNCHANGED <<disk, discoveries, changes>>
  BY <1>1 DEF SkillChecked
<1>8. /\ receipts' \in [Tokens -> Receipt \cup {NoReceipt}]
      /\ changes = 0 => Certain(receipts')
  <2>1. o.client \in Clients /\ o.version \in Version /\ o.token \in Tokens \cup {NoToken}
    BY <1>2 DEF OpRecord
  <2>2. changes = 0 => o.version = 1
    BY <1>2 DEF Steady
  <2> QED
    BY <1>7, <2>1, <2>2, Checks
<1>9. Shaped(x) /\ (changes = 0 => x.held = First(x.key)) /\ o.found # NoSnapshot
  BY <1>2, <1>6 DEF Shaped, Steady
<1> QED
  BY <1>1, <1>5, <1>6, <1>7, <1>8, <1>9, StepMoves

LEMMA SkillReadKeeps ==
  ASSUME ContextInv, NEW s \in Slots, op[s] # NoOp, SkillRead(s), UNCHANGED <<version, held>>
  PROVE  ContextInv'
<1>1. PICK o : o = op[s]
  OBVIOUS
<1>2. /\ o \in OpRecord /\ o.step = "skill-file" /\ Shaped(o)
      /\ o.token \in Tokens /\ o.found = o.held /\ o.key \in Keys
  BY <1>1, Operations DEF ContextInv, AllShaped, SkillRead, Shaped, OpRecord
<1>3. disk[o.key] \in Revision
  BY <1>2 DEF ContextInv, HarnessTypeOK, Keys
<1>4. PICK step : step = IF SameFile(o) THEN "admitted" ELSE "rejected"
  OBVIOUS
<1>5. PICK x : x = [o EXCEPT !.step = step, !.read = disk[o.key]]
  OBVIOUS
<1>6. op' = [op EXCEPT ![s] = x]
  BY <1>1, <1>4, <1>5 DEF SkillRead
<1>7. /\ x \in OpRecord /\ x.step = step /\ x.version = o.version /\ x.kind = o.kind
      /\ x.key = o.key /\ x.held = o.held /\ x.read = disk[o.key]
  <2>1. step \in Awaiting \cup Outcome
    BY <1>4 DEF Outcome
  <2> QED
    BY <1>2, <1>3, <1>5, <2>1 DEF OpRecord
<1>8. Shaped(x)
  BY <1>2, <1>4, <1>7 DEF Shaped, SameFile
<1>9. UNCHANGED <<disk, discoveries, changes>>
  BY DEF SkillRead
<1>10. /\ receipts' \in [Tokens -> Receipt \cup {NoReceipt}]
       /\ changes = 0 => Certain(receipts')
  <2>1. CASE receipts' = receipts
    BY <2>1, NothingSweeps
  <2>2. CASE receipts' # receipts
    <3>1. receipts[o.token] # NoReceipt /\ receipts' = [receipts EXCEPT ![o.token].activated = TRUE]
      BY <1>1, <2>2 DEF SkillRead
    <3>2. PICK r : r = receipts[o.token]
      OBVIOUS
    <3>3. r \in Receipt
      BY <1>2, <3>1, <3>2, NothingSweeps
    <3>4. PICK a : a = [r EXCEPT !.activated = TRUE]
      OBVIOUS
    <3>5. /\ a \in Receipt /\ a.client = r.client /\ a.version = r.version
          /\ a.globalRevision = r.globalRevision /\ a.revision = r.revision /\ a.key = r.key
          /\ a.expired = r.expired
      BY <3>3, <3>4 DEF Receipt
    <3>6. receipts' = [receipts EXCEPT ![o.token] = a]
      BY <3>1, <3>2, <3>4
    <3>7. a # NoReceipt
      <4>1. a.key \in Keys
        BY <3>5 DEF Receipt
      <4> QED
        BY <4>1 DEF NoReceipt, Keys
    <3>8. ASSUME changes = 0 PROVE Certain(receipts')
      <4>1. Original(r)
        BY <1>2, <3>1, <3>2, <3>8, NothingSweeps DEF Certain
      <4>2. Original(a)
        BY <3>5, <4>1 DEF Original
      <4> QED
        BY <1>2, <3>2, <3>5, <3>6, <3>7, <3>8, <4>2, NothingSweeps DEF Certain
    <3> QED
      BY <3>5, <3>6, <3>8, NothingSweeps
  <2> QED
    BY <2>1, <2>2
<1>11. x \in OpRecord /\ x.step \in {"admitted", "rejected"} /\ x.version = op[s].version
  BY <1>1, <1>4, <1>7
<1> QED
  BY <1>1, <1>2, <1>6, <1>8, <1>9, <1>10, <1>11, StepMoves

LEMMA RediscoverKeeps ==
  ASSUME ContextInv, NEW s \in Slots, op[s] # NoOp, Rediscover(s), UNCHANGED <<version, held>>
  PROVE  ContextInv'
<1>1. PICK o : o = op[s]
  OBVIOUS
<1>2. /\ o \in OpRecord /\ o.step = "discover" /\ o.kind = "bootstrap" /\ o.key = "project"
      /\ changes = 0 => Steady(o)
      /\ o.found \in Snapshot /\ o.found # NoSnapshot
  BY <1>1, Operations DEF ContextInv, Undisturbed, Rediscover, OpRecord
<1>3. PICK x : x = [o EXCEPT !.step = "rediscover", !.held = o.found, !.found = NoSnapshot]
  OBVIOUS
<1>4. /\ x \in OpRecord /\ x.step = "rediscover" /\ x.kind = o.kind /\ x.key = o.key
      /\ x.version = o.version /\ x.held = o.found /\ x.found = NoSnapshot
  BY <1>2, <1>3 DEF OpRecord, Awaiting
<1>5. op' = [op EXCEPT ![s] = x] /\ Discover(s, "global") /\ UNCHANGED <<disk, receipts, changes>>
  BY <1>1, <1>3 DEF Rediscover
<1>6. Shaped(x) /\ (changes = 0 => Steady(x))
  BY <1>2, <1>4 DEF Shaped, Steady
<1>7. x \in Op /\ x # NoOp
  BY <1>4, RecordsAreOps
<1>8. HarnessTypeOK /\ "global" \in Keys /\ InWait(x, "global") /\ Idle(s)
  BY <1>1, <1>2, <1>4, IdleCalls DEF ContextInv, Keys, InWait
<1> QED
  BY <1>4, <1>5, <1>6, <1>7, <1>8, NothingSweeps, OperationAwaits

\* As long as nothing changed, a bootstrap sweeps nothing away.
LEMMA Sweeps ==
  ASSUME ContextInv, NEW v, NEW key \in Keys, NEW revision, NEW globalRevision
  PROVE  LET swept == Swept(v, key, revision, globalRevision)
         IN /\ swept \in [Tokens -> Receipt \cup {NoReceipt}]
            /\ changes = 0 /\ v = 1 /\ globalRevision = 1 /\ revision = First(key) =>
                 swept = receipts
<1>1. receipts \in [Tokens -> Receipt \cup {NoReceipt}]
  BY NothingSweeps
<1>2. PICK swept : swept = Swept(v, key, revision, globalRevision)
  OBVIOUS
<1>3. swept \in [Tokens -> Receipt \cup {NoReceipt}]
  BY <1>1, <1>2 DEF Swept
<1>4. ASSUME changes = 0, v = 1, globalRevision = 1, revision = First(key)
      PROVE  swept = receipts
  <2>1. \A t \in Tokens : receipts[t] # NoReceipt => Original(receipts[t])
    BY <1>4, NothingSweeps DEF Certain
  <2>2. \A t \in Tokens : swept[t] = receipts[t]
    BY <1>2, <1>4, <2>1 DEF Swept, Original
  <2> QED
    BY <1>1, <1>3, <2>2
<1> QED
  BY <1>2, <1>3, <1>4

LEMMA BootKeeps ==
  ASSUME ContextInv, NEW s \in Slots, op[s] # NoOp, Boot(s, {held[c] : c \in Clients}),
         UNCHANGED <<version, held>>
  PROVE  ContextInv'
<1>1. PICK o : o = op[s]
  OBVIOUS
<1>2. /\ o \in OpRecord /\ o.step = IF o.key = "project" THEN "rediscover" ELSE "discover"
      /\ o.kind = "bootstrap" /\ Shaped(o)
      /\ changes = 0 => Steady(o)
      /\ o.found # NoSnapshot
  BY <1>1, Operations DEF ContextInv, AllShaped, Undisturbed, Boot
<1>3. PICK revision : revision = IF o.step = "rediscover" THEN o.held ELSE o.found
  OBVIOUS
<1>4. /\ revision \in Snapshot /\ o.found \in Snapshot /\ o.found.global \in Revision
      /\ o.client \in Clients /\ o.version \in Version /\ o.key \in Keys
  <2>1. revision \in Snapshot /\ o.found \in Snapshot
    BY <1>2, <1>3 DEF OpRecord, Shaped
  <2> QED
    BY <1>2, <2>1 DEF OpRecord, Snapshot
<1>5. changes = 0 => o.version = 1 /\ o.found.global = 1 /\ revision = First(o.key)
  BY <1>2, <1>3, <1>4 DEF Steady, First, Keys
<1>6. PICK swept : swept = Swept(o.version, o.key, revision, o.found.global)
  OBVIOUS
<1>7. swept \in [Tokens -> Receipt \cup {NoReceipt}] /\ (changes = 0 => swept = receipts)
  BY <1>4, <1>5, <1>6, Sweeps
<1>8. UNCHANGED <<disk, discoveries, changes>>
  BY DEF Boot
<1>9. CASE receipts' = swept /\ op' = [op EXCEPT ![s].step = "rejected"]
  <2>1. PICK x : x = [o EXCEPT !.step = "rejected"]
    OBVIOUS
  <2>2. x \in OpRecord /\ x.step = "rejected" /\ x.version = o.version
    BY <1>2, <2>1, OpMoves DEF Outcome
  <2>3. op' = [op EXCEPT ![s] = x] /\ Shaped(x)
    BY <1>1, <1>9, <2>1, <2>2 DEF Shaped
  <2> QED
    BY <1>1, <1>2, <1>7, <1>8, <1>9, <2>2, <2>3, NothingSweeps, StepMoves
<1>10. ASSUME NEW t \in Tokens, Unissued(t, {held[c] : c \in Clients}),
              receipts' = [swept EXCEPT ![t] =
                 [client |-> o.client, version |-> o.version, globalRevision |-> o.found.global,
                  revision |-> revision, key |-> o.key, expired |-> FALSE, activated |-> FALSE]],
              op' = [op EXCEPT ![s].step = "booted", ![s].token = t]
       PROVE  ContextInv'
  <2>1. PICK x : x = [o EXCEPT !.step = "booted", !.token = t]
    OBVIOUS
  <2>2. /\ x \in OpRecord /\ x.step = "booted" /\ x.version = o.version /\ x.token = t
        /\ x.client = o.client
    BY <1>2, <2>1 DEF OpRecord, Outcome
  <2>3. op' = [op EXCEPT ![s] = x]
    BY <1>1, <1>10, <2>1
  <2>4. x \in Op /\ x # NoOp /\ Shaped(x) /\ (changes = 0 => Steady(x))
        /\ Idle(s)
    BY <1>1, <1>2, <2>2, RecordsAreOps, IdleCalls DEF Shaped, Steady
  <2>5. PICK r : r = [client |-> o.client, version |-> o.version, globalRevision |-> o.found.global,
                      revision |-> revision, key |-> o.key, expired |-> FALSE, activated |-> FALSE]
    OBVIOUS
  <2>6. /\ r \in Receipt /\ r.client = o.client /\ r.version = o.version /\ r.key = o.key
        /\ r.globalRevision = o.found.global /\ r.revision = revision /\ r.expired = FALSE
    BY <1>4, <2>5 DEF Receipt
  <2>7. r # NoReceipt
    BY <1>4, <2>6 DEF NoReceipt, Keys
  <2>8. receipts' = [swept EXCEPT ![t] = r]
    BY <1>10, <2>5
  <2>9. receipts' \in [Tokens -> Receipt \cup {NoReceipt}] /\ receipts'[t] = r
    BY <1>7, <2>6, <2>8
  <2>10. receipts[t] = NoReceipt /\ (\A c \in Clients : held[c] # t)
         /\ \A q \in Slots : op[q] # NoOp => op[q].token # t
    BY <1>10 DEF Unissued
  <2>11. ASSUME changes = 0 PROVE Certain(receipts')
    <3>1. Original(r)
      BY <1>5, <2>6, <2>11 DEF Original
    <3>2. Certain(receipts) /\ swept = receipts
      BY <1>7, <2>11, NothingSweeps
    <3> QED
      BY <2>7, <2>8, <2>9, <2>10, <3>1, <3>2, NothingSweeps DEF Certain
  <2> QED
    BY <1>8, <2>2, <2>3, <2>4, <2>6, <2>7, <2>9, <2>10, <2>11, NothingSweeps, ContextMoves DEF Idle
<1> QED
  BY <1>1, <1>3, <1>6, <1>9, <1>10, Zenon DEF Boot

-------------------------------------------------------------------------------
(* Discoveries, and what happens around the operations.                             *)

\* A discovery settles: whoever waited for it has its answer, and nobody else moves.
LEMMA Settles ==
  ASSUME ContextInv, NEW key \in Keys, NEW answer \in Snapshot \cup {NoSnapshot},
         changes = 0 => answer \in {NoSnapshot, First(key)},
         Settle(key, answer), UNCHANGED <<disk, receipts, changes, version, held>>
  PROVE  ContextInv'
<1> DEFINE Called(s) == s \in discoveries[key].callers
<1>waits. \A s \in Slots : Called(s) => op[s] # NoOp /\ InWait(op[s], key)
  BY DEF ContextInv, CallersWait
<1> HIDE DEF Called
<1>1. HarnessTypeOK /\ op \in [Slots -> Op] /\ discoveries \in [Keys -> Discovery]
  BY DEF ContextInv, HarnessTypeOK
<1>2. discoveries' = [discoveries EXCEPT ![key] = NoDiscovery]
  BY DEF Settle
<1>3. discoveries' \in [Keys -> Discovery]
  BY <1>1, <1>2 DEF Discovery
<1>4. ASSUME NEW s \in Slots
      PROVE  /\ op'[s] \in Op
             /\ op'[s] = NoOp <=> op[s] = NoOp
             /\ ~ Called(s) => op'[s] = op[s]
             /\ Called(s) =>
                  \/ op'[s] \in OpRecord /\ op'[s].step = "rejected" /\ op'[s].version = op[s].version
                  \/ /\ answer # NoSnapshot /\ op'[s].found = answer
                     /\ op'[s] = [op[s] EXCEPT !.found = answer]
  <2>1. op'[s] = IF ~ Called(s) THEN op[s]
                 ELSE IF answer = NoSnapshot THEN [op[s] EXCEPT !.step = "rejected"]
                 ELSE [op[s] EXCEPT !.found = answer]
    BY DEF Settle, Called
  <2>2. op[s] \in Op /\ (op[s] # NoOp => op[s] \in OpRecord) /\ (op[s] = NoOp => op[s].step = "none")
    BY <1>1, Operations
  <2>3. CASE ~ Called(s)
    BY <2>1, <2>2, <2>3
  <2>4. CASE Called(s)
    <3>1. op[s] \in OpRecord /\ op[s] # NoOp
      BY <2>2, <2>4, <1>waits
    <3>2. CASE answer = NoSnapshot
      <4>1. PICK x : x = [op[s] EXCEPT !.step = "rejected"]
        OBVIOUS
      <4>2. x \in OpRecord /\ x.step = "rejected" /\ x.version = op[s].version
        BY <3>1, <4>1, OpMoves DEF Outcome
      <4> QED
        BY <2>1, <2>4, <3>1, <3>2, <4>1, <4>2, RecordsAreOps
    <3>3. CASE answer # NoSnapshot
      <4>1. PICK x : x = [op[s] EXCEPT !.found = answer]
        OBVIOUS
      <4>2. x \in OpRecord /\ x.found = answer
        BY <3>1, <4>1 DEF OpRecord
      <4> QED
        BY <2>1, <2>4, <3>1, <3>3, <4>1, <4>2, RecordsAreOps
    <3> QED
      BY <3>2, <3>3
  <2> QED
    BY <2>3, <2>4
\* The fields that no answer touches.
<1>5. ASSUME NEW s \in Slots, Called(s), op'[s].step # "rejected"
      PROVE  /\ op[s] \in OpRecord /\ op'[s] \in OpRecord
             /\ op'[s].step = op[s].step /\ op'[s].kind = op[s].kind /\ op'[s].key = op[s].key
             /\ op'[s].token = op[s].token /\ op'[s].held = op[s].held
             /\ op'[s].version = op[s].version /\ op'[s].client = op[s].client
             /\ op'[s].found = answer /\ answer # NoSnapshot
             /\ op[s].step \in {"discover", "rediscover"}
             /\ key = IF op[s].step = "rediscover" THEN "global" ELSE op[s].key
  <2>1. op[s] \in OpRecord /\ op[s].step \in {"discover", "rediscover"}
    BY <1>1, <1>5, <1>waits, Operations DEF InWait
  <2>2. answer # NoSnapshot /\ op'[s] = [op[s] EXCEPT !.found = answer]
    BY <1>4, <1>5
  <2>3. key = IF op[s].step = "rediscover" THEN "global" ELSE op[s].key
    BY <1>5, <1>waits DEF InWait
  <2> QED
    BY <2>1, <2>2, <2>3 DEF OpRecord
<1>6. op' \in [Slots -> Op]
  <2>1. op' = [s \in Slots |-> op'[s]]
    BY DEF Settle
  <2> QED
    BY <1>4, <2>1
<1>7. HarnessTypeOK'
  BY <1>1, <1>3, <1>6 DEF HarnessTypeOK
<1>8. (version \in Version /\ held \in [Clients -> Tokens \cup {NoToken}] /\ Paced)'
  BY DEF ContextInv, Paced
<1>9. AllShaped'
  <2>1. SUFFICES ASSUME NEW s \in Slots, op'[s] # NoOp PROVE Shaped(op'[s])
    BY DEF AllShaped, Shaped
  <2>2. Shaped(op[s])
    BY <1>4, <2>1 DEF ContextInv, AllShaped
  <2>3. CASE ~ Called(s)
    BY <1>4, <2>2, <2>3
  <2>4. CASE op'[s].step = "rejected"
    BY <2>4 DEF Shaped
  <2>5. CASE Called(s) /\ op'[s].step # "rejected"
    BY <1>5, <2>2, <2>5 DEF Shaped
  <2> QED
    BY <2>3, <2>4, <2>5
<1>10. CallersWait'
  <2>1. SUFFICES ASSUME NEW k \in Keys, NEW s \in Slots, s \in discoveries'[k].callers
                 PROVE  op'[s] # NoOp /\ InWait(op'[s], k)
    BY DEF CallersWait, InWait
  <2>2. k # key /\ s \in discoveries[k].callers
    BY <1>1, <1>2, <2>1 DEF NoDiscovery
  <2>3. op[s] # NoOp /\ InWait(op[s], k)
    BY <2>2 DEF ContextInv, CallersWait
  <2>4. ~ InWait(op[s], key)
    BY <2>2, <2>3 DEF InWait
  <2>5. ~ Called(s)
    BY <1>waits, <2>4
  <2> QED
    BY <1>4, <2>3, <2>5
<1>11. Undisturbed'
  <2>1. SUFFICES ASSUME changes = 0 PROVE Undisturbed'
    BY DEF Undisturbed
  <2>2. \A k \in Keys : discoveries'[k].global \in {0, 1}
    BY <1>1, <1>2, <2>1 DEF ContextInv, Undisturbed, NoDiscovery
  <2>3. ASSUME NEW s \in Slots, op'[s] # NoOp PROVE Steady(op'[s])
    <3>1. Steady(op[s]) /\ Shaped(op[s])
      BY <1>4, <2>1, <2>3 DEF ContextInv, Undisturbed, AllShaped
    <3>2. CASE ~ Called(s)
      BY <1>4, <3>1, <3>2
    <3>3. CASE Called(s) /\ op'[s].step = "rejected"
      <4>1. op'[s].version = op[s].version
        BY <1>1, <1>4, <3>3, Operations DEF OpRecord
      <4> QED
        BY <3>1, <3>3, <4>1 DEF Steady
    <3>4. CASE Called(s) /\ op'[s].step # "rejected"
      <4>1. answer = First(key)
        BY <1>5, <2>1, <3>4
      <4> QED
        BY <1>5, <3>1, <3>4, <4>1 DEF Steady
    <3> QED
      BY <3>2, <3>3, <3>4
  <2>4. ASSUME NEW s \in Slots, op'[s] # NoOp, op'[s].step = "booted" PROVE op'[s] = op[s]
    BY <1>4, <1>5, <2>4
  <2>5. ASSUME NEW s \in Slots, op'[s] # NoOp, op'[s].step = "booted"
        PROVE  Promised(s)'
    <3>1. op'[s] = op[s] /\ Promised(s)
      BY <2>1, <2>4, <2>5 DEF ContextInv, Undisturbed
    <3> QED
      BY <2>4, <3>1 DEF Promised
  <2> QED
    BY <2>1, <2>2, <2>3, <2>5 DEF ContextInv, Undisturbed, Original, Steady
<1>12. SessionsSurvive'
  BY DEF ContextInv, SessionsSurvive, Good, Known, Stale
<1> QED
  BY <1>7, <1>8, <1>9, <1>10, <1>11, <1>12 DEF ContextInv

LEMMA DiscoveriesKeep ==
  ASSUME ContextInv, DiscoveryStep, UNCHANGED <<version, held>>
  PROVE  ContextInv'
<1>1. /\ HarnessTypeOK /\ discoveries \in [Keys -> Discovery]
      /\ disk.global \in Revision /\ disk.project \in Revision
      /\ changes = 0 => disk.global = 1 /\ disk.project = 1
  <2>1. HarnessTypeOK /\ disk.global <= changes + 1 /\ disk.project <= changes + 1
    BY DEF ContextInv, Paced, Keys
  <2> QED
    BY <2>1, CodingAssumption DEF HarnessTypeOK, Revision
<1>2. \A k \in Keys : discoveries[k].global \in {0} \cup Revision
  BY <1>1, DiscoveryShape
<1>3. ASSUME NEW key \in Keys, ReadGlobalFiles(key) PROVE ContextInv'
  <2>1. UNCHANGED <<disk, receipts, changes>>
    BY <1>3 DEF ReadGlobalFiles
  <2>2. CASE key = "global"
    <3>1. PICK answer : answer = [global |-> disk.global, project |-> 0]
      OBVIOUS
    <3>2. answer \in Snapshot /\ (changes = 0 => answer = First(key))
      BY <1>1, <2>2, <3>1 DEF Snapshot, First
    <3>3. Settle(key, answer)
      BY <1>3, <2>2, <3>1 DEF ReadGlobalFiles
    <3> QED
      BY <2>1, <3>2, <3>3, Settles
  <2>3. CASE key # "global"
    <3>1. /\ discoveries' = [discoveries EXCEPT ![key].global = disk.global]
          /\ UNCHANGED op /\ discoveries[key].running
      BY <1>3, <2>3 DEF ReadGlobalFiles
    <3>2. discoveries[key] \in InFlight
      BY <1>1, <3>1, DiscoveryShape
    <3>3. PICK d : d = [discoveries[key] EXCEPT !.global = disk.global]
      OBVIOUS
    <3>4. d \in InFlight /\ d.callers = discoveries[key].callers /\ d.global = disk.global
      BY <1>1, <3>1, <3>2, <3>3 DEF InFlight
    <3>5. d \in Discovery
      BY <3>4, Zenon DEF Discovery, InFlight
    <3>6. discoveries' = [discoveries EXCEPT ![key] = d]
      BY <3>1, <3>3
    <3>7. /\ discoveries' \in [Keys -> Discovery]
          /\ \A k \in Keys : discoveries'[k].callers = discoveries[k].callers
          /\ changes = 0 => \A k \in Keys : discoveries'[k].global \in {0, 1}
      BY <1>1, <3>4, <3>5, <3>6, NothingSweeps
    <3>8. HarnessTypeOK'
      BY <1>1, <2>1, <3>1, <3>7 DEF HarnessTypeOK
    <3>9. CallersWait'
      BY <3>1, <3>7 DEF ContextInv, CallersWait, InWait
    <3>10. AllShaped' /\ Paced' /\ SessionsSurvive'
      BY <2>1, <3>1 DEF ContextInv, AllShaped, Shaped, Paced, SessionsSurvive, Good, Known, Stale
    <3>11. Undisturbed'
      BY <2>1, <3>1, <3>7 DEF ContextInv, Undisturbed, Original, Steady, Promised
    <3> QED
      BY <3>8, <3>9, <3>10, <3>11 DEF ContextInv
  <2> QED
    BY <2>2, <2>3
<1>4. ASSUME ReadProjectFiles PROVE ContextInv'
  <2>1. PICK answer : answer = [global |-> discoveries["project"].global, project |-> disk.project]
    OBVIOUS
  <2>2. "project" \in Keys /\ discoveries["project"].global # 0
    BY <1>4 DEF Keys, ReadProjectFiles
  <2>3. answer \in Snapshot /\ (changes = 0 => answer = First("project"))
    BY <1>1, <1>2, <2>1, <2>2, NothingSweeps DEF Snapshot, First
  <2>4. Settle("project", answer) /\ UNCHANGED <<disk, receipts, changes>>
    BY <1>4, <2>1 DEF ReadProjectFiles
  <2> QED
    BY <2>2, <2>3, <2>4, Settles
<1>5. ASSUME NEW key \in Keys, DiscoveryFails(key) PROVE ContextInv'
  BY <1>5, Settles DEF DiscoveryFails
<1> QED
  BY <1>3, <1>4, <1>5 DEF DiscoveryStep

\* The answer of a bootstrap hands its token to the client, and then nobody else has it.
LEMMA ContextAnswersKeeps ==
  ASSUME ContextInv, NEW s \in Slots, ContextAnswers(s)
  PROVE  ContextInv'
<1>1. PICK o : o = op[s]
  OBVIOUS
<1>2. o \in OpRecord /\ o # NoOp /\ op' = [op EXCEPT ![s] = NoOp]
      /\ UNCHANGED <<disk, discoveries, receipts, changes, version>>
      /\ held' = IF o.step = "booted" THEN [held EXCEPT ![o.client] = o.token] ELSE held
  BY <1>1, Operations DEF ContextInv, ContextAnswers
<1>3. NoOp \in Op /\ Idle(s)
  <2>1. o.step \notin {"discover", "rediscover"}
    BY <1>1 DEF ContextAnswers, Outcome
  <2> QED
    BY <1>1, <2>1, IdleCalls DEF Op
<1>4. CASE o.step # "booted"
  <2>1. UNCHANGED held
    BY <1>2, <1>4
  <2> QED
    BY <1>2, <1>3, <2>1, NothingSweeps, ContextMoves DEF Idle
<1>5. CASE o.step = "booted"
  <2>1. /\ op \in [Slots -> Op] /\ held \in [Clients -> Tokens \cup {NoToken}]
        /\ o.client \in Clients /\ o.token \in Tokens \cup {NoToken}
    BY <1>2 DEF ContextInv, HarnessTypeOK, OpRecord
  <2>2. /\ op' \in [Slots -> Op] /\ op'[s] = NoOp /\ \A r \in Slots \ {s} : op'[r] = op[r]
        /\ held' \in [Clients -> Tokens \cup {NoToken}] /\ held'[o.client] = o.token
        /\ \A c \in Clients \ {o.client} : held'[c] = held[c]
    BY <1>2, <1>3, <1>5, <2>1
  <2>3. HarnessTypeOK' /\ Paced' /\ version' \in Version
    BY <1>2, <2>2 DEF ContextInv, HarnessTypeOK, Paced
  <2>4. AllShaped'
    BY <2>2 DEF ContextInv, AllShaped, Shaped
  <2>5. CallersWait'
    <3>1. SUFFICES ASSUME NEW k \in Keys, NEW r \in Slots, r \in discoveries[k].callers
                   PROVE  op'[r] # NoOp /\ InWait(op'[r], k)
      BY <1>2 DEF CallersWait, InWait
    <3>2. r # s
      BY <1>3, <3>1 DEF Idle
    <3> QED
      BY <2>2, <3>1, <3>2 DEF ContextInv, CallersWait
  <2>6. ASSUME changes = 0 PROVE Promised(s)
    BY <1>1, <1>2, <1>5, <2>6 DEF ContextInv, Undisturbed
  <2>7. Undisturbed'
    <3>1. SUFFICES ASSUME changes = 0 PROVE Undisturbed'
      BY <1>2 DEF Undisturbed
    <3>2. \A r \in Slots : op'[r] # NoOp => Steady(op'[r])
      BY <2>2, <3>1 DEF ContextInv, Undisturbed
    <3>3. ASSUME NEW r \in Slots, op'[r] # NoOp, op'[r].step = "booted" PROVE Promised(r)'
      <4>1. r # s /\ op'[r] = op[r] /\ Promised(r)
        BY <2>2, <3>1, <3>3 DEF ContextInv, Undisturbed
      <4>2. PICK t : t = op[r].token
        OBVIOUS
      <4>3. t # o.token
        BY <1>1, <1>2, <1>5, <4>1, <4>2 DEF Promised
      <4>4. \A c \in Clients : held'[c] # t
        BY <2>2, <4>1, <4>2, <4>3 DEF Promised
      <4>5. \A q \in Slots \ {r} : op'[q] # NoOp /\ op'[q].step = "booted" => op'[q].token # t
        BY <2>2, <4>1, <4>2 DEF Promised
      <4> QED
        BY <1>2, <4>1, <4>2, <4>4, <4>5 DEF Promised
    <3> QED
      BY <1>2, <3>1, <3>2, <3>3 DEF ContextInv, Undisturbed, Original, Steady
  <2>8. SessionsSurvive'
    <3>1. SUFFICES ASSUME changes = 0, NEW c \in Clients, held'[c] # NoToken
                   PROVE  Good(c, version, held[c])'
      BY <1>2 DEF SessionsSurvive
    <3>2. PICK t : t = held'[c]
      OBVIOUS
    <3>3. t \in Tokens /\ receipts[t] # NoReceipt /\ receipts[t].client = c
      <4>1. CASE c = o.client
        BY <1>1, <2>2, <2>6, <3>1, <3>2, <4>1 DEF Promised
      <4>2. CASE c # o.client
        BY <2>2, <3>1, <3>2, <4>2 DEF ContextInv, SessionsSurvive, Good, Known
      <4> QED
        BY <4>1, <4>2
    <3>4. Original(receipts[t]) /\ version = 1
      BY <3>1, <3>3, NothingSweeps DEF Certain
    <3> QED
      BY <1>2, <3>2, <3>3, <3>4 DEF Good, Known, Stale, Original
  <2> QED
    BY <2>2, <2>3, <2>4, <2>5, <2>7, <2>8 DEF ContextInv
<1> QED
  BY <1>4, <1>5

\* A client closes its own receipt, and presents its token no more.
LEMMA CloseContextKeeps ==
  ASSUME ContextInv, NEW c \in Clients, CloseContext(c)
  PROVE  ContextInv'
<1>1. PICK t : t = held[c]
  OBVIOUS
<1>2. /\ t # NoToken /\ t \in Tokens /\ held \in [Clients -> Tokens \cup {NoToken}]
      /\ held' = [held EXCEPT ![c] = NoToken]
      /\ receipts' = IF Known(c, t) THEN [receipts EXCEPT ![t] = NoReceipt] ELSE receipts
      /\ UNCHANGED <<disk, discoveries, op, changes, version>>
  BY <1>1 DEF ContextInv, CloseContext, Close
<1>3. /\ receipts \in [Tokens -> Receipt \cup {NoReceipt}]
      /\ receipts' \in [Tokens -> Receipt \cup {NoReceipt}]
      /\ \A u \in Tokens : receipts'[u] # NoReceipt => receipts'[u] = receipts[u]
      /\ \A u \in Tokens \ {t} : receipts'[u] = receipts[u]
      /\ ~ Known(c, t) => receipts' = receipts
  BY <1>2, NothingSweeps
<1>4. /\ held' \in [Clients -> Tokens \cup {NoToken}] /\ held'[c] = NoToken
      /\ \A d \in Clients \ {c} : held'[d] = held[d]
  BY <1>2
<1>5. HarnessTypeOK' /\ Paced' /\ version' \in Version
  BY <1>2, <1>3 DEF ContextInv, HarnessTypeOK, Paced
<1>6. AllShaped' /\ CallersWait'
  BY <1>2 DEF ContextInv, AllShaped, Shaped, CallersWait, InWait
<1>7. Undisturbed'
  <2>1. SUFFICES ASSUME changes = 0 PROVE Undisturbed'
    BY <1>2 DEF Undisturbed
  <2>2. \A u \in Tokens : receipts'[u] # NoReceipt => Original(receipts'[u])
    BY <1>3, <2>1, NothingSweeps DEF Certain
  <2>3. ASSUME NEW r \in Slots, op[r] # NoOp, op[r].step = "booted" PROVE Promised(r)'
    <3>1. Promised(r)
      BY <2>1, <2>3 DEF ContextInv, Undisturbed
    <3>2. PICK u : u = op[r].token
      OBVIOUS
    <3>3. u \in Tokens /\ u # t /\ receipts'[u] = receipts[u]
      BY <1>1, <1>3, <3>1, <3>2 DEF Promised
    <3>4. \A d \in Clients : held'[d] # u
      BY <1>4, <3>1, <3>2, <3>3, CodingAssumption DEF Promised
    <3> QED
      BY <1>2, <3>1, <3>2, <3>3, <3>4 DEF Promised
  <2> QED
    BY <1>2, <2>1, <2>2, <2>3 DEF ContextInv, Undisturbed, Original, Steady
<1>8. SessionsSurvive'
  <2>1. SUFFICES ASSUME changes = 0, NEW d \in Clients, held'[d] # NoToken
                 PROVE  Good(d, version, held[d])'
    BY <1>2 DEF SessionsSurvive
  <2>2. d # c /\ held'[d] = held[d]
    BY <1>4, <2>1
  <2>3. PICK u : u = held[d]
    OBVIOUS
  <2>4. Good(d, version, u)
    BY <2>1, <2>2, <2>3 DEF ContextInv, SessionsSurvive
  <2>5. receipts'[u] = receipts[u]
    BY <1>3, <2>2, <2>4 DEF Good, Known
  <2> QED
    BY <1>2, <2>2, <2>3, <2>4, <2>5 DEF Good, Known, Stale
<1> QED
  BY <1>4, <1>5, <1>6, <1>7, <1>8 DEF ContextInv

\* What changes outside the calls.
LEMMA ContextChangesKeep ==
  ASSUME ContextInv, ContextChanges
  PROVE  ContextInv'
<1>1. /\ changes < MaxChanges /\ changes' = changes + 1 /\ UNCHANGED <<op, discoveries, held>>
      /\ changes' \in 0..MaxChanges /\ changes' # 0 /\ changes \in 0..MaxChanges
  <2>1. changes < MaxChanges /\ changes' = changes + 1 /\ UNCHANGED <<op, discoveries, held>>
    BY DEF ContextChanges, Edit, Expire
  <2> QED
    BY <2>1, CodingAssumption, NothingSweeps
<1>2. Undisturbed' /\ SessionsSurvive'
  BY <1>1 DEF Undisturbed, SessionsSurvive
<1>3. AllShaped' /\ CallersWait'
  BY <1>1 DEF ContextInv, AllShaped, Shaped, CallersWait, InWait
<1>4. /\ version \in Version /\ version <= changes + 1 /\ disk \in [global : Revision, project : Revision]
      /\ \A key \in Keys : disk[key] <= changes + 1
      /\ receipts \in [Tokens -> Receipt \cup {NoReceipt}]
  BY NothingSweeps DEF ContextInv, Paced, HarnessTypeOK
<1>5. ASSUME NEW key \in Keys, Edit(key), UNCHANGED version
      PROVE  HarnessTypeOK' /\ Paced' /\ version' \in Version
  <2>1. disk' = [disk EXCEPT ![key] = @ + 1] /\ UNCHANGED receipts
    BY <1>5 DEF Edit
  <2>2. disk[key] \in Revision /\ disk[key] + 1 \in Revision
    BY <1>1, <1>4, CodingAssumption DEF Revision, Keys
  <2>3. PICK n : n = disk[key] + 1
    OBVIOUS
  <2>4. n \in Revision /\ n <= changes' + 1 /\ disk' = [disk EXCEPT ![key] = n]
    BY <1>1, <1>4, <2>1, <2>2, <2>3, CodingAssumption DEF Revision
  <2>5. /\ disk' \in [global : Revision, project : Revision]
        /\ \A k \in Keys : disk'[k] = n \/ disk'[k] = disk[k]
    BY <1>4, <2>4 DEF Keys
  <2>6. Paced'
    <3>1. \A k \in Keys : disk'[k] <= changes' + 1
      BY <1>1, <1>4, <2>4, <2>5, CodingAssumption DEF Revision, Keys
    <3>2. version' <= changes' + 1
      BY <1>1, <1>4, <1>5, CodingAssumption DEF Version
    <3> QED
      BY <3>1, <3>2 DEF Paced
  <2> QED
    BY <1>1, <1>4, <1>5, <2>1, <2>5, <2>6 DEF ContextInv, HarnessTypeOK
<1>6. ASSUME NEW t \in Tokens, Expire(t), UNCHANGED version
      PROVE  HarnessTypeOK' /\ Paced' /\ version' \in Version
  <2>1. receipts' = [receipts EXCEPT ![t].expired = TRUE] /\ receipts[t] # NoReceipt /\ UNCHANGED disk
    BY <1>6 DEF Expire
  <2>2. PICK r : r = [receipts[t] EXCEPT !.expired = TRUE]
    OBVIOUS
  <2>3. receipts[t] \in Receipt
    BY <1>4, <2>1
  <2>4. r \in Receipt
    BY <2>2, <2>3 DEF Receipt
  <2>5. receipts' \in [Tokens -> Receipt \cup {NoReceipt}]
    BY <1>4, <2>1, <2>2, <2>4
  <2>6. Paced'
    BY <1>1, <1>4, <1>6, <2>1, CodingAssumption DEF Paced, Version, Revision, Keys
  <2> QED
    BY <1>1, <1>4, <1>6, <2>1, <2>5, <2>6 DEF ContextInv, HarnessTypeOK
<1>7. ASSUME version' = version + 1, UNCHANGED <<disk, receipts>>
      PROVE  HarnessTypeOK' /\ Paced' /\ version' \in Version
  <2>1. version' \in Version /\ version' <= changes' + 1
    BY <1>1, <1>4, <1>7, CodingAssumption DEF Version
  <2>2. Paced'
    BY <1>1, <1>4, <1>7, <2>1, CodingAssumption DEF Paced, Revision, Keys
  <2> QED
    BY <1>1, <1>7, <2>1, <2>2 DEF ContextInv, HarnessTypeOK
<1>8. HarnessTypeOK' /\ Paced' /\ version' \in Version
  BY <1>5, <1>6, <1>7 DEF ContextChanges
<1> QED
  BY <1>1, <1>2, <1>3, <1>8 DEF ContextInv

LEMMA ContextSteps ==
  ASSUME ContextInv, ContextNext
  PROVE  ContextInv'
<1>1. ASSUME NEW s \in Slots, NEW c \in Clients, Ask(s, c) PROVE ContextInv'
  <2>1. UNCHANGED <<version, held>> /\ op[s] = NoOp
    BY <1>1 DEF Ask
  <2>2. ASSUME NEW v \in 1..version, NEW key \in Keys, Bootstrap(s, c, v, key) PROVE ContextInv'
    BY <2>1, <2>2, BootstrapBegins
  <2>3. ASSUME NEW v \in 1..version, NEW kind \in Kinds \ {"bootstrap"}, Require(s, kind, c, v, held[c])
        PROVE  ContextInv'
    <3>1. held[c] \in Tokens \cup {NoToken}
      BY DEF ContextInv
    <3>2. kind \in Kind \ {"bootstrap"}
      BY <2>3, CodingAssumption
    <3> QED
      BY <2>1, <2>3, <3>1, <3>2, RequireBegins
  <2> QED
    BY <1>1, <2>2, <2>3, Zenon DEF Ask
<1>2. ASSUME HarnessRuns PROVE ContextInv'
  <2>1. UNCHANGED <<version, held>>
    BY <1>2 DEF HarnessRuns
  <2>2. ASSUME NEW s \in Slots, op[s] # NoOp, HarnessStep(s, {held[c] : c \in Clients})
        PROVE  ContextInv'
    BY <2>1, <2>2, ProjectResolvedKeeps, OutdatedKeeps, AdmittedKeeps, SkillCheckedKeeps,
       SkillReadKeeps, RediscoverKeeps, BootKeeps DEF HarnessStep
  <2> QED
    BY <1>2, <2>1, <2>2, DiscoveriesKeep, Zenon DEF HarnessRuns
<1> QED
  BY <1>1, <1>2, CloseContextKeeps, ContextAnswersKeeps, ContextChangesKeep DEF ContextNext

-------------------------------------------------------------------------------
(* Writes and edits, one call at a time.                                            *)

\* What NoLostUpdate says of a step.
Careful ==
  \A w \in Slots :
    write'[w] # NoWrite /\ write'[w].committed /\ ~ write[w].committed =>
      IF write[w].exists THEN Held(w) \in {write[w].expected, Outside, Absent}
      ELSE Held(w) = Absent

LEMMA CallsAreNone ==
  ASSUME NEW x \in Call
  PROVE  x # NoWrite /\ x.target \in Targets
<1>1. x.step # "none" /\ x.target \in Targets
  BY DEF Call, Steps
<1>2. NoWrite.step = "none"
  BY DEF NoWrite
<1> QED
  BY <1>1, <1>2

\* One call moves: what it has to show of itself, of the lock and of the file.
LEMMA FilesMove ==
  ASSUME FilesInv, NEW w \in Slots, NEW x \in Call \cup {NoWrite}, write' = [write EXCEPT ![w] = x],
         x # NoWrite => Written(x),
         \/ file' = file
         \/ Holds(w) /\ file' = [file EXCEPT ![write[w].target] = w],
         \/ /\ writing' = writing
            /\ x # NoWrite /\ x.step \in Locked => Holds(w) /\ x.target = write[w].target
         \/ x # NoWrite /\ x.target \notin writing /\ writing' = writing \cup {x.target} /\ ~ Holds(w)
         \/ /\ Holds(w) /\ writing' = writing \ {write[w].target}
            /\ x # NoWrite => x.step \notin Locked,
         x # NoWrite /\ x.step = "rename" => file'[x.target] \in {x.expected, Outside, Absent},
         x # NoWrite /\ x.committed =>
           \/ write[w].committed
           \/ IF write[w].exists THEN Held(w) \in {write[w].expected, Outside, Absent}
              ELSE Held(w) = Absent
  PROVE  FilesInv' /\ Careful
<1>1. /\ write \in [Slots -> Call \cup {NoWrite}] /\ writing \subseteq Targets
      /\ file \in [Targets -> Contents \cup {Absent}]
  BY DEF FilesInv, FilesTypeOK
<1>2. /\ write' \in [Slots -> Call \cup {NoWrite}] /\ write'[w] = x
      /\ \A v \in Slots \ {w} : write'[v] = write[v]
  BY <1>1
<1>3. \A v \in Slots : write[v] # NoWrite => write[v] \in Call /\ write[v].target \in Targets
  BY <1>1, CallsAreNone
<1>4. x # NoWrite => x \in Call /\ x.target \in Targets
  BY CallsAreNone
<1>5. FilesTypeOK'
  <2>1. writing' \subseteq Targets
    BY <1>1, <1>4
  <2>2. file' \in [Targets -> Contents \cup {Absent}]
    BY <1>1 DEF Contents
  <2> QED
    BY <1>2, <2>1, <2>2 DEF FilesTypeOK
<1>6. \A v \in Slots : write'[v] # NoWrite => Written(write'[v])
  BY <1>2 DEF FilesInv
\* Another call that holds its target goes on to hold it, and is alone.
<1>7. ASSUME NEW v \in Slots \ {w}, Holds(v)
      PROVE  /\ write[v].target \in writing /\ write[v].target \in writing'
             /\ x # NoWrite /\ x.step \in Locked => x.target # write[v].target
             /\ Holds(w) => write[w].target # write[v].target
  <2>1. write[v].target \in writing
    BY <1>7 DEF FilesInv, Locks
  <2>2. Holds(w) => write[w].target # write[v].target
    BY <1>7 DEF FilesInv, Locks
  <2> QED
    BY <2>1, <2>2
<1>8. \A v \in Slots \ {w} : Holds(v)' <=> Holds(v)
  BY <1>2 DEF Holds
<1>9. Holds(w)' <=> x # NoWrite /\ x.step \in Locked
  BY <1>2 DEF Holds
<1>10. Locks'
  <2>1. \A v \in Slots : Holds(v)' => write'[v].target \in writing'
    <3>1. ASSUME NEW v \in Slots, Holds(v)' PROVE write'[v].target \in writing'
      <4>1. CASE v = w
        BY <1>2, <1>9, <3>1, <4>1 DEF FilesInv, Locks
      <4>2. CASE v # w
        BY <1>2, <1>7, <1>8, <3>1, <4>2
      <4> QED
        BY <4>1, <4>2
    <3> QED
      BY <3>1
  <2>2. ASSUME NEW u \in Slots, NEW v \in Slots, Holds(u)', Holds(v)',
               write'[u].target = write'[v].target
        PROVE  u = v
    <3>1. CASE u # w /\ v # w
      BY <1>2, <1>8, <2>2, <3>1 DEF FilesInv, Locks
    <3>2. CASE u = w /\ v # w
      BY <1>2, <1>7, <1>8, <1>9, <2>2, <3>2
    <3>3. CASE u # w /\ v = w
      BY <1>2, <1>7, <1>8, <1>9, <2>2, <3>3
    <3> QED
      BY <3>1, <3>2, <3>3
  <2> QED
    BY <2>1, <2>2 DEF Locks
<1>11. Guarded'
  <2>1. ASSUME NEW v \in Slots, At(v, "rename")'
        PROVE  Held(v)' \in {write'[v].expected, Outside, Absent}
    <3>1. CASE v = w
      BY <1>2, <2>1, <3>1 DEF At, Held
    <3>2. CASE v # w
      <4>1. write'[v] = write[v] /\ At(v, "rename") /\ Holds(v)
        BY <1>2, <2>1, <3>2 DEF At, Holds, Locked
      <4>2. Held(v) \in {write[v].expected, Outside, Absent}
        BY <4>1 DEF FilesInv, Guarded
      <4>3. file'[write[v].target] = file[write[v].target]
        BY <1>1, <1>3, <1>7, <3>2, <4>1 DEF Holds
      <4> QED
        BY <4>1, <4>2, <4>3 DEF Held
    <3> QED
      BY <3>1, <3>2
  <2> QED
    BY <2>1 DEF Guarded
<1>12. Careful
  BY <1>2 DEF Careful
<1> QED
  BY <1>5, <1>6, <1>10, <1>11, <1>12 DEF FilesInv

\* What a call becomes when it is answered, and on its way out.
LEMMA Answers ==
  ASSUME NEW c \in Call, NEW outcome \in Outcomes
  PROVE  LET x == Answered(c, outcome)
         IN /\ x \in Call /\ x.step = "answered" /\ x.outcome = outcome
            /\ x.tool = c.tool /\ x.target = c.target /\ x.dry = c.dry
            /\ x.interrupted = c.interrupted /\ x.exists = c.exists /\ x.committed = c.committed
  BY DEF Answered, Call

LEMMA Fails ==
  ASSUME NEW c \in Call, NEW outcome \in Outcomes
  PROVE  LET x == Failed(c, outcome)
         IN /\ x \in Call /\ x.step = "finally" /\ x.outcome = outcome
            /\ x.tool = c.tool /\ x.target = c.target /\ x.dry = c.dry
            /\ x.interrupted = c.interrupted /\ x.exists = c.exists /\ x.committed = c.committed
  BY DEF Failed, Call, Steps

\* What an edit's last checkpoint and its last test answer instead.
Overruled(c, outcome) ==
  /\ c.tool = "edit"
  /\ \/ outcome = "cancelled" /\ c.interrupted
     \/ outcome = "conflict" /\ ~ c.exists

LEMMA AnswersAfterWrite ==
  ASSUME NEW c \in Call, NEW outcome \in Outcomes
  PROVE  LET x == AfterWrite(c, outcome)
         IN /\ x \in Call /\ x.step = "answered"
            /\ x.outcome # outcome => Overruled(c, x.outcome) /\ x.outcome # "applied"
            /\ x.outcome = "applied" => ~ CreatedByAnEdit(c)
            /\ x.tool = c.tool /\ x.target = c.target /\ x.dry = c.dry
            /\ x.interrupted = c.interrupted /\ x.exists = c.exists /\ x.committed = c.committed
<1>1. "cancelled" \in Outcomes /\ "conflict" \in Outcomes
  BY DEF Outcomes
<1>2. PICK o : /\ o \in Outcomes /\ AfterWrite(c, outcome) = Answered(c, o)
               /\ o # outcome => Overruled(c, o)
               /\ o = "applied" => ~ CreatedByAnEdit(c)
  <2>1. CASE c.tool = "edit" /\ outcome \in {"applied", "preview"} /\ c.interrupted
    BY <1>1, <2>1 DEF AfterWrite, Overruled, CreatedByAnEdit
  <2>2. CASE c.tool = "edit" /\ outcome \in {"applied", "preview"} /\ ~ c.interrupted /\ ~ c.exists
    BY <1>1, <2>2 DEF AfterWrite, Overruled, CreatedByAnEdit
  <2>3. CASE ~ (c.tool = "edit" /\ outcome \in {"applied", "preview"} /\ (c.interrupted \/ ~ c.exists))
    BY <2>3 DEF AfterWrite, CreatedByAnEdit
  <2> QED
    BY <2>1, <2>2, <2>3
<1> QED
  BY <1>2, Answers DEF Overruled

\* A call as it is found, by the await it stands at.
LEMMA CallsStand ==
  ASSUME FilesInv, NEW w \in Slots, NEW step \in Steps, At(w, step)
  PROVE  /\ write[w] \in Call /\ write[w] # NoWrite /\ write[w].step = step /\ Written(write[w])
         /\ write[w].target \in Targets
         /\ Holds(w) <=> step \in Locked
         /\ step \notin {"unlink", "finally"} => ~ write[w].committed
<1>1. write[w] # NoWrite /\ write[w].step = step /\ Written(write[w])
  BY DEF At, FilesInv
<1>2. write[w] \in Call
  BY <1>1 DEF FilesInv, FilesTypeOK
<1>3. step # "answered"
  BY DEF Steps
<1> QED
  BY <1>1, <1>2, <1>3, CallsAreNone DEF Holds, Written

\* A call that has not got the lock, and one that is refused before it has.
LEMMA EarlyMove ==
  ASSUME FilesInv, NEW w \in Slots, NEW x \in Call, write' = [write EXCEPT ![w] = x],
         UNCHANGED <<file, writing>>,
         ~ x.committed, x.step \in {"edit", "path", "read", "stat", "answered"},
         x.step = "answered" => x.outcome # "applied"
  PROVE  FilesInv' /\ Careful
<1>1. Written(x) /\ x.step \notin Locked /\ x.step # "rename"
  BY DEF Written, Locked
<1> QED
  BY <1>1, FilesMove

\* One that asks for the lock.
LEMMA AcquireMove ==
  ASSUME FilesInv, NEW w \in Slots, ~ Holds(w), NEW c \in Call, ~ c.committed, ~ c.dry,
         Acquire(w, c), UNCHANGED file
  PROVE  FilesInv' /\ Careful
<1>1. CASE MayWrite(c.target)
  <2>1. PICK x : x = [c EXCEPT !.step = "temp"]
    OBVIOUS
  <2>2. /\ x \in Call /\ x.step = "temp" /\ x.target = c.target /\ x.dry = c.dry
        /\ x.committed = c.committed
    BY <2>1 DEF Call, Steps
  <2>3. /\ write' = [write EXCEPT ![w] = x] /\ writing' = writing \cup {x.target}
        /\ x.target \notin writing
    BY <1>1, <2>1, <2>2 DEF Acquire, MayWrite
  <2>4. Written(x)
    BY <2>2 DEF Written
  <2>5. x # NoWrite
    BY <2>2, CallsAreNone
  <2> QED
    BY <2>2, <2>3, <2>4, <2>5, FilesMove
<1>2. CASE ~ MayWrite(c.target)
  <2>1. PICK x : x = Answered(c, "conflict")
    OBVIOUS
  <2>2. x \in Call /\ x.step = "answered" /\ x.outcome = "conflict" /\ ~ x.committed
    BY <2>1, Answers DEF Outcomes
  <2>3. write' = [write EXCEPT ![w] = x] /\ UNCHANGED writing
    BY <1>2, <2>1 DEF Acquire
  <2> QED
    BY <2>2, <2>3, EarlyMove
<1> QED
  BY <1>1, <1>2

\* One that holds the lock and leaves the file alone.
LEMMA HeldMove ==
  ASSUME FilesInv, NEW w \in Slots, Holds(w), NEW x \in Call, write' = [write EXCEPT ![w] = x],
         UNCHANGED <<file, writing>>, x.target = write[w].target, x.committed => write[w].committed,
         Written(x), x.step = "rename" => Held(w) = x.expected
  PROVE  FilesInv' /\ Careful
  BY FilesMove DEF Held

LEMMA BeginWriteKeeps ==
  ASSUME FilesInv, NEW w \in Slots, NEW tool \in {"write", "edit"}, NEW target \in Targets,
         NEW expected \in {Base, NoHash} \cup Slots, NEW dry \in BOOLEAN,
         BeginWrite(w, tool, target, expected, dry)
  PROVE  FilesInv' /\ Careful
<1>1. PICK x : x =
       [step |-> IF tool = "edit" THEN "edit" ELSE "path", tool |-> tool, target |-> target,
        expected |-> expected, dry |-> dry, interrupted |-> FALSE, exists |-> FALSE,
        seen |-> Absent, temp |-> FALSE, committed |-> FALSE, outcome |-> "none"]
  OBVIOUS
<1>2. x \in Call /\ ~ x.committed /\ x.step \in {"edit", "path"}
  BY <1>1 DEF Call, Steps, Contents
<1>3. write' = [write EXCEPT ![w] = x] /\ UNCHANGED <<file, writing>>
  BY <1>1 DEF BeginWrite
<1> QED
  BY <1>2, <1>3, EarlyMove

LEMMA EditReadKeeps ==
  ASSUME FilesInv, NEW w \in Slots, EditRead(w)
  PROVE  FilesInv' /\ Careful
<1>1. PICK c : c = write[w]
  OBVIOUS
<1>2. c \in Call /\ ~ c.committed /\ UNCHANGED <<file, writing>>
  BY <1>1, CallsStand DEF EditRead, Steps
<1>3. CASE write' = [write EXCEPT ![w].step = "path"]
  <2>1. PICK x : x = [c EXCEPT !.step = "path"]
    OBVIOUS
  <2>2. x \in Call /\ ~ x.committed /\ x.step = "path"
    BY <1>2, <2>1 DEF Call, Steps
  <2>3. write' = [write EXCEPT ![w] = x]
    BY <1>1, <1>3, <2>1
  <2> QED
    BY <1>2, <2>2, <2>3, EarlyMove
<1>4. ASSUME NEW outcome \in {"cancelled", "refused", "conflict"},
             write' = [write EXCEPT ![w] = Answered(@, outcome)]
      PROVE  FilesInv' /\ Careful
  <2>1. PICK x : x = Answered(c, outcome)
    OBVIOUS
  <2>2. x \in Call /\ ~ x.committed /\ x.step = "answered" /\ x.outcome = outcome
    BY <1>2, <2>1, Answers DEF Outcomes
  <2>3. write' = [write EXCEPT ![w] = x]
    BY <1>1, <1>4, <2>1
  <2> QED
    BY <1>2, <2>2, <2>3, EarlyMove
<1> QED
  BY <1>3, <1>4, Zenon DEF EditRead

LEMMA PathResolvedKeeps ==
  ASSUME FilesInv, NEW w \in Slots, PathResolved(w)
  PROVE  FilesInv' /\ Careful
<1>1. PICK c : c = [write[w] EXCEPT !.exists = Held(w) # Absent]
  OBVIOUS
<1>2. write[w] \in Call /\ ~ write[w].committed /\ ~ Holds(w) /\ UNCHANGED file
  BY CallsStand DEF PathResolved, Steps, Locked
<1>3. c \in Call /\ ~ c.committed
  BY <1>1, <1>2 DEF Call
<1>4. ASSUME NEW x \in Call, ~ x.committed, x.step \in {"read", "answered"},
             x.step = "answered" => x.outcome # "applied",
             write' = [write EXCEPT ![w] = x], UNCHANGED writing
      PROVE  FilesInv' /\ Careful
  BY <1>2, <1>4, EarlyMove
<1>5. CASE write' = [write EXCEPT ![w] = OutOfBounds(c)] /\ UNCHANGED writing
  <2>1. PICK x : x = OutOfBounds(c)
    OBVIOUS
  <2>2. x \in Call /\ ~ x.committed /\ x.step = "answered" /\ x.outcome # "applied"
    BY <1>3, <2>1, Answers DEF OutOfBounds, Outcomes
  <2> QED
    BY <1>4, <1>5, <2>1, <2>2
<1>6. CASE write' = [write EXCEPT ![w] = [c EXCEPT !.step = "read"]] /\ UNCHANGED writing
  <2>1. PICK x : x = [c EXCEPT !.step = "read"]
    OBVIOUS
  <2>2. x \in Call /\ ~ x.committed /\ x.step = "read"
    BY <1>3, <2>1 DEF Call, Steps
  <2> QED
    BY <1>4, <1>6, <2>1, <2>2
<1>7. CASE write' = [write EXCEPT ![w] = AfterWrite(c, "preview")] /\ UNCHANGED writing
  <2>1. PICK x : x = AfterWrite(c, "preview")
    OBVIOUS
  <2>2. x \in Call /\ ~ x.committed /\ x.step = "answered" /\ x.outcome # "applied"
    BY <1>3, <2>1, AnswersAfterWrite DEF Outcomes
  <2> QED
    BY <1>4, <1>7, <2>1, <2>2
<1>8. CASE ~ c.dry /\ Acquire(w, c)
  BY <1>2, <1>3, <1>8, AcquireMove
<1> QED
  BY <1>1, <1>5, <1>6, <1>7, <1>8, Zenon DEF PathResolved

LEMMA CurrentReadKeeps ==
  ASSUME FilesInv, NEW w \in Slots, CurrentRead(w)
  PROVE  FilesInv' /\ Careful
<1>1. PICK c : c = write[w]
  OBVIOUS
<1>2. c \in Call /\ ~ c.committed /\ c.target \in Targets /\ UNCHANGED <<file, writing>>
  BY <1>1, CallsStand DEF CurrentRead, Steps
<1>3. PICK x : x = IF c.interrupted THEN Answered(c, "cancelled")
                   ELSE IF Held(w) = Absent THEN Answered(c, "refused")
                   ELSE [c EXCEPT !.step = "stat", !.seen = Held(w)]
  OBVIOUS
<1>4. write' = [write EXCEPT ![w] = x]
  BY <1>1, <1>3 DEF CurrentRead
<1>5. Held(w) \in Contents \cup {Absent}
  BY <1>1, <1>2 DEF Held, FilesInv, FilesTypeOK
<1>6. /\ x \in Call /\ ~ x.committed /\ x.step \in {"stat", "answered"}
      /\ x.step = "answered" => x.outcome # "applied"
  <2>1. CASE x = Answered(c, "cancelled")
    BY <1>2, <2>1, Answers DEF Outcomes
  <2>2. CASE x = Answered(c, "refused")
    BY <1>2, <2>2, Answers DEF Outcomes
  <2>3. CASE x = [c EXCEPT !.step = "stat", !.seen = Held(w)]
    BY <1>2, <1>5, <2>3 DEF Call, Steps
  <2> QED
    BY <1>3, <2>1, <2>2, <2>3
<1> QED
  BY <1>2, <1>4, <1>6, EarlyMove

LEMMA HashComparedKeeps ==
  ASSUME FilesInv, NEW w \in Slots, HashCompared(w)
  PROVE  FilesInv' /\ Careful
<1>1. PICK c : c = write[w]
  OBVIOUS
<1>2. c \in Call /\ ~ c.committed /\ ~ Holds(w) /\ UNCHANGED file
  BY <1>1, CallsStand DEF HashCompared, Steps, Locked
<1>3. CASE ~ c.dry /\ Acquire(w, c)
  BY <1>2, <1>3, AcquireMove
<1>4. CASE ~ (~ c.dry /\ Acquire(w, c))
  <2>1. UNCHANGED writing
    BY <1>1, <1>4 DEF HashCompared
  <2>2. PICK x : x = IF Held(w) = Absent THEN Answered(c, "refused")
                     ELSE IF c.dry /\ (c.tool = "write" \/ c.expected = c.seen)
                     THEN AfterWrite(c, "preview")
                     ELSE IF c.expected = NoHash THEN Answered(c, "refused")
                     ELSE Answered(c, IF c.expected # c.seen THEN "conflict" ELSE "cancelled")
    OBVIOUS
  <2>3. write' = [write EXCEPT ![w] = x]
    BY <1>1, <1>4, <2>2 DEF HashCompared
  <2>4. \/ x = AfterWrite(c, "preview")
        \/ \E outcome \in {"refused", "conflict", "cancelled"} : x = Answered(c, outcome)
    BY <2>2
  <2>5. x \in Call /\ ~ x.committed /\ x.step = "answered" /\ x.outcome # "applied"
    BY <1>2, <2>4, Answers, AnswersAfterWrite DEF Outcomes
  <2> QED
    BY <1>2, <2>1, <2>3, <2>5, EarlyMove
<1> QED
  BY <1>3, <1>4

LEMMA TempWrittenKeeps ==
  ASSUME FilesInv, NEW w \in Slots, TempWritten(w)
  PROVE  FilesInv' /\ Careful
<1>1. PICK c : c = write[w]
  OBVIOUS
<1>2. c \in Call /\ ~ c.committed /\ ~ c.dry /\ Holds(w) /\ UNCHANGED <<file, writing>>
  BY <1>1, CallsStand DEF TempWritten, Steps, Locked, Written
<1>3. PICK opened \in BOOLEAN, synced \in BOOLEAN :
        write' = [write EXCEPT ![w] =
          IF synced /\ ~ c.interrupted
          THEN [c EXCEPT !.temp = TRUE, !.step = IF c.exists THEN "recheck" ELSE "link"]
          ELSE Failed([c EXCEPT !.temp = opened], IF synced THEN "cancelled" ELSE "refused")]
  BY <1>1, Zenon DEF TempWritten
<1>4. CASE synced /\ ~ c.interrupted
  <2>1. PICK x : x = [c EXCEPT !.temp = TRUE, !.step = IF c.exists THEN "recheck" ELSE "link"]
    OBVIOUS
  <2>2. /\ x \in Call /\ x.step = IF c.exists THEN "recheck" ELSE "link"
        /\ x.target = c.target /\ x.committed = c.committed /\ x.exists = c.exists /\ x.dry = c.dry
    BY <1>2, <2>1 DEF Call, Steps
  <2>3. Written(x) /\ x.step # "rename"
    BY <1>2, <2>2 DEF Written
  <2>4. write' = [write EXCEPT ![w] = x]
    BY <1>3, <1>4, <2>1
  <2> QED
    BY <1>1, <1>2, <2>2, <2>3, <2>4, HeldMove
<1>5. CASE ~ (synced /\ ~ c.interrupted)
  <2>1. PICK d : d = [c EXCEPT !.temp = opened]
    OBVIOUS
  <2>2. d \in Call /\ d.target = c.target /\ d.committed = c.committed /\ d.dry = c.dry
    BY <1>2, <2>1 DEF Call
  <2>3. PICK outcome \in {"cancelled", "refused"} : outcome = IF synced THEN "cancelled" ELSE "refused"
    OBVIOUS
  <2>4. PICK x : x = Failed(d, outcome)
    OBVIOUS
  <2>5. /\ x \in Call /\ x.step = "finally" /\ x.outcome = outcome /\ x.target = c.target
        /\ ~ x.committed /\ ~ x.dry
    BY <1>2, <2>2, <2>4, Fails DEF Outcomes
  <2>6. write' = [write EXCEPT ![w] = x]
    BY <1>3, <1>5, <2>1, <2>3, <2>4
  <2>7. Written(x)
    BY <2>5 DEF Written
  <2> QED
    BY <1>1, <1>2, <2>5, <2>6, <2>7, HeldMove
<1> QED
  BY <1>4, <1>5

LEMMA RecheckedKeeps ==
  ASSUME FilesInv, NEW w \in Slots, Rechecked(w)
  PROVE  FilesInv' /\ Careful
<1>1. PICK c : c = write[w]
  OBVIOUS
<1>2. /\ c \in Call /\ ~ c.committed /\ ~ c.dry /\ c.exists /\ Holds(w)
      /\ UNCHANGED <<file, writing>>
  BY <1>1, CallsStand DEF Rechecked, Steps, Locked, Written
<1>3. \/ \E outcome \in {"cancelled", "refused", "conflict"} :
           write' = [write EXCEPT ![w] = Failed(c, outcome)]
      \/ write' = [write EXCEPT ![w] = [c EXCEPT !.step = "rename"]] /\ Held(w) = c.expected
  BY <1>1 DEF Rechecked, Unchanged
<1>4. ASSUME NEW outcome \in {"cancelled", "refused", "conflict"},
             write' = [write EXCEPT ![w] = Failed(c, outcome)]
      PROVE  FilesInv' /\ Careful
  <2>1. PICK x : x = Failed(c, outcome)
    OBVIOUS
  <2>2. /\ x \in Call /\ x.step = "finally" /\ x.outcome = outcome /\ x.target = c.target
        /\ ~ x.committed /\ ~ x.dry
    BY <1>2, <2>1, Fails DEF Outcomes
  <2>3. Written(x)
    BY <2>2 DEF Written
  <2> QED
    BY <1>1, <1>2, <1>4, <2>1, <2>2, <2>3, HeldMove
<1>5. CASE write' = [write EXCEPT ![w] = [c EXCEPT !.step = "rename"]] /\ Held(w) = c.expected
  <2>1. PICK x : x = [c EXCEPT !.step = "rename"]
    OBVIOUS
  <2>2. /\ x \in Call /\ x.step = "rename" /\ x.target = c.target /\ ~ x.committed /\ ~ x.dry
        /\ x.exists /\ x.expected = c.expected
    BY <1>2, <2>1 DEF Call, Steps
  <2>3. Written(x)
    BY <2>2 DEF Written
  <2> QED
    BY <1>1, <1>2, <1>5, <2>1, <2>2, <2>3, HeldMove
<1> QED
  BY <1>3, <1>4, <1>5

LEMMA RenamedKeeps ==
  ASSUME FilesInv, NEW w \in Slots, Renamed(w)
  PROVE  FilesInv' /\ Careful
<1>1. PICK c : c = write[w]
  OBVIOUS
<1>2. /\ c \in Call /\ ~ c.committed /\ ~ c.dry /\ c.exists /\ Holds(w) /\ At(w, "rename")
      /\ UNCHANGED writing
  BY <1>1, CallsStand DEF Renamed, Steps, Locked, Written
<1>3. Held(w) \in {c.expected, Outside, Absent}
  BY <1>1, <1>2 DEF FilesInv, Guarded
<1>4. ASSUME file' = [file EXCEPT ![c.target] = w],
             write' = [write EXCEPT ![w] = [Failed(c, "applied") EXCEPT !.temp = FALSE, !.committed = TRUE]]
      PROVE  FilesInv' /\ Careful
  <2>1. PICK d : d = Failed(c, "applied")
    OBVIOUS
  <2>2. /\ d \in Call /\ d.step = "finally" /\ d.outcome = "applied" /\ d.target = c.target
        /\ ~ d.dry
    BY <1>2, <2>1, Fails DEF Outcomes
  <2>3. PICK x : x = [d EXCEPT !.temp = FALSE, !.committed = TRUE]
    OBVIOUS
  <2>4. /\ x \in Call /\ x.step = "finally" /\ x.outcome = "applied" /\ x.target = c.target
        /\ ~ x.dry /\ x.committed
    BY <2>2, <2>3 DEF Call
  <2>5. Written(x) /\ x # NoWrite
    BY <2>4, CallsAreNone DEF Written
  <2>6. write' = [write EXCEPT ![w] = x]
    BY <1>4, <2>1, <2>3
  <2> QED
    BY <1>1, <1>2, <1>3, <1>4, <2>4, <2>5, <2>6, FilesMove
<1>5. ASSUME write' = [write EXCEPT ![w] = Failed(c, "refused")], UNCHANGED file
      PROVE  FilesInv' /\ Careful
  <2>1. PICK x : x = Failed(c, "refused")
    OBVIOUS
  <2>2. /\ x \in Call /\ x.step = "finally" /\ x.outcome = "refused" /\ x.target = c.target
        /\ ~ x.committed /\ ~ x.dry
    BY <1>2, <2>1, Fails DEF Outcomes
  <2>3. Written(x)
    BY <2>2 DEF Written
  <2> QED
    BY <1>1, <1>2, <1>5, <2>1, <2>2, <2>3, HeldMove
<1> QED
  BY <1>1, <1>4, <1>5, Zenon DEF Renamed

LEMMA LinkedKeeps ==
  ASSUME FilesInv, NEW w \in Slots, Linked(w)
  PROVE  FilesInv' /\ Careful
<1>1. PICK c : c = write[w]
  OBVIOUS
<1>2. /\ c \in Call /\ ~ c.committed /\ ~ c.dry /\ ~ c.exists /\ Holds(w) /\ UNCHANGED writing
  BY <1>1, CallsStand DEF Linked, Steps, Locked, Written
<1>3. ASSUME Vacant(w), file' = [file EXCEPT ![c.target] = w],
             write' = [write EXCEPT ![w].step = "unlink", ![w].committed = TRUE]
      PROVE  FilesInv' /\ Careful
  <2>1. PICK x : x = [c EXCEPT !.step = "unlink", !.committed = TRUE]
    OBVIOUS
  <2>2. /\ x \in Call /\ x.step = "unlink" /\ x.target = c.target /\ ~ x.dry /\ x.committed
        /\ ~ x.exists
    BY <1>2, <2>1 DEF Call, Steps
  <2>3. Written(x) /\ x # NoWrite
    BY <2>2, CallsAreNone DEF Written
  <2>4. write' = [write EXCEPT ![w] = x]
    BY <1>1, <1>3, <2>1
  <2>5. Held(w) = Absent
    BY <1>3 DEF Vacant
  <2> QED
    BY <1>1, <1>2, <1>3, <2>2, <2>3, <2>4, <2>5, FilesMove
<1>4. ASSUME NEW outcome \in {"refused", "conflict"}, write' = [write EXCEPT ![w] = Failed(c, outcome)],
             UNCHANGED file
      PROVE  FilesInv' /\ Careful
  <2>1. PICK x : x = Failed(c, outcome)
    OBVIOUS
  <2>2. /\ x \in Call /\ x.step = "finally" /\ x.outcome = outcome /\ x.target = c.target
        /\ ~ x.committed /\ ~ x.dry
    BY <1>2, <2>1, Fails DEF Outcomes
  <2>3. Written(x)
    BY <2>2 DEF Written
  <2> QED
    BY <1>1, <1>2, <1>4, <2>1, <2>2, <2>3, HeldMove
<1> QED
  BY <1>1, <1>3, <1>4, Zenon DEF Linked

LEMMA UnlinkedKeeps ==
  ASSUME FilesInv, NEW w \in Slots, Unlinked(w)
  PROVE  FilesInv' /\ Careful
<1>1. PICK c : c = write[w]
  OBVIOUS
<1>2. /\ c \in Call /\ c.committed /\ ~ c.dry /\ ~ c.exists /\ Holds(w)
      /\ UNCHANGED <<file, writing>>
  BY <1>1, CallsStand DEF Unlinked, Steps, Locked, Written
<1>3. ASSUME NEW outcome \in {"applied", "refused"}, NEW x \in Call,
             x.step = "finally", x.outcome = outcome, x.target = c.target, x.dry = c.dry,
             x.exists = c.exists, x.committed = c.committed, write' = [write EXCEPT ![w] = x]
      PROVE  FilesInv' /\ Careful
  <2>1. Written(x)
    BY <1>2, <1>3 DEF Written
  <2> QED
    BY <1>1, <1>2, <1>3, <2>1, HeldMove
<1>4. CASE write' = [write EXCEPT ![w] = [Failed(@, "applied") EXCEPT !.temp = FALSE]]
  <2>1. PICK d : d = Failed(c, "applied")
    OBVIOUS
  <2>2. /\ d \in Call /\ d.step = "finally" /\ d.outcome = "applied" /\ d.target = c.target
        /\ d.dry = c.dry /\ d.exists = c.exists /\ d.committed = c.committed
    BY <1>2, <2>1, Fails DEF Outcomes
  <2>3. PICK x : x = [d EXCEPT !.temp = FALSE]
    OBVIOUS
  <2>4. /\ x \in Call /\ x.step = "finally" /\ x.outcome = "applied" /\ x.target = c.target
        /\ x.dry = c.dry /\ x.exists = c.exists /\ x.committed = c.committed
    BY <2>2, <2>3 DEF Call
  <2>5. write' = [write EXCEPT ![w] = x]
    BY <1>1, <1>4, <2>1, <2>3
  <2> QED
    BY <1>3, <2>4, <2>5
<1>5. CASE write' = [write EXCEPT ![w] = Failed(@, "refused")]
  <2>1. PICK x : x = Failed(c, "refused")
    OBVIOUS
  <2>2. /\ x \in Call /\ x.step = "finally" /\ x.outcome = "refused" /\ x.target = c.target
        /\ x.dry = c.dry /\ x.exists = c.exists /\ x.committed = c.committed
    BY <1>2, <2>1, Fails DEF Outcomes
  <2>3. write' = [write EXCEPT ![w] = x]
    BY <1>1, <1>5, <2>1
  <2> QED
    BY <1>3, <2>2, <2>3
<1> QED
  BY <1>4, <1>5 DEF Unlinked

LEMMA CleanedKeeps ==
  ASSUME FilesInv, NEW w \in Slots, Cleaned(w)
  PROVE  FilesInv' /\ Careful
<1>1. PICK c : c = write[w]
  OBVIOUS
<1>2. c \in Call /\ c.step = "finally" /\ Written(c) /\ Holds(w) /\ UNCHANGED file
  BY <1>1, CallsStand DEF Cleaned, Steps, Locked
<1>3. c.outcome \in Outcomes
  BY <1>2 DEF Written, Call
<1>4. PICK d : d = AfterWrite(c, c.outcome)
  OBVIOUS
<1>5. /\ d \in Call /\ d.step = "answered"
      /\ d.outcome # c.outcome => Overruled(c, d.outcome)
      /\ d.outcome = "applied" => ~ CreatedByAnEdit(c)
      /\ d.tool = c.tool /\ d.target = c.target /\ d.dry = c.dry
      /\ d.interrupted = c.interrupted /\ d.exists = c.exists /\ d.committed = c.committed
  BY <1>2, <1>3, <1>4, AnswersAfterWrite
<1>6. PICK x : x = [d EXCEPT !.temp = FALSE]
  OBVIOUS
<1>7. /\ x \in Call /\ x.step = "answered" /\ x.outcome = d.outcome
      /\ x.tool = c.tool /\ x.target = c.target /\ x.dry = c.dry
      /\ x.interrupted = c.interrupted /\ x.exists = c.exists /\ x.committed = c.committed
  BY <1>5, <1>6 DEF Call
<1>8. Written(x) /\ x.step \notin Locked
  BY <1>2, <1>5, <1>7 DEF Written, Locked, Overruled, CreatedByAnEdit
<1>9. write' = [write EXCEPT ![w] = x] /\ writing' = writing \ {write[w].target}
  BY <1>1, <1>4, <1>6 DEF Cleaned, Freed
<1> QED
  BY <1>1, <1>2, <1>7, <1>8, <1>9, FilesMove

LEMMA InterruptKeeps ==
  ASSUME FilesInv, NEW w \in Slots, Interrupt(w)
  PROVE  FilesInv' /\ Careful
<1>1. PICK c : c = write[w]
  OBVIOUS
<1>2. c # NoWrite /\ c \in Call /\ Written(c) /\ c.step # "answered" /\ UNCHANGED <<file, writing>>
  BY <1>1 DEF FilesInv, FilesTypeOK, Interrupt
<1>3. PICK x : x = [c EXCEPT !.interrupted = TRUE]
  OBVIOUS
<1>4. /\ x \in Call /\ x.step = c.step /\ x.tool = c.tool /\ x.target = c.target /\ x.dry = c.dry
      /\ x.exists = c.exists /\ x.committed = c.committed /\ x.outcome = c.outcome
      /\ x.expected = c.expected
  BY <1>2, <1>3 DEF Call
<1>5. Written(x)
  BY <1>2, <1>4 DEF Written
<1>6. write' = [write EXCEPT ![w] = x]
  BY <1>1, <1>3 DEF Interrupt
<1>7. x.step \in Locked => Holds(w)
  BY <1>1, <1>2, <1>4 DEF Holds
<1>8. x.step = "rename" => file'[x.target] \in {x.expected, Outside, Absent}
  BY <1>1, <1>2, <1>4 DEF FilesInv, Guarded, At, Held
<1> QED
  BY <1>1, <1>2, <1>4, <1>5, <1>6, <1>7, <1>8, FilesMove

\* Where an outsider writes, the content is the outsider's, or gone.
LEMMA OutsiderKeeps ==
  ASSUME FilesInv, NEW target \in Targets, NEW content \in {Outside, Absent},
         OutsiderWrites(target, content)
  PROVE  FilesInv' /\ Careful
<1>1. file' = [file EXCEPT ![target] = content] /\ UNCHANGED <<writing, write>>
  BY DEF OutsiderWrites
<1>2. file \in [Targets -> Contents \cup {Absent}]
  BY DEF FilesInv, FilesTypeOK
<1>3. /\ file' \in [Targets -> Contents \cup {Absent}]
      /\ \A u \in Targets : file'[u] = file[u] \/ file'[u] \in {Outside, Absent}
  BY <1>1, <1>2 DEF Contents
<1>4. FilesTypeOK' /\ Locks' /\ \A w \in Slots : write'[w] # NoWrite => Written(write'[w])
  BY <1>1, <1>3 DEF FilesInv, FilesTypeOK, Locks, Holds
<1>5. Guarded'
  <2>1. ASSUME NEW w \in Slots, At(w, "rename")
        PROVE  file'[write[w].target] \in {write[w].expected, Outside, Absent}
    <3>1. Held(w) \in {write[w].expected, Outside, Absent} /\ write[w].target \in Targets
      BY <2>1, CallsStand DEF FilesInv, Guarded, Steps
    <3> QED
      BY <1>3, <3>1 DEF Held
  <2> QED
    BY <1>1, <2>1 DEF Guarded, At, Held
<1>6. Careful
  BY <1>1 DEF Careful
<1> QED
  BY <1>1, <1>4, <1>5, <1>6 DEF FilesInv

LEMMA WriteSteps ==
  ASSUME FilesInv, NEW w \in Slots, WriteStep(w)
  PROVE  FilesInv' /\ Careful
  BY EditReadKeeps, PathResolvedKeeps, CurrentReadKeeps, HashComparedKeeps, TempWrittenKeeps,
     RecheckedKeeps, RenamedKeeps, LinkedKeeps, UnlinkedKeeps, CleanedKeeps DEF WriteStep

-------------------------------------------------------------------------------
(* Commands, one at a time.                                                         *)

\* A command moves, or is over and forgotten.
LEMMA CommandsMove ==
  ASSUME CommandsInv, NEW r \in Slots, NEW x \in Run \cup {NoRun}, run' = [run EXCEPT ![r] = x],
         x # NoRun => Ended(x)
  PROVE  CommandsInv'
  BY DEF CommandsInv, CommandsTypeOK

LEMMA Commands ==
  ASSUME CommandsInv, NEW r \in Slots, run[r] # NoRun
  PROVE  run[r] \in Run /\ Ended(run[r])
  BY DEF CommandsInv, CommandsTypeOK

LEMMA BeginRunKeeps ==
  ASSUME CommandsInv, NEW r \in Slots, BeginRun(r)
  PROVE  CommandsInv'
<1>1. PICK outcome \in Prepared : run' = [run EXCEPT ![r] =
      [step |-> IF outcome = "none" THEN "validate" ELSE "answered", aborted |-> FALSE,
       listening |-> FALSE, leader |-> FALSE, descendant |-> "none", cause |-> "none",
       killed |-> FALSE, outcome |-> outcome]]
  BY DEF BeginRun
<1>2. PICK x : x =
      [step |-> IF outcome = "none" THEN "validate" ELSE "answered", aborted |-> FALSE,
       listening |-> FALSE, leader |-> FALSE, descendant |-> "none", cause |-> "none",
       killed |-> FALSE, outcome |-> outcome]
  OBVIOUS
<1>3. x \in Run
  BY <1>2 DEF Run, Prepared, TooLong, NoEnvironment, Descendant, Causes
<1>4. Ended(x)
  BY <1>2 DEF Ended
<1> QED
  BY <1>1, <1>2, <1>3, <1>4, CommandsMove

LEMMA RunSteps ==
  ASSUME CommandsInv, NEW r \in Slots, RunStep(r) \/ AbortRun(r) \/ Forks(r)
  PROVE  CommandsInv'
<1>1. PICK c : c = run[r]
  OBVIOUS
<1>2. run[r] # NoRun
  BY DEF RunStep, AbortRun, Forks, NotSpawned, Spawned, RunTimesOut, GraceEnds, LeaderExits,
         DescendantExits, Closed, Running
<1>3. c \in Run /\ Ended(c)
  BY <1>1, <1>2, Commands
<1>4. ASSUME NEW x \in Run, run' = [run EXCEPT ![r] = x], Ended(x) PROVE CommandsInv'
  BY <1>4, CommandsMove
<1>5. ASSUME NotSpawned(r) PROVE CommandsInv'
  <2>1. PICK x : x = [c EXCEPT !.step = "answered", !.outcome = "spawn-failed"]
    OBVIOUS
  <2>2. x \in Run /\ Ended(x)
    BY <1>3, <2>1 DEF Run, Ended
  <2> QED
    BY <1>1, <1>4, <1>5, <2>1, <2>2 DEF NotSpawned, EndsAtOnce
<1>6. ASSUME Spawned(r) PROVE CommandsInv'
  <2>1. PICK x : x = [c EXCEPT !.step = "running", !.leader = TRUE, !.listening = ~ c.aborted]
    OBVIOUS
  <2>2. c.step = "validate"
    BY <1>1, <1>6 DEF Spawned
  <2>3. x \in Run /\ Ended(x)
    BY <1>3, <2>1, <2>2 DEF Run, Ended
  <2> QED
    BY <1>1, <1>4, <1>6, <2>1, <2>3 DEF Spawned
<1>7. ASSUME NEW d \in Run, Ended(d), d.step = "running", NEW cause \in {"timeout", "abort"}
      PROVE  Terminates(d, cause) \in Run /\ Ended(Terminates(d, cause))
  <2>1. PICK x : x = [d EXCEPT !.cause = cause]
    OBVIOUS
  <2>2. x \in Run /\ Ended(x)
    BY <1>7, <2>1 DEF Run, Ended, Causes
  <2> QED
    BY <1>7, <2>1, <2>2 DEF Terminates
<1>8. ASSUME RunTimesOut(r) PROVE CommandsInv'
  <2>1. c.step = "running"
    BY <1>1, <1>8 DEF RunTimesOut, Running
  <2>2. Terminates(c, "timeout") \in Run /\ Ended(Terminates(c, "timeout"))
    BY <1>3, <1>7, <2>1
  <2>3. run' = [run EXCEPT ![r] = Terminates(c, "timeout")]
    BY <1>1, <1>8 DEF RunTimesOut
  <2> QED
    BY <1>4, <2>2, <2>3
<1>9. ASSUME AbortRun(r) PROVE CommandsInv'
  <2>1. PICK d : d = [c EXCEPT !.aborted = TRUE]
    OBVIOUS
  <2>2. c.step # "answered"
    BY <1>1, <1>9 DEF AbortRun
  <2>3. d \in Run /\ Ended(d) /\ d.step = c.step /\ d.listening = c.listening
    BY <1>3, <2>1 DEF Run, Ended
  <2>4. d.listening => d.step = "running"
    BY <1>3, <2>2, <2>3 DEF Run, Ended
  <2>5. run' = [run EXCEPT ![r] = IF d.listening THEN Terminates(d, "abort") ELSE d]
    BY <1>1, <1>9, <2>1 DEF AbortRun
  <2>6. CASE d.listening
    <3>1. Terminates(d, "abort") \in Run /\ Ended(Terminates(d, "abort"))
      BY <1>7, <2>3, <2>4, <2>6
    <3> QED
      BY <1>4, <2>5, <2>6, <3>1
  <2>7. CASE ~ d.listening
    BY <1>4, <2>3, <2>5, <2>7
  <2> QED
    BY <2>6, <2>7
<1>10. ASSUME GraceEnds(r) PROVE CommandsInv'
  <2>1. PICK x : x = Killed(c)
    OBVIOUS
  <2>2. x \in Run /\ Ended(x)
    BY <1>3, <2>1 DEF Killed, Run, Ended, Descendant
  <2> QED
    BY <1>1, <1>4, <1>10, <2>1, <2>2 DEF GraceEnds
<1>11. ASSUME Forks(r) PROVE CommandsInv'
  <2>1. PICK kind \in Descendant \ {"none"} : run' = [run EXCEPT ![r].descendant = kind]
    BY <1>11 DEF Forks
  <2>2. PICK x : x = [c EXCEPT !.descendant = kind]
    OBVIOUS
  <2>3. c.step = "running"
    BY <1>1, <1>11 DEF Forks, Running
  <2>4. x \in Run /\ Ended(x)
    BY <1>3, <2>2, <2>3 DEF Run, Ended
  <2> QED
    BY <1>1, <1>4, <2>1, <2>2, <2>4
<1>12. ASSUME LeaderExits(r) PROVE CommandsInv'
  <2>1. PICK x : x = [c EXCEPT !.leader = FALSE]
    OBVIOUS
  <2>2. x \in Run /\ Ended(x)
    BY <1>3, <2>1 DEF Run, Ended
  <2> QED
    BY <1>1, <1>4, <1>12, <2>1, <2>2 DEF LeaderExits
<1>13. ASSUME DescendantExits(r) PROVE CommandsInv'
  <2>1. PICK x : x = [c EXCEPT !.descendant = "none"]
    OBVIOUS
  <2>2. x \in Run /\ Ended(x)
    BY <1>3, <2>1 DEF Run, Ended, Descendant
  <2> QED
    BY <1>1, <1>4, <1>13, <2>1, <2>2 DEF DescendantExits
<1>14. ASSUME Closed(r) PROVE CommandsInv'
  <2>1. PICK d : d = AtClose(c)
    OBVIOUS
  <2>2. d \in Run /\ (c.cause # "none" => ~ d.leader /\ d.descendant = "none")
    <3>1. PICK k : k = Killed(c)
      OBVIOUS
    <3>2. k \in Run /\ ~ k.leader /\ k.descendant = "none"
      BY <1>3, <3>1 DEF Killed, Run, Descendant
    <3> QED
      BY <1>3, <2>1, <3>1, <3>2 DEF AtClose
  <2>3. c.cause \in {"none", "timeout", "abort"}
    BY <1>3 DEF Run, Causes
  <2>4. PICK outcome : outcome = CASE c.cause = "none" -> "exited"
                                   [] c.cause = "timeout" -> "timed-out"
                                   [] c.cause = "abort" -> "cancelled"
    OBVIOUS
  <2>5. outcome \in {"exited", "timed-out", "cancelled"} /\ (outcome # "exited" => c.cause # "none")
    BY <2>3, <2>4
  <2>6. PICK x : x = [d EXCEPT !.step = "answered", !.outcome = outcome]
    OBVIOUS
  <2>7. x \in Run /\ Ended(x)
    BY <2>2, <2>5, <2>6 DEF Run, Ended
  <2>8. run' = [run EXCEPT ![r] = x]
    BY <1>1, <1>14, <2>1, <2>4, <2>6 DEF Closed
  <2> QED
    BY <1>4, <2>7, <2>8
<1> QED
  BY <1>5, <1>6, <1>8, <1>9, <1>10, <1>11, <1>12, <1>13, <1>14 DEF RunStep

-------------------------------------------------------------------------------
(* The coding surface.                                                              *)

\* Each part stands while the others move.
LEMMA ContextStands ==
  ASSUME ContextInv, UNCHANGED <<harnessVars, version, held>>
  PROVE  ContextInv'
<1>1. UNCHANGED <<disk, discoveries, receipts, op, changes, version, held>>
  BY DEF harnessVars
<1>2. HarnessTypeOK' /\ AllShaped' /\ CallersWait' /\ Paced'
  BY <1>1 DEF ContextInv, HarnessTypeOK, AllShaped, Shaped, CallersWait, InWait, Paced
<1>3. Undisturbed' /\ SessionsSurvive'
  BY <1>1 DEF ContextInv, Undisturbed, Original, Steady, Promised, SessionsSurvive, Good, Known, Stale
<1> QED
  BY <1>1, <1>2, <1>3 DEF ContextInv

LEMMA FilesStand ==
  ASSUME FilesInv, UNCHANGED files
  PROVE  FilesInv' /\ Careful
<1>1. UNCHANGED <<file, writing, write>>
  BY DEF files
<1>2. FilesTypeOK' /\ Locks' /\ Guarded'
  BY <1>1 DEF FilesInv, FilesTypeOK, Locks, Holds, Guarded, At, Held
<1> QED
  BY <1>1, <1>2 DEF FilesInv, Careful

LEMMA CommandsStand ==
  ASSUME CommandsInv, UNCHANGED run
  PROVE  CommandsInv'
  BY DEF CommandsInv, CommandsTypeOK

LEMMA ToolSteps ==
  ASSUME SInv, NEW s \in Slots, ToolBegins(s) \/ ToolRuns(s) \/ ToolAnswers(s) \/ AroundTools(s)
  PROVE  FilesInv' /\ Careful /\ CommandsInv'
<1>1. FilesInv /\ CommandsInv
  BY DEF SInv
<1>2. CASE ToolBegins(s)
  <2>1. ASSUME NEW tool \in {"write", "edit"}, NEW target \in Targets, NEW dry \in BOOLEAN,
               NEW expected \in {Base, NoHash} \cup Slots,
               BeginWrite(s, tool, target, expected, dry), UNCHANGED run
        PROVE  FilesInv' /\ Careful /\ CommandsInv'
    BY <1>1, <2>1, BeginWriteKeeps, CommandsStand
  <2>2. ASSUME BeginRun(s), UNCHANGED files
        PROVE  FilesInv' /\ Careful /\ CommandsInv'
    BY <1>1, <2>2, BeginRunKeeps, FilesStand
  <2> QED
    BY <1>2, <2>1, <2>2 DEF ToolBegins
<1>3. CASE ToolRuns(s)
  BY <1>1, <1>3, WriteSteps, RunSteps, FilesStand, CommandsStand DEF ToolRuns
<1>4. CASE ToolAnswers(s)
  <2>1. /\ write' = [write EXCEPT ![s] = NoWrite] /\ run' = [run EXCEPT ![s] = NoRun]
        /\ UNCHANGED <<file, writing>>
    BY <1>4 DEF ToolAnswers
  <2>2. PICK x : x = NoWrite
    OBVIOUS
  <2>3. FilesInv' /\ Careful
    BY <1>1, <2>1, <2>2, FilesMove
  <2> QED
    BY <1>1, <2>1, <2>3, CommandsMove
<1>5. CASE AroundTools(s)
  BY <1>1, <1>5, InterruptKeeps, RunSteps, OutsiderKeeps, FilesStand, CommandsStand DEF AroundTools
<1> QED
  BY <1>2, <1>3, <1>4, <1>5

LEMMA SessionSteps ==
  ASSUME SInv, [SessionNext]_sessionVars
  PROVE  SInv' /\ Careful
<1>1. ContextInv /\ FilesInv /\ CommandsInv /\ part \in {"context", "tools"}
  BY DEF SInv
<1>2. ASSUME ContextNext PROVE SInv' /\ Careful
  <2>1. UNCHANGED <<part, toolVars>>
    BY <1>2 DEF ContextNext, Ask, CloseContext, HarnessRuns, ContextAnswers, ContextChanges
  <2>2. UNCHANGED files /\ UNCHANGED run /\ UNCHANGED part
    BY <2>1 DEF toolVars, files
  <2> QED
    BY <1>1, <1>2, <2>2, ContextSteps, FilesStand, CommandsStand DEF SInv
<1>3. ASSUME ToolsNext PROVE SInv' /\ Careful
  <2>1. UNCHANGED <<harnessVars, part, version, held>>
    BY <1>3 DEF ToolsNext
  <2>2. ContextInv' /\ UNCHANGED part
    BY <1>1, <2>1, ContextStands
  <2>3. FilesInv' /\ Careful /\ CommandsInv'
    BY <1>3, ToolSteps DEF ToolsNext
  <2> QED
    BY <1>1, <2>2, <2>3 DEF SInv
<1>4. ASSUME UNCHANGED sessionVars PROVE SInv' /\ Careful
  <2>1. UNCHANGED <<harnessVars, version, held>> /\ UNCHANGED files /\ UNCHANGED run /\ UNCHANGED part
    BY <1>4 DEF sessionVars, toolVars, files
  <2> QED
    BY <1>1, <2>1, ContextStands, FilesStand, CommandsStand DEF SInv
<1> QED
  BY <1>2, <1>3, <1>4 DEF SessionNext

LEMMA SessionBegins ==
  ASSUME SessionInit
  PROVE  SInv
<1>1. HarnessInit /\ FilesInit /\ CommandsInit /\ part \in {"context", "tools"}
      /\ version = 1 /\ held = [c \in Clients |-> NoToken]
  BY DEF SessionInit
<1>2. ContextInv
  <2>1. op = [s \in Slots |-> NoOp] /\ \A s \in Slots : op[s] = NoOp
    BY <1>1 DEF HarnessInit
  <2>2. HarnessTypeOK
    <3>1. disk \in [global : Revision, project : Revision] /\ changes \in 0..MaxChanges
      BY <1>1, CodingAssumption DEF HarnessInit, Revision
    <3>2. discoveries \in [Keys -> Discovery]
      BY <1>1 DEF HarnessInit, Discovery
    <3>3. receipts \in [Tokens -> Receipt \cup {NoReceipt}]
      BY <1>1 DEF HarnessInit
    <3>4. op \in [Slots -> Op]
      BY <2>1 DEF Op
    <3> QED
      BY <3>1, <3>2, <3>3, <3>4 DEF HarnessTypeOK
  <2>3. version \in Version /\ held \in [Clients -> Tokens \cup {NoToken}] /\ Paced
    BY <1>1, CodingAssumption DEF HarnessInit, Version, Paced, Keys
  <2>4. AllShaped /\ CallersWait
    BY <1>1, <2>1 DEF HarnessInit, NoDiscovery, AllShaped, CallersWait
  <2>5. Undisturbed
    BY <1>1, <2>1 DEF HarnessInit, Undisturbed, NoDiscovery
  <2>6. SessionsSurvive
    BY <1>1 DEF SessionsSurvive
  <2> QED
    BY <2>2, <2>3, <2>4, <2>5, <2>6 DEF ContextInv
<1>3. FilesInv
  <2>1. write = [w \in Slots |-> NoWrite] /\ \A w \in Slots : write[w] = NoWrite
    BY <1>1 DEF FilesInit
  <2>2. FilesTypeOK
    BY <1>1, <2>1 DEF FilesInit, FilesTypeOK, Contents
  <2> QED
    BY <2>1, <2>2 DEF FilesInv, Locks, Holds, Guarded, At
<1>4. CommandsInv
  BY <1>1 DEF CommandsInit, CommandsInv, CommandsTypeOK
<1> QED
  BY <1>1, <1>2, <1>3, <1>4 DEF SInv

-------------------------------------------------------------------------------
(* The theorems.                                                                    *)

\* The context, the files and the commands keep their invariants, for any number of calls,
\* clients, tokens, paths and changes.
THEOREM CodingHolds == SessionSpec => []SInv
<1>1. SessionInit => SInv
  BY SessionBegins
<1>2. SInv /\ [SessionNext]_sessionVars => SInv'
  BY SessionSteps
<1> QED
  BY <1>1, <1>2, PTL DEF SessionSpec

\* Every variable keeps its type.
THEOREM CodingTypesCorrect == SessionSpec => []SessionTypeOK
<1>1. SInv => SessionTypeOK
  BY DEF SInv, ContextInv, FilesInv, CommandsInv, SessionTypeOK
<1> QED
  BY <1>1, CodingHolds, PTL

\* The instructions of a skill that are handed out are those of the revision its context
\* stands for.
THEOREM SkillsMatch == SessionSpec => []SkillsMatchTheirRevision
<1>1. SInv => SkillsMatchTheirRevision
  BY DEF SInv, ContextInv, AllShaped, Shaped, SkillsMatchTheirRevision
<1> QED
  BY <1>1, CodingHolds, PTL

\* Without a change of instructions, policy or time, no bootstrap of another call takes a
\* context away whose token was handed out.
THEOREM ContextsSurvive == SessionSpec => []SessionsSurvive
<1>1. SInv => SessionsSurvive
  BY DEF SInv, ContextInv
<1> QED
  BY <1>1, CodingHolds, PTL

\* The answer of a write or an edit tells whether the file was changed, but for the three
\* cases that the code has, and an edit is never answered as applied for a file it created.
THEOREM AnswersTellTheFile == SessionSpec => []AnswerTellsTheFile
<1>1. SInv => AnswerTellsTheFile
  BY DEF SInv, FilesInv, Written, AnswerTellsTheFile
<1> QED
  BY <1>1, CodingHolds, PTL

\* No call overwrites what another call wrote since its caller read the file.
THEOREM UpdatesAreKept == SessionSpec => NoLostUpdate
<1>1. SInv /\ [SessionNext]_sessionVars =>
        [\A w \in Slots :
           write'[w] # NoWrite /\ write'[w].committed /\ ~ write[w].committed =>
             IF write[w].exists THEN Held(w) \in {write[w].expected, Outside, Absent}
             ELSE Held(w) = Absent]_<<file, write>>
  BY SessionSteps DEF Careful
<1> QED
  BY <1>1, CodingHolds, PTL DEF SessionSpec, NoLostUpdate

\* A command that was answered as timed out or cancelled has left no process in its group.
THEOREM CommandsAreGone == SessionSpec => []CommandsLeaveNothing
<1>1. SInv => CommandsLeaveNothing
  BY DEF SInv, CommandsInv, Ended, CommandsLeaveNothing
<1> QED
  BY <1>1, CodingHolds, PTL

=============================================================================
