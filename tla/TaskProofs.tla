------------------------------ MODULE TaskProofs ------------------------------
(***************************************************************************)
(* Theorems about the task runtime, for every set of actors and requests   *)
(* and every limit.                                                        *)
(***************************************************************************)
EXTENDS TaskRefinement, FiniteSetTheorems, SequenceTheorems, TLAPS

\* What is true of every runner record on its own.  Beyond the invariants of
\* the model it says when a record has a handle, and that a running task is
\* always in the map: that is why a cancel or the shutdown finds it.
Sound(r, open) ==
  /\ r.handle <=> r.proc # "none"
  /\ r.state = "running" => r.kept
  /\ r.proc = "alive" => r.state = "running"
  /\ r.cancelRequested /\ r.proc = "alive" => r.cause # NoCause
  /\ ~open /\ r.state = "running" => r.cancelRequested
  /\ r.events = IF r.handle /\ r.state # "running" THEN 1 ELSE 0

AllSound == \A i \in Tasks : Sound(runner[i], accepting)

IInv == TypeOK /\ AllSound

-----------------------------------------------------------------------------
(* The operators that change a runner record.                              *)

LEMMA NewRunnerSound ==
  ASSUME NEW a \in Actors
  PROVE  NewRunner(a) \in RunnerRecord /\ Sound(NewRunner(a), TRUE)
  BY DEF NewRunner, RunnerRecord, Sound, NoCause, Outcomes

LEMMA TerminatedSound ==
  ASSUME NEW r \in RunnerRecord, NEW open \in BOOLEAN, Sound(r, open),
         NEW cause \in {"cancelled", "timed_out"}
  PROVE  Terminated(r, cause) \in RunnerRecord /\ Sound(Terminated(r, cause), open)
  BY DEF Terminated, RunnerRecord, Sound, NoCause, Outcomes

\* A cancel also readies the record for the shutdown.
LEMMA CancelRequestedSound ==
  ASSUME NEW r \in RunnerRecord, NEW open \in BOOLEAN, NEW later \in BOOLEAN, Sound(r, open)
  PROVE  CancelRequested(r) \in RunnerRecord /\ Sound(CancelRequested(r), later)
  BY DEF CancelRequested, Terminated, RunnerRecord, Sound, NoCause, Outcomes

LEMMA LaunchedSound ==
  ASSUME NEW r \in RunnerRecord, NEW open \in BOOLEAN, Sound(r, open),
         r.proc = "none", r.state = "running"
  PROVE  Launched(r) \in RunnerRecord /\ Sound(Launched(r), open)
  BY DEF Launched, Terminated, RunnerRecord, Sound, NoCause, Outcomes

LEMMA SettledSound ==
  ASSUME NEW r \in RunnerRecord, NEW open \in BOOLEAN, Sound(r, open),
         NEW outcome \in Outcomes, r.state = "running", r.proc # "alive"
  PROVE  Settled(r, outcome) \in RunnerRecord /\ Sound(Settled(r, outcome), open)
  BY DEF Settled, Emitted, RunnerRecord, Sound, NoCause, Outcomes

LEMMA EndedSound ==
  ASSUME NEW r \in RunnerRecord, NEW open \in BOOLEAN, Sound(r, open),
         NEW outcome \in Outcomes, r.proc = "alive"
  PROVE  LET e == [r EXCEPT !.proc = outcome]
         IN e \in RunnerRecord /\ Sound(e, open)
  BY DEF RunnerRecord, Sound, NoCause, Outcomes

\* Only a record that is no longer running may be forgotten.
LEMMA ForgottenSound ==
  ASSUME NEW r \in RunnerRecord, NEW open \in BOOLEAN, Sound(r, open), r.state # "running"
  PROVE  LET f == [r EXCEPT !.kept = FALSE]
         IN f \in RunnerRecord /\ Sound(f, open)
  BY DEF RunnerRecord, Sound, NoCause, Outcomes

-----------------------------------------------------------------------------
(* From records to the sequence of them.                                   *)

LEMMA MappedSeq ==
  ASSUME NEW S, NEW T, NEW s \in Seq(S), NEW f \in [1..Len(s) -> T]
  PROVE  f \in Seq(T) /\ Len(f) = Len(s) /\ DOMAIN f = 1..Len(s)
<1>1. Len(s) \in Nat
  BY LenProperties
<1>2. f \in Seq(T)
  BY <1>1, SeqDef
<1> QED
  BY <1>1, <1>2, LenProperties

LEMMA OneRecordChanges ==
  ASSUME IInv, NEW i \in Tasks, NEW r \in RunnerRecord, Sound(r, accepting),
         runner' = [runner EXCEPT ![i] = r], accepting' = accepting
  PROVE  /\ runner' \in Seq(RunnerRecord) /\ Tasks' = Tasks /\ AllSound'
<1>1. runner \in Seq(RunnerRecord)
  BY DEF IInv, TypeOK
<1>2. /\ runner' \in Seq(RunnerRecord) /\ Len(runner') = Len(runner)
      /\ \A j \in 1..Len(runner) : runner'[j] = IF j = i THEN r ELSE runner[j]
  BY <1>1, ExceptSeq DEF Tasks
<1>3. \A j \in Tasks' : Sound(runner'[j], accepting')
  BY <1>2 DEF Tasks, IInv, AllSound
<1> QED
  BY <1>2, <1>3 DEF Tasks, AllSound

LEMMA PrunedSound ==
  ASSUME IInv
  PROVE  /\ Pruned \in Seq(RunnerRecord) /\ Len(Pruned) = Len(runner)
         /\ \A i \in Tasks : Sound(Pruned[i], accepting)
<1> DEFINE excess == Cardinality(KeptTasks) - (MaxRetained - 1)
           old == {i \in Prunable : Cardinality({j \in Prunable : j < i}) < excess}
<1>1. Pruned = [i \in Tasks |-> IF i \in old THEN [runner[i] EXCEPT !.kept = FALSE] ELSE runner[i]]
  BY DEF Pruned
<1>2. old \subseteq Prunable
  OBVIOUS
<1> HIDE DEF old
<1>3. runner \in Seq(RunnerRecord) /\ accepting \in BOOLEAN
  BY DEF IInv, TypeOK
<1>4. ASSUME NEW i \in Tasks
      PROVE  Pruned[i] \in RunnerRecord /\ Sound(Pruned[i], accepting)
  <2>1. runner[i] \in RunnerRecord /\ Sound(runner[i], accepting)
    BY <1>3, ElementOfSeq DEF Tasks, IInv, AllSound
  <2>2. CASE i \in old
    <3>1. runner[i].state # "running"
      BY <1>2, <2>2 DEF Prunable, Active
    <3> QED
      BY <1>1, <1>3, <2>1, <2>2, <3>1, ForgottenSound
  <2>3. CASE i \notin old
    BY <1>1, <2>1, <2>3
  <2> QED
    BY <2>2, <2>3
<1>5. Pruned \in [1..Len(runner) -> RunnerRecord]
  BY <1>1, <1>4 DEF Tasks
<1> QED
  BY <1>3, <1>4, <1>5, MappedSeq DEF Tasks

-----------------------------------------------------------------------------
(* Coordination records.                                                   *)

LEMMA FinishRankIsNat ==
  ASSUME IInv
  PROVE  FinishRank \in Nat
<1>1. Len(work) \in Nat
  BY LenProperties DEF IInv, TypeOK
<1>2. IsFiniteSet(Items)
  BY <1>1, FS_Interval DEF Items
<1>3. IsFiniteSet({j \in Items : work[j].state \in Finished})
  BY <1>2, FS_Subset
<1> QED
  BY <1>3, FS_CardinalityType DEF FinishRank

LEMMA PrunedWorkType ==
  ASSUME IInv
  PROVE  PrunedWork \in Seq(WorkRecord) /\ Len(PrunedWork) = Len(work)
<1>1. work \in Seq(WorkRecord)
  BY DEF IInv, TypeOK
<1>2. \A w \in WorkRecord : [w EXCEPT !.kept = FALSE] \in WorkRecord
  BY DEF WorkRecord
<1>3. PrunedWork \in [1..Len(work) -> WorkRecord]
  BY <1>1, <1>2, ElementOfSeq DEF PrunedWork, Items
<1> QED
  BY <1>1, <1>3, MappedSeq

\* The record that a step on task j leaves there.
ItemAfter(j, w) == work' = [work EXCEPT ![j] = w]

LEMMA CoordinationSteps ==
  ASSUME IInv, NEW a \in Actors, NEW j \in Items,
         Claim(a, j) \/ Release(a, j) \/ Complete(a, j) \/ Fail(a, j) \/ CancelWork(a, j)
  PROVE  \E w \in WorkRecord : ItemAfter(j, w)
<1>1. work \in Seq(WorkRecord) /\ work[j] \in WorkRecord /\ a.client \in Clients
  BY ElementOfSeq DEF IInv, TypeOK, Items, Clients
<1>2. FinishRank \in Nat
  BY FinishRankIsNat
<1>3. CASE Claim(a, j)
  <2>1. ItemAfter(j, [work[j] EXCEPT !.state = "claimed", !.claimedBy = a.client])
    BY <1>1, <1>3 DEF Claim, ItemAfter
  <2> QED
    BY <1>1, <2>1 DEF WorkRecord
<1>4. CASE Release(a, j)
  <2>1. ItemAfter(j, [work[j] EXCEPT !.state = "available", !.claimedBy = NoClient])
    BY <1>1, <1>4 DEF Release, ItemAfter
  <2> QED
    BY <1>1, <2>1 DEF WorkRecord
<1>5. ASSUME NEW state \in Finished,
             work' = [work EXCEPT ![j].state = state, ![j].rank = FinishRank]
      PROVE  \E w \in WorkRecord : ItemAfter(j, w)
  <2>1. ItemAfter(j, [work[j] EXCEPT !.state = state, !.rank = FinishRank])
    BY <1>1, <1>5 DEF ItemAfter
  <2> QED
    BY <1>1, <1>2, <2>1 DEF WorkRecord
<1> QED
  BY <1>3, <1>4, <1>5 DEF Complete, Fail, CancelWork, Finished

LEMMA CoordinationKeepsType ==
  ASSUME IInv, NEW j \in Items, NEW w \in WorkRecord, ItemAfter(j, w)
  PROVE  work' \in Seq(WorkRecord)
  BY ExceptSeq DEF IInv, TypeOK, ItemAfter, Items

-----------------------------------------------------------------------------

LEMMA InitIInv == Init => IInv
<1> SUFFICES ASSUME Init PROVE IInv
  OBVIOUS
<1>1. runner \in Seq(RunnerRecord) /\ work \in Seq(WorkRecord)
  BY EmptySeq DEF Init
<1>2. Tasks = {}
  BY EmptySeq DEF Init, Tasks
<1> QED
  BY <1>1, <1>2 DEF Init, IInv, TypeOK, AllSound, CallRecord, Idle

\* A step that leaves the runner records alone.
LEMMA SameRunnersKeepIInv ==
  ASSUME IInv, UNCHANGED <<accepting, runner>>,
         drain' \in {"none", "pending", "resolved", "expired"},
         call' \in [Calls -> CallRecord],
         \A k \in Calls : call'[k] \in {call[k], Idle}
                            \/ (call'[k].op # "idle" /\ call'[k].task \in Tasks),
         work' \in Seq(WorkRecord)
  PROVE  IInv'
  BY DEF IInv, TypeOK, AllSound, Tasks

\* A step of one runner task, with the requests as they are.
LEMMA RunnerKeepsIInv ==
  ASSUME IInv, NEW i \in Tasks, NEW r \in RunnerRecord, Sound(r, accepting),
         runner' = [runner EXCEPT ![i] = r], UNCHANGED <<accepting, drain, work>>,
         call' \in [Calls -> CallRecord],
         \A k \in Calls : call'[k] \in {call[k], Idle}
                            \/ (call'[k].op # "idle" /\ call'[k].task \in Tasks)
  PROVE  IInv'
<1>1. /\ runner' \in Seq(RunnerRecord) /\ Tasks' = Tasks /\ AllSound'
  BY OneRecordChanges
<1> QED
  BY <1>1 DEF IInv, TypeOK

\* Every step of a runner task keeps its record sound.
LEMMA RunnerSteps ==
  ASSUME IInv, NEW i \in Tasks, RunnerStep(i)
  PROVE  IInv'
<1> DEFINE r == runner[i]
<1>1. r \in RunnerRecord /\ Sound(r, accepting) /\ accepting \in BOOLEAN
  BY ElementOfSeq DEF IInv, TypeOK, Tasks, AllSound
<1>2. call \in [Calls -> CallRecord]
  BY DEF IInv, TypeOK
<1>3. ASSUME NEW n \in RunnerRecord, Sound(n, accepting), runner' = [runner EXCEPT ![i] = n],
             UNCHANGED <<accepting, drain, call, work>>
      PROVE  IInv'
  BY <1>2, <1>3, RunnerKeepsIInv
<1>launched. CASE LaunchSucceeds(i)
  <2>1. Launched(r) \in RunnerRecord /\ Sound(Launched(r), accepting)
    BY <1>launched, <1>1, LaunchedSound DEF LaunchSucceeds, Launching
  <2> QED
    BY <1>launched, <2>1, <1>3 DEF LaunchSucceeds
<1>failed. CASE LaunchFails(i)
  <2>1. Settled(r, "failed") \in RunnerRecord /\ Sound(Settled(r, "failed"), accepting)
    BY <1>failed, <1>1, SettledSound DEF LaunchFails, Launching, Outcomes
  <2> QED
    BY <1>failed, <2>1, <1>3 DEF LaunchFails
<1>timeout. CASE ExecTimeout(i)
  <2>1. Terminated(r, "timed_out") \in RunnerRecord
        /\ Sound(Terminated(r, "timed_out"), accepting)
    BY <1>1, TerminatedSound
  <2> QED
    BY <1>timeout, <2>1, <1>3 DEF ExecTimeout
<1>4. ASSUME NEW outcome \in Outcomes, r.proc = "alive",
             runner' = [runner EXCEPT ![i].proc = outcome],
             UNCHANGED <<accepting, drain, call, work>>
      PROVE  IInv'
  <2>1. LET e == [r EXCEPT !.proc = outcome] IN e \in RunnerRecord /\ Sound(e, accepting)
    BY <1>1, <1>4, EndedSound
  <2>2. runner' = [runner EXCEPT ![i] = [r EXCEPT !.proc = outcome]]
    BY <1>4
  <2> QED
    BY <1>4, <2>1, <2>2, <1>3
<1>exit. ASSUME NEW o \in Outcomes, Exit(i, o)
         PROVE  IInv'
  BY <1>exit, <1>4 DEF Exit
<1>spawn. CASE SpawnFails(i)
  BY <1>spawn, <1>4 DEF SpawnFails, Outcomes
<1>settle. CASE Settle(i)
  <2>1. r.proc \in Outcomes /\ r.state = "running" /\ r.proc # "alive"
    BY <1>settle DEF Settle, Outcomes
  <2>2. Settled(r, r.proc) \in RunnerRecord /\ Sound(Settled(r, r.proc), accepting)
    BY <2>1, <1>1, SettledSound
  <2> QED
    BY <1>settle, <2>2, <1>3 DEF Settle
<1> QED
  BY <1>launched, <1>failed, <1>timeout, <1>exit, <1>spawn, <1>settle DEF RunnerStep

\* Every step that answers a request, or drops the record of a failed launch.
LEMMA CallSteps ==
  ASSUME IInv, NEW k \in Calls, CallStep(k)
  PROVE  IInv'
<1>1. /\ call \in [Calls -> CallRecord] /\ Idle \in CallRecord /\ work \in Seq(WorkRecord)
      /\ drain \in {"none", "pending", "resolved", "expired"}
      /\ accepting \in BOOLEAN
      /\ call[k] = Idle \/ (call[k].op # "idle" /\ call[k].task \in Tasks)
  BY DEF IInv, TypeOK, Idle, CallRecord
<1>2. ASSUME call' = [call EXCEPT ![k] = Idle], UNCHANGED <<accepting, drain, runner, work>>
      PROVE  IInv'
  BY <1>1, <1>2, SameRunnersKeepIInv
<1>returns. CASE StartReturns(k)
  <2>1. call[k].op = "start" /\ call[k].task \in Tasks /\ call[k] \in CallRecord
    BY <1>returns, <1>1 DEF StartReturns, Idle
  <2>2. [call[k] EXCEPT !.op = "settle"] \in CallRecord
        /\ [call[k] EXCEPT !.op = "settle"].op # "idle"
        /\ [call[k] EXCEPT !.op = "settle"].task \in Tasks
    BY <2>1 DEF CallRecord
  <2>3. UNCHANGED <<accepting, drain, runner, work>> /\ call' \in [Calls -> CallRecord]
        /\ call' = [call EXCEPT ![k] = IF runner[call[k].task].cancelRequested
                                       THEN [call[k] EXCEPT !.op = "settle"] ELSE Idle]
    BY <1>returns, <1>1, <2>2 DEF StartReturns
  <2> QED
    BY <1>1, <2>2, <2>3, SameRunnersKeepIInv
<1>throws. CASE StartThrows(k)
  <2> DEFINE i == call[k].task
             f == [runner[i] EXCEPT !.kept = FALSE]
  <2>1. i \in Tasks
    BY <1>throws, <1>1 DEF StartThrows, Idle
  <2>2. runner[i] \in RunnerRecord /\ Sound(runner[i], accepting)
    BY <2>1, ElementOfSeq DEF IInv, TypeOK, Tasks, AllSound
  <2>3. f \in RunnerRecord /\ Sound(f, accepting)
    BY <1>throws, <1>1, <2>2, ForgottenSound DEF StartThrows
  <2>4. runner' = [runner EXCEPT ![i] = f] /\ UNCHANGED <<accepting, drain, work>>
        /\ call' = [call EXCEPT ![k] = Idle]
    BY <1>throws DEF StartThrows
  <2> QED
    BY <1>1, <2>1, <2>3, <2>4, RunnerKeepsIInv
<1>givesUp. CASE WaitGivesUp(k)
  BY <1>givesUp, <1>2 DEF WaitGivesUp
<1>resumes. CASE CallResumes(k)
  BY <1>resumes, <1>2 DEF CallResumes
<1> QED
  BY <1>returns, <1>throws, <1>givesUp, <1>resumes DEF CallStep

\* Every request of a client.
LEMMA RequestSteps ==
  ASSUME IInv, NEW a \in Actors, Request(a)
  PROVE  IInv'
<1>1. /\ call \in [Calls -> CallRecord] /\ work \in Seq(WorkRecord)
      /\ runner \in Seq(RunnerRecord) /\ Len(runner) \in Nat
      /\ drain \in {"none", "pending", "resolved", "expired"}
      /\ accepting \in BOOLEAN
      /\ \A k \in Calls : call[k] = Idle \/ (call[k].op # "idle" /\ call[k].task \in Tasks)
  BY LenProperties DEF IInv, TypeOK
<1>pruned. /\ Pruned \in Seq(RunnerRecord) /\ Len(Pruned) = Len(runner)
           /\ \A i \in Tasks : Sound(Pruned[i], accepting)
  BY PrunedSound
<1>refused. CASE StartRefused(a)
  <2>1. runner' = Pruned /\ UNCHANGED <<accepting, drain, call, work>>
    BY <1>refused DEF StartRefused
  <2> QED
    BY <1>1, <1>pruned, <2>1 DEF IInv, TypeOK, AllSound, Tasks
<1>start. ASSUME NEW k \in Calls, Start(k, a)
          PROVE  IInv'
  <2> DEFINE entry == [op |-> "start", task |-> Len(runner) + 1]
  <2>1. accepting = TRUE /\ runner' = Append(Pruned, NewRunner(a))
        /\ call' = [call EXCEPT ![k] = entry] /\ UNCHANGED <<accepting, drain, work>>
    BY <1>start, <1>1 DEF Start
  <2>2. NewRunner(a) \in RunnerRecord /\ Sound(NewRunner(a), TRUE)
    BY NewRunnerSound
  <2>3. /\ runner' \in Seq(RunnerRecord) /\ Len(runner') = Len(runner) + 1
        /\ \A i \in 1..Len(runner) : runner'[i] = Pruned[i]
        /\ runner'[Len(runner) + 1] = NewRunner(a)
    BY <1>pruned, <2>1, <2>2, AppendProperties
  <2>4. AllSound'
    <3> SUFFICES ASSUME NEW i \in 1..(Len(runner) + 1)
                 PROVE  Sound(runner'[i], accepting)
      BY <2>1, <2>3 DEF AllSound, Tasks
    <3>1. CASE i = Len(runner) + 1
      <4>1. Sound(NewRunner(a), accepting)
        BY <2>1, <2>2
      <4> QED
        BY <2>3, <3>1, <4>1
    <3>2. CASE i \in 1..Len(runner)
      BY <1>pruned, <2>1, <2>3, <3>2 DEF Tasks
    <3>3. Len(runner) \in Nat
      BY <1>1
    <3> QED
      BY <3>1, <3>2, <3>3
  <2>5. Tasks \subseteq Tasks' /\ Len(runner) + 1 \in Tasks'
    BY <1>1, <2>3 DEF Tasks
  <2>6. entry \in CallRecord /\ entry.op # "idle" /\ entry.task \in Tasks'
    BY <1>1, <2>5 DEF CallRecord
  <2>7. call' \in [Calls -> CallRecord]
        /\ \A m \in Calls : call'[m] = Idle \/ (call'[m].op # "idle" /\ call'[m].task \in Tasks')
    BY <1>1, <2>1, <2>5, <2>6
  <2> QED
    BY <1>1, <2>1, <2>3, <2>4, <2>7 DEF IInv, TypeOK
<1>wait. ASSUME NEW k \in Calls, NEW i \in Tasks, Wait(k, a, i)
         PROVE  IInv'
  <2> DEFINE entry == [op |-> "wait", task |-> i]
  <2>1. call' = [call EXCEPT ![k] = entry] /\ UNCHANGED <<accepting, drain, runner, work>>
    BY <1>wait DEF Wait
  <2>2. entry \in CallRecord /\ entry.op # "idle" /\ entry.task \in Tasks
    BY <1>1 DEF CallRecord, Tasks
  <2>3. call' \in [Calls -> CallRecord]
        /\ \A m \in Calls : call'[m] \in {call[m], Idle}
                              \/ (call'[m].op # "idle" /\ call'[m].task \in Tasks)
    BY <1>1, <2>1, <2>2
  <2> QED
    BY <1>1, <2>1, <2>3, SameRunnersKeepIInv
<1>cancel. ASSUME NEW k \in Calls, NEW i \in Tasks, Cancel(k, a, i)
           PROVE  IInv'
  <2> DEFINE entry == [op |-> "cancel", task |-> i]
             n == CancelRequested(runner[i])
  <2>1. call' = [call EXCEPT ![k] = entry] /\ runner' = [runner EXCEPT ![i] = n]
        /\ UNCHANGED <<accepting, drain, work>>
    BY <1>cancel DEF Cancel
  <2>2. entry \in CallRecord /\ entry.op # "idle" /\ entry.task \in Tasks
    BY <1>1 DEF CallRecord, Tasks
  <2>3. n \in RunnerRecord /\ Sound(n, accepting)
    BY <1>1, ElementOfSeq, CancelRequestedSound DEF Tasks, IInv, AllSound
  <2>4. call' \in [Calls -> CallRecord]
        /\ \A m \in Calls : call'[m] \in {call[m], Idle}
                              \/ (call'[m].op # "idle" /\ call'[m].task \in Tasks)
    BY <1>1, <2>1, <2>2
  <2> HIDE DEF n, entry
  <2> QED
    BY <2>1, <2>3, <2>4, RunnerKeepsIInv
<1>create. CASE Create(a)
  <2> DEFINE item == [creator |-> a, state |-> "available", kept |-> TRUE,
                      claimedBy |-> NoClient, rank |-> 0]
  <2>1. work' = Append(PrunedWork, item) /\ UNCHANGED <<accepting, drain, runner, call>>
    BY <1>create DEF Create
  <2>2. item \in WorkRecord
    BY DEF WorkRecord
  <2>3. work' \in Seq(WorkRecord)
    BY <2>1, <2>2, PrunedWorkType, AppendProperties
  <2> QED
    BY <1>1, <2>1, <2>3, SameRunnersKeepIInv
<1>item. ASSUME NEW j \in Items,
                Claim(a, j) \/ Release(a, j) \/ Complete(a, j) \/ Fail(a, j) \/ CancelWork(a, j)
         PROVE  IInv'
  <2>1. work' \in Seq(WorkRecord)
    BY <1>item, CoordinationSteps, CoordinationKeepsType
  <2>2. UNCHANGED <<accepting, drain, runner, call>>
    BY <1>item DEF Claim, Release, Complete, Fail, CancelWork
  <2> QED
    BY <1>1, <2>1, <2>2, SameRunnersKeepIInv
<1> QED
  BY <1>refused, <1>start, <1>wait, <1>cancel, <1>create, <1>item DEF Request

\* Shutdown asks every running task to stop, whether or not it has launched.
LEMMA ShutdownStep ==
  ASSUME IInv, Shutdown
  PROVE  IInv'
<1>1. runner \in Seq(RunnerRecord) /\ accepting \in BOOLEAN
  BY DEF IInv, TypeOK
<1>2. accepting' = FALSE /\ drain' \in {"resolved", "pending"} /\ UNCHANGED <<call, work>>
      /\ runner' = [i \in Tasks |-> IF i \in Active THEN CancelRequested(runner[i]) ELSE runner[i]]
  BY DEF Shutdown
<1>3. ASSUME NEW i \in Tasks
      PROVE  runner'[i] \in RunnerRecord /\ Sound(runner'[i], FALSE)
  <2>1. runner[i] \in RunnerRecord /\ Sound(runner[i], accepting)
    BY <1>1, ElementOfSeq DEF Tasks, IInv, AllSound
  <2>2. CASE i \in Active
    BY <1>1, <1>2, <2>1, <2>2, CancelRequestedSound
  <2>3. CASE i \notin Active
    <3>1. runner[i].state # "running" /\ runner'[i] = runner[i]
      BY <1>2, <2>1, <2>3 DEF Active, KeptTasks, Sound
    <3> QED
      BY <2>1, <3>1 DEF Sound
  <2> QED
    BY <2>2, <2>3
<1>4. runner' \in [1..Len(runner) -> RunnerRecord]
  BY <1>2, <1>3 DEF Tasks
<1>5. runner' \in Seq(RunnerRecord) /\ Len(runner') = Len(runner)
  BY <1>1, <1>4, MappedSeq
<1>6. Tasks' = Tasks
  BY <1>5 DEF Tasks
<1> QED
  BY <1>2, <1>3, <1>5, <1>6 DEF IInv, TypeOK, AllSound

LEMMA StepIInv ==
  ASSUME IInv, [Next]_taskVars
  PROVE  IInv'
<1>drain. CASE DrainEnds \/ DrainTimesOut
  BY <1>drain, SameRunnersKeepIInv DEF DrainEnds, DrainTimesOut, IInv, TypeOK
<1>stutter. CASE UNCHANGED taskVars
  BY <1>stutter, SameRunnersKeepIInv DEF taskVars, IInv, TypeOK
<1> QED
  BY <1>drain, <1>stutter, RequestSteps, CallSteps, RunnerSteps, ShutdownStep DEF Next

\* IInv holds in every reachable state.
THEOREM InductiveInvariant == Spec => []IInv
<1>1. Init => IInv
  BY InitIInv
<1>2. IInv /\ [Next]_taskVars => IInv'
  BY StepIInv
<1> QED
  BY <1>1, <1>2, PTL DEF Spec

\* The records of runner and coordination tasks keep their shape.
THEOREM TypeCorrect == Spec => []TypeOK
<1>1. IInv => TypeOK
  BY DEF IInv
<1> QED
  BY <1>1, InductiveInvariant, PTL

\* A cancel or the shutdown reaches every process there is: no cancel is lost
\* between the request and the end of the launch.
THEOREM CancelsReachProcesses == Spec => []CancelReachesProcess
<1>1. IInv => CancelReachesProcess
  BY DEF IInv, AllSound, Sound, CancelReachesProcess
<1> QED
  BY <1>1, InductiveInvariant, PTL

\* Every live process has a record in the map that says it runs.
THEOREM NoProcessIsForgotten == Spec => []ProcessesAreKnown
<1>1. IInv => ProcessesAreKnown
  BY DEF IInv, AllSound, Sound, ProcessesAreKnown
<1> QED
  BY <1>1, InductiveInvariant, PTL

\* One terminal event for every launched task that ended, none before.
THEOREM TerminalEventsAreUnique == Spec => []OneTerminalEvent
<1>1. IInv => OneTerminalEvent
  BY DEF IInv, AllSound, Sound, OneTerminalEvent
<1> QED
  BY <1>1, InductiveInvariant, PTL

-----------------------------------------------------------------------------

\* The body of AnsweredCancelLeavesNoProcess.
GoneWhenAnswered ==
  /\ \A k \in Calls :
       (call[k].op \in {"cancel", "settle"} /\ call'[k] = Idle) =>
          runner[call[k].task].proc # "alive"
  /\ (drain # "resolved" /\ drain' = "resolved") =>
          \A i \in Tasks : runner[i].proc # "alive"

\* Only a resumed call answers a cancel, and only an empty gateway the shutdown.
LEMMA AnswerStep ==
  ASSUME IInv, [Next]_taskVars
  PROVE  GoneWhenAnswered
<1>1. /\ call \in [Calls -> CallRecord]
      /\ \A k \in Calls : call[k] = Idle \/ (call[k].op # "idle" /\ call[k].task \in Tasks)
  BY DEF IInv, TypeOK
<1>2. \A i \in Tasks : runner[i].proc = "alive" => i \in Active
  BY DEF IInv, AllSound, Sound, Active, KeptTasks
<1>same. ASSUME \A k \in Calls : call[k].op \in {"cancel", "settle"} => call'[k] # Idle,
                drain' = drain
         PROVE  GoneWhenAnswered
  BY <1>same DEF GoneWhenAnswered
<1>3. \A k \in Calls : call[k].op \in {"cancel", "settle"} => call[k] # Idle
  BY DEF Idle
<1>unchanged. CASE UNCHANGED <<call, drain>>
  BY <1>unchanged, <1>3, <1>same
<1>4. ASSUME NEW k \in Calls, call[k].op \notin {"cancel", "settle"}, NEW c,
             call' = [call EXCEPT ![k] = c], drain' = drain
      PROVE  GoneWhenAnswered
  BY <1>1, <1>3, <1>4, <1>same
<1>request. ASSUME NEW a \in Actors, Request(a)
            PROVE  GoneWhenAnswered
  <2>1. ASSUME NEW k \in Calls, Start(k, a)
        PROVE  GoneWhenAnswered
    <3>1. call[k].op \notin {"cancel", "settle"} /\ drain' = drain
          /\ call' = [call EXCEPT ![k] = [op |-> "start", task |-> Len(runner) + 1]]
      BY <2>1 DEF Start, Idle
    <3> QED
      BY <3>1, <1>4
  <2>2. ASSUME NEW k \in Calls, NEW i \in Tasks, Wait(k, a, i) \/ Cancel(k, a, i)
        PROVE  GoneWhenAnswered
    <3>1. /\ call[k].op \notin {"cancel", "settle"} /\ drain' = drain
          /\ \E op \in {"wait", "cancel"} : call' = [call EXCEPT ![k] = [op |-> op, task |-> i]]
      BY <2>2 DEF Wait, Cancel, Idle
    <3> QED
      BY <3>1, <1>4
  <2>3. CASE UNCHANGED <<call, drain>>
    BY <2>3, <1>unchanged
  <2> QED
    BY <1>request, <2>1, <2>2, <2>3
       DEF Request, StartRefused, Create, Claim, Release, Complete, Fail, CancelWork
<1>call. ASSUME NEW k \in Calls, CallStep(k)
         PROVE  GoneWhenAnswered
  <2>1. CASE StartReturns(k) \/ StartThrows(k) \/ WaitGivesUp(k)
    BY <2>1, <1>4 DEF StartReturns, StartThrows, WaitGivesUp
  <2>2. CASE CallResumes(k)
    <3>1. call[k].task \in Tasks /\ runner[call[k].task].state # "running"
      BY <2>2, <1>1 DEF CallResumes, AwaitsSettled, Idle
    <3>2. runner[call[k].task].proc # "alive"
      BY <3>1 DEF IInv, AllSound, Sound
    <3>3. drain' = drain /\ call' = [call EXCEPT ![k] = Idle]
      BY <2>2 DEF CallResumes
    <3> QED
      BY <1>1, <1>3, <3>2, <3>3 DEF GoneWhenAnswered
  <2> QED
    BY <1>call, <2>1, <2>2 DEF CallStep
<1>runner. ASSUME NEW i \in Tasks, RunnerStep(i)
           PROVE  GoneWhenAnswered
  BY <1>runner, <1>unchanged
     DEF RunnerStep, LaunchSucceeds, LaunchFails, ExecTimeout, SpawnFails, Settle, Exit
<1>drain. CASE Shutdown \/ DrainEnds \/ DrainTimesOut
  <2>1. \A k \in Calls : call'[k] = call[k]
    BY <1>drain DEF Shutdown, DrainEnds, DrainTimesOut
  <2>2. drain # "resolved" /\ drain' = "resolved" => Active = {}
    BY <1>drain DEF Shutdown, DrainEnds, DrainTimesOut
  <2> QED
    BY <1>2, <1>3, <2>1, <2>2 DEF GoneWhenAnswered
<1> QED
  BY <1>request, <1>call, <1>runner, <1>drain, <1>unchanged DEF Next, taskVars

\* Whoever is told that a cancel or the shutdown is over, no process of theirs
\* lives any more.
THEOREM AnswersComeAfterTheEnd == Spec => AnsweredCancelLeavesNoProcess
<1>1. IInv /\ [Next]_taskVars => [GoneWhenAnswered]_taskVars
  BY AnswerStep
<1> QED
  BY <1>1, InductiveInvariant, PTL
     DEF Spec, AnsweredCancelLeavesNoProcess, GoneWhenAnswered

-----------------------------------------------------------------------------
(* The claim board.                                                        *)

BoardNow == [j \in Items |-> BoardItem(work[j])]

LEMMA BoardNowIsSeq ==
  ASSUME IInv
  PROVE  /\ Len(BoardNow) = Len(work) /\ DOMAIN BoardNow = Items
         /\ \A j \in Items : BoardNow[j] = BoardItem(work[j]) /\ work[j] \in WorkRecord
<1> DEFINE T == {BoardItem(work[j]) : j \in Items}
<1>1. work \in Seq(WorkRecord)
  BY DEF IInv, TypeOK
<1>2. BoardNow \in [1..Len(work) -> T]
  BY DEF BoardNow, Items
<1>3. Len(BoardNow) = Len(work)
  BY <1>1, <1>2, MappedSeq
<1> QED
  BY <1>1, <1>3, ElementOfSeq DEF BoardNow, Items

\* One task changes, one item of the board does.
LEMMA BoardChanges ==
  ASSUME IInv, NEW j \in Items, NEW w \in WorkRecord, ItemAfter(j, w)
  PROVE  BoardNow' = [BoardNow EXCEPT ![j] = BoardItem(w)]
<1>1. work \in Seq(WorkRecord)
  BY DEF IInv, TypeOK
<1>2. /\ Len(work') = Len(work)
      /\ \A i \in 1..Len(work) : work'[i] = IF i = j THEN w ELSE work[i]
  BY <1>1, ExceptSeq DEF ItemAfter, Items
<1>3. Items' = Items
  BY <1>2 DEF Items
<1>4. \A i \in Items : work'[i] = IF i = j THEN w ELSE work[i]
  BY <1>2 DEF Items
<1> QED
  BY <1>3, <1>4 DEF BoardNow

LEMMA BoardStarts ==
  ASSUME Init
  PROVE  Board!BoardInit
<1>1. Items = 1..0
  BY EmptySeq DEF Init, Items
<1>2. BoardNow = <<>>
  <2>1. BoardNow \in [1..0 -> {}]
    BY <1>1 DEF BoardNow
  <2>2. BoardNow \in Seq({}) /\ Len(BoardNow) = 0
    BY <2>1, EmptySeq, MappedSeq
  <2> QED
    BY <2>2, EmptySeq
<1> QED
  BY <1>2 DEF Init, Board!BoardInit, BoardNow

\* How a change of a record shows on the board.
LEMMA ItemViews ==
  ASSUME NEW w \in WorkRecord, NEW state \in {"available", "claimed"},
         NEW who \in Clients \cup {NoClient}
  PROVE  /\ BoardItem([w EXCEPT !.state = state, !.claimedBy = who])
              = [BoardItem(w) EXCEPT !.status = BoardStatus(state), !.taker = who]
         /\ BoardItem([w EXCEPT !.kept = FALSE]) = [BoardItem(w) EXCEPT !.on = FALSE]
<1> DEFINE u == [w EXCEPT !.state = state, !.claimedBy = who]
           v == [w EXCEPT !.kept = FALSE]
<1>1. /\ u.creator = w.creator /\ u.state = state /\ u.claimedBy = who /\ u.kept = w.kept
      /\ v.creator = w.creator /\ v.state = w.state /\ v.claimedBy = w.claimedBy
      /\ v.kept = FALSE
  BY DEF WorkRecord
<1> HIDE DEF u, v
<1>2. BoardItem(u) = [owner |-> w.creator.client, status |-> BoardStatus(state),
                      taker |-> who, on |-> w.kept]
  BY <1>1, Zenon DEF BoardItem
<1>3. BoardItem(v) = [owner |-> w.creator.client, status |-> BoardStatus(w.state),
                      taker |-> w.claimedBy, on |-> FALSE]
  BY <1>1, Zenon DEF BoardItem
<1>4. BoardItem(w) = [owner |-> w.creator.client, status |-> BoardStatus(w.state),
                      taker |-> w.claimedBy, on |-> w.kept]
  BY Zenon DEF BoardItem
<1> DEFINE x == BoardItem(w)
           T == [owner : {x.owner}, status : {x.status, BoardStatus(state)},
                 taker : {x.taker, who}, on : {x.on, FALSE}]
<1>5. /\ x.owner = w.creator.client /\ x.status = BoardStatus(w.state)
      /\ x.taker = w.claimedBy /\ x.on = w.kept /\ x \in T
  BY <1>4
<1> HIDE DEF x
<1> DEFINE y == [x EXCEPT !.status = BoardStatus(state), !.taker = who]
           z == [x EXCEPT !.on = FALSE]
<1>6. /\ y \in T /\ y.owner = x.owner /\ y.status = BoardStatus(state)
      /\ y.taker = who /\ y.on = x.on
      /\ z \in T /\ z.owner = x.owner /\ z.status = x.status /\ z.taker = x.taker
      /\ z.on = FALSE
  BY <1>5
<1> HIDE DEF y, z
<1>7. /\ y = [owner |-> x.owner, status |-> BoardStatus(state), taker |-> who, on |-> x.on]
      /\ z = [owner |-> x.owner, status |-> x.status, taker |-> x.taker, on |-> FALSE]
  BY <1>6
<1>8. BoardItem(u) = y /\ BoardItem(v) = z
  BY <1>2, <1>3, <1>5, <1>7
<1> QED
  BY <1>8 DEF u, v, x, y, z

\* A step on a task is the step of the board named for it.
LEMMA ItemStepOnBoard ==
  ASSUME IInv, NEW a \in Actors, NEW j \in Items,
         Claim(a, j) \/ Release(a, j) \/ Complete(a, j) \/ Fail(a, j) \/ CancelWork(a, j)
  PROVE  Board!BoardNext
<1> DEFINE b == BoardNow[j]
<1>1. /\ BoardNow[j] = BoardItem(work[j]) /\ work[j] \in WorkRecord
      /\ Len(BoardNow) = Len(work) /\ DOMAIN BoardNow = Items
      /\ a.client \in Clients
  BY BoardNowIsSeq DEF Clients
<1>2. j \in 1..Len(BoardNow)
  BY <1>1 DEF Items
<1>3. accepting' = accepting
  BY DEF Claim, Release, Complete, Fail, CancelWork
<1>4. b.on = work[j].kept /\ b.owner = work[j].creator.client /\ b.taker = work[j].claimedBy
      /\ b.status = BoardStatus(work[j].state)
  BY <1>1 DEF BoardItem
<1>5. work[j].kept
  BY DEF Claim, Release, Complete, Fail, CancelWork, Holds, Sees, KeptItems
<1>6. ASSUME NEW w \in WorkRecord, work' = [work EXCEPT ![j] = w]
      PROVE  BoardNow' = [BoardNow EXCEPT ![j] = BoardItem(w)]
  BY <1>6, BoardChanges DEF ItemAfter
<1>7. work \in Seq(WorkRecord) /\ FinishRank \in Nat
  BY FinishRankIsNat DEF IInv, TypeOK
<1>8. ASSUME Board!Take(a.client, j) \/ Board!Return(a.client, j)
               \/ Board!Finish(a.client, j) \/ Board!Withdraw(a.client, j)
      PROVE  Board!BoardNext
  BY <1>1, <1>2, <1>4, <1>5, <1>8 DEF Board!BoardNext, BoardNow
<1>claim. CASE Claim(a, j)
  <2> DEFINE w == [work[j] EXCEPT !.state = "claimed", !.claimedBy = a.client]
  <2>1. work' = [work EXCEPT ![j] = w] /\ w \in WorkRecord /\ accepting
        /\ work[j].state = "available"
    BY <1>claim, <1>1, <1>7 DEF Claim, WorkRecord
  <2>2. BoardItem(w) = [b EXCEPT !.status = "taken", !.taker = a.client]
    <3>1. BoardStatus("claimed") = "taken"
      BY DEF BoardStatus
    <3>2. BoardItem(w) = [BoardItem(work[j]) EXCEPT !.status = BoardStatus("claimed"),
                                                    !.taker = a.client]
      BY <1>1, ItemViews, Zenon
    <3> QED
      BY <1>1, <3>1, <3>2
  <2>3. BoardNow' = [BoardNow EXCEPT ![j].status = "taken", ![j].taker = a.client]
    BY <1>1, <1>6, <2>1, <2>2
  <2>4. b.status = "offered"
    BY <1>4, <2>1 DEF BoardStatus
  <2>5. Board!Take(a.client, j)
    BY <1>3, <2>1, <2>3, <2>4 DEF Board!Take, BoardNow
  <2> QED
    BY <1>8, <2>5
<1>release. CASE Release(a, j)
  <2> DEFINE w == [work[j] EXCEPT !.state = "available", !.claimedBy = NoClient]
  <2>1. work' = [work EXCEPT ![j] = w] /\ w \in WorkRecord /\ accepting
        /\ work[j].state = "claimed" /\ work[j].claimedBy = a.client
    BY <1>release, <1>1, <1>7 DEF Release, Holds, WorkRecord
  <2>2. BoardItem(w) = [b EXCEPT !.status = "offered", !.taker = NoClient]
    <3>1. BoardStatus("available") = "offered"
      BY DEF BoardStatus
    <3>2. BoardItem(w) = [BoardItem(work[j]) EXCEPT !.status = BoardStatus("available"),
                                                    !.taker = NoClient]
      BY <1>1, ItemViews, Zenon
    <3> QED
      BY <1>1, <3>1, <3>2
  <2>3. BoardNow' = [BoardNow EXCEPT ![j].status = "offered", ![j].taker = NoClient]
    BY <1>1, <1>6, <2>1, <2>2
  <2>4. b.status = "taken" /\ b.taker = a.client
    BY <1>4, <2>1 DEF BoardStatus
  <2>5. Board!Return(a.client, j)
    BY <1>3, <2>1, <2>3, <2>4 DEF Board!Return, BoardNow
  <2> QED
    BY <1>8, <2>5
<1>9. ASSUME NEW state \in Finished,
             work' = [work EXCEPT ![j].state = state, ![j].rank = FinishRank]
      PROVE  BoardNow' = [BoardNow EXCEPT ![j].status = "closed"]
  <2> DEFINE w == [work[j] EXCEPT !.state = state, !.rank = FinishRank]
  <2>1. work' = [work EXCEPT ![j] = w] /\ w \in WorkRecord
    BY <1>1, <1>7, <1>9 DEF WorkRecord
  <2>2. BoardItem(w) = [b EXCEPT !.status = "closed"]
    BY <1>1 DEF BoardItem, BoardStatus, WorkRecord, Finished
  <2> QED
    BY <1>1, <1>6, <2>1, <2>2
<1>finish. CASE Complete(a, j) \/ Fail(a, j)
  <2>1. BoardNow' = [BoardNow EXCEPT ![j].status = "closed"]
    BY <1>finish, <1>9 DEF Complete, Fail, Finished
  <2>2. accepting /\ work[j].state = "claimed" /\ work[j].claimedBy = a.client
    BY <1>finish DEF Complete, Fail, Holds
  <2>3. b.status = "taken" /\ b.taker = a.client
    BY <1>4, <2>2 DEF BoardStatus
  <2>4. Board!Finish(a.client, j)
    BY <1>3, <2>1, <2>2, <2>3 DEF Board!Finish, BoardNow
  <2> QED
    BY <1>8, <2>4
<1>cancel. CASE CancelWork(a, j)
  <2>1. BoardNow' = [BoardNow EXCEPT ![j].status = "closed"]
    BY <1>cancel, <1>9 DEF CancelWork, Finished
  <2>2. work[j].state \in {"available", "claimed"} /\ work[j].creator.client = a.client
    BY <1>cancel, <1>1 DEF CancelWork, WorkRecord
  <2>3. b.status # "closed" /\ b.owner = a.client
    BY <1>4, <2>2 DEF BoardStatus
  <2>4. Board!Withdraw(a.client, j)
    BY <1>3, <2>1, <2>3 DEF Board!Withdraw, BoardNow
  <2> QED
    BY <1>8, <2>4
<1> QED
  BY <1>claim, <1>release, <1>finish, <1>cancel

\* A create offers one item, and clears closed ones away.
LEMMA CreateOnBoard ==
  ASSUME IInv, NEW a \in Actors, Create(a)
  PROVE  Board!BoardNext
<1> DEFINE item == [creator |-> a, state |-> "available", kept |-> TRUE,
                    claimedBy |-> NoClient, rank |-> 0]
<1>1. work' = Append(PrunedWork, item) /\ accepting /\ accepting' = accepting
  BY DEF Create
<1>2. item \in WorkRecord /\ a.client \in Clients /\ Len(work) \in Nat
  BY LenProperties DEF WorkRecord, Clients, IInv, TypeOK
<1>3. /\ Len(work') = Len(work) + 1 /\ work' \in Seq(WorkRecord)
      /\ \A j \in Items : work'[j] = PrunedWork[j]
      /\ work'[Len(work) + 1] = item
  BY <1>1, <1>2, PrunedWorkType, AppendProperties DEF Items
<1>4. /\ Len(BoardNow) = Len(work) /\ DOMAIN BoardNow = Items
      /\ \A j \in Items : BoardNow[j] = BoardItem(work[j]) /\ work[j] \in WorkRecord
  BY BoardNowIsSeq
<1>5. Items' = 1..(Len(work) + 1) /\ Items \subseteq Items' /\ Len(work) + 1 \in Items'
  BY <1>2, <1>3 DEF Items
<1>6. /\ BoardNow' = [j \in Items' |-> BoardItem(work'[j])]
  BY DEF BoardNow
<1>7. Len(BoardNow') = Len(BoardNow) + 1
  <2>1. Len(BoardNow') = Len(work')
    <3> DEFINE T == {BoardItem(work'[j]) : j \in Items'}
    <3>1. BoardNow' \in [1..Len(work') -> T]
      BY <1>6 DEF Items
    <3> QED
      BY <1>3, <3>1, MappedSeq
  <2> QED
    BY <1>3, <1>4, <2>1
<1>8. BoardNow'[Len(BoardNow) + 1] = BoardItem(item)
  BY <1>3, <1>4, <1>5, <1>6
<1>9. BoardItem(item) \in [owner : {a.client}, status : {"offered"},
                           taker : {NoClient}, on : {TRUE}]
  BY DEF BoardItem, BoardStatus
<1>10. \A j \in 1..Len(BoardNow) :
         \/ BoardNow'[j] = BoardNow[j]
         \/ BoardNow[j].status = "closed" /\ BoardNow'[j] = [BoardNow[j] EXCEPT !.on = FALSE]
  <2> SUFFICES ASSUME NEW j \in Items
               PROVE  \/ BoardNow'[j] = BoardNow[j]
                      \/ /\ BoardNow[j].status = "closed"
                         /\ BoardNow'[j] = [BoardNow[j] EXCEPT !.on = FALSE]
    BY <1>4 DEF Items
  <2>1. BoardNow'[j] = BoardItem(PrunedWork[j]) /\ BoardNow[j] = BoardItem(work[j])
        /\ work[j] \in WorkRecord
    BY <1>3, <1>4, <1>5, <1>6
  <2>2. PrunedWork[j] = work[j]
          \/ (work[j].state \in Finished /\ PrunedWork[j] = [work[j] EXCEPT !.kept = FALSE])
    BY DEF PrunedWork, Droppable, FinishedItems
  <2>3. CASE PrunedWork[j] = work[j]
    BY <2>1, <2>3
  <2>4. CASE work[j].state \in Finished /\ PrunedWork[j] = [work[j] EXCEPT !.kept = FALSE]
    <3>1. BoardItem([work[j] EXCEPT !.kept = FALSE]) = [BoardItem(work[j]) EXCEPT !.on = FALSE]
      BY <2>1, ItemViews
    <3>2. BoardItem(work[j]).status = "closed"
      BY <2>4 DEF BoardItem, BoardStatus, Finished
    <3> QED
      BY <2>1, <2>4, <3>1, <3>2
  <2> QED
    BY <2>2, <2>3, <2>4
<1>11. Board!Cleared(BoardNow')
  BY <1>10 DEF Board!Cleared, Board!Discarded, BoardNow
<1>12. Board!Offer(a.client)
  BY <1>1, <1>7, <1>8, <1>9, <1>11 DEF Board!Offer, BoardNow
<1> QED
  BY <1>2, <1>12 DEF Board!BoardNext

LEMMA BoardStep ==
  ASSUME IInv, [Next]_taskVars
  PROVE  [Board!BoardNext]_(Board!boardVars)
<1>same. ASSUME UNCHANGED <<accepting, work>>
         PROVE  UNCHANGED Board!boardVars
  BY <1>same DEF Board!boardVars, Items
<1>request. ASSUME NEW a \in Actors, Request(a)
            PROVE  [Board!BoardNext]_(Board!boardVars)
  <2>1. CASE UNCHANGED <<accepting, work>>
    BY <2>1, <1>same
  <2> QED
    BY <1>request, <2>1, CreateOnBoard, ItemStepOnBoard
       DEF Request, StartRefused, Start, Wait, Cancel
<1>call. ASSUME NEW k \in Calls, CallStep(k)
         PROVE  UNCHANGED Board!boardVars
  BY <1>call, <1>same DEF CallStep, StartReturns, StartThrows, WaitGivesUp, CallResumes
<1>runner. ASSUME NEW i \in Tasks, RunnerStep(i)
           PROVE  UNCHANGED Board!boardVars
  BY <1>runner, <1>same
     DEF RunnerStep, LaunchSucceeds, LaunchFails, ExecTimeout, SpawnFails, Settle, Exit
<1>shutdown. CASE Shutdown
  <2>1. Board!Close
    BY <1>shutdown DEF Shutdown, Board!Close, Items
  <2> QED
    BY <2>1 DEF Board!BoardNext
<1>drain. CASE DrainEnds \/ DrainTimesOut \/ UNCHANGED taskVars
  BY <1>drain, <1>same DEF DrainEnds, DrainTimesOut, taskVars
<1> QED
  BY <1>request, <1>call, <1>runner, <1>shutdown, <1>drain DEF Next

\* Every run of the coordination tasks is a run of the claim board.
THEOREM TasksImplementClaimBoard == Spec => ImplementsClaimBoard
<1>1. IInv /\ [Next]_taskVars => [Board!BoardNext]_(Board!boardVars)
  BY BoardStep
<1> QED
  BY <1>1, BoardStarts, InductiveInvariant, PTL
     DEF Spec, ImplementsClaimBoard, Board!BoardSpec

=============================================================================
