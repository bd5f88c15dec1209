------------------------------ MODULE TaskRuntime ------------------------------
(***************************************************************************)
(* The in-process task runtime (src/src/task/runtime.ts): runner tasks,    *)
(* each owning one child process, and coordination tasks that clients of a *)
(* workspace hand to each other.  Both live in memory only.                *)
(*                                                                         *)
(* JavaScript runs one callback at a time, so a synchronous method is one  *)
(* action; an async method is one action per stretch between two awaits.   *)
(* A Map entry that is deleted stays reachable from the calls that hold    *)
(* the object, so a deleted task keeps its record and loses only "kept".   *)
(***************************************************************************)
EXTENDS Integers, Sequences, FiniteSets

CONSTANTS
  Actors,           \* [client, workspace] pairs of the connected clients
  Calls,            \* the requests that may be in flight at once
  MaxActive,        \* maxActiveTasks
  MaxPerClient,     \* maxActiveTasksPerClient
  MaxRetained,      \* maxRetainedTasks
  MaxCoordination,  \* maxCoordinationTasks
  RunnerBound,      \* bound on the runner tasks ever created
  WorkBound         \* bound on the coordination tasks ever created

\* The RangeErrors createTaskRuntime throws (runtime.ts 218-227).
ASSUME LimitsAssumption ==
  /\ MaxActive \in Nat \ {0} /\ MaxPerClient \in Nat \ {0}
  /\ MaxRetained \in Nat \ {0} /\ MaxCoordination \in Nat \ {0}
  /\ MaxPerClient <= MaxActive /\ MaxActive <= MaxRetained
  /\ RunnerBound \in Nat /\ WorkBound \in Nat

Clients == {a.client : a \in Actors}
NoCause == "none"
Outcomes == {"completed", "failed", "cancelled", "timed_out"}

VARIABLES
  accepting,  \* cleared by shutdown
  drain,      \* the promise of shutdown: "none", "pending" or "resolved"
  runner,     \* every runner task, in creation order
  call,       \* the asynchronous requests in flight
  work        \* every coordination task, in creation order

taskVars == <<accepting, drain, runner, call, work>>

-----------------------------------------------------------------------------
(* Runner tasks.  A child process ("proc") is modelled with the part of    *)
(* kernel/exec.ts that decides its outcome: the first of timeout and       *)
(* cancel wins and is remembered as its cause.                             *)

Idle == [op |-> "idle", task |-> 0]

Tasks == 1..Len(runner)
KeptTasks == {i \in Tasks : runner[i].kept}
Active == {i \in KeptTasks : runner[i].state = "running"}
ActiveOf(c) == {i \in Active : runner[i].actor.client = c}

NewRunner(a) ==
  [actor |-> a, state |-> "running", kept |-> TRUE, handle |-> FALSE,
   proc |-> "none", cause |-> NoCause, cancelRequested |-> FALSE, events |-> 0]

\* terminate of exec.ts: the first cause is kept and the group is signalled.
Terminated(r, cause) ==
  IF r.proc = "alive" /\ r.cause = NoCause THEN [r EXCEPT !.cause = cause] ELSE r

XCancelsLaunchedOnly(r) ==
  IF r.handle THEN Terminated([r EXCEPT !.cancelRequested = TRUE], "cancelled") ELSE r

XMarksCancelled(r) == Terminated([r EXCEPT !.state = "cancelled"], "cancelled")

\* requestRunnerCancel: before the launch there is no handle to cancel yet.
CancelRequested(r) ==
  LET asked == [r EXCEPT !.cancelRequested = TRUE]
  IN IF r.handle THEN Terminated(asked, "cancelled") ELSE asked

XLaunched(r) == [r EXCEPT !.handle = TRUE, !.proc = "alive"]

\* The continuation of launch: a cancel that came first is passed on now.
Launched(r) ==
  LET started == [r EXCEPT !.handle = TRUE, !.proc = "alive"]
  IN IF r.cancelRequested THEN Terminated(started, "cancelled") ELSE started

\* emitRunnerTerminal: one event per task that had a handle.
Emitted(r) ==
  IF r.handle /\ r.events = 0 /\ r.state # "running" THEN [r EXCEPT !.events = 1] ELSE r

\* The settled promise: the state from the outcome, then the event.
Settled(r, outcome) == Emitted([r EXCEPT !.state = outcome])

Prunable == KeptTasks \ Active

\* pruneTerminalTasks: the oldest finished records go until there is room.
Pruned ==
  LET excess == Cardinality(KeptTasks) - (MaxRetained - 1)
      old == {i \in Prunable : Cardinality({j \in Prunable : j < i}) < excess}
  IN [i \in Tasks |-> IF i \in old THEN [runner[i] EXCEPT !.kept = FALSE] ELSE runner[i]]

\* After the pruning a full map holds running tasks only.
HasRoom(c) ==
  /\ Cardinality(Active) < MaxRetained
  /\ Cardinality(Active) < MaxActive
  /\ Cardinality(ActiveOf(c)) < MaxPerClient

\* lookupRunner: another workspace sees nothing, another client is refused.
MayUse(a, i) == i \in KeptTasks /\ runner[i].actor = a

Init ==
  /\ accepting = TRUE
  /\ drain = "none"
  /\ runner = <<>>
  /\ call = [k \in Calls |-> Idle]
  /\ work = <<>>

Start(k, a) ==
  /\ accepting /\ call[k] = Idle
  /\ Len(runner) < RunnerBound
  /\ HasRoom(a.client)
  /\ runner' = Append(Pruned, NewRunner(a))
  /\ call' = [call EXCEPT ![k] = [op |-> "start", task |-> Len(runner) + 1]]
  /\ UNCHANGED <<accepting, drain, work>>

\* A refused start has pruned already.
StartRefused(a) ==
  /\ accepting /\ ~HasRoom(a.client)
  /\ runner' = Pruned
  /\ UNCHANGED <<accepting, drain, call, work>>

Launching(i) == runner[i].proc = "none" /\ runner[i].state = "running"

LaunchSucceeds(i) ==
  /\ Launching(i)
  /\ runner' = [runner EXCEPT ![i] = Launched(@)]
  /\ UNCHANGED <<accepting, drain, call, work>>

LaunchFails(i) ==
  /\ Launching(i)
  /\ runner' = [runner EXCEPT ![i] = Settled(@, "failed")]
  /\ UNCHANGED <<accepting, drain, call, work>>

\* start resumes after a launch: cancelled meanwhile, it waits for the end.
StartReturns(k) ==
  LET r == runner[call[k].task] IN
  /\ call[k].op = "start" /\ r.handle
  /\ call' = [call EXCEPT ![k] = IF r.cancelRequested THEN [@ EXCEPT !.op = "settle"] ELSE Idle]
  /\ UNCHANGED <<accepting, drain, runner, work>>

\* start resumes after a failed launch: the record is dropped, the error thrown.
StartThrows(k) ==
  LET i == call[k].task IN
  /\ call[k].op = "start" /\ ~runner[i].handle /\ runner[i].state # "running"
  /\ runner' = [runner EXCEPT ![i].kept = FALSE]
  /\ call' = [call EXCEPT ![k] = Idle]
  /\ UNCHANGED <<accepting, drain, work>>

\* The timer of exec.ts.
ExecTimeout(i) ==
  /\ runner[i].proc = "alive" /\ runner[i].cause = NoCause
  /\ runner' = [runner EXCEPT ![i] = Terminated(@, "timed_out")]
  /\ UNCHANGED <<accepting, drain, call, work>>

\* The close event, and stateFromResult of the result it resolves with.
Exit(i, outcome) ==
  LET r == runner[i] IN
  /\ r.proc = "alive"
  /\ outcome \in IF r.cause = NoCause THEN {"completed", "failed"} ELSE {r.cause}
  /\ runner' = [runner EXCEPT ![i].proc = outcome]
  /\ UNCHANGED <<accepting, drain, call, work>>

\* The error event of a child that never started.
SpawnFails(i) ==
  /\ runner[i].proc = "alive"
  /\ runner' = [runner EXCEPT ![i].proc = "failed"]
  /\ UNCHANGED <<accepting, drain, call, work>>

Settle(i) ==
  /\ runner[i].proc \in Outcomes /\ runner[i].state = "running"
  /\ runner' = [runner EXCEPT ![i] = Settled(@, runner[i].proc)]
  /\ UNCHANGED <<accepting, drain, call, work>>

\* wait on a running task; on any other it answers at once.
Wait(k, a, i) ==
  /\ call[k] = Idle /\ MayUse(a, i) /\ runner[i].state = "running"
  /\ call' = [call EXCEPT ![k] = [op |-> "wait", task |-> i]]
  /\ UNCHANGED <<accepting, drain, runner, work>>

\* The timer of wait, or the abort of its request.
WaitGivesUp(k) ==
  /\ call[k].op = "wait"
  /\ call' = [call EXCEPT ![k] = Idle]
  /\ UNCHANGED <<accepting, drain, runner, work>>

Cancel(k, a, i) ==
  /\ call[k] = Idle /\ MayUse(a, i) /\ runner[i].state = "running"
  /\ runner' = [runner EXCEPT ![i] = CancelRequested(@)]
  /\ call' = [call EXCEPT ![k] = [op |-> "cancel", task |-> i]]
  /\ UNCHANGED <<accepting, drain, work>>

XAwaitsSettled == {"wait", "cancel"}

\* The calls that resume when the task's settled promise does.
AwaitsSettled == {"wait", "settle", "cancel"}

CallResumes(k) ==
  /\ call[k].op \in AwaitsSettled /\ runner[call[k].task].state # "running"
  /\ call' = [call EXCEPT ![k] = Idle]
  /\ UNCHANGED <<accepting, drain, runner, work>>

Shutdown ==
  /\ accepting
  /\ accepting' = FALSE
  /\ runner' = [i \in Tasks |-> IF i \in Active THEN CancelRequested(runner[i]) ELSE runner[i]]
  /\ drain' = IF Active = {} THEN "resolved" ELSE "pending"
  /\ UNCHANGED <<call, work>>

\* No task can have been added since shutdown took its list.
DrainEnds ==
  /\ drain = "pending" /\ Active = {}
  /\ drain' = "resolved"
  /\ UNCHANGED <<accepting, runner, call, work>>

DrainTimesOut ==
  /\ drain = "pending"
  /\ drain' = "expired"
  /\ UNCHANGED <<accepting, runner, call, work>>

-----------------------------------------------------------------------------
(* Coordination tasks: work that any client of the workspace may claim.    *)

Finished == {"completed", "failed", "cancelled"}
NoClient == "unclaimed"

Items == 1..Len(work)
KeptItems == {j \in Items : work[j].kept}
FinishedItems == {j \in KeptItems : work[j].state \in Finished}

\* updatedAt orders finished tasks as they finished: no call touches them again.
FinishRank == Cardinality({j \in Items : work[j].state \in Finished}) + 1

XDroppable == KeptItems

Droppable == FinishedItems

\* pruneTerminalCoordinationTasks.
PrunedWork ==
  LET excess == Cardinality(KeptItems) - (MaxCoordination - 1)
      old == {j \in Droppable :
                Cardinality({i \in Droppable : work[i].rank < work[j].rank}) < excess}
  IN [j \in Items |-> IF j \in old THEN [work[j] EXCEPT !.kept = FALSE] ELSE work[j]]

\* A refused create finds nothing to prune, so it changes nothing.
WorkHasRoom == Cardinality(KeptItems \ Droppable) < MaxCoordination

Create(a) ==
  /\ accepting /\ Len(work) < WorkBound /\ WorkHasRoom
  /\ work' = Append(PrunedWork,
       [creator |-> a, state |-> "available", kept |-> TRUE,
        claimedBy |-> NoClient, rank |-> 0])
  /\ UNCHANGED <<accepting, drain, runner, call>>

\* lookupCoordination: any client of the workspace sees the task.
Sees(a, j) == j \in KeptItems /\ work[j].creator.workspace = a.workspace

Claim(a, j) ==
  /\ accepting /\ Sees(a, j) /\ work[j].state = "available"
  /\ work' = [work EXCEPT ![j].state = "claimed", ![j].claimedBy = a.client]
  /\ UNCHANGED <<accepting, drain, runner, call>>

XHolds(a, j) == Sees(a, j) /\ work[j].claimedBy = a.client

\* The checks release, complete and fail share.
Holds(a, j) == Sees(a, j) /\ work[j].state = "claimed" /\ work[j].claimedBy = a.client

Release(a, j) ==
  /\ accepting /\ Holds(a, j)
  /\ work' = [work EXCEPT ![j].state = "available", ![j].claimedBy = NoClient]
  /\ UNCHANGED <<accepting, drain, runner, call>>

Complete(a, j) ==
  /\ accepting /\ Holds(a, j)
  /\ work' = [work EXCEPT ![j].state = "completed", ![j].rank = FinishRank]
  /\ UNCHANGED <<accepting, drain, runner, call>>

Fail(a, j) ==
  /\ accepting /\ Holds(a, j)
  /\ work' = [work EXCEPT ![j].state = "failed", ![j].rank = FinishRank]
  /\ UNCHANGED <<accepting, drain, runner, call>>

\* cancel of a coordination task: its creator's client only, even after shutdown.
CancelWork(a, j) ==
  /\ Sees(a, j) /\ work[j].creator.client = a.client
  /\ work[j].state \notin Finished
  /\ work' = [work EXCEPT ![j].state = "cancelled", ![j].rank = FinishRank]
  /\ UNCHANGED <<accepting, drain, runner, call>>

-----------------------------------------------------------------------------

RunnerStep(i) ==
  \/ LaunchSucceeds(i) \/ LaunchFails(i)
  \/ ExecTimeout(i) \/ SpawnFails(i) \/ Settle(i)
  \/ \E o \in Outcomes : Exit(i, o)

CallStep(k) ==
  \/ StartReturns(k) \/ StartThrows(k) \/ WaitGivesUp(k) \/ CallResumes(k)

Request(a) ==
  \/ StartRefused(a) \/ Create(a)
  \/ \E k \in Calls : Start(k, a) \/ \E i \in Tasks : Wait(k, a, i) \/ Cancel(k, a, i)
  \/ \E j \in Items : \/ Claim(a, j) \/ Release(a, j) \/ Complete(a, j)
                      \/ Fail(a, j) \/ CancelWork(a, j)

Next ==
  \/ \E a \in Actors : Request(a)
  \/ \E k \in Calls : CallStep(k)
  \/ \E i \in Tasks : RunnerStep(i)
  \/ Shutdown \/ DrainEnds \/ DrainTimesOut

Spec == Init /\ [][Next]_taskVars

\* What runs by itself: the file system answers a launch, timers fire, a
\* signalled process group dies (SIGKILL follows SIGTERM), and the event loop
\* runs every continuation.  A process left alone may run for ever.
TaskFairness(i) ==
  /\ WF_taskVars(i \in Tasks /\ (LaunchSucceeds(i) \/ LaunchFails(i)))
  /\ WF_taskVars(i \in Tasks /\ ExecTimeout(i))
  /\ WF_taskVars(i \in Tasks /\ runner[i].cause # NoCause /\ \E o \in Outcomes : Exit(i, o))
  /\ WF_taskVars(i \in Tasks /\ Settle(i))

FairSpec ==
  /\ Spec
  /\ \A i \in 1..RunnerBound : TaskFairness(i)
  /\ \A k \in Calls : WF_taskVars(CallStep(k))
  /\ WF_taskVars(DrainEnds \/ DrainTimesOut)

-----------------------------------------------------------------------------
(* What must hold.                                                         *)

RunnerRecord ==
  [actor : Actors, state : {"running"} \cup Outcomes, kept : BOOLEAN,
   handle : BOOLEAN, proc : {"none", "alive"} \cup Outcomes,
   cause : {NoCause, "cancelled", "timed_out"}, cancelRequested : BOOLEAN,
   events : Nat]

WorkRecord ==
  [creator : Actors, state : {"available", "claimed"} \cup Finished,
   kept : BOOLEAN, claimedBy : Clients \cup {NoClient}, rank : Nat]

CallRecord == [op : {"idle", "start", "settle", "wait", "cancel"}, task : Nat]

\* The records keep their shape, and every request in flight is about a task.
TypeOK ==
  /\ accepting \in BOOLEAN
  /\ drain \in {"none", "pending", "resolved", "expired"}
  /\ runner \in Seq(RunnerRecord)
  /\ call \in [Calls -> CallRecord]
  /\ \A k \in Calls : call[k] = Idle \/ (call[k].op # "idle" /\ call[k].task \in Tasks)
  /\ work \in Seq(WorkRecord)

\* A cancel - a client's or the shutdown's, asked before or after the launch -
\* has reached every process that exists, and shutdown asked for every task
\* that runs (requestRunnerCancel 244-247, the launch continuation 389-395).
CancelReachesProcess ==
  \A i \in Tasks :
    /\ runner[i].cancelRequested /\ runner[i].proc = "alive" => runner[i].cause # NoCause
    /\ ~accepting /\ runner[i].state = "running" => runner[i].cancelRequested

\* No child process lives on without a record through which its client, or
\* the shutdown, can still cancel it: neither the pruning of old records nor
\* the deletion after a failed launch forgets one.
ProcessesAreKnown ==
  \A i \in Tasks : runner[i].proc = "alive" => runner[i].kept /\ runner[i].state = "running"

\* The observer hears exactly once of every task whose process was launched,
\* and never of a launch that failed (emitRunnerTerminal 249-278).
OneTerminalEvent ==
  \A i \in Tasks :
    runner[i].events = IF runner[i].handle /\ runner[i].state # "running" THEN 1 ELSE 0

\* When a cancel answers, when a start that was cancelled while launching
\* answers, and when shutdown reports that everything settled, the processes
\* concerned are gone.
AnsweredCancelLeavesNoProcess ==
  [][/\ \A k \in Calls :
          (call[k].op \in {"cancel", "settle"} /\ call'[k] = Idle) =>
             runner[call[k].task].proc # "alive"
     /\ (drain # "resolved" /\ drain' = "resolved") =>
             \A i \in Tasks : runner[i].proc # "alive"]_taskVars

\* Every request that waits for a task is answered in the end, every runner
\* task ends, and shutdown finishes.
EveryCallEnds ==
  /\ \A k \in Calls : call[k].op # "idle" ~> call[k].op = "idle"
  /\ \A i \in 1..RunnerBound :
       (i \in Tasks /\ runner[i].state = "running") ~> (i \in Tasks /\ runner[i].state # "running")
  /\ drain = "pending" ~> drain # "pending"

=============================================================================
