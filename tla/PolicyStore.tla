---------------------------- MODULE PolicyStore ----------------------------
(***************************************************************************)
(* The active policy generation, the leases requests take on its provider  *)
(* runtime, and the owner's mutations of the files it is loaded from       *)
(* (policy-store.ts, policy-mutation.ts, mcp-provider-service.ts, the      *)
(* command editor of web-console.ts, createExtensionRuntimeCatalog, and    *)
(* the loader and shutdown of main.ts).  Every file write and every read   *)
(* of the loader is a step, each of which can fail or be the last before a *)
(* crash.  Nobody but the gateway writes the files.                        *)
(***************************************************************************)
EXTENDS Naturals, Sequences, FiniteSets

CONSTANTS
    Requests,      \* MCP exchanges
    Mutations,     \* owner mutations
    Contents,      \* contents of a configuration file
    None,
    InitialConfigs,\* configurations the files may hold at first
    MaxReloads,    \* bound: direct reloads that start
    MaxLives       \* bound: starts of the process

Kinds == {"change", "rollback", "provider", "commands"}

(* The loader reads the files in this order. *)
LoadOrder == <<"policy", "providers", "commands">>

Files == {"policy", "providers", "commands"}

Configs == [Files -> Contents]

(* What a mutation reads when it begins. *)
Saved == [disk : Configs, previous : Contents \cup {None}, config : Configs]

ASSUME PolicyAssumption ==
    /\ IsFiniteSet(Requests)
    /\ None \notin Contents \cup Mutations \cup Configs \cup Saved
    /\ "direct" \notin Mutations \cup {None}
    /\ InitialConfigs \subseteq Configs
    /\ MaxReloads \in Nat /\ MaxLives \in Nat

Target(kind) ==
    CASE kind = "provider" -> "providers"
      [] kind = "commands" -> "commands"
      [] OTHER             -> "policy"

VARIABLES
    disk,      \* the configuration files
    previous,  \* policy.json.previous
    phase,     \* up, draining (no new request), stopped (providers stopped), down
    gens,      \* the provider runtimes of the generations loaded in this life
    active,    \* the generation requests capture, 0 when down
    config,    \* what the active generation was loaded from, None when down
    load,      \* reloadPromise: who asked, what was read
    queue,     \* mutations submitted and not ended (mutationTail, pendingMutations)
    mut,       \* mutation |-> its request and progress
    base,      \* what the running mutation read when it began, or None
    holds,     \* request |-> the generation it has a lease on, or 0
    torn,      \* a mutation reported that it could not be undone
    reloads,   \* direct reloads started
    lives      \* starts of the process

vars == <<disk, previous, phase, gens, active, config, load, queue, mut, base, holds,
          torn, reloads, lives>>

Stages == {"new", "queued", "previous", "write", "load", "undo", "undoPrevious",
           "reload", "done", "lost"}

Generation == [leases : Nat, retired : BOOLEAN, stopped : BOOLEAN]
Started == [leases |-> 0, retired |-> FALSE, stopped |-> FALSE]

Idle == [by |-> None, read |-> <<>>]
Direct == [by |-> "direct", read |-> <<>>]
LoadOf(m) == [by |-> m, read |-> <<>>]

Fresh == [stage |-> "new", kind |-> "change", next |-> None, recover |-> FALSE]

Ended(stage) == [Fresh EXCEPT !.stage = stage]

Running(m) == queue # <<>> /\ Head(queue) = m /\ mut[m].stage # "queued"

Init ==
    /\ disk \in InitialConfigs
    /\ previous = None
    /\ phase = "up"
    /\ gens = <<Started>>
    /\ active = 1
    /\ config = disk
    /\ load = Idle
    /\ queue = <<>>
    /\ mut = [m \in Mutations |-> Fresh]
    /\ base = None
    /\ holds = [r \in Requests |-> 0]
    /\ torn = FALSE
    /\ reloads = 0
    /\ lives = 1

-----------------------------------------------------------------------------
(* Leases on provider runtimes (createExtensionRuntimeCatalog). *)

(* Wrong on purpose: a retired runtime is stopped under its readers. *)
StopAtOnce(g) == [g EXCEPT !.stopped = g.stopped \/ g.retired]

StopIfUnused(g) == [g EXCEPT !.stopped = g.stopped \/ (g.retired /\ g.leases = 0)]

Retire(g) == StopIfUnused([g EXCEPT !.retired = TRUE])

DropLease(g) ==
    StopIfUnused([g EXCEPT !.leases = IF g.leases = 0 THEN 0 ELSE g.leases - 1])

CaptureLease(r) ==
    /\ phase = "up"
    /\ holds[r] = 0
    /\ holds' = [holds EXCEPT ![r] = active]
    /\ gens' = [gens EXCEPT ![active].leases = @ + 1]
    /\ UNCHANGED <<disk, previous, phase, active, config, load, queue, mut, base, torn, reloads, lives>>

Release(r) ==
    /\ holds[r] # 0
    /\ gens' = [gens EXCEPT ![holds[r]] = DropLease(@)]
    /\ holds' = [holds EXCEPT ![r] = 0]
    /\ UNCHANGED <<disk, previous, phase, active, config, load, queue, mut, base, torn, reloads, lives>>

-----------------------------------------------------------------------------
(* The mutation queue. *)

Submit(m, kind) ==
    /\ phase = "up"
    /\ mut[m].stage = "new"
    /\ queue' = Append(queue, m)
    /\ mut' = [mut EXCEPT ![m] = [@ EXCEPT !.stage = "queued", !.kind = kind]]
    /\ UNCHANGED <<disk, previous, phase, gens, active, config, load, base, holds, torn, reloads, lives>>

GoTo(m, stage) ==
    /\ mut' = [mut EXCEPT ![m].stage = stage]
    /\ UNCHANGED <<queue, base, torn>>

(* Wrong on purpose: the tail of the queue is not moved past an ended mutation. *)
EndStuck(m, isTorn) ==
    /\ mut' = [mut EXCEPT ![m] = Ended("done")]
    /\ base' = None
    /\ torn' = isTorn
    /\ UNCHANGED queue

EndAs(m, isTorn) ==
    /\ mut' = [mut EXCEPT ![m] = Ended("done")]
    /\ queue' = Tail(queue)
    /\ base' = None
    /\ torn' = isTorn

(* reload() inside a mutation: busy, which is a failed activation, while     *)
(* another reload is in flight.                                              *)
StartLoad(m, stage) ==
    /\ load' = IF load.by = None THEN LoadOf(m) ELSE load
    /\ mut' = [mut EXCEPT ![m].stage = IF load.by = None THEN stage ELSE "undo"]
    /\ UNCHANGED <<queue, base, torn>>

(* A mutation waits for the one before it and for a reload that was started  *)
(* first; then it reads what it may have to restore.                         *)
CanBegin(m) ==
    /\ phase # "down"
    /\ queue # <<>> /\ Head(queue) = m
    /\ mut[m].stage = "queued"
    /\ load.by = None

Begin(m) ==
    /\ CanBegin(m)
    /\ mut[m].kind = "rollback" => previous # None
    /\ base' = [disk |-> disk, previous |-> previous, config |-> config]
    /\ \E c \in IF mut[m].kind = "rollback" THEN {previous} ELSE Contents :
          mut' = [mut EXCEPT ![m] =
                    [@ EXCEPT !.next = c,
                              !.stage = IF Target(mut[m].kind) = "policy" THEN "previous" ELSE "write"]]
    /\ UNCHANGED <<disk, previous, phase, gens, active, config, load, queue, holds, torn, reloads, lives>>

(* Nothing to roll back to, an invalid candidate, or an unreadable file. *)
BeginRefused(m) ==
    /\ CanBegin(m)
    /\ EndAs(m, torn)
    /\ UNCHANGED <<disk, previous, phase, gens, active, config, load, holds, reloads, lives>>

-----------------------------------------------------------------------------
(* The writes of a mutation, each by rename: done, or failed and not done. *)

WritePrevious(m) ==
    /\ Running(m) /\ mut[m].stage = "previous"
    /\ \/ previous' = base.disk["policy"] /\ GoTo(m, "write")
       \/ UNCHANGED previous /\ EndAs(m, torn)
    /\ UNCHANGED <<disk, phase, gens, active, config, load, holds, reloads, lives>>

WriteCandidate(m) ==
    /\ Running(m) /\ mut[m].stage = "write"
    /\ disk' = [disk EXCEPT ![Target(mut[m].kind)] = mut[m].next]
    /\ StartLoad(m, "load")
    /\ UNCHANGED <<previous, phase, gens, active, config, holds, reloads, lives>>

(* Only the policy mutation has something to restore by then. *)
WriteCandidateFails(m) ==
    /\ Running(m) /\ mut[m].stage = "write"
    /\ IF Target(mut[m].kind) = "policy" THEN GoTo(m, "undo") ELSE EndAs(m, torn)
    /\ UNCHANGED <<disk, previous, phase, gens, active, config, load, holds, reloads, lives>>

(* restorePriorState, restoreProvider, restorePrior.  A provider candidate    *)
(* that was activated needs the restored configuration activated again.       *)
Undo(m) ==
    /\ Running(m) /\ mut[m].stage = "undo"
    /\ LET f == Target(mut[m].kind) IN
       /\ disk' = [disk EXCEPT ![f] = base.disk[f]]
       /\ IF f = "policy" THEN GoTo(m, "undoPrevious") /\ UNCHANGED load
          ELSE IF mut[m].recover THEN StartLoad(m, "reload")
          ELSE EndAs(m, torn) /\ UNCHANGED load
    /\ UNCHANGED <<previous, phase, gens, active, config, holds, reloads, lives>>

UndoPrevious(m) ==
    /\ Running(m) /\ mut[m].stage = "undoPrevious"
    /\ previous' = base.previous
    /\ EndAs(m, torn)
    /\ UNCHANGED <<disk, phase, gens, active, config, load, holds, reloads, lives>>

(* PolicyMutationRecoveryError, mcp_provider_rollback_failed, recovery_failed *)
UndoFails(m) ==
    /\ Running(m) /\ mut[m].stage \in {"undo", "undoPrevious"}
    /\ EndAs(m, TRUE)
    /\ UNCHANGED <<disk, previous, phase, gens, active, config, load, holds, reloads, lives>>

-----------------------------------------------------------------------------
(* Reloading. *)

(* Wrong on purpose: pending mutations do not make a direct reload busy. *)
ReloadRegardless ==
    /\ phase = "up"
    /\ load.by = None
    /\ reloads < MaxReloads
    /\ load' = Direct
    /\ reloads' = reloads + 1
    /\ UNCHANGED <<disk, previous, phase, gens, active, config, queue, mut, base, holds, torn, lives>>

DirectReload ==
    /\ phase = "up"
    /\ queue = <<>>
    /\ load.by = None
    /\ reloads < MaxReloads
    /\ load' = Direct
    /\ reloads' = reloads + 1
    /\ UNCHANGED <<disk, previous, phase, gens, active, config, queue, mut, base, holds, torn, lives>>

ReadFile ==
    /\ load.by # None
    /\ Len(load.read) < Len(LoadOrder)
    /\ load' = [load EXCEPT !.read = Append(@, disk[LoadOrder[Len(@) + 1]])]
    /\ UNCHANGED <<disk, previous, phase, gens, active, config, queue, mut, base, holds, torn, reloads, lives>>

LoadFails ==
    /\ load.by # None
    /\ load' = Idle
    /\ IF load.by = "direct" THEN UNCHANGED <<mut, queue, base, torn>>
       ELSE IF mut[load.by].stage = "reload" THEN EndAs(load.by, TRUE)
       ELSE GoTo(load.by, "undo")
    /\ UNCHANGED <<disk, previous, phase, gens, active, config, holds, reloads, lives>>

ConfigRead == [f \in Files |-> load.read[CHOOSE i \in 1..Len(LoadOrder) : LoadOrder[i] = f]]

(* A provider mutation is accepted only when the provider came up ready. *)
AfterPublish(ready) ==
    IF load.by = "direct" THEN UNCHANGED <<mut, queue, base>> /\ torn' = FALSE
    ELSE IF mut[load.by].stage = "reload" THEN EndAs(load.by, ~ready)
    ELSE IF mut[load.by].kind = "provider" /\ ~ready
    THEN /\ mut' = [mut EXCEPT ![load.by] = [@ EXCEPT !.stage = "undo", !.recover = TRUE]]
         /\ UNCHANGED <<queue, base, torn>>
    ELSE EndAs(load.by, FALSE)

Publish(ready) ==
    /\ load.by # None
    /\ Len(load.read) = Len(LoadOrder)
    /\ gens' = Append([gens EXCEPT ![active] = Retire(@)], Started)
    /\ active' = Len(gens) + 1
    /\ config' = ConfigRead
    /\ load' = Idle
    /\ AfterPublish(ready)
    /\ UNCHANGED <<disk, previous, phase, holds, reloads, lives>>

-----------------------------------------------------------------------------
(* Shutdown, crash and start. *)

(* The servers stop accepting; what is in flight has a bounded time to end. *)
Shutdown ==
    /\ phase = "up"
    /\ phase' = "draining"
    /\ UNCHANGED <<disk, previous, gens, active, config, load, queue, mut, base, holds, torn, reloads, lives>>

StopProviders ==
    /\ phase = "draining"
    /\ phase' = "stopped"
    /\ gens' = [gens EXCEPT ![active] = [@ EXCEPT !.retired = TRUE, !.stopped = TRUE]]
    /\ UNCHANGED <<disk, previous, active, config, load, queue, mut, base, holds, torn, reloads, lives>>

(* The process ends: by a crash at any time, or after StopProviders. *)
Exit ==
    /\ phase # "down"
    /\ lives < MaxLives
    /\ phase' = "down"
    /\ gens' = <<>>
    /\ active' = 0
    /\ config' = None
    /\ load' = Idle
    /\ queue' = <<>>
    /\ mut' = [m \in Mutations |->
                 IF mut[m].stage \in {"new", "done"} THEN mut[m]
                 ELSE Ended("lost")]
    /\ base' = None
    /\ holds' = [r \in Requests |-> 0]
    /\ torn' = FALSE
    /\ UNCHANGED <<disk, previous, reloads, lives>>

Start ==
    /\ phase = "down"
    /\ phase' = "up"
    /\ gens' = <<Started>>
    /\ active' = 1
    /\ config' = disk
    /\ lives' = lives + 1
    /\ UNCHANGED <<disk, previous, load, queue, mut, base, holds, torn, reloads>>

-----------------------------------------------------------------------------
MutationStep(m) ==
    \/ Begin(m) \/ BeginRefused(m)
    \/ WritePrevious(m)
    \/ WriteCandidate(m) \/ WriteCandidateFails(m)
    \/ Undo(m) \/ UndoPrevious(m) \/ UndoFails(m)

LoadStep == ReadFile \/ LoadFails \/ \E ready \in BOOLEAN : Publish(ready)

Next ==
    \/ \E r \in Requests : CaptureLease(r) \/ Release(r)
    \/ \E m \in Mutations : (\E kind \in Kinds : Submit(m, kind)) \/ MutationStep(m)
    \/ DirectReload \/ LoadStep
    \/ Shutdown \/ StopProviders \/ Exit \/ Start

(* File operations settle, and a provider's start is bounded by its timeout;  *)
(* only one of these steps is possible at a time.                             *)
Fairness == WF_vars(LoadStep \/ \E m \in Mutations : MutationStep(m))

Spec == Init /\ [][Next]_vars /\ Fairness

-----------------------------------------------------------------------------
InMutation == queue # <<>> /\ mut[Head(queue)].stage # "queued"

TypeOK ==
    /\ disk \in Configs
    /\ previous \in Contents \cup {None}
    /\ phase \in {"up", "draining", "stopped", "down"}
    /\ gens \in Seq(Generation)
    /\ active \in 0..Len(gens)
    /\ active = 0 <=> phase = "down"
    /\ config \in Configs \cup {None}
    /\ config = None <=> phase = "down"
    /\ load \in [by : Mutations \cup {"direct", None}, read : Seq(Contents)]
    /\ Len(load.read) <= Len(LoadOrder)
    /\ queue \in Seq(Mutations)
    /\ mut \in [Mutations -> [stage : Stages, kind : Kinds, next : Contents \cup {None},
                              recover : BOOLEAN]]
    /\ base \in Saved \cup {None}
    /\ base = None <=> ~InMutation
    /\ holds \in [Requests -> 0..Len(gens)]
    /\ torn \in BOOLEAN

(* "An activated reload retires the prior runtime only after its active       *)
(* exchange leases release" (adr-020): until shutdown stops the providers, a  *)
(* generation's runtime is stopped exactly when it is not the active one and  *)
(* no request is still using it.                                              *)
RuntimesServeTheirReaders ==
    phase \in {"up", "draining"} =>
        \A g \in 1..Len(gens) :
            gens[g].stopped <=> (g # active /\ \A r \in Requests : holds[r] # g)

(* Owner mutations are transactions on files and active generation.  While a  *)
(* mutation runs, the state the owner can count on is what it began from.     *)
Owner == INSTANCE TransactionalConfig WITH
            stored <- IF InMutation THEN base.disk ELSE disk,
            undo   <- IF InMutation THEN base.previous ELSE previous,
            live   <- IF InMutation THEN base.config ELSE config,
            torn   <- torn

MutationsAreTransactions == Owner!CSpec

(* Mutations wait for one another and for reloads, never forever: once no new *)
(* ones come, every one of them has been answered or lost with the process.   *)
QueueDrains == []<>(queue = <<>>)
=============================================================================
