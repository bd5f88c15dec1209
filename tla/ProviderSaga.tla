------------------------------ MODULE ProviderSaga ------------------------------
(* The owner's changes to the MCP providers: the orchestrator of                    *)
(* src/src/owner/mcp-owner-orchestrator.ts, which stages a credential, probes the   *)
(* candidate, saves it and cleans up, over mcp-provider-service.ts, which saves a   *)
(* provider and activates it as one policy mutation and undoes what does not        *)
(* activate, over the provider and the credential store.                            *)
(*                                                                                  *)
(* Orchestrated operations wait for each other; policy mutations wait for each      *)
(* other; the console calls setEnabled and syncToDiscovered of the service without  *)
(* the orchestrator, so that both kinds of operations overlap.  A provider is kept  *)
(* as its first credential reference and its enabled flag: tools, name and          *)
(* transport are none of what these operations decide by.                           *)
EXTENDS FiniteSets, Naturals

CONSTANTS
  Providers,    \* provider ids
  Refs,         \* credential references, each generated once
  Intents,      \* calls of the owner, each made once
  MaxCrashes    \* bound: restarts of the gateway

VARIABLES
  stored,       \* the provider file: id -> row
  active,       \* the providers of the active policy generation
  creds,        \* the references whose credential file is there
  minted,       \* the references generated so far
  intent,       \* call -> where it is
  saga,         \* the call that holds mutationTail of the orchestrator
  mutation,     \* the call that holds mutationTail of the policy store
  diverged,     \* history: the last rollback was incomplete, and nothing activated since
  loose,        \* history: references given up by a crash, a removal or a partial failure
  crashes

sagaVars == <<stored, active, creds, minted, intent, saga, mutation, diverged, loose, crashes>>

NoRef == "no-reference"
Nobody == "nobody"

ASSUME SentinelsAreApart == NoRef \notin Refs /\ Nobody \notin Intents

ASSUME BoundIsNatural == MaxCrashes \in Nat

Row == [ref : Refs \cup {NoRef}, enabled : BOOLEAN]
Missing == [ref |-> NoRef]
NoIntent == [step |-> "none"]
Answered == [step |-> "answered"]

Orchestrated == {"add", "auth", "remove", "sync"}
Operation == Orchestrated \cup {"enable", "disable", "direct-sync"}

Intent ==
  [op : Operation, id : Providers,
   step : {"queued", "credential", "probe", "save", "activate", "restore", "reactivate",
           "cleanup", "drop", "unstage", "recover"},
   prior : Row \cup {Missing},      \* the provider the orchestrator listed
   undo : Row \cup {Missing},       \* the provider found inside the policy mutation
   cand : Row \cup {Missing},
   staged : Refs \cup {NoRef}]

SagaTypeOK ==
  /\ stored \in [Providers -> Row \cup {Missing}]
  /\ active \in [Providers -> Row \cup {Missing}]
  /\ creds \subseteq minted /\ minted \subseteq Refs /\ loose \subseteq Refs
  /\ intent \in [Intents -> Intent \cup {NoIntent, Answered}]
  /\ saga \in Intents \cup {Nobody} /\ mutation \in Intents \cup {Nobody}
  /\ diverged \in BOOLEAN /\ crashes \in 0..MaxCrashes

\* A gateway that has started: what is stored is active, and its credentials are there.
SagaInit ==
  /\ stored \in [Providers -> Row \cup {Missing}]
  /\ active = stored
  /\ creds = {stored[p].ref : p \in Providers} \ {NoRef}
  /\ minted = creds
  /\ intent = [i \in Intents |-> NoIntent]
  /\ saga = Nobody /\ mutation = Nobody
  /\ diverged = FALSE /\ loose = {} /\ crashes = 0

At(i, step) == intent[i] # NoIntent /\ intent[i].step = step
Becomes(i, x) == intent' = [intent EXCEPT ![i] = x]
Goes(i, step) == intent' = [intent EXCEPT ![i].step = step]
Named(rows) == {rows[p].ref : p \in Providers} \ {NoRef}
IsSaga(i) == intent[i].op \in Orchestrated

\* The references a running call has to do with.
Held(i) ==
  IF intent[i] \in {NoIntent, Answered} THEN {}
  ELSE {intent[i].staged, intent[i].prior.ref, intent[i].undo.ref} \ {NoRef}

\* A partial failure leaves credentials to the owner; remove leaves those of its provider.
LeavesSome(i, answer) ==
  \/ answer = "partial_failure"
  \/ answer = "committed" /\ intent[i].op = "remove"

\* An answered call gives up its places in the queues.
AnswersWith(i, answer) ==
  /\ Becomes(i, Answered)
  /\ saga' = IF saga = i THEN Nobody ELSE saga
  /\ mutation' = IF mutation = i THEN Nobody ELSE mutation
  /\ loose' = IF LeavesSome(i, answer) THEN loose \cup Held(i) ELSE loose

-------------------------------------------------------------------------------
(* The orchestrator.                                                                *)

Ask(i, op, p) ==
  /\ intent[i] = NoIntent
  /\ Becomes(i, [op |-> op, id |-> p, step |-> "queued", prior |-> Missing, undo |-> Missing,
                 cand |-> Missing, staged |-> NoRef])
  /\ UNCHANGED <<stored, active, creds, minted, saga, mutation, diverged, loose, crashes>>

\* add lists the providers.  It comes with a credential to be staged, or with a manifest
\* that names one, or none; the console always adds an enabled provider.
AddBegins(i) ==
  /\ At(i, "queued") /\ intent[i].op = "add" /\ saga = Nobody
  /\ \/ \E ref \in Refs \ minted :
          /\ minted' = minted \cup {ref}
          /\ Becomes(i, [intent[i] EXCEPT !.step = "credential", !.staged = ref,
                           !.prior = stored[intent[i].id], !.cand = [ref |-> ref, enabled |-> TRUE]])
     \/ \E ref \in creds \cup {NoRef} :
          /\ Becomes(i, [intent[i] EXCEPT !.step = "probe",
                           !.prior = stored[intent[i].id], !.cand = [ref |-> ref, enabled |-> TRUE]])
          /\ UNCHANGED minted
  /\ saga' = i
  /\ UNCHANGED <<stored, active, creds, mutation, diverged, loose, crashes>>

\* updateAuth takes the provider as it is listed now, and keeps its enabled flag until
\* it saves.  Without a provider, or a reference to replace, there is nothing to do.
AuthRefused(i) ==
  /\ At(i, "queued") /\ intent[i].op = "auth" /\ saga = Nobody
  /\ stored[intent[i].id].ref = NoRef
  /\ AnswersWith(i, "rolled_back")
  /\ UNCHANGED <<stored, active, creds, minted, diverged, crashes>>

AuthBegins(i) ==
  /\ At(i, "queued") /\ intent[i].op = "auth" /\ saga = Nobody
  /\ stored[intent[i].id].ref # NoRef
  /\ \E ref \in Refs \ minted :
       /\ minted' = minted \cup {ref}
       /\ Becomes(i, [intent[i] EXCEPT !.step = "credential", !.staged = ref,
                        !.prior = stored[intent[i].id],
                        !.cand = [stored[intent[i].id] EXCEPT !.ref = ref]])
  /\ saga' = i
  /\ UNCHANGED <<stored, active, creds, mutation, diverged, loose, crashes>>

\* remove, and sync, whose discovery finds no provider or fails or goes on to acceptTools.
OtherBegins(i) ==
  /\ At(i, "queued") /\ intent[i].op \in {"remove", "sync"} /\ saga = Nobody
  /\ Goes(i, IF intent[i].op = "sync" THEN "probe" ELSE "save")
  /\ saga' = i
  /\ UNCHANGED <<stored, active, creds, minted, mutation, diverged, loose, crashes>>

\* The service is called without the orchestrator.
DirectBegins(i) ==
  /\ At(i, "queued") /\ ~ IsSaga(i)
  /\ Goes(i, IF intent[i].op = "direct-sync" THEN "probe" ELSE "save")
  /\ UNCHANGED <<stored, active, creds, minted, saga, mutation, diverged, loose, crashes>>

\* credentials.set: the file is renamed into place, then its mode is set, and both can
\* fail.  On a failure the staged credential is removed, whether it is there or not.
CredentialSet(i) ==
  /\ At(i, "credential")
  /\ \E written, fails \in BOOLEAN :
       /\ written \/ fails
       /\ creds' = IF written THEN creds \cup {intent[i].staged} ELSE creds
       /\ Goes(i, IF fails THEN "unstage" ELSE "probe")
  /\ UNCHANGED <<stored, active, minted, saga, mutation, diverged, loose, crashes>>

\* How the orchestrator, or the route, answers a call that threw with nothing to undo.
Failed(i) ==
  CASE intent[i].op \in {"add", "auth", "sync"} -> "rolled_back"
    [] intent[i].op = "remove" -> "partial_failure"
    [] OTHER -> "refused"

\* A call that failed takes back the credential it staged, before it is answered.
XFails(i, answer) == AnswersWith(i, answer)

Fails(i, answer) ==
  IF intent[i].staged = NoRef THEN AnswersWith(i, answer)
  ELSE /\ Goes(i, "unstage")
       /\ mutation' = IF mutation = i THEN Nobody ELSE mutation
       /\ UNCHANGED <<saga, loose>>

Unstage(i) ==
  /\ At(i, "unstage")
  /\ \/ creds' = creds \ {intent[i].staged} /\ AnswersWith(i, "rolled_back")
     \/ AnswersWith(i, "partial_failure") /\ UNCHANGED creds
  /\ UNCHANGED <<stored, active, minted, diverged, crashes>>

\* The candidate is started outside the policy, with its credential, and stopped again.
\* It does not start, or lists no tools, or goes on.  A sync probes the stored provider.
Subject(i) == IF intent[i].op \in {"sync", "direct-sync"} THEN stored[intent[i].id]
              ELSE intent[i].cand

Probe(i) ==
  /\ At(i, "probe")
  /\ \/ Fails(i, Failed(i))
     \/ /\ Subject(i) # Missing /\ Subject(i).ref \in creds \cup {NoRef}
        /\ Goes(i, "save")
        /\ UNCHANGED <<saga, mutation, loose>>
  /\ UNCHANGED <<stored, active, creds, minted, diverged, crashes>>

\* After activation the references the provider had before are looked up again, and
\* those that no provider names any more are removed: two awaits, each of which can fail.
Cleanup(i) ==
  /\ At(i, "cleanup")
  /\ IF intent[i].prior.ref = NoRef THEN AnswersWith(i, "committed")
     ELSE \/ AnswersWith(i, "partial_failure")
          \/ intent[i].prior.ref \in Named(stored) /\ AnswersWith(i, "committed")
          \/ /\ intent[i].prior.ref \notin Named(stored)
             /\ Goes(i, "drop") /\ UNCHANGED <<saga, mutation, loose>>
  /\ UNCHANGED <<stored, active, creds, minted, diverged, crashes>>

Drop(i) ==
  /\ At(i, "drop")
  /\ \/ creds' = creds \ {intent[i].prior.ref} /\ AnswersWith(i, "committed")
     \/ AnswersWith(i, "partial_failure") /\ UNCHANGED creds
  /\ UNCHANGED <<stored, active, minted, diverged, crashes>>

-------------------------------------------------------------------------------
(* The service: one policy mutation.                                                *)

\* What a call saves over the provider it finds.
Saved(i, found) ==
  CASE intent[i].op = "remove" -> Missing
    [] intent[i].op \in {"enable", "disable"} ->
         [found EXCEPT !.enabled = intent[i].op = "enable"]
    [] intent[i].op \in {"sync", "direct-sync"} -> found
    [] OTHER -> intent[i].cand

\* Only add and updateAuth go on without a provider that is there; and the file may not
\* be written, the store be full or the manifest be refused.
SaveFails(i) ==
  /\ At(i, "save") /\ mutation = Nobody
  /\ Fails(i, Failed(i))
  /\ UNCHANGED <<stored, active, creds, minted, diverged, crashes>>

Save(i) ==
  LET found == stored[intent[i].id] IN
  /\ At(i, "save") /\ mutation = Nobody
  /\ found = Missing => intent[i].op \in {"add", "auth"}
  /\ mutation' = i
  /\ stored' = [stored EXCEPT ![intent[i].id] = Saved(i, found)]
  /\ Becomes(i, [intent[i] EXCEPT !.step = "activate", !.undo = found,
                                  !.cand = Saved(i, found)])
  /\ UNCHANGED <<active, creds, minted, saga, diverged, loose, crashes>>

\* The mutation is over, and with it a call of the service; the orchestrator goes on.
\* An incomplete rollback leaves everything as it is, the staged credential too.
XKeeps(result) == FALSE
Keeps(result) == result = "incomplete"

MutationEnds(i, result) ==
  CASE result = "activated" ->
         IF intent[i].op \in {"add", "auth"}
         THEN Goes(i, "cleanup") /\ mutation' = Nobody /\ UNCHANGED <<saga, loose>>
         ELSE AnswersWith(i, IF IsSaga(i) THEN "committed" ELSE "activated")
    [] Keeps(result) -> AnswersWith(i, IF IsSaga(i) THEN "partial_failure" ELSE "refused")
    [] result = "not-activated" ->
         Fails(i, IF IsSaga(i) THEN "rolled_back" ELSE "not-activated")
    [] OTHER -> Fails(i, Failed(i))

\* isActiveProviderReady: a provider whose credential is not there does not start.
MayBeReady(row) == row.ref \in creds \cup {NoRef}
NeedsReady(row) == row # Missing /\ row.enabled

Activated(i) ==
  /\ At(i, "activate")
  /\ active' = stored /\ diverged' = FALSE
  /\ \/ /\ NeedsReady(intent[i].cand) => MayBeReady(intent[i].cand)
        /\ MutationEnds(i, "activated")
     \/ NeedsReady(intent[i].cand) /\ Goes(i, "recover") /\ UNCHANGED <<saga, mutation, loose>>
  /\ UNCHANGED <<stored, creds, minted, crashes>>

NotActivated(i) ==
  /\ At(i, "activate")
  /\ Goes(i, "restore")
  /\ UNCHANGED <<stored, active, creds, minted, saga, mutation, diverged, loose, crashes>>

\* restoreProvider: the provider that was found is saved again, or the new one removed.
XRestored(i) == stored
Restored(i) == [stored EXCEPT ![intent[i].id] = intent[i].undo]

\* The candidate did not become active: its file is taken back.
Restore(i) ==
  /\ At(i, "restore")
  /\ \/ /\ stored' = Restored(i)
        /\ \E result \in {"not-activated", "threw"} : MutationEnds(i, result)
        /\ UNCHANGED diverged
     \/ MutationEnds(i, "incomplete") /\ diverged' = TRUE /\ UNCHANGED stored
  /\ UNCHANGED <<active, creds, minted, crashes>>

\* recoverActivatedCandidate: the candidate is active and not ready.  Its file is taken
\* back, what was there before is activated again and has to be ready again.
Recover(i) ==
  /\ At(i, "recover")
  /\ \/ /\ stored' = Restored(i)
        /\ Goes(i, "reactivate") /\ UNCHANGED <<saga, mutation, loose>>
     \/ MutationEnds(i, "incomplete") /\ UNCHANGED stored
  /\ UNCHANGED <<active, creds, minted, diverged, crashes>>

Reactivate(i) ==
  /\ At(i, "reactivate")
  /\ \/ MutationEnds(i, "incomplete") /\ diverged' = TRUE /\ UNCHANGED active
     \/ /\ active' = stored /\ diverged' = FALSE
        /\ \/ /\ NeedsReady(intent[i].undo) => MayBeReady(intent[i].undo)
              /\ MutationEnds(i, "threw")
           \/ NeedsReady(intent[i].undo) /\ MutationEnds(i, "incomplete")
  /\ UNCHANGED <<stored, creds, minted, crashes>>

-------------------------------------------------------------------------------
\* The policy is reloaded by somebody else, which no mutation lets happen meanwhile.
Reload ==
  /\ mutation = Nobody
  /\ active' = stored /\ diverged' = FALSE
  /\ UNCHANGED <<stored, creds, minted, intent, saga, mutation, loose, crashes>>

\* The gateway ends, at any step, and starts from its files.
Crash ==
  /\ crashes < MaxCrashes /\ crashes' = crashes + 1
  /\ intent' = [i \in Intents |->
       IF intent[i] = NoIntent THEN NoIntent ELSE Answered]
  /\ loose' = loose \cup UNION {Held(i) : i \in Intents}
  /\ active' = stored /\ diverged' = FALSE
  /\ saga' = Nobody /\ mutation' = Nobody
  /\ UNCHANGED <<stored, creds, minted>>

SagaStep(i) ==
  \/ AddBegins(i) \/ AuthRefused(i) \/ AuthBegins(i) \/ OtherBegins(i) \/ DirectBegins(i)
  \/ CredentialSet(i) \/ Unstage(i) \/ Probe(i) \/ Cleanup(i) \/ Drop(i)
  \/ SaveFails(i) \/ Save(i) \/ Activated(i) \/ NotActivated(i)
  \/ Restore(i) \/ Recover(i) \/ Reactivate(i)

SagaNext ==
  \/ \E i \in Intents, op \in Operation, p \in Providers : Ask(i, op, p)
  \/ \E i \in Intents : SagaStep(i)
  \/ Reload
  \/ Crash

SagaSpec == SagaInit /\ [][SagaNext]_sagaVars

-------------------------------------------------------------------------------
(* Properties.                                                                      *)

\* Every credential that a stored or an active provider names is there, whichever steps
\* fail, however calls of the orchestrator and of the service overlap, and across
\* restarts: cleanup and rollback never remove one that is still needed.
CredentialsStand == Named(stored) \cup Named(active) \subseteq creds

\* A credential that no provider names any more is one that an answer named as a partial
\* failure, that a removal or an interruption left behind, or that a running call holds:
\* a call answered "committed" or "rolled_back" leaves none.
NoOrphans == saga = Nobody => creds \subseteq Named(stored) \cup Named(active) \cup loose

\* Between policy mutations the providers on the disk are the active ones, unless the
\* last rollback was answered as incomplete: what was not activated is not found there by
\* the next reload or restart.
DiskIsActive == mutation = Nobody /\ ~ diverged => active = stored
=============================================================================
