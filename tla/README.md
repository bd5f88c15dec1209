# Formal models of the SlncTrZ-MCP gateway

TLA+ modules, TLC configurations and TLAPS proofs about the gateway in `src/`
(TypeScript, about 29 000 lines under `src/src/`). Paths below are relative to
the repository; `debate/store.ts` is short for `src/src/debate/store.ts`.

Contents: [the system](#1-the-system), [components](#2-components),
[modules](#3-modules-and-how-they-follow-the-code), [runs](#4-runs-bounds-and-fairness),
[proofs](#5-proofs), [disagreements found](#6-where-the-code-and-its-documents-disagree),
[not modelled](#7-what-is-not-modelled), [plan](#8-plan).

## 1. The system

SlncTrZ-MCP is a self-hosted MCP gateway. One process serves an HTTP listener
(`/mcp`, the OAuth pages and the owner's web console) and a loopback control
plane. A model's client is authorised by OAuth or a host token, then calls
*tools*: commands run as child processes, file reads and writes, coordination
tasks, debates between two clients, or tools of external MCP servers
(*providers*) which the gateway supervises. The owner changes the policy, the
providers and the command catalog while the gateway runs.

The process is single-threaded. What interleaves is everything between two
`await`s: HTTP exchanges, timers, exits of child processes, file operations.
Three kinds of state survive a restart: SQLite databases (debates, OAuth
grants), JSON files written by rename (policy, providers, commands, clients),
and append-only files (operation ledger). A transaction of SQLite is
synchronous (`BEGIN IMMEDIATE ... COMMIT` without an `await`), so a method of a
store is one atomic step, and a crash falls before or after it.

```
 client --HTTP--> http-server --> mcp-server --+--> task runtime --> child processes
                     |  (auth, lease)          +--> debate service --> debate store (SQLite)
                     |                         +--> file tools
                     |                         +--> supervisor --> stdio child / HTTP session
                     v                              ^
  OAuth service --> grant store (SQLite)            | one runtime per generation
                --> client registry (JSON)     policy store <-- owner mutations (JSON files)
```

Interactions that matter: an exchange captures the active policy generation
and holds a *lease* on its provider runtime until it ends; the debate service
notifies waiting calls after each store call; the task runtime gives up a
process only when the kernel reports its exit; a mutation of the owner writes
a file and then asks the policy store to reload; the OAuth service and the
grant store prune on nearly every call, so a read may delete.

## 2. Components

What each part keeps, what is hard about it, and what makes it correct.
"Modelled in" names the module; the others are explained in section 7.

| Component | State | Hard behaviour | Correct when | Modelled in |
|---|---|---|---|---|
| Debate store `debate/store.ts` | rows of debates, participants, messages | lazily recorded expiry, rollback of a refused call, retries, the finalizer's last turn | turns are taken in order, a retry repeats the answer, no late send, a turn is never lost | DebateStore |
| Debate service `debate/service.ts`, `waiters.ts` | registry of one-shot signals, waits in flight | a commit between read and sleep, notify against cancel, silent expiry, close | no lost wakeup, a timeout hides nothing, every wait ends | DebateService |
| Task runtime `task/runtime.ts` | retained task records, process handles, coordination claims | cancel before the launch answered, pruning at the limit, one terminal event, shutdown | no process is forgotten or left running after an answered cancel, one holder per claim | TaskRuntime |
| OAuth grant store `auth/oauth-grant-store.ts` | grants, tokens, refresh history, client defaults | rotation whose answer was lost, reuse after the grace, ceilings | one live refresh per family, equal answers, reuse kills the family | OAuthGrants |
| OAuth authority `auth/oauth-service.ts`, `dynamic-client-store.ts`, ... | pending transactions, codes, client registry (memory and file) | eviction at the limit, failing saves, owner edits of the file, crash between file, memory and database | one grant per consent, consent stands, no active client dropped | OAuthService |
| Provider supervisor and transports `extension/supervisor.ts`, `*-adapter.ts` | state, restart loop, incident, queue, active call, child or session | stop during an attempt, retry after a lost session against timer and abort, quarantine | at most one execution, calls settle, stop is final | Provider |
| Policy store, owner mutations, runtime catalog `policy/policy-store.ts`, `owner/policy-mutation.ts`, `owner/mcp-provider-service.ts`, `extension/runtime.ts` | active generation, leases, three files and the rollback file, mutation queue | failures and crashes between write, load, undo and second load; reload while a request reads | a mutation is a transaction, runtimes live exactly as long as their readers, the queue drains | PolicyStore |
| Bootstrap and shutdown `app/entry.ts`, `app/main.ts` | the lifecycle, a signal that came | a signal during the start, a listener that cannot be bound, a drain that times out, a generation published after shutdown stopped the active one | no signal is lost, the stores close after the drain | Gateway, PolicyStore |
| HTTP gateway, protocol server `app/http-server.ts`, `protocol/mcp-server.ts` | exchanges in flight | a peer that leaves while the handler runs on, early returns, a refusal at any await | each exchange releases what it took, a call is audited once, and says what the caller was told | Gateway, GatewayTools |
| Coding context `context/*` | receipts bound to client, policy and revisions, discoveries in flight | a discovery shared by calls, files and policy that change at each await, receipts swept by a bootstrap | a skill handed out is of the revision listed, a session survives other calls | HarnessContext, CodingSession |
| File tools `kernel/fs-*.ts` | files, the set of targets being written | writes racing on one path and with outsiders, checkpoints after the change | no write is based on content it did not see, an answer tells what happened to the file | FileWrites |
| Command execution `kernel/exec*.ts` | process groups, timers | abort against timeout against exit, a descendant that outlives its leader | nothing of the group is left when a call is answered as timed out or cancelled (POSIX) | CommandRuns, TaskRuntime |
| Provider orchestration, credentials `owner/mcp-owner-orchestrator.ts`, `mcp-provider-service.ts` | credential files, the provider file, two queues | a saga over credential, probe, save, activation and cleanup that can fail at each step, beside calls that bypass it | no dangling and no orphan credential, the disk says what is active | ProviderSaga |
| Owner console, control plane, OAuth pages `owner/web-console.ts`, `control-plane/server.ts`, `auth/oauth-http-router.ts` | sessions, counters of the limiters | requests that overlap between check and consume, a clock set back | what was ended lets nobody in, wrong secrets are rationed | OwnerAccess |
| Host tokens, owner secret `auth/host-token-store.ts`, `owner-secret-store.ts` | tokens and the secret on disk | idle deletion under a clock set back, processes that start together | a revoked token is dead, all processes have one secret | OwnerAccess |
| Operation ledger `lifecycle/operation-ledger.ts` | append-only file and its index | an append that fails or is torn, a restart | an acknowledged record survives, one operation id has one request | OperationLedger |
| Installer and updates `standalone/installer.ts`, `product-management.ts`, `service-setup.ts` | staged downloads, version directories, activation record, unit file, owner of the state, OS service | kills and failures between activation, unit, owner and restart; concurrent commands; a recovery that can fail | a success means all of them agree, a failure that all are back | Releases |
| Policy compilation, manifests, loopback checks, setup, signatures, audit, usage | none, or counters that only observe | - | functions of their input | not modelled |

## 3. Modules and how they follow the code

A definition whose name starts with `X` (and the ones commented "wrong on
purpose" in PolicyStore) is a faulty variant of the definition next to it; no
specification uses it. It is what shows that a property can fail: replace the
definition by its variant and the property of the run is violated.

### Debates

`DebateProtocol` says what a debate is: two roles, a transcript, a phase, who
may speak next and when the finalizer speaks. `DebateStore` is the SQLite
store: the variables `debate`, `member`, `messages` are the rows of the three
tables, and each action is one method with its whole transaction (`Create`,
`Join`, `Read`, `Send`, `SendReplay`, `StopMember`, `OwnerRead`, `OwnerStop`,
`OwnerDelete`, `OwnerResume`, and `Tick` for the clock). `Seen` is the row
after the method's own `expireIfDue`. A method that throws rolls back, so a
refused call is no action at all; that includes the expiry it had recorded.
Debates share no row, so one is modelled. `answers` is a history of what sends
returned. `DebateRefinement` maps the store to the protocol: the abstract
phase is the row's status, where an expiry counts only once it is recorded.

`DebateService` extends the store with the waiter registry and `debate.wait`:
each call of the service commits in the store and then notifies (or does not,
as the code does for the owner's reads and for replays). A wait goes through
its pcs (registered, asleep, awake, ended) with the reads between them; aborts,
the service's close and a process restart may come at any point.

### Tasks

`TaskRuntime` has one record per runner task (`kept` in the retained map,
`handle` the launched process's handle, `proc` and `cause` of the process),
the requests in flight (`call`) with the place in `start`, `wait`, `cancel`
where each is suspended, and the coordination tasks (`work`). The stretches of
code between two awaits are the actions. `ClaimBoard` is the abstract board:
work is open, held by one actor, or over for good; `TaskRefinement` maps
`work` to it. Texts, results and timestamps are left out.

### OAuth

`OAuthGrants` is the grant store: tables as sets of records, `prune` as the
operators `PrunedTokens`, `PrunedGrants`, `PrunedHistory` which every action
applies that applies it in the code (`Look` is the lookup that only prunes).
Clocks are monotone in the model, so the branch for a negative age of a
retired token and the legacy rows without a nonce are not reached. A
revocation called on the store does not prune; the service purges first.
`OAuthService` extends it with transactions, codes and the client registry
(`lru` the map's order, `disk` the file). A method that writes the file or the
database and then its memory has the failing save as a variant of the action
(`RevokeClientFails`, `RevokeAllFails` stop halfway); a crash inside a method
equals a crash after it, because memory is written last and lost anyway. The
checks of scopes, resource, PKCE and redirect URIs are one refusal.

### Providers

`Provider` composes the supervisor with what it can observe of its transport.
`sup` is the supervisor's record (state, restart tries, incident, session
incidents), `attempt` an `adapter.start()` in flight, `gen` the child or
session, `queue` and `active` the admission, `call` the stage of every call.
Continuations that only resume a settled promise are part of the event that
settles it. The session window is a counter that expires; the start deadlines
of supervisor and adapter coincide. The constant `Transports` restricts a run to
one transport or allows both.

### Policy

`PolicyStore` has every file write and every file read of the loader as a step
that may fail or be the last before a crash. A mutation goes through the stages
of its function (`previous`, `write`, `load`, `undo`, `undoPrevious`,
`reload`); `mut[m].kind` selects `applyPolicyMutation`, `rollbackPolicy`, the
provider service or the command editor of the console. `gens` are the provider
runtimes of the generations with the lease counters of
`createExtensionRuntimeCatalog`. `TransactionalConfig` is what the owner is
promised; the mapping lets the owner's view stay at what a running mutation
began from (`base`) until it ends.

Said explicitly: nobody but the gateway edits the three files in this model;
contents of a file are opaque values, and whether a configuration's provider
becomes ready is nondeterministic; a request that arrives between the
activation of an unready provider candidate and its recovery is served by the
candidate, which the mapping treats as internal; an ended mutation's record is
reset because nothing reads it.

### Releases

`Releases` is a system installation: `installed` the version directories,
`staging` the download of each command, `current` the record `current.json`,
`unit` the unit file and `loaded` what systemd has loaded of it, `owner` the
account that owns the state directory, `service` the process. The commands
(`setup`, `update`, `rollback`, `repair`) are processes of their own without a
lock, so every await between a read and the write it decides is a stage of
`cmd[c]`, and a kill may fall at any of them. `configureSystemService` is
`Plan` to `Chown`, its rollback `UndoOwner` to `UndoReload`,
`activateSystemService` the rest; a failure takes the order of recovery the
code has before the restart or after it. The launcher follows `current.json`
without checking bytes (`Launched`). `found` is a history: the host a command
found, until it ends or someone else changes the host under it.

Said explicitly: a version has one artifact; only a new process changes the
PID seen, and it is a new PID; enabling the unit, the lifecycle intent and the
owners of the install and config directories are left out, their failures are
those of the step they stand in. Unit texts differ in the account and in the
rest, which also stands for the paths and the port in them.

### The gateway

`GatewayTools` is the table of the registered tools: one record per handler of
`protocol/mcp-server.ts`, with the capability it needs, whether
`requireHarness` gates it, whether it is audited, how it may end, what it
changes, and whether it reports a command's timeout or cancellation as a normal
result, as `core.exec` does (`mcp-server.ts:1594-1619`: the answer has no
`isError`, the audit says timeout or cancelled). A tool that ends well may have
changed nothing: dry runs do. One that ended otherwise may have acted, a provider's
call also when its runtime was stopped meanwhile. `Gateway` drives one exchange through the awaits of
`app/http-server.ts` (`connect`, `body`, `close`) and of the tool handler
(`dispatch`, `harness`, `work`, and for a provider's tool `record`, `invoke`,
`resolve` of the prediction), beside changes of the policy and of grants, the
start of the process, signals, the drain and the close. `attached` says that the
exchange still waits for its handler: after the peer left, `Detach` ends the
exchange and gives the lease back while the handler runs on, as the code's
`finally` does. What an admission decides and what a tool does are left open
here; they are the subject of the next two parts.

### Coding

`HarnessContext` is `HarnessRuntime`: receipts, the discoveries in flight that
calls share, each with the calls that hold its promise (a caller awaits the promise
it was given, not the map), and each operation (`bootstrap`, `require`, `list`,
`instructions`, `resource`) as its awaits. The instruction files are two
numbers, of the global root and of the project. `FileWrites` is `core.write`
and `core.edit` from the path check to the `finally`, with the set of targets
being written, which an outsider does not know. `CommandRuns` is
`startRunCommand` with its process group, on a POSIX host: on Windows the
`close` handler does not kill (`exec.ts:409`). `CodingSession` composes them: a
behaviour is one of the context or one of the work of admitted tools, because
the two share no variable from the moment a call is admitted.

### The owner

`ProviderSaga` is `mcp-owner-orchestrator.ts` over `mcp-provider-service.ts`:
each call of the owner is a record with the step it stands at, what it found
(`prior`, `undo`), what it saves (`cand`) and the credential it staged. `saga` and
`mutation` are the two queues; `enable`, `disable` and the console's sync go
past the first. `PolicyStore` has the same mutation with the writes of its
files as steps; here a save or an activation is one step that may fail, and
what is added is what surrounds it. `OwnerAccess` has the doors that ask for a
secret: the console's login and sessions, the control plane, the consent page
and the OAuth endpoints, each with its limiters (`counter`, one per key), the
host tokens, and the start of processes that look for the owner's secret. A
behaviour has one `door`, since no two share a limiter. `OperationLedger` is the
append-only file with its index: a call is one action, and a failed append
leaves any part of its line. `OwnerConsole` puts the parts side by side; they
share no variable.

## 4. Runs, bounds and fairness

| Run | Module, cfg | Question |
|---|---|---|
| debate_store | DebateMC | does the store keep turns, deadlines and retries, and implement the protocol? |
| debate_wait | DebateServiceMC | can a waiting call miss its wakeup or wait for ever? |
| task_safety | TaskMC | can a process survive its cancel, or a claim be doubled? |
| task_liveness | TaskMC, TaskLive | does every request, and shutdown, end? |
| oauth_service | OAuthServiceMC | does each grant rest on one standing consent; do file and memory agree; can a refresh token be answered twice differently? |
| provider | ProviderMC | are calls executed at most once and settled; is stop final? |
| provider_cancel | ProviderMC, ProviderCancel | is a cancellation local to its call? (violated) |
| policy | PolicyMC | are mutations transactions; do runtimes live as long as their readers? |
| releases | ReleasesMC | does a command leave on the host what its outcome says? |
| gateway | GatewayMC | does an exchange give back what it took and audit what it answered; is every signal served? |
| coding | CodingMC | do sessions, files and commands stay whole under overlapping calls? |
| owner | OwnerMC | do credentials, disk, limiters, secret and ledger survive failing steps, overlaps and restarts? |

**debate_store.** Two connections (symmetric), turn limits 3 and 4, three
message ids, one payload, both timeouts 2, clock up to 5.
*TurnIsNeverLost*: an active debate with turns left is always someone's turn,
in alternation up to the finalizer. *ReplayRepeatsAnswer*: a retried send
returns what the first did although the row moved on. *ImplementsProtocol*: refinement of DebateProtocol. Limits 3 and 4 give both
parities of the limit against the finalizer's role, the case the code's
`maxTurns - 1` rule decides; 3 is the smallest limit the code admits; the
clock reaches both deadlines after each other.

**debate_wait.** Two waits, limit 3, timeouts 1, a wait of 3, clock up to 4.
*NoLostWakeup*: a sleeping wait that would return if it looked now
has its own timer at most one unit of time away; that covers the expiries
nobody notifies.
*TimeoutHidesNothing*: a wait that returns "timed out" found nothing
actionable. *EveryWaitEnds*: liveness. Two waits are the smallest number for
which a cancel can hit another's signal; a wait longer than both timeouts
meets an expiry while asleep. The wait is symmetric in connections, but TLC's
symmetry is unsound for liveness, so the action constraint `ByFirstConnection`
breaks it by hand: the first connection creates. Fairness: weak fairness of
the clock and, for every waiter, of its timer, of the throw and of its
continuation: timers fire and resolved promises continue in Node. Nothing is
assumed of callers or of the owner.

**task_safety.** Three actors of two clients, two concurrent requests
(symmetric), at most 2 active, 1 per client, 2 retained, 2 coordination tasks,
at most 2 runner tasks and 3 coordination tasks created. `OneKind` lets a
behaviour use runner or coordination tasks: they share only `accepting` and
shutdown. *CancelReachesProcess*: a process alive after a cancel was requested has been
signalled. *AnsweredCancelLeavesNoProcess*, and *ImplementsClaimBoard*
(refinement of ClaimBoard). Two retained records with two tasks reach pruning;
the third coordination task needs a finished one to be dropped.

**task_liveness.** All limits 1, one actor. *EveryCallEnds*: every request,
every runner task, and shutdown end. Fairness: the launch is answered, the
execution timeout fires, a signalled process exits (SIGKILL follows SIGTERM in
`kernel/exec.ts`), continuations run. Left alone, a process need not exit: only
its timeout ends it.

**oauth_service.** Behaviours of two kinds (`alone`). In the first the service
runs, with two grants, two dynamic clients and the static one, two transactions
(symmetric), one dynamic client slot, one pending transaction, lifetimes 1 and a
clock up to 2. *ConsentStands*: every grant goes back to an approval that was not
taken back, and no approval has two. *NoActiveClientDropped*: a client with a
transaction, code or token is not evicted. *RegistryDurable*: memory and file
hold the same clients after failing saves, evictions and crashes, except those
the owner edited or whose revocation failed halfway. One slot with two clients
makes every registration face eviction. In the second kind the store is called
by itself, for two families of one client, access 1, refresh 3, grace 2, at most
5 tokens, 2 history rows, 3 serials per family, clock up to 4.
*AnswersRepeat*: a refresh token, first or again, is answered with one and the
same successor pair, and only while that pair is live. *ReusedFamilyIsGone*:
after a reuse past the grace nothing of the family remains. Three serials give a
retry that comes after its successor was rotated; the clock passes the grace and
the expiry. The two are kept apart because the service's calls reach the store
through the same actions, and the product of long lifetimes with clients and
transactions would show nothing else.

**provider.** Three calls, queue of 1, two restarts, two session incidents, both
transports. *AtMostOneExecution*: a call is dispatched a second time only when
the first dispatch cannot have executed it. *StopIsFinal*: after stop nothing
runs and nothing is spawned. *EveryCallSettles*:
liveness; calls invoked while stop is already awaiting the adapter are left
out (`late`), the code does not settle them. Fairness: attempts and stops are
bounded by deadlines, the active call's timer fires, a restart loop goes on; a
provider need not answer. A queued call has no timer of its own (it starts with
the dispatch, `supervisor.ts:305-311`): it is settled because the active one ends by
its timer, and the queue moves on or is rejected. No caller is assumed to send a
request, to repeat or to abort one. Three calls are one active, one queued and one
refused.

**policy.** Two requests, two mutations of any of the four kinds, two contents,
one direct reload, two starts of the process; about 660 000 states.
*RuntimesServeTheirReaders*: until shutdown a generation's runtime is stopped
exactly when it is not active and has no reader (ADR-020).
*MutationsAreTransactions*: refinement of TransactionalConfig (SECURITY.md:
"mutation is transactional"): commit, or leave everything, or tell the owner.
*QueueDrains*: liveness. Two mutations queue behind each other; two requests
let a lease outlive another of its generation; one reload can fall before or
between mutations; the second life reads what a crash left behind. Fairness:
weak fairness of one step of the load or of the running mutation, since file
operations settle and a provider's start has a deadline; only one such step is
ever possible.

**releases.** Two versions, one without a build commit, two accounts, two
commands; a fresh host, a first installation and an updated one; about 645 000
states. *FailureRestores*: an update or rollback that ends as an ordinary
failure, undisturbed, leaves the activation, unit, loaded unit and owner it
found, and no process of the release it tried. *SuccessAgrees*: after a success
they agree with each other and, but for a repair, with the process. Both are
stated for a command nobody disturbed while it ran, because the code has no
lock and promises no more; what earlier commands left (killed halfway, failed
rollbacks, races, altered bytes) is not restricted. Two commands are the
least for that: the first leaves a mixture, the second starts from it. They
may overlap until both have planned (`Overlap`: updates and repairs of one
account, and only they act meanwhile), which is where the shared download and
the activation race. `VIEW` drops how an ended command ended, which no action
and no property reads of a command at rest; the symmetries are those of the two
commands and of the two accounts.

**gateway.** Two exchanges, one OAuth client and a host token, two policy
generations. One slot calls a command, a bootstrap and a restriction of the
profile, the other a provider's tool: between them they differ in every field
of a tool's record. *LeasesFollowExchanges*: the counter of a generation is the
number of exchanges that wait for it. *AuditTellsTheAnswer*: at the end of a call
there is the one audit event its tool promises; the caller was given a result
exactly when it says success, or when a command's timeout or cancellation is what the
tool reports as its result; what it says was denied or not executed changed nothing;
and a recorded prediction was settled before. *SignalsAreServed*: liveness, also for a signal
during the start. Fairness: the awaits of the code settle (the work of tools
is bounded by its own timeouts, a body that does not come is cut by the
server), bootstrap ends, the drain's timer fires. Nothing is assumed of peers or
of the owner. Two generations let a lease outlive its policy.

**coding.** One client, two calls at once, two tokens and as many handles, one
change of a file, a policy or the time; one path. *SkillsMatchTheirRevision*: a skill
that is handed out was read at the revision its receipt was shown.
*SessionsSurvive*: while nothing changes, no other bootstrap takes a client's
receipt. *NoLostUpdate*: a file is replaced only where it is what its writer named
as the base. *AnswerTellsTheFile*: applied means that the file was changed, and by
an edit that it was there; anything else means that it was not, but for the three
cases the code has (an edit interrupted after its write is cancelled, an edit whose
target disappeared creates it and is a conflict, a new file whose temporary name
stays is refused). *CommandsLeaveNothing*: when a command is answered as timed out or
cancelled nothing of its process group runs. One that exits by itself may leave a
descendant. Two calls are what
it takes to race; a second writer beside an outsider would only add the third
order of the same steps.

**owner.** Four kinds of behaviour: `providers` with two calls over two
providers, three references (a shared credential and a fresh one for each call)
and one restart; `access` with two requests, a session, two host tokens of which
one may be issued, two transactions, limits 1 and 2, a clock that passes every
lifetime and is set back once; `start` with two processes; `ledger` with two
operations, two requests, two states, three writes and two processes.
*CredentialsStand*: a credential that a stored or active provider names is there.
*NoOrphans*: one that nobody names was reported or left by a removal or a
crash. *DiskIsActive*: between mutations the provider file is what is active,
unless a rollback was answered as incomplete. *AccessEnds*: what was ended
lets nobody in, what is in use does not expire. *FailuresAreRationed*: in any
window's length at most twice the limit. *SecretsAgree*. *LedgerKeepsItsWord*:
every record acknowledged behind a whole line is given back, in order, and an
id keeps its request. Three writes let a torn line be followed by a record and
that by another.

`CHECK_DEADLOCK FALSE` is set where the system may really stop: bounded clocks
and inputs run out and a stopped process does nothing.

A type invariant is written in every module. They are proved, each as a part of
its module's inductive invariant; the runs do not repeat them.

## 5. Proofs

The proofs hold for every value of the constants, under the assumptions named
in the modules (TLC evaluates each of them in a run). Every safety property,
action property and refinement that a passing run checks is a theorem here.

**DebateProofs** (TurnLimits from 3 up, positive timeouts). Type correctness,
`TurnIsNeverLost`, `ReplayRepeatsAnswer`, `SendsAreTimely` (a message is stored
only from the holder of a read turn before its deadline), `ResponseClockIsFixed`
(re-reading a turn never extends its deadline), and that the store implements `DebateProtocol`. The
properties are not inductive alone: a stopped or completed debate forgets
whose turn it was, but its messages are still replayed. `IInv` adds `TurnOrder`
(every stored message is by the author its number calls for, and only the last
possible one is marked final) and `StatusShape` (before the start there are no
messages, the row's counters count them, a running debate has turns left). One step per
action; the refinement maps each action to a protocol step or a stutter.

The service is proved on top (waits of any positive length, finitely many waiters):
`NoLostWakeup`, `TimeoutHidesNothing`, and that whatever the service does is a step
of the store or none, so the store's theorems hold behind it. `NoLostWakeup` is not
inductive: it says what a sleeper would find if it looked now, and nothing of the
moment it went to sleep. `ServiceInv` adds `Sound` (the registry counts exactly the
waits that hold a signal, and each wait holds one as its place in the code says) and
`Settled`: a sleeper has seen every message, is not the one to speak, and its timer
ends one unit after the running deadline at the latest. Each action of the service
either leaves that so for every sleeper or notifies them all.

**TaskProofs** (any limits). Type correctness, `CancelReachesProcess`,
`ProcessesAreKnown`, `OneTerminalEvent`, `AnsweredCancelLeavesNoProcess`, and
`ImplementsClaimBoard`. `IInv` is the type invariant and, for every runner
record, `Sound`: a handle exists exactly when a process was launched, a running
record is retained, a live process has a running record, a live process asked
to cancel has a cause, after shutdown every running record was asked to
cancel, and the number of events is 0 or 1 as state and handle tell.

**OAuthProofs** (any lifetimes). Type correctness, `OneLiveRefresh`,
`CeilingHolds`, `ReusedFamilyIsGone`, `AnswersRepeat`. `IInv` adds
`RefreshIsUnique`, `AnswersKnown` (while an answered token's grant lives and it
has not expired, its history row is there, made no later than any answer and
naming the successor every answer gave) and `ReusedIsDrawn` (the identifier of
a family whose token came back is never drawn anew).

The service is proved on top (any clients, transactions and limits; no transaction
is called as the sentinel, `TxIdsAssumption`): `ConsentStands`, `RegistryDurable`,
`NoActiveClientDropped`, and again what the store promises, since the service calls
it beside its own steps. `SInv` is the store's `IInv` with `RegistryInv` (both
registries list a client once and within the limit, and only clients that were
drawn) and `ConsentInv`, whose addition is `FlowsBehindGrants`: the transaction a
grant comes from is over, and nothing was consented to before it became a code.
That is what keeps one consent from being exchanged twice after its grant was
revoked.

**ToolProofs**, providers (any calls, queue length, restart and session budget, over
either transport). Type correctness, `AtMostOneExecution`, `StopIsFinal`. `IInv` adds
`Controlled` (which state of the supervisor goes with which attempt, restart loop,
child and phase of `stop()`), `Consistent` (the queue holds the queued calls, each
once; a call that waits was never executed, and one that a live child has was, once)
and `Placed` (a call is at the provider only while the supervisor runs it). A retry is
then harmless because the child that had the first dispatch is no longer live.

**ToolProofs**, coding (any calls, clients, tokens, paths and changes). Type
correctness, `SkillsMatchTheirRevision`, `SessionsSurvive`,
`AnswerTellsTheFile`, `NoLostUpdate`, `CommandsLeaveNothing`. For contexts the
invariant adds `AllShaped` (under which revision an operation holds what it found),
`CallersWait` (who holds the promise of a discovery awaits one of that key),
`Paced` (no counter of the world runs ahead of the changes) and `Undisturbed`: as
long as nothing changed, every receipt, discovery and operation stands for the first
policy and instructions, and the token a bootstrap is about to hand out is nobody
else's. For files it adds `Locks` (a target is in the set as long as one call, and one
only, holds it) and `Guarded` (from the second read to the rename only an outsider's
content can come), and the form of each call (`Written`); for commands `Ended`.

**GatewayProofs** (any finite set of exchanges at once, whichever tools they call,
any number of policy generations). Type correctness, `LeasesFollowExchanges`,
`AuditTellsTheAnswer`. `IInv` adds, for every exchange, `Leased`
(from its connection on it has a generation, and is attached until its handler is
called), `Unaudited` (until the handler returns nothing is audited, and only a
provider's tool has acted and settled its result by then) and `Told` once it is over.
The lease counters are cardinalities, so the steps rest on the library's facts about
adding to and removing from a finite set.

**PolicyProofs** (finitely many requests, any mutations, contents and bounds;
`None` and `"direct"` are not among the data). Type correctness,
`RuntimesServeTheirReaders`, and that the store implements
`TransactionalConfig`. `IInv` adds, for the leases, `LeasesCount` (the counter
of a generation is the number of its readers: without it a release could not
tell the last reader) and `RetiredOnes` (until shutdown only the active
generation is not retired). For the files it adds `QueueShape` (one mutation
runs, at the head of the queue), `LoadShape` (the load in flight is the running
mutation's, and what it has read so far is what the files say), and `Progress`,
which says for each stage of a mutation which of the old and new contents are
on disk, in the rollback file and in the running configuration. The refinement
maps a begun mutation to what it began from; one lemma per action shows the
step is a commit, a reload, a tear, a crash, a start or a stutter.

**ReleasesProofs** (any versions, units and number of commands, no restriction
on their overlap; `"none"` is not a version). Type correctness,
`FailureRestores`, `SuccessAgrees`. `IInv` adds `Known` (metadata exists only
once something is activated) and, for every command, `Sound` (what it would
activate or come back to can be activated) and `Accounted`: as long as it is
undisturbed, the host is what it found except for what its stage says it has
written (`Advancing`, `Untouched`), and on the way back, while nothing failed,
each restored part is as found (`Receding`). One lemma per action; a command's
step that changes the host makes the others disturbed, so only its own account
is to be shown.

**OwnerProofs**, the provider saga (any providers, references, calls and restarts; the
sentinels are not among the data). `CredentialsStand`, `DiskIsActive`, type correctness, and that
each queue has at most one call in it and none when its call was answered.
Neither property is inductive alone. `IInv` adds `Queues` (a queue is held by the
call whose step says so) and, for every running call, `Shaped` (only the
orchestrator stages and cleans up), `Grounded` (what a call saves or puts back has
its credential), `Fresh` (a staged credential is named by nobody once a rollback
is done, a reference about to be dropped by nobody at all) and `Placed` (how far
the disk is from what is active while a mutation is on). The argument that lets
the console's calls overlap with the orchestrator's is in `WaitingCall` and
`IdleCall`: those calls change no reference, so they change no name a cleanup has
looked up, and outside the mutation they hold nothing of their own.
`CredentialRemoved`, `MutationMoves` and `QuietCall` are the three kinds of step;
each action is shown to be one of them.

`NoOrphans` looks the other way, from the credentials to who knows of them. `OInv`
adds `AllTraced` (at each step of a call where its three references come from: the
one it replaces is the stored one, the one it staged is stored once saved) and
`Accounted`: what nobody names was reported or is in the hands of the call that holds
the queue, also in the file that call's rollback would bring back.

**OwnerProofs**, access (any sessions, tokens, lifetimes and limits, a clock set back
by any amount; a session's token is no host token and no process is named as a
sentinel, `NamesAreApart`). `AccessEnds`, `SecretsAgree`, `FailuresAreRationed`. The
last is the hard one. What a limiter let through is split into windows: each begins
at least a window's length after the one before it, holds no more than the limit,
and the counter counts the last one unless that is over (`Windows`). A stretch of a
window's length meets two of them, hence twice the limit. A clock set back lengthens
a counted window and never shortens it, which is why the bound survives it; the
model has the real time that passed (`elapsed`) beside what the clock shows.
The clock starts at 1, so its bound `MaxTime` is at least that.

**OwnerProofs**, the operation ledger (any number of writes, processes, operations
and requests). `LedgerKeepsItsWord`. `LInv` says of the file, the memory and the
answers alike that stamps rise along them (`Stamped`), and of each record
acknowledged behind a whole line that it stands on a line which has its newline, is in
the memory of every process that loaded it (`Stands`), and that what comes after it
in its operation has its request (`Obeys`). Only a line without its newline can be
lost, and an append compares with the last entry of the operation, which is that
record or one that obeys it.

Two things about the models serve the provers and say nothing else of the code: the
ledger's readers skip a line that is no record where a filter would drop it (what a
filter returns is proved by induction), and the strings that name a place or an
outcome have no spaces, which the SMT backend does not take.

Only model-checked: the liveness properties `EveryWaitEnds`, `EveryCallEnds`,
`EveryCallSettles`, `QueueDrains` and `SignalsAreServed`. The TLA+ proof system
proves no liveness under fairness and no ENABLED. Its library's induction over data
takes operators as parameters, which the installed provers cannot instantiate, so
the greatest element of a bounded set and the like come from the well-foundedness of
`<` on the naturals instead. Modules with RECURSIVE operators lose their SMT
backend, so none is used here.

## 6. Where the code and its documents disagree

One of these is a run whose property states the document, and which TLC
violates with the code's behaviour.

* **provider_cancel**: `ARCHITECTURE.md:97-98` says an active cancellation does not
  create an incident or restart the provider. The stdio adapter ends the whole
  child on an abort (`extension/stdio-adapter.ts:493`, 141-168) and the
  supervisor sees a transport failure (`extension/supervisor.ts:379-389`).

The models have further reachable states at odds with a document or worth
knowing, seen while checking them and not kept as runs.

Debates and providers:

* `docs/releases/v0.3.5.md:17` says a wait on a deleted debate observes
  `debate_not_found`. The membership row is cascaded away and is checked before
  the debate (`debate/store.ts:250`), so the member gets `membership_invalid`.
* `MCP_SERVERS.md:63` says faults recover. A stdio child that exits while no call
  is pending is never restarted (`extension/stdio-adapter.ts:241`): nothing tells
  the supervisor, which stays `ready` while calls are refused.

Coding:

* `requireContext` does not look at the receipt again after its awaits
  (`context/runtime.ts`): a call may be admitted under a receipt that was closed,
  expired or swept meanwhile.
* A bootstrap of an exchange that captured an older policy sweeps the receipts of
  the newer one, and one may join a discovery that read before the last edit.
* `core.write` with `expectedSha256` creates a file that is not there. Over several
  roots a write or an edit of a missing file goes on to the next root.
* `docs/adr/adr-016-deterministic-exact-match-edit.md:33` says "Editing never creates a
  file; a target that disappears returns `conflict`", and `kernel/fs-edit.ts:354` that
  "Editing must never create a file". An edit whose target is removed after its base was
  read goes to the writer, which links a new file (`kernel/fs-write.ts:200`); the test
  comes after, so the call is answered `conflict` and the file is there again. This is
  the case `CreatedByAnEdit` of AnswerTellsTheFile.
* An edit can answer cancelled, and a created file a failure, although the change
  is applied (`kernel/fs-edit.ts:352`, `kernel/fs-write.ts:208`).
* A timed-out or cancelled command is answered as a result, not as an error
  (`protocol/mcp-server.ts:1594-1602`), while its audit event says timeout or cancelled.
* A command's abort that comes while the executable is validated a second time
  is not noticed (`kernel/exec.ts:240`): the command runs until its timeout.

The owner:

* `updateAuth` carries the `enabled` flag it listed across its probe. A provider
  that was disabled meanwhile is enabled again, against
  `owner/provider-drawer.ts:526` ("stops every client from using its tools until
  you re-enable it").
* A sync may accept tools that were discovered at a manifest replaced meanwhile. A
  removed provider leaves its credentials; removing one that is not there answers
  `partial_failure`.
* Overlapping logins are all verified; only what exceeds the budget when it is
  consumed is answered as limited.
* A write of the owner's secret that fails leaves an empty file, which every later
  start refuses (`auth/owner-secret-store.ts:94`).
* A record appended right behind a torn line of the ledger is lost with it at the
  next load. An append that was answered as failed may reappear then, possibly
  with another request for its id.

Installations:

* `docs/adr/adr-008-standalone-packaging-runtime-separation.md` calls the
  installation of the active version idempotent (line 35) and says that an
  interrupted upgrade retains the active version (line 47). A `setup` of the
  active version whose service configuration fails rolls the activation back to
  the previous version (`standalone/service-setup.ts:476`), and an update killed
  after `writeActivation` leaves the new version active.
* An update that fails when the service was down at its start restores the files
  and leaves the process it started, of the failed release, running: the
  recovery restarts only what ran before (`service-setup.ts:541`). This is why
  FailureRestores asks for `f.service # Stopped`.
* A unit written by a command that was killed before `daemon-reload` is found
  unchanged by the next one, which then does not reload it: the account systemd
  uses is checked, the rest of the unit is not. This is why SuccessAgrees speaks
  of the loaded account.
* A repair that empties `.staging` under a download lets an incomplete or empty
  directory be published (`product-management.ts:1123`).

Three more are listed as hazards without a property: the closing of the stores, which is
the statement after the awaited drain, so that a property would restate that await; a call invoked while `stop()` awaits during a restart stays unsettled
(`extension/supervisor.ts:470`); a reload still loading at shutdown publishes a
generation nobody stops (`app/main.ts:433`).

## 7. What is not modelled

* Functions of their input: policy and manifest compilation, provider
  identity, loopback checks, signatures, release manifests, layouts, argument
  schemas, presentation. Their results appear as nondeterministic choices.
* Pure I/O and operating system: private files and ACLs, spawning details,
  output buffering, fetching, systemd and launchd calls, pages and scripts.
* Observers: audit, usage, metrics. They change nothing the others read.
* In the modelled parts: debate and task texts, token values, labels,
  `lastSeenAt`, result delivery, database migration, HTTP framing and caps.
* Installations: user installations (no service), macOS and Windows, repair of
  launcher, marker and file modes, and the configuration commands.
* In the gateway: routes other than `/mcp`, origins, headers and body caps,
  resources and prompts, argument schemas, searches and images, output buffers.
* Of the owner's surfaces: read-only routes, pages, the cryptography of secrets and
  credentials.

## 8. Plan

All modules of the first plan exist. What is left, in order:

1. Proofs: every safety property of the runs is proved. Worth adding are lemmas that
   bring the liveness properties closer to a proof (a measure that each fair step
   lowers, as an action property): the queue of PolicyStore and the calls of
   Provider.
2. Refinement: the save and activation of ProviderSaga by the provider mutation of
   PolicyStore, which has them write by write.
3. Releases: user installations, and the repair of launcher and modes.

Bounds follow the same rule throughout: two of what competes, one more than a
limit where the limit matters, and a clock that passes every deadline once.
