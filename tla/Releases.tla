-------------------------------- MODULE Releases --------------------------------
(***************************************************************************)
(* Setup, update, rollback and repair of a system installation             *)
(* (src/src/standalone/): verified version directories, the activation     *)
(* record current.json, the systemd unit, the owner of the state           *)
(* directory, and the gateway process.                                     *)
(*                                                                         *)
(* Every command is a process of its own and nothing excludes a second     *)
(* one, so each await that separates a read from the write it decides, or  *)
(* two writes, is a point where another command, the service or a kill may *)
(* step in.  A version has one artifact (another one under its name is     *)
(* refused, which Refuse covers); enabling the unit, the lifecycle intent  *)
(* and the ownership of the install and config roots are left out, and     *)
(* their failures are those of the step they stand in.                     *)
(***************************************************************************)
EXTENDS Naturals

CONSTANTS
  Versions,   \* releases a manifest may name
  Stamped,    \* those whose manifest has a buildCommit
  Units,      \* unit texts setup may render: the account and the rest
  Products,   \* activations of the installations to begin with
  Commands,   \* slots for concurrent commands
  MaxCommands \* bound: commands run in a behaviour

ASSUME ReleasesAssumption ==
  /\ "none" \notin Versions /\ Stamped \subseteq Versions
  /\ Products \subseteq [version : Versions, previous : Versions \cup {"none"}]
  /\ \A a \in Products : a.version # a.previous
  /\ "nobody" \notin Commands
  /\ MaxCommands \in Nat

VARIABLES
  installed,   \* versions/<v>: "absent", "good", "empty", or "bad": not as published
  staging,     \* .staging of each command: "none", "full", or "hollow"
  current,     \* current.json
  registered,  \* installation metadata exists
  unit,        \* the unit file
  loaded,      \* the unit systemd has loaded
  owner,       \* owner of the state directory; "mixed" after a partial chown
  service,     \* the gateway process
  cmd,         \* the state of each command
  begun,       \* commands begun so far
  found        \* history: the host a command found when it began, until
               \* it ends or someone else changes the host under it

host == <<current, unit, loaded, owner, service>>
vars == <<installed, staging, current, registered, unit, loaded, owner, service,
          cmd, begun, found>>

NoVersion == "none"
NoActivation == [version |-> NoVersion, previous |-> NoVersion]
NoUnit == [account |-> "root", text |-> "none"]
Stopped == [version |-> NoVersion, account |-> "root"]

NoPlan == [unit |-> NoUnit, owner |-> "root", running |-> FALSE]
NoCommand ==
  [kind |-> "none", stage |-> "idle", target |-> NoVersion, want |-> NoUnit,
   back |-> NoActivation, record |-> NoActivation, plan |-> NoPlan,
   unitMutated |-> FALSE, stateMutated |-> FALSE, oldPid |-> FALSE,
   during |-> "configure", failures |-> FALSE]

Outcomes == {"ok", "failed", "rollback_failed", "killed"}
Settled == Outcomes \cup {"idle"}
InFlight(c) == cmd[c].stage \notin Settled
At(c, stage) == cmd[c].stage = stage

Host == [current |-> current, unit |-> unit, loaded |-> loaded, owner |-> owner,
         service |-> service]
Unknown == [current |-> NoActivation, unit |-> NoUnit, loaded |-> NoUnit, owner |-> "unknown",
            service |-> Stopped]

-----------------------------------------------------------------------------
(* What the parts do.  *)

\* What may run once systemd has started the launcher, which follows
\* current.json without checking the bytes: the process may also die at once.
Launched(activation, u) ==
  {Stopped} \cup
  (IF activation = NoActivation \/ u = NoUnit THEN {}
   ELSE {[version |-> activation.version, account |-> u.account]})

\* A process other than the one a command saw when it planned.
NewProcess(cs, p) ==
  /\ service' = p
  /\ cmd' = [c \in Commands |-> [cs[c] EXCEPT !.oldPid = FALSE]]

\* activateRelease: the record to write, the one in place if it is the same.
Activated(activation, v) ==
  IF activation.version = v THEN activation
  ELSE [version |-> v, previous |-> activation.version]

\* rollbackStandaloneRelease
CanRollBack(activation) ==
  activation.previous # NoVersion /\ installed[activation.previous] = "good"
RolledBack(activation) == [version |-> activation.previous, previous |-> NoVersion]

\* restoreActivationAfterFailure: can it, and what is current.json then?
XRestored(r) == IF r.back # NoActivation THEN RolledBack(current) ELSE current

CanRestore(r) ==
  IF r.back # NoActivation THEN installed[r.back.version] = "good"
  ELSE r.record.previous # NoVersion => CanRollBack(current)

Restored(r) ==
  IF r.back # NoActivation THEN r.back
  ELSE IF r.record.previous # NoVersion THEN RolledBack(current) ELSE current

With(c, r) == [cmd EXCEPT ![c] = r]
Become(c, r) == cmd' = With(c, r)
Ended(outcome) == [NoCommand EXCEPT !.stage = outcome]
GoTo(c, stage) == Become(c, [cmd[c] EXCEPT !.stage = stage])
End(c, outcome) == Become(c, Ended(outcome))
Outcome(r) == IF r.failures THEN "rollback_failed" ELSE "failed"

-----------------------------------------------------------------------------
(* Up to the activation. *)

\* updateProduct, rollbackProduct and repairProduct need the metadata of an
\* installation; update and rollback read current.json to come back to it.
Begin(c) ==
  /\ ~InFlight(c) /\ begun < MaxCommands
  /\ begun' = begun + 1
  /\ \E kind \in {"setup", "update", "rollback", "repair"}, v \in Versions, u \in Units :
       /\ kind # "setup" => registered
       /\ Become(c, [NoCommand EXCEPT
            !.kind = kind,
            !.want = u,
            !.target = IF kind \in {"setup", "update"} THEN v ELSE NoVersion,
            !.back = IF kind \in {"update", "rollback"} THEN current ELSE NoActivation,
            !.stage = CASE kind = "rollback" -> "resolve"
                        [] kind = "repair" -> "clean"
                        [] OTHER -> "install"])
  /\ UNCHANGED <<installed, staging, registered>> /\ UNCHANGED host

\* Manifest, preflight, download, verification or the write of current.json
\* fails: nothing on the host has changed, and the staging directory is removed.
Refuse(c) ==
  /\ cmd[c].stage \in {"install", "staged", "resolve", "activate", "clean", "cleaned"}
  /\ End(c, "failed")
  /\ staging' = [staging EXCEPT ![c] = "none"]
  /\ UNCHANGED <<installed, registered, begun>> /\ UNCHANGED host

\* installStandaloneRelease: a version already there is verified, another one
\* is downloaded into staging and verified there.
Install(c) ==
  /\ At(c, "install")
  /\ \/ /\ installed[cmd[c].target] = "good"
        /\ GoTo(c, "resolve") /\ UNCHANGED staging
     \/ /\ installed[cmd[c].target] \in {"absent", "empty"}
        /\ GoTo(c, "staged") /\ staging' = [staging EXCEPT ![c] = "full"]
  /\ UNCHANGED <<installed, registered, begun>> /\ UNCHANGED host

\* The rename into versions/, of what a repair may have emptied.  It replaces
\* an empty directory; losing the race to another command is fine, and what
\* that command left is not verified again.
Publish(c) ==
  LET v == cmd[c].target IN
  /\ At(c, "staged") /\ staging[c] # "none"
  /\ \/ installed[v] \in {"good", "bad"} /\ UNCHANGED installed
     \/ /\ installed[v] \in {"absent", "empty"}
        /\ \E left \in IF staging[c] = "full" THEN {"good"} ELSE {"bad", "empty"} :
             installed' = [installed EXCEPT ![v] = left]
  /\ staging' = [staging EXCEPT ![c] = "none"]
  /\ GoTo(c, "resolve")
  /\ UNCHANGED <<registered, begun>> /\ UNCHANGED host

\* After the activation setup still has its own files to write.
AfterActivation(r) == IF r.kind = "setup" THEN "prepare" ELSE "plan"

Resolve(c) ==
  LET r == cmd[c]
      record == IF r.kind = "rollback" THEN RolledBack(current)
                ELSE Activated(current, r.target) IN
  /\ At(c, "resolve")
  /\ r.kind = "rollback" => CanRollBack(current)
  /\ Become(c, [r EXCEPT
       !.record = record,
       !.stage = IF record = current THEN AfterActivation(r) ELSE "activate"])
  /\ UNCHANGED <<installed, staging, registered, begun>> /\ UNCHANGED host

Activate(c) ==
  /\ At(c, "activate")
  /\ current' = cmd[c].record
  /\ GoTo(c, AfterActivation(cmd[c]))
  /\ UNCHANGED <<installed, staging, registered, unit, loaded, owner, service, begun>>

\* prepareProductSetup after the installation.  When it fails the new
\* activation stays.
Prepare(c) ==
  /\ At(c, "prepare")
  /\ \/ registered' = TRUE /\ GoTo(c, "plan")
     \/ UNCHANGED registered /\ End(c, "failed")
  /\ UNCHANGED <<installed, staging, begun>> /\ UNCHANGED host

\* repairProduct empties .staging, also under a download in flight: first the
\* files of the directories it listed go, then the directories.
CleanFiles(c) ==
  /\ At(c, "clean")
  /\ staging' = [d \in Commands |-> IF staging[d] = "full" THEN "hollow" ELSE staging[d]]
  /\ GoTo(c, "cleaned")
  /\ UNCHANGED <<installed, registered, begun>> /\ UNCHANGED host

CleanDirectories(c) ==
  /\ At(c, "cleaned")
  /\ staging' = [d \in Commands |-> IF staging[d] = "hollow" THEN "none" ELSE staging[d]]
  /\ GoTo(c, "plan")
  /\ UNCHANGED <<installed, registered, begun>> /\ UNCHANGED host

-----------------------------------------------------------------------------
(* configureSystemService.  A failure undoes the owner, then the unit, and *)
(* restores the activation after both; activateSystemService restores the  *)
(* activation first.                                                       *)

\* The step that comes after one in the recovery, "end" after the last.
AfterUndo(r) ==
  IF r.during = "activate" THEN "recover"
  ELSE IF r.kind = "repair" THEN "end" ELSE "restore"
AfterRestore(r) == IF r.during = "activate" THEN "undo_owner" ELSE "end"

\* Puts the command into r, at the next stage of its recovery.
Continue(c, r, next) ==
  IF next = "end" THEN End(c, Outcome(r)) ELSE Become(c, [r EXCEPT !.stage = next])

\* previousIdentity is what systemd has loaded; without a loaded unit the
\* owner found is the one to go back to.
OwnerToRestore == IF loaded = NoUnit THEN owner ELSE loaded.account

Plan(c) ==
  LET r == cmd[c] IN
  /\ At(c, "plan")
  /\ Become(c, [r EXCEPT
       !.plan = [unit |-> unit, owner |-> OwnerToRestore, running |-> service # Stopped],
       !.oldPid = service # Stopped,
       !.stage = IF unit = r.want THEN "identity" ELSE "write"])
  /\ UNCHANGED <<installed, staging, registered, begun>> /\ UNCHANGED host

WriteUnit(c) ==
  /\ At(c, "write")
  /\ unit' = cmd[c].want
  /\ Become(c, [cmd[c] EXCEPT !.unitMutated = TRUE, !.stage = "reload"])
  /\ UNCHANGED <<installed, staging, current, registered, loaded, owner, service, begun>>

Reload(c) ==
  /\ At(c, "reload")
  /\ loaded' = unit
  /\ GoTo(c, "identity")
  /\ UNCHANGED <<installed, staging, current, registered, unit, owner, service, begun>>

CheckIdentity(c) ==
  /\ At(c, "identity")
  /\ loaded.account = cmd[c].want.account
  /\ GoTo(c, "chown")
  /\ UNCHANGED <<installed, staging, registered, begun>> /\ UNCHANGED host

\* The end of configureSystemService, and of repair, which leaves the restart
\* to the owner.
Configured(r) == IF r.kind = "repair" THEN "ok" ELSE "restart"

XChown(c) ==
  LET r == cmd[c] IN
  /\ At(c, "chown")
  /\ owner' = IF r.unitMutated THEN r.want.account ELSE owner
  /\ IF Configured(r) = "ok" THEN End(c, "ok")
     ELSE Become(c, [r EXCEPT !.stateMutated = TRUE, !.stage = "restart"])
  /\ UNCHANGED <<installed, staging, current, registered, unit, loaded, service, begun>>

Chown(c) ==
  LET r == cmd[c] IN
  /\ At(c, "chown")
  /\ owner' = r.want.account
  /\ IF Configured(r) = "ok" THEN End(c, "ok")
     ELSE Become(c, [r EXCEPT !.stateMutated = TRUE, !.stage = "restart"])
  /\ UNCHANGED <<installed, staging, current, registered, unit, loaded, service, begun>>

ChownFails(c) ==
  /\ At(c, "chown")
  /\ owner' \in {owner, "mixed"}
  /\ Become(c, [cmd[c] EXCEPT !.stateMutated = TRUE, !.stage = "undo_owner"])
  /\ UNCHANGED <<installed, staging, current, registered, unit, loaded, service, begun>>

\* The preflight refuses, a command fails, or the unit is overridden.
ConfigureFails(c) ==
  /\ cmd[c].stage \in {"plan", "write", "reload", "identity"}
  /\ GoTo(c, "undo_owner")
  /\ UNCHANGED <<installed, staging, registered, begun>> /\ UNCHANGED host

UndoOwner(c) ==
  LET r == cmd[c] IN
  /\ At(c, "undo_owner")
  /\ \/ /\ owner' = IF r.stateMutated THEN r.plan.owner ELSE owner
        /\ Continue(c, r, "undo_unit")
     \/ /\ r.stateMutated
        /\ owner' \in {owner, "mixed"}
        /\ Continue(c, [r EXCEPT !.failures = TRUE], "undo_unit")
  /\ UNCHANGED <<installed, staging, current, registered, unit, loaded, service, begun>>

\* restoreUnit writes the file and reloads; it may fail before or between.
UndoUnit(c) ==
  LET r == cmd[c] IN
  /\ At(c, "undo_unit")
  /\ \/ r.unitMutated /\ unit' = r.plan.unit /\ Continue(c, r, "undo_reload")
     \/ r.unitMutated /\ UNCHANGED unit
        /\ Continue(c, [r EXCEPT !.failures = TRUE], AfterUndo(r))
     \/ ~r.unitMutated /\ UNCHANGED unit /\ Continue(c, r, AfterUndo(r))
  /\ UNCHANGED <<installed, staging, current, registered, loaded, owner, service, begun>>

UndoReload(c) ==
  LET r == cmd[c] IN
  /\ At(c, "undo_reload")
  /\ \/ loaded' = unit /\ Continue(c, r, AfterUndo(r))
     \/ UNCHANGED loaded /\ Continue(c, [r EXCEPT !.failures = TRUE], AfterUndo(r))
  /\ UNCHANGED <<installed, staging, current, registered, unit, owner, service, begun>>

\* Setup, which has no activation to come back to, rolls back one release.
Restore(c) ==
  LET r == cmd[c] IN
  /\ At(c, "restore")
  /\ \/ /\ CanRestore(r)
        /\ current' = Restored(r)
        /\ Continue(c, r, AfterRestore(r))
     \/ /\ r.back # NoActivation \/ r.record.previous # NoVersion
        /\ UNCHANGED current
        /\ Continue(c, [r EXCEPT !.failures = TRUE], AfterRestore(r))
  /\ UNCHANGED <<installed, staging, registered, unit, loaded, owner, service, begun>>

-----------------------------------------------------------------------------
(* activateSystemService after the configuration. *)

Failing(c) == [cmd[c] EXCEPT !.stage = "restore", !.during = "activate"]

Restart(c) ==
  /\ At(c, "restart")
  /\ \E p \in Launched(current, loaded) :
       NewProcess(With(c, [cmd[c] EXCEPT !.stage = "process"]), p)
  /\ UNCHANGED <<installed, staging, current, registered, unit, loaded, owner, begun>>

\* systemctl fails, before the old process was stopped or after.
RestartFails(c) ==
  /\ At(c, "restart")
  /\ \/ UNCHANGED service /\ Become(c, Failing(c))
     \/ NewProcess(With(c, Failing(c)), Stopped)
  /\ UNCHANGED <<installed, staging, current, registered, unit, loaded, owner, begun>>

\* waitForProcessIdentity
ObserveProcess(c) ==
  LET r == cmd[c] IN
  /\ At(c, "process")
  /\ service # Stopped /\ (r.plan.running => ~r.oldPid)
  /\ service.account = r.want.account
  /\ GoTo(c, "attest")
  /\ UNCHANGED <<installed, staging, registered, begun>> /\ UNCHANGED host

\* waitForHealth and waitForRunningRelease: without a buildCommit being
\* healthy is enough.
Attest(c) ==
  LET r == cmd[c] IN
  /\ At(c, "attest")
  /\ service # Stopped
  /\ r.record.version \in Stamped => service.version = r.record.version
  /\ End(c, "ok")
  /\ UNCHANGED <<installed, staging, registered, begun>> /\ UNCHANGED host

\* The wrong identity, or twenty attempts without an acceptable answer.
VerifyFails(c) ==
  /\ cmd[c].stage \in {"process", "attest"}
  /\ Become(c, Failing(c))
  /\ UNCHANGED <<installed, staging, registered, begun>> /\ UNCHANGED host

\* The restart of what was restored, if it was running and all of it was.
Recover(c) ==
  LET r == cmd[c] IN
  /\ At(c, "recover")
  /\ IF r.plan.running /\ ~r.failures
     THEN \/ \E p \in Launched(current, loaded) : NewProcess(With(c, Ended("failed")), p)
          \/ NewProcess(With(c, Ended("rollback_failed")), Stopped)
          \/ UNCHANGED service /\ End(c, "rollback_failed")
     ELSE UNCHANGED service /\ End(c, Outcome(r))
  /\ UNCHANGED <<installed, staging, current, registered, unit, loaded, owner, begun>>

-----------------------------------------------------------------------------
(* The rest of the host. *)

\* A leftover staging directory is never used again.
Kill(c) ==
  /\ InFlight(c)
  /\ End(c, "killed")
  /\ staging' = [staging EXCEPT ![c] = "none"]
  /\ UNCHANGED <<installed, registered, begun>> /\ UNCHANGED host

ServiceDies ==
  /\ service # Stopped
  /\ NewProcess(cmd, Stopped)
  /\ UNCHANGED <<installed, staging, current, registered, unit, loaded, owner, begun>>

\* Restart=on-failure, a boot, or the owner's systemctl start.
ServiceStarts ==
  /\ service = Stopped
  /\ \E p \in Launched(current, loaded) \ {Stopped} : NewProcess(cmd, p)
  /\ UNCHANGED <<installed, staging, current, registered, unit, loaded, owner, begun>>

\* The bytes of an installed version are altered or lost.
Tamper ==
  /\ \E v \in Versions : installed[v] = "good" /\ installed' = [installed EXCEPT ![v] = "bad"]
  /\ UNCHANGED <<staging, registered, cmd, begun>> /\ UNCHANGED host

\* A host without the product, or an installation at rest.
Fresh ==
  /\ installed = [v \in Versions |-> "absent"]
  /\ current = NoActivation /\ registered = FALSE
  /\ unit = NoUnit /\ loaded = NoUnit /\ owner = "root" /\ service = Stopped

AtRest ==
  \E a \in Products, u \in Units :
    /\ installed = [v \in Versions |->
         IF v \in {a.version, a.previous} THEN "good" ELSE "absent"]
    /\ current = a /\ registered = TRUE
    /\ unit = u /\ loaded = u /\ owner = u.account
    /\ service = [version |-> a.version, account |-> u.account]

Init ==
  /\ Fresh \/ AtRest
  /\ staging = [c \in Commands |-> "none"]
  /\ cmd = [c \in Commands |-> NoCommand] /\ begun = 0
  /\ found = [c \in Commands |-> Unknown]

Step(c) ==
  \/ Begin(c) \/ Refuse(c) \/ Install(c) \/ Publish(c) \/ Resolve(c) \/ Activate(c)
  \/ Prepare(c) \/ CleanFiles(c) \/ CleanDirectories(c)
  \/ Plan(c) \/ WriteUnit(c) \/ Reload(c) \/ CheckIdentity(c) \/ Chown(c)
  \/ ChownFails(c) \/ ConfigureFails(c) \/ UndoOwner(c) \/ UndoUnit(c) \/ UndoReload(c)
  \/ Restore(c) \/ Restart(c) \/ RestartFails(c) \/ ObserveProcess(c) \/ Attest(c)
  \/ VerifyFails(c) \/ Recover(c) \/ Kill(c)

Witnessed(c) ==
  found' = [d \in Commands |->
    IF cmd'[d].stage \in Settled \/ (d # c /\ Host' # Host) THEN Unknown
    ELSE IF InFlight(d) THEN found[d] ELSE Host]

Next ==
  \/ \E c \in Commands : Step(c) /\ Witnessed(c)
  \/ (ServiceDies \/ ServiceStarts \/ Tamper) /\ Witnessed("nobody")

Spec == Init /\ [][Next]_vars

-----------------------------------------------------------------------------
(* Properties. *)

Accounts == {u.account : u \in Units} \cup {"root"}
AnyVersion == Versions \cup {NoVersion}
AnyUnit == Units \cup {NoUnit}
Activations == [version : AnyVersion, previous : AnyVersion]
Processes == [version : AnyVersion, account : Accounts]
Owners == Accounts \cup {"mixed"}
Hosts == [current : Activations, unit : AnyUnit, loaded : AnyUnit, owner : Owners,
          service : Processes]
Stages == {"idle", "install", "staged", "resolve", "activate", "prepare", "clean", "cleaned",
           "plan", "write", "reload", "identity", "chown", "restart", "process", "attest",
           "undo_owner", "undo_unit", "undo_reload", "restore", "recover"} \cup Outcomes
CommandStates ==
  [kind : {"none", "setup", "update", "rollback", "repair"}, stage : Stages,
   target : AnyVersion, want : AnyUnit, back : Activations, record : Activations,
   plan : [unit : AnyUnit, owner : Owners, running : BOOLEAN],
   unitMutated : BOOLEAN, stateMutated : BOOLEAN, oldPid : BOOLEAN,
   during : {"configure", "activate"}, failures : BOOLEAN]

\* The types, and what the launcher relies on: the versions current.json names
\* are two different ones, and both have a version directory.
TypeOK ==
  /\ installed \in [Versions -> {"absent", "good", "empty", "bad"}]
  /\ staging \in [Commands -> {"none", "full", "hollow"}]
  /\ current \in Activations /\ registered \in BOOLEAN
  /\ unit \in AnyUnit /\ loaded \in AnyUnit /\ owner \in Owners /\ service \in Processes
  /\ cmd \in [Commands -> CommandStates] /\ begun \in 0..MaxCommands
  /\ found \in [Commands -> Hosts \cup {Unknown}]
  /\ \A v \in {current.version, current.previous} \ {NoVersion} : installed[v] # "absent"
  /\ current.version = current.previous => current = NoActivation

\* An update or a rollback that ends as failed, with nobody else changing the
\* host meanwhile, leaves the activation and the unit it found and the state
\* directory to the account it found; and if the service ran when it planned,
\* no process of the release it tried is left.  (service-setup.ts restores in
\* two orders, over five commands that can each fail.)
Restores(c) ==
  LET r == cmd[c]
      f == found[c] IN
  (/\ r.kind \in {"update", "rollback"}
   /\ InFlight(c) /\ cmd'[c].stage = "failed" /\ f # Unknown)
  =>
  /\ current' = f.current
  /\ unit' = f.unit /\ loaded' \in {f.loaded, f.unit}
  /\ owner' \in {f.owner, f.loaded.account}
  /\ f.service # Stopped =>
       service' \in {f.service, Stopped,
                     [version |-> f.current.version, account |-> loaded'.account]}

FailureRestores == [][\A c \in Commands : Restores(c)]_vars

\* Whatever earlier commands left behind when they were killed, failed to roll
\* back or raced, a setup, update or rollback that ends well and undisturbed
\* leaves the activation, the unit, the loaded account, the owner of the state
\* and the running process in agreement; a repair all but the process.
Agrees(c) ==
  LET r == cmd[c] IN
  (InFlight(c) /\ cmd'[c].stage = "ok" /\ found[c] # Unknown)
  =>
  /\ unit' = r.want
  /\ loaded'.account = r.want.account /\ owner' = r.want.account
  /\ r.kind # "repair" =>
       /\ current' = r.record
       /\ service' = [version |-> r.record.version, account |-> r.want.account]

SuccessAgrees == [][\A c \in Commands : Agrees(c)]_vars
=============================================================================
