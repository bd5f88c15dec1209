---------------------------- MODULE ReleasesProofs ----------------------------
(***************************************************************************)
(* Proofs about Releases for any versions, units and number of concurrent  *)
(* commands: the type invariant, and that the outcome of a command nobody  *)
(* disturbed can be believed, whether it is "ok" or "failed".              *)
(*                                                                         *)
(* The invariant says at each stage of such a command how the host differs *)
(* from the one it found: what it has written, what it will undo, and that *)
(* everything else is as it was.                                           *)
(***************************************************************************)
EXTENDS Releases, TLAPS

Installed(v) == v # NoVersion => installed[v] # "absent"

\* An activation the launcher can follow, as far as version directories go.
Usable(a) ==
  /\ Installed(a.version) /\ Installed(a.previous)
  /\ a.version = a.previous => a = NoActivation

Fetching == {"install", "staged"}
Cleaning == {"clean", "cleaned"}
Early == {"install", "staged", "resolve", "activate", "clean", "cleaned"}
Forward == {"plan", "write", "reload", "identity", "chown", "restart", "process", "attest"}

\* Once there is metadata there is an activation.
Known == registered \in BOOLEAN /\ (registered => current # NoActivation)

Returns(r) == r.kind \in {"update", "rollback"}

\* What a command remembers can be activated.
Sound(r) ==
  /\ Usable(r.record) /\ Usable(r.back)
  /\ r.stage \in Fetching => r.target \in Versions /\ r.kind \in {"setup", "update"}
  /\ r.stage = "resolve" => \/ r.kind = "rollback"
                            \/ r.target \in Versions /\ Installed(r.target)
  /\ r.stage \in Cleaning => r.kind = "repair"
  /\ r.stage = "activate" => r.record # NoActivation
  /\ r.stage = "prepare" => current # NoActivation
  /\ Returns(r) => r.back # NoActivation

\* The way to success.
Advancing(r, h) ==
  /\ r.stage \in Forward \cup {"prepare"} /\ r.kind # "repair" => h.current = r.record
  /\ r.stage \in {"reload", "identity", "chown", "restart", "process", "attest"} => h.unit = r.want
  /\ r.stage \in {"chown", "restart", "process", "attest"} => h.loaded.account = r.want.account
  /\ r.stage \in {"restart", "process", "attest"} =>
       h.owner = r.want.account /\ r.kind # "repair"
  /\ r.stage \in {"process", "attest"} =>
       h.service \in {Stopped, [version |-> r.record.version, account |-> r.want.account]}

\* What the command has not touched, and what it will go back to.
Untouched(r, h, f) ==
  /\ r.stage \in Early => h = f
  /\ Returns(r) => r.back = f.current
  /\ r.stage = "prepare" => r.kind = "setup"
  /\ r.stage \in Early \cup Forward \cup {"prepare"} => r.during = "configure"
  /\ \/ r.stage \in Forward \ {"plan"} \/ r.during = "activate"
     \/ r.unitMutated \/ r.stateMutated
     => /\ r.plan.unit = f.unit /\ r.plan.owner \in {f.owner, f.loaded.account}
        /\ r.plan.running <=> f.service # Stopped
  /\ ~r.unitMutated => h.unit = f.unit /\ h.loaded = f.loaded
  /\ ~r.stateMutated => h.owner = f.owner
  /\ r.stage \in Early \cup {"plan", "prepare", "write"} => ~r.unitMutated
  /\ r.stage \in {"reload", "undo_reload"} => r.unitMutated
  /\ r.stage \in Early \cup {"plan", "prepare", "write", "reload", "identity", "chown"} =>
       ~r.stateMutated
  /\ r.stage \in Early \cup {"plan", "prepare"} => ~r.failures
  /\ r.during = "configure" /\ r.stage \notin {"process", "attest"} => h.service = f.service

OwnerBack(r) ==
  r.stage \in {"undo_unit", "undo_reload", "recover"} \/ (r.stage = "restore" /\ r.during = "configure")
UnitBack(r) ==
  r.stage = "recover" \/ (r.stage = "restore" /\ r.during = "configure")
ActivationBack(r) ==
  r.during = "activate" /\ r.stage \in {"undo_owner", "undo_unit", "undo_reload", "recover"}

\* The way back, as long as nothing failed on it.
Receding(r, h, f) ==
  /\ r.stage = "recover" => r.during = "activate"
  /\ ~r.failures =>
       /\ OwnerBack(r) => h.owner \in {f.owner, f.loaded.account}
       /\ r.stage = "undo_reload" => h.unit = f.unit
       /\ UnitBack(r) => h.unit = f.unit /\ h.loaded \in {f.loaded, f.unit}
       /\ ActivationBack(r) /\ Returns(r) => h.current = f.current

Undisturbed(r, h, f) == Advancing(r, h) /\ Untouched(r, h, f) /\ Receding(r, h, f)

Accounted(c) ==
  InFlight(c) /\ found[c] # Unknown => Undisturbed(cmd[c], Host, found[c])

IInv ==
  /\ TypeOK /\ Known
  /\ \A c \in Commands : Sound(cmd[c]) /\ Accounted(c)

-----------------------------------------------------------------------------
(* Records and the frame.  *)

\* The host as a record has the variables as its fields, now and next.
LEMMA HostFields ==
  /\ Host.current = current /\ Host.unit = unit /\ Host.loaded = loaded
  /\ Host.owner = owner /\ Host.service = service
  /\ Host'.current = current' /\ Host'.unit = unit' /\ Host'.loaded = loaded'
  /\ Host'.owner = owner' /\ Host'.service = service'
  /\ UNCHANGED host <=> Host' = Host
  BY DEF Host, host

\* A command that only moves to another stage keeps everything else.
LEMMA StageOnly ==
  ASSUME NEW r \in CommandStates, NEW s \in Stages
  PROVE  /\ [r EXCEPT !.stage = s] \in CommandStates
         /\ [r EXCEPT !.stage = s].kind = r.kind
         /\ [r EXCEPT !.stage = s].stage = s
         /\ [r EXCEPT !.stage = s].target = r.target
         /\ [r EXCEPT !.stage = s].want = r.want
         /\ [r EXCEPT !.stage = s].back = r.back
         /\ [r EXCEPT !.stage = s].record = r.record
         /\ [r EXCEPT !.stage = s].plan = r.plan
         /\ [r EXCEPT !.stage = s].unitMutated = r.unitMutated
         /\ [r EXCEPT !.stage = s].stateMutated = r.stateMutated
         /\ [r EXCEPT !.stage = s].during = r.during
         /\ [r EXCEPT !.stage = s].failures = r.failures
  BY DEF CommandStates

\* An ended command remembers nothing.
LEMMA EndedState ==
  ASSUME NEW outcome \in Outcomes
  PROVE  /\ Ended(outcome) \in CommandStates /\ Ended(outcome).stage = outcome
         /\ Ended(outcome).kind = "none" /\ Ended(outcome).record = NoActivation /\ Ended(outcome).back = NoActivation
  BY DEF Ended, Outcomes, CommandStates, NoCommand, NoActivation, NoVersion, NoPlan, NoUnit,
         Stages, AnyVersion, AnyUnit, Activations, Owners, Accounts

\* The command that acts takes the state y; the others at most lose sight of
\* the process they had seen.
Moves(c, y) ==
  /\ cmd' \in [Commands -> CommandStates] /\ cmd'[c] = y
  /\ \A d \in Commands \ {c} : cmd'[d] \in {cmd[d], [cmd[d] EXCEPT !.oldPid = FALSE]}

LEMMA BecomeMoves ==
  ASSUME cmd \in [Commands -> CommandStates], NEW c \in Commands, NEW y \in CommandStates,
         Become(c, y)
  PROVE  Moves(c, y)
  BY DEF Become, With, Moves

\* Forgetting the process seen changes no other field.
LEMMA Unseen ==
  ASSUME NEW r \in CommandStates
  PROVE  /\ [r EXCEPT !.oldPid = FALSE] \in CommandStates
         /\ [r EXCEPT !.oldPid = FALSE].kind = r.kind
         /\ [r EXCEPT !.oldPid = FALSE].stage = r.stage
         /\ [r EXCEPT !.oldPid = FALSE].target = r.target
         /\ [r EXCEPT !.oldPid = FALSE].want = r.want
         /\ [r EXCEPT !.oldPid = FALSE].back = r.back
         /\ [r EXCEPT !.oldPid = FALSE].record = r.record
         /\ [r EXCEPT !.oldPid = FALSE].plan = r.plan
         /\ [r EXCEPT !.oldPid = FALSE].unitMutated = r.unitMutated
         /\ [r EXCEPT !.oldPid = FALSE].stateMutated = r.stateMutated
         /\ [r EXCEPT !.oldPid = FALSE].during = r.during
         /\ [r EXCEPT !.oldPid = FALSE].failures = r.failures
  BY DEF CommandStates

LEMMA ProcessMoves ==
  ASSUME cmd \in [Commands -> CommandStates], NEW c \in Commands, NEW y \in CommandStates,
         NEW p, NewProcess(With(c, y), p)
  PROVE  Moves(c, [y EXCEPT !.oldPid = FALSE])
<1>1. With(c, y) \in [Commands -> CommandStates]
  BY DEF With
<1>2. \A d \in Commands : [With(c, y)[d] EXCEPT !.oldPid = FALSE] \in CommandStates
  BY <1>1, Unseen
<1>3. cmd' \in [Commands -> CommandStates]
  BY <1>2 DEF NewProcess
<1>4. cmd'[c] = [y EXCEPT !.oldPid = FALSE]
  BY DEF NewProcess, With
<1>5. \A d \in Commands \ {c} : cmd'[d] = [cmd[d] EXCEPT !.oldPid = FALSE]
  BY DEF NewProcess, With
<1> QED BY <1>3, <1>4, <1>5 DEF Moves

\* Neither version directories nor the activation are ever taken away again.
Growing ==
  /\ \A v \in Versions : installed[v] # "absent" => installed'[v] # "absent"
  /\ current # NoActivation => current' # NoActivation

LEMMA UsableGrows ==
  ASSUME Growing, NEW a \in Activations, Usable(a)
  PROVE  Usable(a)'
  BY DEF Growing, Usable, Installed, Activations, AnyVersion

LEMMA SoundGrows ==
  ASSUME Growing, NEW r \in CommandStates, Sound(r)
  PROVE  Sound(r)'
<1>1. r.record \in Activations /\ r.back \in Activations
  BY DEF CommandStates
<1>2. Usable(r.record)' /\ Usable(r.back)'
  BY <1>1, UsableGrows DEF Sound
<1>3. r.target \in Versions /\ Installed(r.target) => Installed(r.target)'
  BY DEF Installed, Growing
<1> QED BY <1>2, <1>3 DEF Sound, Growing

\* What is sound and accounted for does not depend on the process seen.
LEMMA SameButUnseen ==
  ASSUME NEW r \in CommandStates, NEW h, NEW f
  PROVE  /\ Sound(r) => Sound([r EXCEPT !.oldPid = FALSE])
         /\ Undisturbed(r, h, f) => Undisturbed([r EXCEPT !.oldPid = FALSE], h, f)
<1> DEFINE q == [r EXCEPT !.oldPid = FALSE]
<1>1. /\ q.kind = r.kind /\ q.stage = r.stage /\ q.target = r.target /\ q.want = r.want
      /\ q.back = r.back /\ q.record = r.record /\ q.plan = r.plan
      /\ q.unitMutated = r.unitMutated /\ q.stateMutated = r.stateMutated
      /\ q.during = r.during /\ q.failures = r.failures
  BY Unseen
<1> HIDE DEF q
<1>2. Sound(r) => Sound(q)
  BY <1>1 DEF Sound, Returns
<1>3. Advancing(r, h) => Advancing(q, h)
  BY <1>1 DEF Advancing
<1>4. Untouched(r, h, f) => Untouched(q, h, f)
  BY <1>1 DEF Untouched, Returns
<1>5. Receding(r, h, f) => Receding(q, h, f)
  BY <1>1 DEF Receding, Returns, OwnerBack, UnitBack, ActivationBack
<1> QED BY <1>2, <1>3, <1>4, <1>5 DEF Undisturbed, q

HostTypes ==
  /\ current \in Activations /\ unit \in AnyUnit /\ loaded \in AnyUnit
  /\ owner \in Owners /\ service \in Processes

\* What is left to show of a step of c that gives it the state y.
LEMMA StepOf ==
  ASSUME IInv, NEW c \in Commands, NEW y \in CommandStates, Moves(c, y), Witnessed(c), Growing,
         installed' \in [Versions -> {"absent", "good", "empty", "bad"}],
         staging' \in [Commands -> {"none", "full", "hollow"}],
         Known', begun' \in 0..MaxCommands, HostTypes', Usable(current)',
         Sound(y)',
         y.stage \notin Settled /\ found'[c] # Unknown => Undisturbed(y, Host', found'[c])
  PROVE  IInv'
<1>1. Host \in Hosts
  BY DEF IInv, TypeOK, Host, Hosts
<1>2. found' \in [Commands -> Hosts \cup {Unknown}]
  BY <1>1 DEF IInv, TypeOK, Witnessed
<1>3. TypeOK'
  <2>1. cmd' \in [Commands -> CommandStates]
    BY DEF Moves
  <2>2. \A v \in {current'.version, current'.previous} \ {NoVersion} : installed'[v] # "absent"
    BY DEF Usable, Installed
  <2>3. current'.version = current'.previous => current' = NoActivation
    BY DEF Usable
  <2> QED BY <1>2, <2>1, <2>2, <2>3 DEF TypeOK, HostTypes, Known
<1>4. ASSUME NEW d \in Commands PROVE Sound(cmd[d])' /\ Accounted(d)'
  <2>1. CASE d = c
    BY <2>1 DEF Moves, Accounted, InFlight
  <2>2. CASE d # c
    <3>1. PICK r \in CommandStates : r = cmd[d]
      BY DEF IInv, TypeOK
    <3> DEFINE q == [r EXCEPT !.oldPid = FALSE]
    <3>2. Sound(r) /\ Accounted(d)
      BY <3>1 DEF IInv
    <3>3. cmd'[d] = r \/ cmd'[d] = q
      BY <2>2, <3>1 DEF Moves
    <3>4. q \in CommandStates /\ q.stage = r.stage
      BY Unseen
    <3>5. Sound(q)
      BY <3>2, SameButUnseen
    <3>6. Sound(r)' /\ Sound(q)'
      BY <3>2, <3>4, <3>5, SoundGrows
    <3>7. cmd'[d].stage = r.stage
      BY <3>3, <3>4
    <3>8. InFlight(d)' /\ found'[d] # Unknown
          => InFlight(d) /\ found[d] # Unknown /\ found'[d] = found[d] /\ Host' = Host
      BY <2>2, <3>1, <3>7 DEF Witnessed, InFlight
    <3>9. InFlight(d)' /\ found'[d] # Unknown => Undisturbed(r, Host', found'[d])
      BY <3>1, <3>2, <3>8 DEF Accounted
    <3>10. InFlight(d)' /\ found'[d] # Unknown => Undisturbed(q, Host', found'[d])
      BY <3>9, SameButUnseen
    <3> HIDE DEF q
    <3>11. Accounted(d)'
      BY <3>3, <3>9, <3>10 DEF Accounted
    <3> QED BY <3>3, <3>6, <3>11
  <2> QED BY <2>1, <2>2
<1> QED BY <1>3, <1>4 DEF IInv

\* The same for a command in flight: f is what it found, if it still knows.
LEMMA StepFrom ==
  ASSUME IInv, NEW c \in Commands, NEW r \in CommandStates, r = cmd[c], r.stage \notin Settled,
         NEW y \in CommandStates, Moves(c, y), Witnessed(c), Growing,
         installed' \in [Versions -> {"absent", "good", "empty", "bad"}],
         staging' \in [Commands -> {"none", "full", "hollow"}],
         Known', begun' = begun, HostTypes', Usable(current)', Sound(y)',
         y.stage \in Settled \/ \A f \in Hosts : Undisturbed(r, Host, f) => Undisturbed(y, Host', f)
  PROVE  IInv'
<1>1. begun' \in 0..MaxCommands
  BY DEF IInv, TypeOK
<1>2. ASSUME y.stage \notin Settled, found'[c] # Unknown PROVE Undisturbed(y, Host', found'[c])
  <2>1. found'[c] = found[c] /\ InFlight(c)
    BY <1>2 DEF Witnessed, InFlight, Moves
  <2>2. found[c] \in Hosts
    BY <1>2, <2>1 DEF IInv, TypeOK
  <2>3. Undisturbed(r, Host, found[c])
    BY <1>2, <2>1 DEF IInv, Accounted
  <2> QED BY <1>2, <2>1, <2>2, <2>3
<1> QED BY <1>1, <1>2, StepOf

LEMMA NothingUsable == Usable(NoActivation)
  BY DEF Usable, Installed, NoActivation

\* A command that ends has nothing left to account for.
LEMMA EndStep ==
  ASSUME IInv, NEW c \in Commands, InFlight(c), NEW outcome \in Outcomes, Witnessed(c), Growing,
         \/ End(c, outcome)
         \/ \E p \in Processes : NewProcess(With(c, Ended(outcome)), p),
         installed' \in [Versions -> {"absent", "good", "empty", "bad"}],
         staging' \in [Commands -> {"none", "full", "hollow"}],
         Known', begun' = begun, HostTypes', Usable(current)'
  PROVE  IInv'
<1>1. cmd \in [Commands -> CommandStates]
  BY DEF IInv, TypeOK
<1>2. PICK r \in CommandStates : r = cmd[c]
  BY <1>1
<1>3. r.stage \notin Settled
  BY <1>2 DEF InFlight
<1> DEFINE e == Ended(outcome)
           q == [e EXCEPT !.oldPid = FALSE]
<1>4. e \in CommandStates /\ e.stage \in Settled /\ Sound(e)
  BY EndedState, NothingUsable DEF Sound, Returns, Fetching, Cleaning, Outcomes, Settled
<1>5. q \in CommandStates /\ q.stage \in Settled /\ Sound(q)
  BY <1>4, Unseen, SameButUnseen
<1>6. Sound(e)' /\ Sound(q)'
  BY <1>4, <1>5, SoundGrows
<1>7. Moves(c, e) \/ Moves(c, q)
  BY <1>1, <1>4, BecomeMoves, ProcessMoves DEF End
<1> HIDE DEF e, q
<1> QED BY <1>2, <1>3, <1>4, <1>5, <1>6, <1>7, StepFrom

\* What holds when neither the host nor the versions change.
LEMMA Unchanged ==
  ASSUME IInv
  PROVE  /\ HostTypes /\ Usable(current)
         /\ UNCHANGED installed /\ UNCHANGED current => Growing
         /\ UNCHANGED installed /\ UNCHANGED host => Growing
         /\ UNCHANGED registered /\ Growing => Known'
         /\ UNCHANGED host => HostTypes'
         /\ UNCHANGED host /\ UNCHANGED installed => Usable(current)'
         /\ UNCHANGED current /\ Growing => Usable(current)'
<1>1. HostTypes
  BY DEF IInv, TypeOK, HostTypes
<1>2. Usable(current)
  BY DEF IInv, TypeOK, Usable, Installed
<1>3. UNCHANGED installed /\ UNCHANGED current => Growing
  BY DEF Growing
<1>9. UNCHANGED installed /\ UNCHANGED host => Growing
  BY <1>3 DEF host
<1>10. UNCHANGED registered /\ Growing => Known'
  BY DEF IInv, Known, Growing
<1>4. UNCHANGED host => HostTypes'
  BY <1>1 DEF HostTypes, host
<1>5. PICK a \in Activations : a = current
  BY <1>1 DEF HostTypes
<1>6. Growing => Usable(a)'
  BY <1>2, <1>5, UsableGrows
<1>7. UNCHANGED current /\ Growing => Usable(current)'
  BY <1>5, <1>6
<1>8. UNCHANGED host /\ UNCHANGED installed => Usable(current)'
  BY <1>3, <1>7 DEF host
<1> QED BY <1>1, <1>2, <1>3, <1>4, <1>7, <1>8, <1>9, <1>10

-----------------------------------------------------------------------------
(* One lemma per action: up to the activation. *)

LEMMA BeginStep ==
  ASSUME IInv, NEW c \in Commands, Begin(c), Witnessed(c)
  PROVE  IInv'
<1>1. PICK kind \in {"setup", "update", "rollback", "repair"}, v \in Versions, u \in Units :
        (kind # "setup" => registered) /\
        Become(c, [NoCommand EXCEPT
          !.kind = kind,
          !.want = u,
          !.target = IF kind \in {"setup", "update"} THEN v ELSE NoVersion,
          !.back = IF kind \in {"update", "rollback"} THEN current ELSE NoActivation,
          !.stage = CASE kind = "rollback" -> "resolve"
                      [] kind = "repair" -> "clean"
                      [] OTHER -> "install"])
  BY DEF Begin
<1>2. /\ UNCHANGED <<installed, staging, registered>> /\ UNCHANGED host
      /\ begun' = begun + 1 /\ begun < MaxCommands /\ ~InFlight(c)
  BY DEF Begin
<1>3. PICK a \in Activations : a = current
  BY DEF IInv, TypeOK
<1> DEFINE y == [NoCommand EXCEPT
          !.kind = kind,
          !.want = u,
          !.target = IF kind \in {"setup", "update"} THEN v ELSE NoVersion,
          !.back = IF kind \in {"update", "rollback"} THEN a ELSE NoActivation,
          !.stage = CASE kind = "rollback" -> "resolve"
                      [] kind = "repair" -> "clean"
                      [] OTHER -> "install"]
<1>4. /\ y.kind = kind /\ y.want = u /\ y.record = NoActivation
      /\ y.target = IF kind \in {"setup", "update"} THEN v ELSE NoVersion
      /\ y.back = IF kind \in {"update", "rollback"} THEN a ELSE NoActivation
      /\ y.unitMutated = FALSE /\ y.stateMutated = FALSE /\ y.failures = FALSE
      /\ y.during = "configure" /\ y.plan = NoPlan
      /\ kind = "rollback" => y.stage = "resolve"
      /\ kind = "repair" => y.stage = "clean"
      /\ kind \in {"setup", "update"} => y.stage = "install"
  BY DEF NoCommand
<1>5. y \in CommandStates
  BY <1>3 DEF NoCommand, CommandStates, NoActivation, NoVersion, NoPlan, NoUnit, Stages, AnyVersion,
         AnyUnit, Activations, Owners, Accounts
<1>6. Become(c, y)
  BY <1>1, <1>3
<1> HIDE DEF y
<1>7. Moves(c, y)
  BY <1>5, <1>6, BecomeMoves DEF IInv, TypeOK
<1>8. Growing /\ HostTypes' /\ Usable(current)' /\ Usable(a)
  BY <1>2, <1>3, Unchanged
<1>9. Sound(y)
  <2>1. Returns(y) => a # NoActivation
    BY <1>1, <1>3, <1>4 DEF IInv, Known, Returns
  <2> QED BY <1>4, <1>8, <2>1, NothingUsable DEF Sound, Returns, Fetching, Cleaning
<1>10. Sound(y)'
  BY <1>5, <1>8, <1>9, SoundGrows
<1>11. found'[c] # Unknown => found'[c] = Host /\ Host' = Host
  BY <1>2, <1>4, <1>7, HostFields DEF Witnessed
<1>12. Undisturbed(y, Host, Host)
  <2>1. Advancing(y, Host)
    BY <1>4 DEF Advancing, Forward
  <2>2. Untouched(y, Host, Host)
    BY <1>3, <1>4, HostFields DEF Untouched, Early, Forward, Returns
  <2>3. Receding(y, Host, Host)
    BY <1>4 DEF Receding, OwnerBack, UnitBack, ActivationBack
  <2> QED BY <2>1, <2>2, <2>3 DEF Undisturbed
<1>13. begun' \in 0..MaxCommands
  BY <1>2, ReleasesAssumption DEF IInv, TypeOK
<1>14. Known'
  BY <1>2, <1>8, Unchanged
<1> QED BY <1>2, <1>5, <1>7, <1>8, <1>10, <1>11, <1>12, <1>13, <1>14, StepOf DEF IInv, TypeOK

LEMMA RefuseStep ==
  ASSUME IInv, NEW c \in Commands, Refuse(c), Witnessed(c)
  PROVE  IInv'
<1>1. InFlight(c)
  BY DEF Refuse, InFlight, Settled, Outcomes
<1>2. staging' \in [Commands -> {"none", "full", "hollow"}]
  BY DEF Refuse, IInv, TypeOK
<1>3. Growing /\ HostTypes' /\ Usable(current)'
  BY Unchanged DEF Refuse
<1>4. /\ installed' \in [Versions -> {"absent", "good", "empty", "bad"}]
      /\ Known' /\ begun' = begun
  BY <1>3, Unchanged DEF Refuse, IInv, TypeOK
<1>5. End(c, "failed") /\ "failed" \in Outcomes
  BY DEF Refuse, Outcomes
<1> QED BY <1>1, <1>2, <1>3, <1>4, <1>5, EndStep

LEMMA KillStep ==
  ASSUME IInv, NEW c \in Commands, Kill(c), Witnessed(c)
  PROVE  IInv'
<1>1. InFlight(c)
  BY DEF Kill
<1>2. staging' \in [Commands -> {"none", "full", "hollow"}]
  BY DEF Kill, IInv, TypeOK
<1>3. Growing /\ HostTypes' /\ Usable(current)'
  BY Unchanged DEF Kill
<1>4. /\ installed' \in [Versions -> {"absent", "good", "empty", "bad"}]
      /\ Known' /\ begun' = begun
  BY <1>3, Unchanged DEF Kill, IInv, TypeOK
<1>5. End(c, "killed") /\ "killed" \in Outcomes
  BY DEF Kill, Outcomes
<1> QED BY <1>1, <1>2, <1>3, <1>4, <1>5, EndStep

\* A step to another stage in which the command keeps the rest of its state.
LEMMA StageStep ==
  ASSUME IInv, NEW c \in Commands, NEW r \in CommandStates, r = cmd[c], r.stage \notin Settled,
         NEW s \in Stages \ Settled, GoTo(c, s), Witnessed(c), Growing,
         installed' \in [Versions -> {"absent", "good", "empty", "bad"}],
         staging' \in [Commands -> {"none", "full", "hollow"}],
         Known', begun' = begun, HostTypes', Usable(current)',
         s \in Fetching => r.stage \in Fetching,
         s = "resolve" => r.target \in Versions /\ Installed(r.target)',
         s \in Cleaning => r.kind = "repair",
         s # "activate", s = "prepare" => current' # NoActivation,
         \A f \in Hosts : Undisturbed(r, Host, f) => Undisturbed([r EXCEPT !.stage = s], Host', f)
  PROVE  IInv'
<1> DEFINE y == [r EXCEPT !.stage = s]
<1>1. /\ y \in CommandStates /\ y.stage = s /\ y.target = r.target /\ y.kind = r.kind
      /\ y.record = r.record /\ y.back = r.back
  BY StageOnly
<1>2. Moves(c, y)
  BY <1>1, BecomeMoves DEF GoTo, IInv, TypeOK
<1>3. Sound(r)'
  BY SoundGrows DEF IInv
<1>4. \A f \in Hosts : Undisturbed(r, Host, f) => Undisturbed(y, Host', f)
  OBVIOUS
<1> HIDE DEF y
<1>5. Sound(y)'
  BY <1>1, <1>3 DEF Sound, Returns
<1> QED BY <1>1, <1>2, <1>4, <1>5, StepFrom

LEMMA InstallStep ==
  ASSUME IInv, NEW c \in Commands, Install(c), Witnessed(c)
  PROVE  IInv'
<1>1. PICK r \in CommandStates : r = cmd[c]
  BY DEF IInv, TypeOK
<1>2. /\ r.stage = "install" /\ r.stage \notin Settled
      /\ UNCHANGED <<installed, registered, begun>> /\ UNCHANGED host
  BY <1>1 DEF Install, At, Settled, Outcomes
<1>3. r.target \in Versions /\ r.kind \in {"setup", "update"}
  BY <1>1, <1>2 DEF IInv, Sound, Fetching, Cleaning
<1>4. /\ Growing /\ HostTypes' /\ Usable(current)' /\ Host' = Host
      /\ installed' \in [Versions -> {"absent", "good", "empty", "bad"}]
      /\ Known' /\ begun' = begun
      /\ staging' \in [Commands -> {"none", "full", "hollow"}]
  BY <1>2, Unchanged, HostFields DEF Install, IInv, TypeOK
<1>5. ASSUME NEW s \in {"resolve", "staged"}, NEW f \in Hosts, Undisturbed(r, Host, f)
      PROVE  Undisturbed([r EXCEPT !.stage = s], Host', f)
  <2> DEFINE y == [r EXCEPT !.stage = s]
  <2>1. /\ y.stage = s /\ y.kind = r.kind /\ y.target = r.target /\ y.want = r.want
        /\ y.back = r.back /\ y.record = r.record /\ y.plan = r.plan
        /\ y.unitMutated = r.unitMutated /\ y.stateMutated = r.stateMutated
        /\ y.during = r.during /\ y.failures = r.failures
    BY StageOnly DEF Stages
  <2> HIDE DEF y
  <2>2. Advancing(y, Host')
    BY <2>1 DEF Advancing, Forward
  <2>3. Untouched(y, Host', f)
    BY <1>2, <1>4, <1>5, <2>1 DEF Undisturbed, Untouched, Early, Forward, Returns
  <2>4. Receding(y, Host', f)
    BY <2>1 DEF Receding, OwnerBack, UnitBack, ActivationBack
  <2> QED BY <2>2, <2>3, <2>4 DEF Undisturbed, y
<1>6. CASE installed[cmd[c].target] = "good" /\ GoTo(c, "resolve")
  <2>1. Installed(r.target)'
    BY <1>1, <1>3, <1>4, <1>6 DEF Installed, Growing
  <2>2. "resolve" \in Stages \ Settled /\ "resolve" \notin Fetching \cup Cleaning
    BY DEF Stages, Settled, Outcomes, Fetching, Cleaning
  <2> QED BY <1>1, <1>2, <1>3, <1>4, <1>5, <1>6, <2>1, <2>2, StageStep
<1>7. CASE GoTo(c, "staged")
  <2>1. "staged" \in Stages \ Settled /\ "staged" \notin Cleaning /\ r.stage \in Fetching
    BY <1>2 DEF Stages, Settled, Outcomes, Fetching, Cleaning
  <2> QED BY <1>1, <1>2, <1>4, <1>5, <1>7, <2>1, StageStep
<1> QED BY <1>6, <1>7 DEF Install

LEMMA PublishStep ==
  ASSUME IInv, NEW c \in Commands, Publish(c), Witnessed(c)
  PROVE  IInv'
<1>1. PICK r \in CommandStates : r = cmd[c]
  BY DEF IInv, TypeOK
<1>2. /\ r.stage = "staged" /\ r.stage \notin Settled /\ GoTo(c, "resolve")
      /\ UNCHANGED <<registered, begun>> /\ UNCHANGED host
      /\ staging' = [staging EXCEPT ![c] = "none"]
  BY <1>1 DEF Publish, At, Settled, Outcomes
<1>3. r.target \in Versions /\ r.kind \in {"setup", "update"}
  BY <1>1, <1>2 DEF IInv, Sound, Fetching, Cleaning
<1>4. /\ installed' \in [Versions -> {"absent", "good", "empty", "bad"}]
      /\ Growing /\ installed'[r.target] # "absent"
  <2>1. CASE installed[r.target] \in {"good", "bad"} /\ UNCHANGED installed
    BY <1>2, <2>1, Unchanged DEF IInv, TypeOK
  <2>2. ASSUME NEW left \in {"good", "bad", "empty"},
               installed' = [installed EXCEPT ![r.target] = left]
        PROVE  /\ installed' \in [Versions -> {"absent", "good", "empty", "bad"}]
               /\ Growing /\ installed'[r.target] # "absent"
    BY <1>2, <1>3, <2>2 DEF Growing, IInv, TypeOK, host
  <2> QED BY <1>1, <2>1, <2>2 DEF Publish
<1>5. /\ HostTypes' /\ Usable(current)' /\ Host' = Host /\ Known'
      /\ staging' \in [Commands -> {"none", "full", "hollow"}]
  BY <1>2, <1>4, Unchanged, HostFields DEF IInv, TypeOK, host
<1>6. Installed(r.target)'
  BY <1>4 DEF Installed
<1>7. "resolve" \in Stages \ Settled /\ "resolve" \notin Fetching \cup Cleaning
  BY DEF Stages, Settled, Outcomes, Fetching, Cleaning
<1>8. ASSUME NEW f \in Hosts, Undisturbed(r, Host, f)
      PROVE  Undisturbed([r EXCEPT !.stage = "resolve"], Host', f)
  <2> DEFINE y == [r EXCEPT !.stage = "resolve"]
  <2>1. /\ y.stage = "resolve" /\ y.kind = r.kind /\ y.target = r.target /\ y.want = r.want
        /\ y.back = r.back /\ y.record = r.record /\ y.plan = r.plan
        /\ y.unitMutated = r.unitMutated /\ y.stateMutated = r.stateMutated
        /\ y.during = r.during /\ y.failures = r.failures
    BY <1>7, StageOnly
  <2> HIDE DEF y
  <2>2. Advancing(y, Host')
    BY <2>1 DEF Advancing, Forward
  <2>3. Untouched(y, Host', f)
    BY <1>2, <1>5, <1>8, <2>1 DEF Undisturbed, Untouched, Early, Forward, Returns
  <2>4. Receding(y, Host', f)
    BY <2>1 DEF Receding, OwnerBack, UnitBack, ActivationBack
  <2> QED BY <2>2, <2>3, <2>4 DEF Undisturbed, y
<1> QED BY <1>1, <1>2, <1>3, <1>4, <1>5, <1>6, <1>7, <1>8, StageStep

\* The record a command resolves to can be activated.
LEMMA ResolvedUsable ==
  ASSUME IInv, NEW v \in Versions, Installed(v)
  PROVE  Activated(current, v) \in Activations /\ Usable(Activated(current, v))
<1>1. current \in Activations /\ Usable(current)
  BY Unchanged DEF HostTypes
<1>2. CASE current.version = v
  BY <1>1, <1>2 DEF Activated
<1>3. CASE current.version # v
  <2> DEFINE x == [version |-> v, previous |-> current.version]
  <2>1. x.version = v /\ x.previous = current.version
    OBVIOUS
  <2>2. x \in Activations
    BY <1>1 DEF Activations, AnyVersion
  <2>3. Usable(x)
    BY <1>1, <1>3, <2>1 DEF Usable
  <2> QED BY <1>3, <2>2, <2>3 DEF Activated
<1> QED BY <1>2, <1>3

\* So can the release before, when rollbackStandaloneRelease accepts it.
LEMMA RolledBackUsable ==
  ASSUME IInv, CanRollBack(current)
  PROVE  RolledBack(current) \in Activations /\ Usable(RolledBack(current))
<1>1. current \in Activations /\ Usable(current)
  BY Unchanged DEF HostTypes
<1> DEFINE x == RolledBack(current)
<1>2. x.version = current.previous /\ x.previous = NoVersion
  BY DEF RolledBack
<1>3. x \in Activations
  BY <1>1 DEF RolledBack, Activations, AnyVersion
<1>4. Usable(x)
  BY <1>1, <1>2 DEF Usable, CanRollBack, Installed
<1> QED BY <1>3, <1>4

\* What an activation writes is never the record of having none.
LEMMA Present ==
  /\ \A v \in Versions : Activated(current, v) # NoActivation
  /\ CanRollBack(current) => RolledBack(current) # NoActivation
<1>1. \A v \in Versions : v # NoVersion
  BY ReleasesAssumption DEF NoVersion
<1>2. NoActivation.version = NoVersion
  BY DEF NoActivation
<1>3. \A v \in Versions : Activated(current, v).version = v
  BY DEF Activated
<1>4. RolledBack(current).version = current.previous
  BY DEF RolledBack
<1> QED BY <1>1, <1>2, <1>3, <1>4 DEF CanRollBack

LEMMA ResolveStep ==
  ASSUME IInv, NEW c \in Commands, Resolve(c), Witnessed(c)
  PROVE  IInv'
<1>1. PICK r \in CommandStates : r = cmd[c]
  BY DEF IInv, TypeOK
<1> DEFINE a == IF r.kind = "rollback" THEN RolledBack(current) ELSE Activated(current, r.target)
<1>2. PICK record \in Activations : record = a /\ Usable(record)
  <2>1. Sound(r) /\ r.stage = "resolve"
    BY <1>1 DEF IInv, Resolve, At
  <2>2. CASE r.kind = "rollback"
    BY <1>1, <2>2, RolledBackUsable DEF Resolve
  <2>3. CASE r.kind # "rollback"
    BY <2>1, <2>3, ResolvedUsable DEF Sound
  <2> QED BY <2>2, <2>3
<1> DEFINE s == IF record = current THEN AfterActivation(r) ELSE "activate"
<1>3. PICK t \in {"prepare", "plan", "activate"} :
        t = s /\ (t = "prepare" => r.kind = "setup") /\ (t # "activate" => record = current)
  BY DEF AfterActivation
<1> DEFINE y == [r EXCEPT !.record = record, !.stage = t]
<1>4. /\ r.stage = "resolve" /\ r.stage \notin Settled /\ Become(c, y)
      /\ UNCHANGED <<installed, staging, registered, begun>> /\ UNCHANGED host
  BY <1>1, <1>2, <1>3 DEF Resolve, At, Settled, Outcomes
<1>5. /\ y \in CommandStates
      /\ y.stage = t /\ y.kind = r.kind /\ y.target = r.target /\ y.want = r.want
      /\ y.back = r.back /\ y.record = record /\ y.plan = r.plan
      /\ y.unitMutated = r.unitMutated /\ y.stateMutated = r.stateMutated
      /\ y.during = r.during /\ y.failures = r.failures
  BY DEF CommandStates, Stages
<1> HIDE DEF y, s
<1>6. /\ Growing /\ HostTypes' /\ Usable(current)' /\ Host' = Host
      /\ installed' \in [Versions -> {"absent", "good", "empty", "bad"}]
      /\ Known' /\ begun' = begun
      /\ staging' \in [Commands -> {"none", "full", "hollow"}]
  BY <1>4, Unchanged, HostFields DEF IInv, TypeOK
<1>7. Moves(c, y)
  BY <1>4, <1>5, BecomeMoves DEF IInv, TypeOK
<1>8. Sound(y)
  <2>1. Sound(r) /\ r.stage = "resolve"
    BY <1>1, <1>4 DEF IInv
  <2>2. record # NoActivation /\ (t = "prepare" => current # NoActivation)
    <3>1. r.kind = "rollback" => CanRollBack(current)
      BY <1>1 DEF Resolve
    <3>2. r.kind # "rollback" => r.target \in Versions
      BY <2>1 DEF Sound
    <3> QED BY <1>2, <1>3, <3>1, <3>2, Present
  <2> QED BY <1>2, <1>3, <1>5, <2>1, <2>2 DEF Sound, Returns, Fetching, Cleaning
<1>9. Sound(y)'
  BY <1>5, <1>6, <1>8, SoundGrows
<1>10. ASSUME NEW f \in Hosts, Undisturbed(r, Host, f) PROVE Undisturbed(y, Host', f)
  <2>1. Advancing(y, Host')
    BY <1>3, <1>5, <1>6, HostFields DEF Advancing, Forward
  <2>2. Untouched(y, Host', f)
    BY <1>3, <1>4, <1>5, <1>6, <1>10 DEF Undisturbed, Untouched, Early, Forward, Returns
  <2>3. Receding(y, Host', f)
    BY <1>5 DEF Receding, OwnerBack, UnitBack, ActivationBack
  <2> QED BY <2>1, <2>2, <2>3 DEF Undisturbed
<1> QED BY <1>1, <1>4, <1>5, <1>6, <1>7, <1>9, <1>10, StepFrom

LEMMA ActivateStep ==
  ASSUME IInv, NEW c \in Commands, Activate(c), Witnessed(c)
  PROVE  IInv'
<1>1. PICK r \in CommandStates : r = cmd[c]
  BY DEF IInv, TypeOK
<1>2. PICK s \in {"prepare", "plan"} : s = AfterActivation(r) /\ (s = "prepare" => r.kind = "setup")
  BY DEF AfterActivation
<1>3. /\ r.stage = "activate" /\ r.stage \notin Settled /\ GoTo(c, s) /\ current' = r.record
      /\ UNCHANGED <<installed, staging, registered, unit, loaded, owner, service, begun>>
  BY <1>1, <1>2 DEF Activate, At, Settled, Outcomes
<1>4. Growing /\ Sound(r) /\ current' # NoActivation
  BY <1>1, <1>3 DEF Growing, IInv, Sound
<1>5. Usable(current)'
  <2>1. r.record \in Activations
    BY DEF CommandStates
  <2>2. Usable(r.record)'
    BY <1>4, <2>1, UsableGrows DEF Sound
  <2> QED BY <1>3, <2>2
<1>6. /\ HostTypes' /\ installed' \in [Versions -> {"absent", "good", "empty", "bad"}]
      /\ Known' /\ begun' = begun
      /\ staging' \in [Commands -> {"none", "full", "hollow"}]
  BY <1>3, <1>4, Unchanged DEF HostTypes, CommandStates, IInv, TypeOK
<1>7. s \in Stages \ Settled /\ s \notin Fetching \cup Cleaning \cup {"resolve", "activate"}
  BY DEF Stages, Settled, Outcomes, Fetching, Cleaning
<1>8. ASSUME NEW f \in Hosts, Undisturbed(r, Host, f)
      PROVE  Undisturbed([r EXCEPT !.stage = s], Host', f)
  <2> DEFINE y == [r EXCEPT !.stage = s]
  <2>1. /\ y.stage = s /\ y.kind = r.kind /\ y.target = r.target /\ y.want = r.want
        /\ y.back = r.back /\ y.record = r.record /\ y.plan = r.plan
        /\ y.unitMutated = r.unitMutated /\ y.stateMutated = r.stateMutated
        /\ y.during = r.during /\ y.failures = r.failures
    BY <1>7, StageOnly
  <2> HIDE DEF y
  <2>2. Advancing(y, Host')
    BY <1>3, <2>1, HostFields DEF Advancing, Forward
  <2>3. Untouched(y, Host', f)
    BY <1>2, <1>3, <1>8, <2>1, HostFields DEF Undisturbed, Untouched, Early, Forward, Returns
  <2>4. Receding(y, Host', f)
    BY <2>1 DEF Receding, OwnerBack, UnitBack, ActivationBack
  <2> QED BY <2>2, <2>3, <2>4 DEF Undisturbed, y
<1> QED BY <1>1, <1>3, <1>4, <1>5, <1>6, <1>7, <1>8, StageStep

LEMMA PrepareStep ==
  ASSUME IInv, NEW c \in Commands, Prepare(c), Witnessed(c)
  PROVE  IInv'
<1>1. PICK r \in CommandStates : r = cmd[c]
  BY DEF IInv, TypeOK
<1>2. /\ r.stage = "prepare" /\ r.stage \notin Settled
      /\ UNCHANGED <<installed, staging, begun>> /\ UNCHANGED host
  BY <1>1 DEF Prepare, At, Settled, Outcomes
<1>3. /\ Growing /\ HostTypes' /\ Usable(current)' /\ Host' = Host
      /\ installed' \in [Versions -> {"absent", "good", "empty", "bad"}]
      /\ Known' /\ begun' = begun
      /\ staging' \in [Commands -> {"none", "full", "hollow"}]
  BY <1>1, <1>2, Unchanged, HostFields DEF IInv, TypeOK, Sound, Known, host, Prepare
<1>4. "plan" \in Stages \ Settled /\ "plan" \notin Fetching \cup Cleaning
  BY DEF Stages, Settled, Outcomes, Fetching, Cleaning
<1>5. ASSUME NEW f \in Hosts, Undisturbed(r, Host, f)
      PROVE  Undisturbed([r EXCEPT !.stage = "plan"], Host', f)
  <2> DEFINE y == [r EXCEPT !.stage = "plan"]
  <2>1. /\ y.stage = "plan"
        /\ y.kind = r.kind /\ y.target = r.target /\ y.want = r.want
        /\ y.back = r.back /\ y.record = r.record /\ y.plan = r.plan
        /\ y.unitMutated = r.unitMutated /\ y.stateMutated = r.stateMutated
        /\ y.during = r.during /\ y.failures = r.failures
    BY <1>4, StageOnly
  <2> HIDE DEF y
  <2>2. Advancing(y, Host')
    BY <1>2, <1>3, <1>5, <2>1 DEF Undisturbed, Advancing, Forward
  <2>3. Untouched(y, Host', f)
    BY <1>2, <1>3, <1>5, <2>1 DEF Undisturbed, Untouched, Early, Forward, Returns
  <2>4. Receding(y, Host', f)
    BY <2>1 DEF Receding, OwnerBack, UnitBack, ActivationBack
  <2> QED BY <2>2, <2>3, <2>4 DEF Undisturbed, y
<1>6. CASE GoTo(c, "plan")
  BY <1>1, <1>2, <1>3, <1>4, <1>5, <1>6, StageStep
<1>7. CASE End(c, "failed")
  <2>1. InFlight(c) /\ "failed" \in Outcomes
    BY <1>1, <1>2 DEF InFlight, Outcomes
  <2> QED BY <1>3, <1>7, <2>1, EndStep
<1> QED BY <1>6, <1>7 DEF Prepare

LEMMA CleanFilesStep ==
  ASSUME IInv, NEW c \in Commands, CleanFiles(c), Witnessed(c)
  PROVE  IInv'
<1>1. PICK r \in CommandStates : r = cmd[c]
  BY DEF IInv, TypeOK
<1>2. /\ r.stage = "clean" /\ r.stage \notin Settled /\ GoTo(c, "cleaned")
      /\ UNCHANGED <<installed, registered, begun>> /\ UNCHANGED host
  BY <1>1 DEF CleanFiles, At, Settled, Outcomes
<1>3. /\ Growing /\ HostTypes' /\ Usable(current)' /\ Host' = Host
      /\ installed' \in [Versions -> {"absent", "good", "empty", "bad"}]
      /\ Known' /\ begun' = begun
  BY <1>2, Unchanged, HostFields DEF IInv, TypeOK
<1>4. staging' \in [Commands -> {"none", "full", "hollow"}]
  BY DEF CleanFiles, IInv, TypeOK
<1>5. r.kind = "repair"
  BY <1>1, <1>2 DEF IInv, Sound, Cleaning
<1>6. "cleaned" \in Stages \ Settled /\ "cleaned" \notin Fetching
  BY DEF Stages, Settled, Outcomes, Fetching, Cleaning
<1>7. ASSUME NEW f \in Hosts, Undisturbed(r, Host, f)
      PROVE  Undisturbed([r EXCEPT !.stage = "cleaned"], Host', f)
  <2> DEFINE y == [r EXCEPT !.stage = "cleaned"]
  <2>1. /\ y.stage = "cleaned"
        /\ y.kind = r.kind /\ y.target = r.target /\ y.want = r.want
        /\ y.back = r.back /\ y.record = r.record /\ y.plan = r.plan
        /\ y.unitMutated = r.unitMutated /\ y.stateMutated = r.stateMutated
        /\ y.during = r.during /\ y.failures = r.failures
    BY <1>6, StageOnly
  <2> HIDE DEF y
  <2>2. Advancing(y, Host')
    BY <1>5, <2>1 DEF Advancing, Forward
  <2>3. Untouched(y, Host', f)
    BY <1>2, <1>3, <1>4, <1>7, <2>1 DEF Undisturbed, Untouched, Early, Forward, Returns
  <2>4. Receding(y, Host', f)
    BY <2>1 DEF Receding, OwnerBack, UnitBack, ActivationBack
  <2> QED BY <2>2, <2>3, <2>4 DEF Undisturbed, y
<1> QED BY <1>1, <1>2, <1>3, <1>4, <1>5, <1>6, <1>7, StageStep

LEMMA CleanDirectoriesStep ==
  ASSUME IInv, NEW c \in Commands, CleanDirectories(c), Witnessed(c)
  PROVE  IInv'
<1>1. PICK r \in CommandStates : r = cmd[c]
  BY DEF IInv, TypeOK
<1>2. /\ r.stage = "cleaned" /\ r.stage \notin Settled /\ GoTo(c, "plan")
      /\ UNCHANGED <<installed, registered, begun>> /\ UNCHANGED host
  BY <1>1 DEF CleanDirectories, At, Settled, Outcomes
<1>3. /\ Growing /\ HostTypes' /\ Usable(current)' /\ Host' = Host
      /\ installed' \in [Versions -> {"absent", "good", "empty", "bad"}]
      /\ Known' /\ begun' = begun
  BY <1>2, Unchanged, HostFields DEF IInv, TypeOK
<1>4. staging' \in [Commands -> {"none", "full", "hollow"}]
  BY DEF CleanDirectories, IInv, TypeOK
<1>5. r.kind = "repair"
  BY <1>1, <1>2 DEF IInv, Sound, Cleaning
<1>6. "plan" \in Stages \ Settled /\ "plan" \notin Fetching \cup Cleaning
  BY DEF Stages, Settled, Outcomes, Fetching, Cleaning
<1>7. ASSUME NEW f \in Hosts, Undisturbed(r, Host, f)
      PROVE  Undisturbed([r EXCEPT !.stage = "plan"], Host', f)
  <2> DEFINE y == [r EXCEPT !.stage = "plan"]
  <2>1. /\ y.stage = "plan"
        /\ y.kind = r.kind /\ y.target = r.target /\ y.want = r.want
        /\ y.back = r.back /\ y.record = r.record /\ y.plan = r.plan
        /\ y.unitMutated = r.unitMutated /\ y.stateMutated = r.stateMutated
        /\ y.during = r.during /\ y.failures = r.failures
    BY <1>6, StageOnly
  <2> HIDE DEF y
  <2>2. Advancing(y, Host')
    BY <1>5, <2>1 DEF Advancing, Forward
  <2>3. Untouched(y, Host', f)
    BY <1>2, <1>3, <1>4, <1>7, <2>1 DEF Undisturbed, Untouched, Early, Forward, Returns
  <2>4. Receding(y, Host', f)
    BY <2>1 DEF Receding, OwnerBack, UnitBack, ActivationBack
  <2> QED BY <2>2, <2>3, <2>4 DEF Undisturbed, y
<1> QED BY <1>1, <1>2, <1>3, <1>4, <1>5, <1>6, <1>7, StageStep

-----------------------------------------------------------------------------
(* The steps that configure the service. *)

\* A step after the activation: the versions stay as they are, and so does
\* what the command can activate or come back to.
LEMMA ServiceStep ==
  ASSUME IInv, NEW c \in Commands, NEW r \in CommandStates, r = cmd[c], r.stage \notin Settled,
         NEW y \in CommandStates, Moves(c, y), Witnessed(c),
         UNCHANGED <<installed, staging, registered, begun>>, HostTypes', Usable(current)',
         current # NoActivation => current' # NoActivation,
         y.kind = r.kind, y.record = r.record, y.back = r.back,
         y.stage \notin Early \cup {"prepare"},
         y.stage \in Settled \/ \A f \in Hosts : Undisturbed(r, Host, f) => Undisturbed(y, Host', f)
  PROVE  IInv'
<1>1. Growing
  BY DEF Growing
<1>2. Sound(r)'
  BY <1>1, SoundGrows DEF IInv
<1>3. Sound(y)'
  BY <1>2 DEF Sound, Returns, Early, Fetching, Cleaning
<1>4. /\ installed' \in [Versions -> {"absent", "good", "empty", "bad"}]
      /\ staging' \in [Commands -> {"none", "full", "hollow"}]
      /\ Known' /\ begun' = begun
  BY <1>1, Unchanged DEF IInv, TypeOK
<1> QED BY <1>1, <1>3, <1>4, StepFrom

\* The accounts a host may name.
LEMMA AccountTypes ==
  ASSUME HostTypes
  PROVE  /\ unit.account \in Accounts /\ loaded.account \in Accounts
         /\ OwnerToRestore \in {owner, loaded.account} /\ OwnerToRestore \in Owners
  BY DEF HostTypes, AnyUnit, NoUnit, Accounts, Owners, OwnerToRestore

LEMMA PlanStep ==
  ASSUME IInv, NEW c \in Commands, Plan(c), Witnessed(c)
  PROVE  IInv'
<1>1. PICK r \in CommandStates : r = cmd[c]
  BY DEF IInv, TypeOK
<1>2. HostTypes
  BY Unchanged
<1>3. PICK old \in BOOLEAN : old = (service # Stopped)
  OBVIOUS
<1>4. PICK s \in {"identity", "write"} : s = IF unit = r.want THEN "identity" ELSE "write"
  OBVIOUS
<1>5. PICK plan \in [unit : AnyUnit, owner : Owners, running : BOOLEAN] :
        plan = [unit |-> unit, owner |-> OwnerToRestore, running |-> old]
  BY <1>2, AccountTypes DEF HostTypes
<1> DEFINE y == [r EXCEPT !.plan = plan, !.oldPid = old, !.stage = s]
<1>6. /\ r.stage = "plan" /\ r.stage \notin Settled /\ Become(c, y)
      /\ UNCHANGED <<installed, staging, registered, begun>> /\ UNCHANGED host
  BY <1>1, <1>3, <1>4, <1>5 DEF Plan, At, Settled, Outcomes
<1>7. /\ y \in CommandStates
      /\ y.stage = s /\ y.kind = r.kind /\ y.want = r.want
      /\ y.back = r.back /\ y.record = r.record /\ y.plan = plan
      /\ y.unitMutated = r.unitMutated /\ y.stateMutated = r.stateMutated
      /\ y.during = r.during /\ y.failures = r.failures
  BY DEF CommandStates, Stages
<1> HIDE DEF y
<1>8. HostTypes' /\ Usable(current)' /\ Host' = Host /\ UNCHANGED current
  BY <1>6, Unchanged, HostFields DEF host
<1>9. Moves(c, y)
  BY <1>6, <1>7, BecomeMoves DEF IInv, TypeOK
<1>10. y.stage \notin Early \cup {"prepare"}
  BY <1>7 DEF Early
<1>11. ASSUME NEW f \in Hosts, Undisturbed(r, Host, f) PROVE Undisturbed(y, Host', f)
  <2>1. Advancing(y, Host')
    BY <1>4, <1>6, <1>7, <1>8, <1>11, HostFields DEF Undisturbed, Advancing, Forward
  <2>2. plan.unit = f.unit /\ plan.owner \in {f.owner, f.loaded.account}
    BY <1>2, <1>5, <1>6, <1>11, HostFields, AccountTypes
       DEF Undisturbed, Untouched, Early, Forward
  <2>3. plan.running <=> f.service # Stopped
    <3>1. service = f.service
      BY <1>6, <1>11, HostFields DEF Undisturbed, Untouched, Forward
    <3> QED BY <1>3, <1>5, <3>1
  <2>4. Untouched(y, Host', f)
    BY <1>4, <1>6, <1>7, <1>8, <1>11, <2>2, <2>3, HostFields
       DEF Undisturbed, Untouched, Early, Forward, Returns
  <2>5. Receding(y, Host', f)
    BY <1>4, <1>7 DEF Receding, OwnerBack, UnitBack, ActivationBack
  <2> QED BY <2>1, <2>4, <2>5 DEF Undisturbed
<1> QED BY <1>1, <1>6, <1>7, <1>8, <1>9, <1>10, <1>11, ServiceStep

LEMMA WriteUnitStep ==
  ASSUME IInv, NEW c \in Commands, WriteUnit(c), Witnessed(c)
  PROVE  IInv'
<1>1. PICK r \in CommandStates : r = cmd[c]
  BY DEF IInv, TypeOK
<1> DEFINE y == [r EXCEPT !.unitMutated = TRUE, !.stage = "reload"]
<1>2. /\ r.stage = "write" /\ r.stage \notin Settled /\ Become(c, y)
      /\ UNCHANGED <<installed, staging, current, registered, loaded, owner, service, begun>> /\ unit' = r.want
  BY <1>1 DEF WriteUnit, At, GoTo, Settled, Outcomes
<1>3. /\ y \in CommandStates
      /\ y.stage = "reload" /\ y.kind = r.kind /\ y.want = r.want
      /\ y.back = r.back /\ y.record = r.record /\ y.plan = r.plan
      /\ y.unitMutated = TRUE /\ y.stateMutated = r.stateMutated
      /\ y.during = r.during /\ y.failures = r.failures
  BY DEF CommandStates, Stages
<1> HIDE DEF y
<1>4. HostTypes' /\ Usable(current)'
  BY <1>2, Unchanged DEF host, HostTypes, CommandStates, Usable, Installed
<1>5. Moves(c, y)
  BY <1>2, <1>3, BecomeMoves DEF IInv, TypeOK
<1>6. y.stage \notin Early \cup {"prepare"}
  BY <1>3 DEF Early
<1>7. ASSUME NEW f \in Hosts, Undisturbed(r, Host, f) PROVE Undisturbed(y, Host', f)
  <2>1. Advancing(y, Host')
    BY <1>2, <1>3, <1>7, HostFields DEF Undisturbed, Advancing, Forward
  <2>2. Untouched(y, Host', f)
    BY <1>2, <1>3, <1>7, HostFields DEF Undisturbed, Untouched, Early, Forward, Returns
  <2>3. Receding(y, Host', f)
    BY <1>2, <1>3, <1>7, HostFields
       DEF Undisturbed, Receding, OwnerBack, UnitBack, ActivationBack, Returns
  <2> QED BY <2>1, <2>2, <2>3 DEF Undisturbed
<1> QED BY <1>1, <1>2, <1>3, <1>4, <1>5, <1>6, <1>7, ServiceStep

LEMMA ReloadStep ==
  ASSUME IInv, NEW c \in Commands, Reload(c), Witnessed(c)
  PROVE  IInv'
<1>1. PICK r \in CommandStates : r = cmd[c]
  BY DEF IInv, TypeOK
<1> DEFINE y == [r EXCEPT !.stage = "identity"]
<1>2. /\ r.stage = "reload" /\ r.stage \notin Settled /\ Become(c, y)
      /\ UNCHANGED <<installed, staging, current, registered, unit, owner, service, begun>> /\ loaded' = unit
  BY <1>1 DEF Reload, At, GoTo, Settled, Outcomes
<1>3. /\ y \in CommandStates
      /\ y.stage = "identity" /\ y.kind = r.kind /\ y.want = r.want
      /\ y.back = r.back /\ y.record = r.record /\ y.plan = r.plan
      /\ y.unitMutated = r.unitMutated /\ y.stateMutated = r.stateMutated
      /\ y.during = r.during /\ y.failures = r.failures
  BY DEF CommandStates, Stages
<1> HIDE DEF y
<1>4. HostTypes' /\ Usable(current)'
  BY <1>2, Unchanged DEF host, HostTypes, CommandStates, Usable, Installed
<1>5. Moves(c, y)
  BY <1>2, <1>3, BecomeMoves DEF IInv, TypeOK
<1>6. y.stage \notin Early \cup {"prepare"}
  BY <1>3 DEF Early
<1>7. ASSUME NEW f \in Hosts, Undisturbed(r, Host, f) PROVE Undisturbed(y, Host', f)
  <2>1. Advancing(y, Host')
    BY <1>2, <1>3, <1>7, HostFields DEF Undisturbed, Advancing, Forward
  <2>2. Untouched(y, Host', f)
    BY <1>2, <1>3, <1>7, HostFields DEF Undisturbed, Untouched, Early, Forward, Returns
  <2>3. Receding(y, Host', f)
    BY <1>2, <1>3, <1>7, HostFields
       DEF Undisturbed, Receding, OwnerBack, UnitBack, ActivationBack, Returns
  <2> QED BY <2>1, <2>2, <2>3 DEF Undisturbed
<1> QED BY <1>1, <1>2, <1>3, <1>4, <1>5, <1>6, <1>7, ServiceStep

LEMMA CheckIdentityStep ==
  ASSUME IInv, NEW c \in Commands, CheckIdentity(c), Witnessed(c)
  PROVE  IInv'
<1>1. PICK r \in CommandStates : r = cmd[c]
  BY DEF IInv, TypeOK
<1> DEFINE y == [r EXCEPT !.stage = "chown"]
<1>2. /\ r.stage = "identity" /\ r.stage \notin Settled /\ Become(c, y)
      /\ UNCHANGED <<installed, staging, registered, begun>> /\ UNCHANGED host
      /\ loaded.account = r.want.account
  BY <1>1 DEF CheckIdentity, At, GoTo, Settled, Outcomes
<1>3. /\ y \in CommandStates
      /\ y.stage = "chown" /\ y.kind = r.kind /\ y.want = r.want
      /\ y.back = r.back /\ y.record = r.record /\ y.plan = r.plan
      /\ y.unitMutated = r.unitMutated /\ y.stateMutated = r.stateMutated
      /\ y.during = r.during /\ y.failures = r.failures
  BY DEF CommandStates, Stages
<1> HIDE DEF y
<1>4. HostTypes' /\ Usable(current)' /\ UNCHANGED current
  BY <1>2, Unchanged DEF host
<1>5. Moves(c, y)
  BY <1>2, <1>3, BecomeMoves DEF IInv, TypeOK
<1>6. y.stage \notin Early \cup {"prepare"}
  BY <1>3 DEF Early
<1>7. ASSUME NEW f \in Hosts, Undisturbed(r, Host, f) PROVE Undisturbed(y, Host', f)
  <2>1. Advancing(y, Host')
    BY <1>2, <1>3, <1>7, HostFields DEF Undisturbed, Advancing, Forward
  <2>2. Untouched(y, Host', f)
    BY <1>2, <1>3, <1>7, HostFields DEF Undisturbed, Untouched, Early, Forward, Returns
  <2>3. Receding(y, Host', f)
    BY <1>2, <1>3, <1>7, HostFields
       DEF Undisturbed, Receding, OwnerBack, UnitBack, ActivationBack, Returns
  <2> QED BY <2>1, <2>2, <2>3 DEF Undisturbed
<1> QED BY <1>1, <1>2, <1>3, <1>4, <1>5, <1>6, <1>7, ServiceStep

LEMMA ConfigureFailsStep ==
  ASSUME IInv, NEW c \in Commands, ConfigureFails(c), Witnessed(c)
  PROVE  IInv'
<1>1. PICK r \in CommandStates : r = cmd[c]
  BY DEF IInv, TypeOK
<1> DEFINE y == [r EXCEPT !.stage = "undo_owner"]
<1>2. /\ r.stage \in {"plan", "write", "reload", "identity"} /\ r.stage \notin Settled /\ Become(c, y)
      /\ UNCHANGED <<installed, staging, registered, begun>> /\ UNCHANGED host
  BY <1>1 DEF ConfigureFails, At, GoTo, Settled, Outcomes
<1>3. /\ y \in CommandStates
      /\ y.stage = "undo_owner" /\ y.kind = r.kind /\ y.want = r.want
      /\ y.back = r.back /\ y.record = r.record /\ y.plan = r.plan
      /\ y.unitMutated = r.unitMutated /\ y.stateMutated = r.stateMutated
      /\ y.during = r.during /\ y.failures = r.failures
  BY DEF CommandStates, Stages
<1> HIDE DEF y
<1>4. HostTypes' /\ Usable(current)' /\ UNCHANGED current
  BY <1>2, Unchanged DEF host
<1>5. Moves(c, y)
  BY <1>2, <1>3, BecomeMoves DEF IInv, TypeOK
<1>6. y.stage \notin Early \cup {"prepare"}
  BY <1>3 DEF Early
<1>7. ASSUME NEW f \in Hosts, Undisturbed(r, Host, f) PROVE Undisturbed(y, Host', f)
  <2>1. Advancing(y, Host')
    BY <1>2, <1>3, <1>7, HostFields DEF Undisturbed, Advancing, Forward
  <2>2. Untouched(y, Host', f)
    BY <1>2, <1>3, <1>7, HostFields DEF Undisturbed, Untouched, Early, Forward, Returns
  <2>3. Receding(y, Host', f)
    BY <1>2, <1>3, <1>7, HostFields
       DEF Undisturbed, Untouched, Forward, Receding, OwnerBack, UnitBack, ActivationBack
  <2> QED BY <2>1, <2>2, <2>3 DEF Undisturbed
<1> QED BY <1>1, <1>2, <1>3, <1>4, <1>5, <1>6, <1>7, ServiceStep

LEMMA ChownFailsStep ==
  ASSUME IInv, NEW c \in Commands, ChownFails(c), Witnessed(c)
  PROVE  IInv'
<1>1. PICK r \in CommandStates : r = cmd[c]
  BY DEF IInv, TypeOK
<1> DEFINE y == [r EXCEPT !.stateMutated = TRUE, !.stage = "undo_owner"]
<1>2. /\ r.stage = "chown" /\ r.stage \notin Settled /\ Become(c, y)
      /\ UNCHANGED <<installed, staging, current, registered, unit, loaded, service, begun>> /\ owner' \in {owner, "mixed"}
  BY <1>1 DEF ChownFails, At, GoTo, Settled, Outcomes
<1>3. /\ y \in CommandStates
      /\ y.stage = "undo_owner" /\ y.kind = r.kind /\ y.want = r.want
      /\ y.back = r.back /\ y.record = r.record /\ y.plan = r.plan
      /\ y.unitMutated = r.unitMutated /\ y.stateMutated = TRUE
      /\ y.during = r.during /\ y.failures = r.failures
  BY DEF CommandStates, Stages
<1> HIDE DEF y
<1>4. HostTypes' /\ Usable(current)'
  BY <1>2, Unchanged DEF host, HostTypes, Owners, Usable, Installed
<1>5. Moves(c, y)
  BY <1>2, <1>3, BecomeMoves DEF IInv, TypeOK
<1>6. y.stage \notin Early \cup {"prepare"}
  BY <1>3 DEF Early
<1>7. ASSUME NEW f \in Hosts, Undisturbed(r, Host, f) PROVE Undisturbed(y, Host', f)
  <2>1. Advancing(y, Host')
    BY <1>2, <1>3, <1>7, HostFields DEF Undisturbed, Advancing, Forward
  <2>2. Untouched(y, Host', f)
    BY <1>2, <1>3, <1>7, HostFields DEF Undisturbed, Untouched, Early, Forward, Returns
  <2>3. Receding(y, Host', f)
    BY <1>2, <1>3, <1>7, HostFields
       DEF Undisturbed, Untouched, Forward, Receding, OwnerBack, UnitBack, ActivationBack
  <2> QED BY <2>1, <2>2, <2>3 DEF Undisturbed
<1> QED BY <1>1, <1>2, <1>3, <1>4, <1>5, <1>6, <1>7, ServiceStep

\* The end of a command after the activation.
LEMMA EndService ==
  ASSUME IInv, NEW c \in Commands, InFlight(c), NEW outcome \in Outcomes, Witnessed(c),
         \/ End(c, outcome)
         \/ \E p \in Processes : NewProcess(With(c, Ended(outcome)), p),
         UNCHANGED <<installed, staging, registered, begun>>, HostTypes', Usable(current)',
         current # NoActivation => current' # NoActivation
  PROVE  IInv'
<1>1. Growing
  BY DEF Growing
<1>2. /\ installed' \in [Versions -> {"absent", "good", "empty", "bad"}]
      /\ staging' \in [Commands -> {"none", "full", "hollow"}]
      /\ Known' /\ begun' = begun
  BY <1>1, Unchanged DEF IInv, TypeOK
<1> QED BY <1>1, <1>2, EndStep

LEMMA ChownStep ==
  ASSUME IInv, NEW c \in Commands, Chown(c), Witnessed(c)
  PROVE  IInv'
<1>1. PICK r \in CommandStates : r = cmd[c]
  BY DEF IInv, TypeOK
<1> DEFINE y == [r EXCEPT !.stateMutated = TRUE, !.stage = "restart"]
<1>2. /\ r.stage = "chown" /\ r.stage \notin Settled
      /\ UNCHANGED <<installed, staging, current, registered, unit, loaded, service, begun>>
      /\ owner' = r.want.account
      /\ \/ End(c, "ok")
         \/ r.kind # "repair" /\ Become(c, y)
  BY <1>1 DEF Chown, At, Settled, Outcomes, Configured
<1>3. HostTypes' /\ Usable(current)'
  <2>1. r.want.account \in Accounts
    BY DEF CommandStates, AnyUnit, NoUnit, Accounts
  <2> QED BY <1>2, <2>1, Unchanged DEF HostTypes, Owners, Usable, Installed
<1>4. CASE End(c, "ok")
  BY <1>1, <1>2, <1>3, <1>4, EndService DEF InFlight, Outcomes
<1>5. CASE r.kind # "repair" /\ Become(c, y)
  <2>1. /\ y \in CommandStates
        /\ y.stage = "restart" /\ y.kind = r.kind /\ y.want = r.want
        /\ y.back = r.back /\ y.record = r.record /\ y.plan = r.plan
        /\ y.unitMutated = r.unitMutated /\ y.stateMutated = TRUE
        /\ y.during = r.during /\ y.failures = r.failures
    BY DEF CommandStates, Stages
  <2> HIDE DEF y
  <2>2. Moves(c, y)
    BY <1>5, <2>1, BecomeMoves DEF IInv, TypeOK
  <2>3. y.stage \notin Early \cup {"prepare"}
    BY <2>1 DEF Early
  <2>4. ASSUME NEW f \in Hosts, Undisturbed(r, Host, f) PROVE Undisturbed(y, Host', f)
    <3>1. Advancing(y, Host')
      BY <1>2, <1>5, <2>1, <2>4, HostFields DEF Undisturbed, Advancing, Forward
    <3>2. Untouched(y, Host', f)
      BY <1>2, <2>1, <2>4, HostFields DEF Undisturbed, Untouched, Early, Forward, Returns
    <3>3. Receding(y, Host', f)
      BY <2>1 DEF Receding, OwnerBack, UnitBack, ActivationBack
    <3> QED BY <3>1, <3>2, <3>3 DEF Undisturbed
  <2> QED BY <1>1, <1>2, <1>3, <2>1, <2>2, <2>3, <2>4, ServiceStep
<1> QED BY <1>2, <1>4, <1>5

-----------------------------------------------------------------------------
(* The steps that undo. *)

\* y is r at another stage of its recovery, with what failed so far.
Going(y, r, next, failures) ==
  /\ y.stage = next /\ y.kind = r.kind /\ y.want = r.want
  /\ y.back = r.back /\ y.record = r.record /\ y.plan = r.plan
  /\ y.unitMutated = r.unitMutated /\ y.stateMutated = r.stateMutated
  /\ y.during = r.during /\ y.failures = failures

Recovering == {"undo_owner", "undo_unit", "undo_reload", "restore", "recover"}

\* Remembering a failure changes nothing else.
LEMMA WithFailure ==
  ASSUME NEW r \in CommandStates
  PROVE  /\ [r EXCEPT !.failures = TRUE] \in CommandStates
         /\ Going([r EXCEPT !.failures = TRUE], r, r.stage, TRUE)
         /\ Going(r, r, r.stage, r.failures)
  BY DEF CommandStates, Going

\* A step of the recovery: x is r with what has failed so far.
LEMMA ContinueStep ==
  ASSUME IInv, NEW c \in Commands, NEW r \in CommandStates, r = cmd[c], r.stage \notin Settled,
         NEW failures \in BOOLEAN, NEW next \in Recovering \cup {"end"},
         NEW x \in CommandStates, Going(x, r, r.stage, failures), Continue(c, x, next),
         Witnessed(c), UNCHANGED <<installed, staging, registered, begun>>,
         HostTypes', Usable(current)', current # NoActivation => current' # NoActivation,
         \A f \in Hosts, y \in CommandStates :
           Undisturbed(r, Host, f) /\ Going(y, r, next, failures) /\ next # "end"
           => Undisturbed(y, Host', f)
  PROVE  IInv'
<1>1. CASE next = "end"
  <2>1. End(c, Outcome(x))
    BY <1>1 DEF Continue
  <2>2. Outcome(x) \in Outcomes
    BY DEF Outcome, Outcomes
  <2> QED BY <2>1, <2>2, EndService DEF InFlight
<1>2. CASE next # "end"
  <2> DEFINE y == [x EXCEPT !.stage = next]
  <2>1. next \in Stages /\ next \notin Early \cup {"prepare"}
    BY <1>2 DEF Recovering, Stages, Early
  <2>2. y \in CommandStates /\ Going(y, r, next, failures)
    BY <2>1, StageOnly DEF Going
  <2>3. Become(c, y)
    BY <1>2 DEF Continue
  <2> HIDE DEF y
  <2>4. Moves(c, y)
    BY <2>2, <2>3, BecomeMoves DEF IInv, TypeOK
  <2>5. y.kind = r.kind /\ y.record = r.record /\ y.back = r.back /\ y.stage = next
    BY <2>2 DEF Going
  <2>6. \A f \in Hosts : Undisturbed(r, Host, f) => Undisturbed(y, Host', f)
    BY <1>2, <2>2
  <2> QED BY <2>1, <2>2, <2>4, <2>5, <2>6, ServiceStep
<1> QED BY <1>1, <1>2

LEMMA UndoOwnerStep ==
  ASSUME IInv, NEW c \in Commands, UndoOwner(c), Witnessed(c)
  PROVE  IInv'
<1>1. PICK r \in CommandStates : r = cmd[c]
  BY DEF IInv, TypeOK
<1>2. PICK x \in CommandStates, b \in BOOLEAN :
        /\ Going(x, r, r.stage, b) /\ Continue(c, x, "undo_unit")
        /\ \/ owner' = (IF r.stateMutated THEN r.plan.owner ELSE owner) /\ b = r.failures
           \/ owner' \in {owner, "mixed"} /\ r.stateMutated /\ b = TRUE
  <2> DEFINE q == [r EXCEPT !.failures = TRUE]
  <2>1. /\ q \in CommandStates /\ r.failures \in BOOLEAN
        /\ Going(q, r, r.stage, TRUE) /\ Going(r, r, r.stage, r.failures)
    BY WithFailure DEF CommandStates
  <2>2. \/ /\ owner' = IF r.stateMutated THEN r.plan.owner ELSE owner
           /\ Continue(c, r, "undo_unit")
        \/ r.stateMutated /\ owner' \in {owner, "mixed"} /\ Continue(c, q, "undo_unit")
    BY <1>1 DEF UndoOwner
  <2> HIDE DEF q
  <2> QED BY <2>1, <2>2
<1>3. /\ r.stage = "undo_owner" /\ r.stage \notin Settled
      /\ UNCHANGED <<installed, staging, current, registered, unit, loaded, service, begun>>
  BY <1>1 DEF UndoOwner, At, Settled, Outcomes
<1>4. HostTypes' /\ Usable(current)'
  <2>1. r.plan.owner \in Owners
    BY DEF CommandStates
  <2> QED BY <1>2, <1>3, <2>1, Unchanged DEF HostTypes, Owners, Usable, Installed
<1>5. ASSUME NEW f \in Hosts, NEW y \in CommandStates,
             Undisturbed(r, Host, f), Going(y, r, "undo_unit", b)
      PROVE  Undisturbed(y, Host', f)
  <2>1. Advancing(y, Host')
    BY <1>5 DEF Going, Advancing, Forward
  <2>2. Untouched(y, Host', f)
    BY <1>2, <1>3, <1>5, HostFields DEF Going, Undisturbed, Untouched, Early, Forward, Returns
  <2>3. Receding(y, Host', f)
    BY <1>2, <1>3, <1>5, HostFields DEF Going, Undisturbed, Untouched, Receding, OwnerBack,
       UnitBack, ActivationBack, Returns
  <2> QED BY <2>1, <2>2, <2>3 DEF Undisturbed
<1>6. "undo_unit" \in Recovering
  BY DEF Recovering
<1> QED BY <1>1, <1>2, <1>3, <1>4, <1>5, <1>6, ContinueStep

LEMMA AfterUndoStages ==
  ASSUME NEW r
  PROVE  AfterUndo(r) \in Recovering \cup {"end"} /\ AfterRestore(r) \in Recovering \cup {"end"}
  BY DEF AfterUndo, AfterRestore, Recovering

LEMMA UndoUnitStep ==
  ASSUME IInv, NEW c \in Commands, UndoUnit(c), Witnessed(c)
  PROVE  IInv'
<1>1. PICK r \in CommandStates : r = cmd[c]
  BY DEF IInv, TypeOK
<1>2. PICK x \in CommandStates, b \in BOOLEAN, next \in Recovering \cup {"end"} :
        /\ Going(x, r, r.stage, b) /\ Continue(c, x, next)
        /\ \/ /\ unit' = r.plan.unit /\ r.unitMutated
              /\ next = "undo_reload" /\ b = r.failures
           \/ /\ unit' = unit /\ next = AfterUndo(r)
              /\ (b = r.failures /\ ~r.unitMutated) \/ b = TRUE
  <2> DEFINE q == [r EXCEPT !.failures = TRUE]
  <2>1. /\ q \in CommandStates /\ r.failures \in BOOLEAN
        /\ Going(q, r, r.stage, TRUE) /\ Going(r, r, r.stage, r.failures)
    BY WithFailure DEF CommandStates
  <2>2. \/ r.unitMutated /\ unit' = r.plan.unit /\ Continue(c, r, "undo_reload")
        \/ unit' = unit /\ Continue(c, q, AfterUndo(r))
        \/ ~r.unitMutated /\ unit' = unit /\ Continue(c, r, AfterUndo(r))
    BY <1>1 DEF UndoUnit
  <2> HIDE DEF q
  <2>3. "undo_reload" \in Recovering /\ AfterUndo(r) \in Recovering \cup {"end"}
    BY AfterUndoStages DEF Recovering
  <2> QED BY <2>1, <2>2, <2>3
<1>3. /\ r.stage = "undo_unit" /\ r.stage \notin Settled
      /\ UNCHANGED <<installed, staging, current, registered, loaded, owner, service, begun>>
  BY <1>1 DEF UndoUnit, At, Settled, Outcomes
<1>4. HostTypes' /\ Usable(current)'
  <2>1. r.plan.unit \in AnyUnit
    BY DEF CommandStates
  <2> QED BY <1>2, <1>3, <2>1, Unchanged DEF HostTypes, Usable, Installed
<1>5. ASSUME NEW f \in Hosts, NEW y \in CommandStates,
             Undisturbed(r, Host, f), Going(y, r, next, b), next # "end"
      PROVE  Undisturbed(y, Host', f)
  <2>1. Advancing(y, Host')
    BY <1>2, <1>5 DEF Going, Advancing, Forward, AfterUndo
  <2>2. Untouched(y, Host', f)
    BY <1>2, <1>3, <1>5, HostFields
       DEF Going, Undisturbed, Untouched, Early, Forward, Returns, AfterUndo
  <2>3. Receding(y, Host', f)
    BY <1>2, <1>3, <1>5, HostFields DEF Going, Undisturbed, Untouched, Receding, OwnerBack,
       UnitBack, ActivationBack, Returns, AfterUndo
  <2> QED BY <2>1, <2>2, <2>3 DEF Undisturbed
<1> QED BY <1>1, <1>2, <1>3, <1>4, <1>5, ContinueStep

LEMMA UndoReloadStep ==
  ASSUME IInv, NEW c \in Commands, UndoReload(c), Witnessed(c)
  PROVE  IInv'
<1>1. PICK r \in CommandStates : r = cmd[c]
  BY DEF IInv, TypeOK
<1>2. PICK x \in CommandStates, b \in BOOLEAN :
        /\ Going(x, r, r.stage, b) /\ Continue(c, x, AfterUndo(r))
        /\ (loaded' = unit /\ b = r.failures) \/ (loaded' = loaded /\ b = TRUE)
  <2> DEFINE q == [r EXCEPT !.failures = TRUE]
  <2>1. /\ q \in CommandStates /\ r.failures \in BOOLEAN
        /\ Going(q, r, r.stage, TRUE) /\ Going(r, r, r.stage, r.failures)
    BY WithFailure DEF CommandStates
  <2>2. \/ loaded' = unit /\ Continue(c, r, AfterUndo(r))
        \/ loaded' = loaded /\ Continue(c, q, AfterUndo(r))
    BY <1>1 DEF UndoReload
  <2> HIDE DEF q
  <2> QED BY <2>1, <2>2
<1>3. /\ r.stage = "undo_reload" /\ r.stage \notin Settled
      /\ UNCHANGED <<installed, staging, current, registered, unit, owner, service, begun>>
  BY <1>1 DEF UndoReload, At, Settled, Outcomes
<1>4. HostTypes' /\ Usable(current)'
  BY <1>2, <1>3, Unchanged DEF HostTypes, Usable, Installed
<1>5. ASSUME NEW f \in Hosts, NEW y \in CommandStates,
             Undisturbed(r, Host, f), Going(y, r, AfterUndo(r), b), AfterUndo(r) # "end"
      PROVE  Undisturbed(y, Host', f)
  <2>1. Advancing(y, Host')
    BY <1>5 DEF Going, Advancing, Forward, AfterUndo
  <2>2. Untouched(y, Host', f)
    BY <1>2, <1>3, <1>5, HostFields
       DEF Going, Undisturbed, Untouched, Early, Forward, Returns, AfterUndo
  <2>3. Receding(y, Host', f)
    BY <1>2, <1>3, <1>5, HostFields DEF Going, Undisturbed, Untouched, Receding, OwnerBack,
       UnitBack, ActivationBack, Returns, AfterUndo
  <2> QED BY <2>1, <2>2, <2>3 DEF Undisturbed
<1>6. AfterUndo(r) \in Recovering \cup {"end"}
  BY AfterUndoStages
<1> QED BY <1>1, <1>2, <1>3, <1>4, <1>5, <1>6, ContinueStep

\* What a restoration puts in place can be launched.
LEMMA RestoredUsable ==
  ASSUME IInv, NEW r \in CommandStates, Sound(r), CanRestore(r)
  PROVE  /\ Restored(r) \in Activations /\ Usable(Restored(r))
         /\ current # NoActivation => Restored(r) # NoActivation
<1>1. current \in Activations /\ Usable(current) /\ r.back \in Activations
  BY Unchanged DEF HostTypes, CommandStates
<1>2. CASE r.back # NoActivation
  BY <1>1, <1>2 DEF Restored, Sound
<1>3. CASE r.back = NoActivation /\ r.record.previous # NoVersion
  <2>1. CanRollBack(current) /\ Restored(r) = RolledBack(current)
    BY <1>3 DEF CanRestore, Restored
  <2> QED BY <2>1, RolledBackUsable, Present
<1>4. CASE r.back = NoActivation /\ r.record.previous = NoVersion
  BY <1>1, <1>4 DEF Restored
<1> QED BY <1>2, <1>3, <1>4

LEMMA RestoreStep ==
  ASSUME IInv, NEW c \in Commands, Restore(c), Witnessed(c)
  PROVE  IInv'
<1>1. PICK r \in CommandStates : r = cmd[c]
  BY DEF IInv, TypeOK
<1>2. PICK x \in CommandStates, b \in BOOLEAN :
        /\ Going(x, r, r.stage, b) /\ Continue(c, x, AfterRestore(r))
        /\ \/ CanRestore(r) /\ current' = Restored(r) /\ b = r.failures
           \/ current' = current /\ b = TRUE
  <2> DEFINE q == [r EXCEPT !.failures = TRUE]
  <2>1. /\ q \in CommandStates /\ r.failures \in BOOLEAN
        /\ Going(q, r, r.stage, TRUE) /\ Going(r, r, r.stage, r.failures)
    BY WithFailure DEF CommandStates
  <2>2. \/ CanRestore(r) /\ current' = Restored(r) /\ Continue(c, r, AfterRestore(r))
        \/ current' = current /\ Continue(c, q, AfterRestore(r))
    BY <1>1 DEF Restore
  <2> HIDE DEF q
  <2> QED BY <2>1, <2>2
<1>3. /\ r.stage = "restore" /\ r.stage \notin Settled /\ Sound(r)
      /\ UNCHANGED <<installed, staging, registered, unit, loaded, owner, service, begun>>
  BY <1>1 DEF Restore, At, Settled, Outcomes, IInv
<1>4. /\ current' \in Activations /\ Usable(current)'
      /\ current # NoActivation => current' # NoActivation
  <2>1. CASE CanRestore(r) /\ current' = Restored(r)
    BY <1>3, <2>1, RestoredUsable DEF Usable, Installed
  <2>2. CASE current' = current
    BY <1>3, <2>2, Unchanged DEF Usable, Installed, HostTypes
  <2> QED BY <1>2, <2>1, <2>2
<1>5. HostTypes'
  BY <1>3, <1>4, Unchanged DEF HostTypes
<1>6. ASSUME NEW f \in Hosts, NEW y \in CommandStates,
             Undisturbed(r, Host, f), Going(y, r, AfterRestore(r), b), AfterRestore(r) # "end"
      PROVE  Undisturbed(y, Host', f)
  <2>1. Advancing(y, Host')
    BY <1>6 DEF Going, Advancing, Forward, AfterRestore
  <2>2. Untouched(y, Host', f)
    BY <1>2, <1>3, <1>6, HostFields
       DEF Going, Undisturbed, Untouched, Early, Forward, Returns, AfterRestore
  <2>3. Receding(y, Host', f)
    <3>1. Returns(r) /\ ~b => current' = f.current
      BY <1>2, <1>3, <1>6 DEF Restored, Sound, Undisturbed, Untouched
    <3> QED BY <1>2, <1>3, <1>6, <3>1, HostFields DEF Going, Undisturbed, Untouched, Receding,
            OwnerBack, UnitBack, ActivationBack, Returns, AfterRestore
  <2> QED BY <2>1, <2>2, <2>3 DEF Undisturbed
<1>7. AfterRestore(r) \in Recovering \cup {"end"}
  BY AfterUndoStages
<1> QED BY <1>1, <1>2, <1>3, <1>4, <1>5, <1>6, <1>7, ContinueStep

-----------------------------------------------------------------------------
(* The steps that restart and verify. *)

\* What the launcher may start, and nothing at all, are processes.
LEMMA LaunchedTypes ==
  ASSUME HostTypes
  PROVE  Stopped \in Processes /\ \A p \in Launched(current, loaded) : p \in Processes
<1>1. Stopped \in Processes
  BY DEF Stopped, Processes, AnyVersion, Accounts
<1>2. [version |-> current.version, account |-> loaded.account] \in Processes
  BY AccountTypes DEF HostTypes, Activations, Processes
<1> QED BY <1>1, <1>2 DEF Launched

\* The command goes on with y, and perhaps the process is another one.
LEMMA ProcessStep ==
  ASSUME IInv, NEW c \in Commands, NEW r \in CommandStates, r = cmd[c], r.stage \notin Settled,
         NEW y \in CommandStates, NEW p \in Processes, service' = p,
         \/ NewProcess(With(c, y), p)
         \/ Become(c, y) /\ UNCHANGED service,
         Witnessed(c), UNCHANGED <<installed, staging, current, registered, unit, loaded, owner, begun>>,
         y.kind = r.kind, y.record = r.record, y.back = r.back,
         y.stage \notin Early \cup {"prepare"},
         \A f \in Hosts : Undisturbed(r, Host, f) => Undisturbed(y, Host', f)
  PROVE  IInv'
<1>1. HostTypes' /\ Usable(current)'
  BY Unchanged DEF HostTypes, Usable, Installed
<1> DEFINE q == [y EXCEPT !.oldPid = FALSE]
<1>2. Moves(c, y) \/ Moves(c, q)
  BY BecomeMoves, ProcessMoves DEF IInv, TypeOK
<1>3. /\ q \in CommandStates /\ q.kind = r.kind /\ q.record = r.record /\ q.back = r.back
      /\ q.stage = y.stage
  BY Unseen
<1>4. \A f \in Hosts : Undisturbed(r, Host, f) => Undisturbed(q, Host', f)
  BY SameButUnseen
<1> HIDE DEF q
<1>5. CASE Moves(c, y)
  BY <1>1, <1>5, ServiceStep
<1>6. CASE Moves(c, q)
  BY <1>1, <1>3, <1>4, <1>6, ServiceStep
<1> QED BY <1>2, <1>5, <1>6

LEMMA RestartStep ==
  ASSUME IInv, NEW c \in Commands, Restart(c), Witnessed(c)
  PROVE  IInv'
<1>1. PICK r \in CommandStates : r = cmd[c]
  BY DEF IInv, TypeOK
<1>2. PICK p \in Processes :
        p \in Launched(current, loaded) /\ NewProcess(With(c, [r EXCEPT !.stage = "process"]), p)
  BY <1>1, LaunchedTypes, Unchanged DEF Restart
<1> DEFINE y == [r EXCEPT !.stage = "process"]
<1>3. /\ y \in CommandStates
      /\ y.stage = "process" /\ y.kind = r.kind /\ y.want = r.want
      /\ y.back = r.back /\ y.record = r.record /\ y.plan = r.plan
      /\ y.unitMutated = r.unitMutated /\ y.stateMutated = r.stateMutated
      /\ y.during = r.during /\ y.failures = r.failures
  BY DEF CommandStates, Stages
<1>4. NewProcess(With(c, y), p)
  BY <1>2
<1> HIDE DEF y
<1>5. /\ r.stage = "restart" /\ r.stage \notin Settled
      /\ UNCHANGED <<installed, staging, current, registered, unit, loaded, owner, begun>>
      /\ service' = p
  BY <1>1, <1>2 DEF Restart, At, Settled, Outcomes, NewProcess
<1>6. ASSUME NEW f \in Hosts, Undisturbed(r, Host, f) PROVE Undisturbed(y, Host', f)
  <2>1. current = r.record /\ loaded.account = r.want.account
    BY <1>5, <1>6, HostFields DEF Undisturbed, Advancing, Forward
  <2>2. p \in {Stopped, [version |-> r.record.version, account |-> r.want.account]}
    BY <1>2, <2>1 DEF Launched
  <2>3. Advancing(y, Host')
    BY <1>3, <1>5, <1>6, <2>2, HostFields DEF Undisturbed, Advancing, Forward
  <2>4. Untouched(y, Host', f)
    BY <1>3, <1>5, <1>6, HostFields DEF Undisturbed, Untouched, Early, Forward, Returns
  <2>5. Receding(y, Host', f)
    BY <1>3 DEF Receding, OwnerBack, UnitBack, ActivationBack
  <2> QED BY <2>3, <2>4, <2>5 DEF Undisturbed
<1>7. y.stage \notin Early \cup {"prepare"}
  BY <1>3 DEF Early
<1> QED BY <1>1, <1>3, <1>4, <1>5, <1>6, <1>7, ProcessStep

\* A restart that fails and a process that is not the wanted one lead to the
\* same recovery.
LEMMA FailStep ==
  ASSUME IInv, NEW c \in Commands, RestartFails(c) \/ VerifyFails(c), Witnessed(c)
  PROVE  IInv'
<1>1. PICK r \in CommandStates : r = cmd[c]
  BY DEF IInv, TypeOK
<1> DEFINE y == [r EXCEPT !.stage = "restore", !.during = "activate"]
<1>2. /\ y \in CommandStates
      /\ y.stage = "restore" /\ y.kind = r.kind /\ y.want = r.want
      /\ y.back = r.back /\ y.record = r.record /\ y.plan = r.plan
      /\ y.unitMutated = r.unitMutated /\ y.stateMutated = r.stateMutated
      /\ y.during = "activate" /\ y.failures = r.failures
  BY DEF CommandStates, Stages
<1>3. Failing(c) = y
  BY <1>1 DEF Failing
<1> HIDE DEF y
<1>4. /\ r.stage \in {"restart", "process", "attest"} /\ r.stage \notin Settled
      /\ UNCHANGED <<installed, staging, current, registered, unit, loaded, owner, begun>>
  BY <1>1 DEF RestartFails, VerifyFails, At, Settled, Outcomes, host
<1>5. PICK p \in Processes :
        /\ service' = p
        /\ NewProcess(With(c, y), p) \/ (Become(c, y) /\ UNCHANGED service)
  BY <1>3, LaunchedTypes, Unchanged
     DEF RestartFails, VerifyFails, host, HostTypes, NewProcess
<1>6. ASSUME NEW f \in Hosts, Undisturbed(r, Host, f) PROVE Undisturbed(y, Host', f)
  <2>1. Advancing(y, Host')
    BY <1>2 DEF Advancing, Forward
  <2>2. Untouched(y, Host', f)
    BY <1>2, <1>4, <1>6, HostFields DEF Undisturbed, Untouched, Early, Forward, Returns
  <2>3. Receding(y, Host', f)
    BY <1>2 DEF Receding, OwnerBack, UnitBack, ActivationBack
  <2> QED BY <2>1, <2>2, <2>3 DEF Undisturbed
<1>7. y.stage \notin Early \cup {"prepare"}
  BY <1>2 DEF Early
<1> QED BY <1>1, <1>2, <1>4, <1>5, <1>6, <1>7, ProcessStep

LEMMA ObserveProcessStep ==
  ASSUME IInv, NEW c \in Commands, ObserveProcess(c), Witnessed(c)
  PROVE  IInv'
<1>1. PICK r \in CommandStates : r = cmd[c]
  BY DEF IInv, TypeOK
<1> DEFINE y == [r EXCEPT !.stage = "attest"]
<1>2. /\ r.stage = "process" /\ r.stage \notin Settled /\ Become(c, y)
      /\ UNCHANGED <<installed, staging, registered, begun>> /\ UNCHANGED host
  BY <1>1 DEF ObserveProcess, GoTo, At, Settled, Outcomes
<1>3. /\ y \in CommandStates
      /\ y.stage = "attest" /\ y.kind = r.kind /\ y.want = r.want
      /\ y.back = r.back /\ y.record = r.record /\ y.plan = r.plan
      /\ y.unitMutated = r.unitMutated /\ y.stateMutated = r.stateMutated
      /\ y.during = r.during /\ y.failures = r.failures
  BY DEF CommandStates, Stages
<1> HIDE DEF y
<1>4. ASSUME NEW f \in Hosts, Undisturbed(r, Host, f) PROVE Undisturbed(y, Host', f)
  <2>1. Advancing(y, Host')
    BY <1>2, <1>3, <1>4, HostFields DEF Undisturbed, Advancing, Forward
  <2>2. Untouched(y, Host', f)
    BY <1>2, <1>3, <1>4, HostFields DEF Undisturbed, Untouched, Early, Forward, Returns
  <2>3. Receding(y, Host', f)
    BY <1>3 DEF Receding, OwnerBack, UnitBack, ActivationBack
  <2> QED BY <2>1, <2>2, <2>3 DEF Undisturbed
<1>5. y.stage \notin Early \cup {"prepare"}
  BY <1>3 DEF Early
<1>6. /\ service \in Processes /\ service' = service
      /\ UNCHANGED <<installed, staging, current, registered, unit, loaded, owner, begun>>
  BY <1>2, Unchanged DEF host, HostTypes
<1>7. PICK p \in Processes : service' = p
  BY <1>6
<1> QED BY <1>1, <1>2, <1>3, <1>4, <1>5, <1>6, <1>7, ProcessStep

LEMMA AttestStep ==
  ASSUME IInv, NEW c \in Commands, Attest(c), Witnessed(c)
  PROVE  IInv'
<1>1. /\ InFlight(c) /\ End(c, "ok") /\ "ok" \in Outcomes
      /\ UNCHANGED <<installed, staging, registered, begun>> /\ UNCHANGED host
  BY DEF Attest, At, InFlight, Settled, Outcomes
<1>2. HostTypes' /\ Usable(current)' /\ UNCHANGED current
  BY <1>1, Unchanged DEF host
<1> QED BY <1>1, <1>2, EndService

LEMMA RecoverStep ==
  ASSUME IInv, NEW c \in Commands, Recover(c), Witnessed(c)
  PROVE  IInv'
<1>1. PICK r \in CommandStates : r = cmd[c]
  BY DEF IInv, TypeOK
<1>2. /\ InFlight(c) /\ Outcome(r) \in Outcomes /\ "failed" \in Outcomes
      /\ "rollback_failed" \in Outcomes
      /\ UNCHANGED <<installed, staging, current, registered, unit, loaded, owner, begun>>
  BY DEF Recover, At, InFlight, Settled, Outcomes, Outcome
<1>3. Usable(current)'
  BY <1>2, Unchanged DEF Usable, Installed
<1>4. ASSUME NEW p \in Processes, NEW o \in Outcomes, NewProcess(With(c, Ended(o)), p)
      PROVE  IInv'
  <2>1. HostTypes'
    BY <1>2, <1>4, Unchanged DEF HostTypes, NewProcess
  <2> QED BY <1>2, <1>3, <1>4, <2>1, EndService
<1>5. ASSUME NEW o \in Outcomes, End(c, o), UNCHANGED service
      PROVE  IInv'
  <2>1. HostTypes'
    BY <1>2, <1>5, Unchanged DEF HostTypes
  <2> QED BY <1>2, <1>3, <1>5, <2>1, EndService
<1>6. \/ \E p \in Processes, o \in Outcomes : NewProcess(With(c, Ended(o)), p)
      \/ \E o \in Outcomes : End(c, o) /\ UNCHANGED service
  BY <1>1, <1>2, LaunchedTypes, Unchanged DEF Recover
<1> QED BY <1>4, <1>5, <1>6

-----------------------------------------------------------------------------
(* The rest of the host, and the invariant. *)

\* A step that no command takes: the host changes, or a version's bytes.
LEMMA EnvironmentStep ==
  ASSUME IInv, ServiceDies \/ ServiceStarts \/ Tamper, Witnessed("nobody")
  PROVE  IInv'
<1>1. HostTypes /\ Usable(current) /\ cmd \in [Commands -> CommandStates]
  BY Unchanged DEF IInv, TypeOK
<1>2. UNCHANGED <<staging, current, registered, unit, loaded, owner, begun>>
  BY DEF ServiceDies, ServiceStarts, Tamper, host
<1>3. installed' \in [Versions -> {"absent", "good", "empty", "bad"}] /\ Growing
  <2>1. CASE UNCHANGED installed
    BY <1>2, <2>1, Unchanged DEF IInv, TypeOK
  <2>2. CASE Tamper
    BY <1>2, <2>2 DEF Tamper, Growing, IInv, TypeOK
  <2> QED BY <2>1, <2>2 DEF ServiceDies, ServiceStarts
<1>4. PICK p \in Processes :
        service' = p /\ (UNCHANGED cmd \/ NewProcess(cmd, p))
  BY <1>1, LaunchedTypes DEF ServiceDies, ServiceStarts, Tamper, host, HostTypes, NewProcess
<1>5. HostTypes' /\ Usable(current)'
  BY <1>1, <1>2, <1>3, <1>4, Unchanged DEF HostTypes
<1>6. \A d \in Commands : cmd'[d] \in {cmd[d], [cmd[d] EXCEPT !.oldPid = FALSE]}
  BY <1>4 DEF NewProcess
<1>7. cmd' \in [Commands -> CommandStates]
  <2>1. \A d \in Commands : [cmd[d] EXCEPT !.oldPid = FALSE] \in CommandStates
    BY <1>1, Unseen
  <2> QED BY <1>1, <1>4, <2>1 DEF NewProcess
<1>8. found' \in [Commands -> Hosts \cup {Unknown}]
  BY <1>1 DEF IInv, TypeOK, Witnessed, Host, Hosts, HostTypes
<1>9. TypeOK'
  <2>1. \A v \in {current'.version, current'.previous} \ {NoVersion} : installed'[v] # "absent"
    BY <1>5 DEF Usable, Installed
  <2>2. current'.version = current'.previous => current' = NoActivation
    BY <1>5 DEF Usable
  <2>3. staging' \in [Commands -> {"none", "full", "hollow"}] /\ registered' \in BOOLEAN
        /\ begun' \in 0..MaxCommands
    BY <1>2 DEF IInv, TypeOK
  <2> QED BY <1>3, <1>5, <1>7, <1>8, <2>1, <2>2, <2>3 DEF TypeOK, HostTypes
<1>10. Known'
  BY <1>2, <1>3, Unchanged
<1>11. ASSUME NEW d \in Commands PROVE Sound(cmd[d])' /\ Accounted(d)'
  <2>1. PICK r \in CommandStates : r = cmd[d]
    BY <1>1
  <2> DEFINE q == [r EXCEPT !.oldPid = FALSE]
  <2>2. Sound(r) /\ Accounted(d)
    BY <2>1 DEF IInv
  <2>3. q \in CommandStates /\ q.stage = r.stage /\ Sound(q)
    BY <2>2, Unseen, SameButUnseen
  <2>4. Sound(r)' /\ Sound(q)'
    BY <1>3, <2>2, <2>3, SoundGrows
  <2>5. cmd'[d] = r \/ cmd'[d] = q
    BY <1>6, <2>1
  <2>6. InFlight(d)' /\ found'[d] # Unknown
        => InFlight(d) /\ found[d] # Unknown /\ found'[d] = found[d] /\ Host' = Host
    BY <2>1, <2>3, <2>5, ReleasesAssumption DEF Witnessed, InFlight
  <2>7. InFlight(d)' /\ found'[d] # Unknown => Undisturbed(r, Host', found'[d])
    BY <2>1, <2>2, <2>6 DEF Accounted
  <2>8. InFlight(d)' /\ found'[d] # Unknown => Undisturbed(q, Host', found'[d])
    BY <2>7, SameButUnseen
  <2> HIDE DEF q
  <2>9. Accounted(d)'
    BY <2>5, <2>7, <2>8 DEF Accounted
  <2> QED BY <2>4, <2>5, <2>9
<1> QED BY <1>9, <1>10, <1>11 DEF IInv

LEMMA NextIInv == IInv /\ [Next]_vars => IInv'
<1> SUFFICES ASSUME IInv, [Next]_vars PROVE IInv'
  OBVIOUS
<1>1. ASSUME NEW c \in Commands, Step(c), Witnessed(c) PROVE IInv'
  BY <1>1, BeginStep, RefuseStep, InstallStep, PublishStep, ResolveStep, ActivateStep,
     PrepareStep, CleanFilesStep, CleanDirectoriesStep, PlanStep, WriteUnitStep, ReloadStep,
     CheckIdentityStep, ChownStep, ChownFailsStep, ConfigureFailsStep, UndoOwnerStep,
     UndoUnitStep, UndoReloadStep, RestoreStep, RestartStep, FailStep, ObserveProcessStep,
     AttestStep, RecoverStep, KillStep DEF Step
<1>2. CASE (ServiceDies \/ ServiceStarts \/ Tamper) /\ Witnessed("nobody")
  BY <1>2, EnvironmentStep
<1>3. CASE UNCHANGED vars
  BY <1>3 DEF IInv, TypeOK, Known, Sound, Accounted, InFlight, Usable, Installed, Host, vars,
     Undisturbed, Advancing, Untouched, Receding
<1> QED BY <1>1, <1>2, <1>3 DEF Next

LEMMA InitIInv == Init => IInv
<1> SUFFICES ASSUME Init PROVE IInv
  OBVIOUS
<1>1. cmd = [c \in Commands |-> NoCommand] /\ found = [c \in Commands |-> Unknown]
  BY DEF Init
<1>2. NoCommand \in CommandStates /\ NoActivation \in Activations /\ Stopped \in Processes
  BY DEF NoCommand, CommandStates, NoActivation, NoVersion, NoPlan, NoUnit, Stages, Outcomes,
     AnyVersion, AnyUnit, Activations, Owners, Accounts, Stopped, Processes
<1>3. Sound(NoCommand)
  BY NothingUsable DEF NoCommand, Sound, Returns, Fetching, Cleaning
<1>4. \A c \in Commands : Sound(cmd[c]) /\ Accounted(c)
  BY <1>1, <1>3 DEF Accounted
<1>5. /\ installed \in [Versions -> {"absent", "good", "empty", "bad"}]
      /\ HostTypes /\ Known /\ Usable(current)
  <2>1. CASE Fresh
    BY <1>2, <2>1, NothingUsable DEF Fresh, HostTypes, Known, AnyUnit, NoUnit, Owners, Accounts
  <2>2. CASE AtRest
    <3>1. PICK a \in Products, u \in Units :
            /\ installed = [v \in Versions |->
                 IF v \in {a.version, a.previous} THEN "good" ELSE "absent"]
            /\ current = a /\ registered = TRUE
            /\ unit = u /\ loaded = u /\ owner = u.account
            /\ service = [version |-> a.version, account |-> u.account]
      BY <2>2 DEF AtRest
    <3>2. /\ a \in [version : Versions, previous : Versions \cup {"none"}]
          /\ a.version # a.previous /\ "none" \notin Versions
      BY ReleasesAssumption
    <3>3. u.account \in Accounts
      BY DEF Accounts
    <3>4. HostTypes
      BY <3>1, <3>2, <3>3 DEF HostTypes, Activations, AnyVersion, NoVersion, AnyUnit, Owners,
         Processes
    <3>5. Usable(a)
      BY <3>1, <3>2 DEF Usable, Installed, NoVersion
    <3>6. a # NoActivation
      BY <3>2 DEF NoActivation, NoVersion
    <3> QED BY <3>1, <3>4, <3>5, <3>6 DEF Known
  <2> QED BY <2>1, <2>2 DEF Init
<1>6. TypeOK
  <2>1. /\ staging \in [Commands -> {"none", "full", "hollow"}] /\ begun \in 0..MaxCommands
        /\ cmd \in [Commands -> CommandStates] /\ found \in [Commands -> Hosts \cup {Unknown}]
    BY <1>1, <1>2, ReleasesAssumption DEF Init
  <2>2. \A v \in {current.version, current.previous} \ {NoVersion} : installed[v] # "absent"
    BY <1>5 DEF Usable, Installed
  <2>3. current.version = current.previous => current = NoActivation
    BY <1>5 DEF Usable
  <2> QED BY <1>5, <2>1, <2>2, <2>3 DEF TypeOK, HostTypes, Known
<1> QED BY <1>4, <1>5, <1>6 DEF IInv

THEOREM Invariance == Spec => []IInv
  BY InitIInv, NextIInv, PTL DEF Spec

\* The types hold, and the launcher can always find the versions the
\* activation names: no interleaving of commands, kills and failures removes
\* a version directory current.json depends on.
THEOREM TypeCorrect == Spec => []TypeOK
<1>1. IInv => TypeOK
  BY DEF IInv
<1> QED BY <1>1, Invariance, PTL

-----------------------------------------------------------------------------
(* What the outcome of a command tells. *)

\* The actions with which a command goes on, or ends in another way.
GoesOn(c) ==
  \/ Begin(c) \/ Install(c) \/ Publish(c) \/ Resolve(c) \/ Activate(c) \/ CleanFiles(c)
  \/ CleanDirectories(c) \/ Plan(c) \/ WriteUnit(c) \/ Reload(c) \/ CheckIdentity(c)
  \/ ChownFails(c) \/ ConfigureFails(c) \/ UndoOwner(c) \/ Restart(c) \/ RestartFails(c)
  \/ ObserveProcess(c) \/ VerifyFails(c) \/ Kill(c)

LEMMA GoingOn ==
  ASSUME IInv, NEW c \in Commands, InFlight(c), GoesOn(c)
  PROVE  cmd'[c].stage \notin {"ok", "failed"}
<1>1. cmd \in [Commands -> CommandStates] /\ cmd[c] \in CommandStates
  BY DEF IInv, TypeOK
<1>2. ASSUME NEW y, Become(c, y) PROVE cmd'[c] = y
  BY <1>1, <1>2 DEF Become, With
<1>3. ASSUME NEW s \in Stages, GoTo(c, s) PROVE cmd'[c].stage = s
  BY <1>1, <1>3, StageOnly DEF GoTo, Become, With
<1>4. CASE Begin(c)
  BY <1>4 DEF Begin
<1>5. CASE Install(c) \/ Publish(c) \/ Reload(c) \/ CheckIdentity(c) \/ ConfigureFails(c)
           \/ ObserveProcess(c) \/ CleanFiles(c) \/ CleanDirectories(c)
  <2>1. \E s \in {"resolve", "staged", "identity", "chown", "undo_owner", "attest", "cleaned",
                  "plan"} : GoTo(c, s)
    BY <1>5 DEF Install, Publish, Reload, CheckIdentity, ConfigureFails, ObserveProcess,
       CleanFiles, CleanDirectories
  <2> QED BY <1>3, <2>1 DEF Stages
<1>6. CASE Activate(c)
  BY <1>3, <1>6 DEF Activate, AfterActivation, Stages
<1>7. CASE Resolve(c)
  <2>1. PICK s \in {"prepare", "plan", "activate"} :
          \E v : Become(c, [cmd[c] EXCEPT !.record = v, !.stage = s])
    BY <1>7 DEF Resolve, AfterActivation
  <2> QED BY <1>1, <1>2, <2>1 DEF CommandStates
<1>8. CASE Plan(c) \/ WriteUnit(c) \/ ChownFails(c)
  <2>1. CASE Plan(c)
    <3>1. PICK s \in {"identity", "write"} :
            \E v, w : Become(c, [cmd[c] EXCEPT !.plan = v, !.oldPid = w, !.stage = s])
      BY <2>1 DEF Plan
    <3> QED BY <1>1, <1>2, <3>1 DEF CommandStates
  <2>2. CASE WriteUnit(c)
    <3>1. Become(c, [cmd[c] EXCEPT !.unitMutated = TRUE, !.stage = "reload"])
      BY <2>2 DEF WriteUnit
    <3> QED BY <1>1, <1>2, <3>1 DEF CommandStates
  <2>3. CASE ChownFails(c)
    <3>1. Become(c, [cmd[c] EXCEPT !.stateMutated = TRUE, !.stage = "undo_owner"])
      BY <2>3 DEF ChownFails
    <3> QED BY <1>1, <1>2, <3>1 DEF CommandStates
  <2> QED BY <1>8, <2>1, <2>2, <2>3
<1>9. CASE UndoOwner(c)
  <2>1. PICK x \in CommandStates : Become(c, [x EXCEPT !.stage = "undo_unit"])
    BY <1>1, <1>9, WithFailure DEF UndoOwner, Continue
  <2>2. [x EXCEPT !.stage = "undo_unit"].stage = "undo_unit"
    BY StageOnly DEF Stages
  <2> QED BY <1>2, <2>1, <2>2
<1>10. CASE Restart(c)
  <2> DEFINE y == [cmd[c] EXCEPT !.stage = "process"]
  <2>1. y \in CommandStates /\ y.stage = "process"
    BY <1>1, StageOnly DEF Stages
  <2>2. PICK p : NewProcess(With(c, y), p)
    BY <1>10 DEF Restart
  <2> HIDE DEF y
  <2>3. cmd'[c] = [y EXCEPT !.oldPid = FALSE]
    BY <1>1, <2>2 DEF NewProcess, With
  <2> QED BY <2>1, <2>3, Unseen
<1>11. CASE RestartFails(c) \/ VerifyFails(c)
  <2>1. Failing(c) \in CommandStates /\ Failing(c).stage = "restore"
    BY <1>1 DEF Failing, CommandStates, Stages
  <2>2. \/ Become(c, Failing(c))
        \/ \E p : NewProcess(With(c, Failing(c)), p)
    BY <1>11 DEF RestartFails, VerifyFails
  <2>3. cmd'[c] = Failing(c) \/ cmd'[c] = [Failing(c) EXCEPT !.oldPid = FALSE]
    BY <1>1, <2>2 DEF NewProcess, Become, With
  <2> QED BY <2>1, <2>3, Unseen
<1>12. CASE Kill(c)
  BY <1>1, <1>12, EndedState DEF Kill, End, Become, With, Outcomes
<1> QED BY <1>4, <1>5, <1>6, <1>7, <1>8, <1>9, <1>10, <1>11, <1>12 DEF GoesOn

\* A command ends only by a step of its own.
LEMMA OwnEnd ==
  ASSUME IInv, [Next]_vars, NEW c \in Commands, InFlight(c), cmd'[c].stage \in Settled
  PROVE  Step(c)
<1>1. cmd \in [Commands -> CommandStates] /\ cmd[c] \in CommandStates
  BY DEF IInv, TypeOK
<1>2. cmd'[c] # cmd[c] /\ cmd'[c] # [cmd[c] EXCEPT !.oldPid = FALSE]
  BY <1>1, Unseen DEF InFlight
<1>3. ASSUME NEW d \in Commands, Step(d), d # c PROVE FALSE
  <2>1. \/ \E y : Become(d, y)
        \/ \E y, p : NewProcess(With(d, y), p)
    BY <1>3 DEF Step, Begin, Refuse, Install, Publish, Resolve, Activate, Prepare, CleanFiles,
       CleanDirectories, Plan, WriteUnit, Reload, CheckIdentity, Chown, ChownFails,
       ConfigureFails, UndoOwner, UndoUnit, UndoReload, Restore, Restart, RestartFails,
       ObserveProcess, Attest, VerifyFails, Recover, Kill, GoTo, End, Continue
  <2>2. ASSUME NEW y, Become(d, y) PROVE cmd'[c] = cmd[c]
    BY <1>1, <1>3, <2>2 DEF Become, With
  <2>3. ASSUME NEW y, NEW p, NewProcess(With(d, y), p)
        PROVE  cmd'[c] = [cmd[c] EXCEPT !.oldPid = FALSE]
    BY <1>1, <1>3, <2>3 DEF NewProcess, With
  <2> QED BY <1>2, <2>1, <2>2, <2>3
<1>4. CASE ServiceDies \/ ServiceStarts \/ Tamper
  BY <1>2, <1>4 DEF ServiceDies, ServiceStarts, Tamper, NewProcess
<1>5. CASE UNCHANGED vars
  BY <1>2, <1>5 DEF vars
<1> QED BY <1>3, <1>4, <1>5 DEF Next

\* What is known of a command in flight that still knows what it found.
LEMMA KnownOf ==
  ASSUME IInv, NEW c \in Commands, InFlight(c), found[c] # Unknown
  PROVE  /\ cmd[c] \in CommandStates /\ Sound(cmd[c])
         /\ Undisturbed(cmd[c], Host, found[c])
  BY DEF IInv, TypeOK, Accounted

\* How a command ended is not lost with the process it saw.
LEMMA EndedStage ==
  ASSUME NEW o \in Outcomes
  PROVE  Ended(o).stage = o /\ [Ended(o) EXCEPT !.oldPid = FALSE].stage = o
<1> DEFINE e == Ended(o)
<1>1. e \in CommandStates /\ e.stage = o
  BY EndedState
<1> HIDE DEF e
<1>2. [e EXCEPT !.oldPid = FALSE].stage = o
  BY <1>1, Unseen
<1> QED BY <1>1, <1>2 DEF e

LEMMA NextRestores ==
  ASSUME IInv, [Next]_vars, NEW c \in Commands
  PROVE  Restores(c)
<1> DEFINE f == found[c]
<1> SUFFICES ASSUME cmd[c].kind \in {"update", "rollback"}, InFlight(c),
                    cmd'[c].stage = "failed", f # Unknown
             PROVE  /\ current' = f.current
                    /\ unit' = f.unit /\ loaded' \in {f.loaded, f.unit}
                    /\ owner' \in {f.owner, f.loaded.account}
                    /\ f.service # Stopped =>
                         service' \in {f.service, Stopped,
                           [version |-> f.current.version, account |-> loaded'.account]}
  BY DEF Restores
<1>1. PICK r \in CommandStates :
        r = cmd[c] /\ Sound(r) /\ Undisturbed(r, Host, f) /\ Returns(r)
  BY KnownOf DEF Returns
<1> HIDE DEF f
<1>2. cmd \in [Commands -> CommandStates]
  BY DEF IInv, TypeOK
<1>3. Step(c)
  BY OwnEnd DEF Settled, Outcomes
<1>4. CASE Refuse(c)
  BY <1>1, <1>4, HostFields DEF Refuse, Undisturbed, Untouched, Early, host
<1>5. CASE Prepare(c)
  BY <1>1, <1>5 DEF Prepare, At, Undisturbed, Untouched, Returns
<1>6. ASSUME NEW x \in CommandStates, NEW b \in BOOLEAN, NEW next,
             Going(x, r, r.stage, b), Continue(c, x, next), next # "failed"
      PROVE  next = "end" /\ ~b
  <2>1. CASE next # "end"
    <3> DEFINE y == [x EXCEPT !.stage = next]
    <3>1. cmd'[c] = y
      BY <1>2, <1>6, <2>1 DEF Continue, Become, With
    <3>2. y.stage = next
      BY DEF CommandStates
    <3> QED BY <1>6, <3>1, <3>2
  <2>2. CASE next = "end"
    <3>1. cmd'[c] = Ended(Outcome(x))
      BY <1>2, <1>6, <2>2 DEF Continue, End, Become, With
    <3>2. Outcome(x) \in Outcomes
      BY DEF Outcome, Outcomes
    <3>3. Outcome(x) = "failed"
      BY <3>1, <3>2, EndedState
    <3> QED BY <1>6, <2>2, <3>3 DEF Outcome, Going
  <2> QED BY <2>1, <2>2
<1> DEFINE q == [r EXCEPT !.failures = TRUE]
<1>7. /\ q \in CommandStates /\ r.failures \in BOOLEAN
      /\ Going(q, r, r.stage, TRUE) /\ Going(r, r, r.stage, r.failures)
  BY WithFailure DEF CommandStates
<1>8. AfterUndo(r) # "end" /\ AfterUndo(r) # "failed" /\ AfterRestore(r) # "failed"
  BY <1>1 DEF AfterUndo, AfterRestore, Returns
<1>9. CASE UndoUnit(c)
  <2>1. \E x \in {r, q}, next \in {"undo_reload", AfterUndo(r)} : Continue(c, x, next)
    BY <1>1, <1>9 DEF UndoUnit
  <2> QED BY <1>6, <1>7, <1>8, <2>1
<1>10. CASE UndoReload(c)
  <2>1. \E x \in {r, q} : Continue(c, x, AfterUndo(r))
    BY <1>1, <1>10 DEF UndoReload
  <2> QED BY <1>6, <1>7, <1>8, <2>1
<1>11. CASE Restore(c)
  <2>1. \/ CanRestore(r) /\ current' = Restored(r) /\ Continue(c, r, AfterRestore(r))
        \/ Continue(c, q, AfterRestore(r))
    BY <1>1, <1>11 DEF Restore
  <2>2. /\ r.stage = "restore"
        /\ UNCHANGED <<unit, loaded, owner, service>>
    BY <1>1, <1>11 DEF Restore, At
  <2> HIDE DEF q
  <2>3. AfterRestore(r) = "end" /\ ~r.failures /\ current' = Restored(r)
    BY <1>6, <1>7, <1>8, <2>1
  <2>4. r.during = "configure"
    BY <2>3 DEF AfterRestore, CommandStates
  <2>5. current' = f.current
    BY <1>1, <2>3 DEF Restored, Sound, Undisturbed, Untouched
  <2>6. unit = f.unit /\ loaded \in {f.loaded, f.unit} /\ owner \in {f.owner, f.loaded.account}
    BY <1>1, <2>2, <2>3, <2>4, HostFields DEF Undisturbed, Receding, OwnerBack, UnitBack
  <2>7. service = f.service
    BY <1>1, <2>2, <2>4, HostFields DEF Undisturbed, Untouched
  <2> QED BY <2>2, <2>5, <2>6, <2>7
<1>12. CASE Recover(c)
  <2>1. r.stage = "recover" /\ UNCHANGED <<current, unit, loaded, owner>>
    BY <1>1, <1>12 DEF Recover, At
  <2>2. ASSUME NEW o \in Outcomes, cmd'[c] \in {Ended(o), [Ended(o) EXCEPT !.oldPid = FALSE]}
        PROVE  o = "failed"
    BY <2>2, EndedStage
  <2>3. \/ /\ r.plan.running /\ ~r.failures /\ service' \in Launched(current, loaded)
        \/ ~r.plan.running /\ ~r.failures
    <3>1. CASE r.plan.running /\ ~r.failures
      <4>1. ASSUME NEW p, NewProcess(With(c, Ended("rollback_failed")), p) PROVE FALSE
        <5>1. cmd'[c] = [Ended("rollback_failed") EXCEPT !.oldPid = FALSE]
          BY <1>2, <4>1 DEF NewProcess, With
        <5> QED BY <2>2, <5>1 DEF Outcomes
      <4>2. ASSUME End(c, "rollback_failed") PROVE FALSE
        <5>1. cmd'[c] = Ended("rollback_failed")
          BY <1>2, <4>2 DEF End, Become, With
        <5> QED BY <2>2, <5>1 DEF Outcomes
      <4> QED BY <1>1, <1>12, <3>1, <4>1, <4>2 DEF Recover, NewProcess
    <3>2. CASE ~(r.plan.running /\ ~r.failures)
      <4>1. cmd'[c] = Ended(Outcome(r))
        BY <1>1, <1>2, <1>12, <3>2 DEF Recover, End, Become, With
      <4>2. Outcome(r) \in Outcomes
        BY DEF Outcome, Outcomes
      <4>3. Outcome(r) = "failed"
        BY <2>2, <4>1, <4>2
      <4> QED BY <3>2, <4>3 DEF Outcome
    <3> QED BY <3>1, <3>2
  <2>4. /\ current = f.current /\ unit = f.unit /\ loaded \in {f.loaded, f.unit}
        /\ owner \in {f.owner, f.loaded.account}
    BY <1>1, <2>1, <2>3, HostFields
       DEF Undisturbed, Receding, OwnerBack, UnitBack, ActivationBack
  <2>5. r.plan.running <=> f.service # Stopped
    BY <1>1, <2>1 DEF Undisturbed, Untouched, Receding
  <2> QED BY <2>1, <2>3, <2>4, <2>5 DEF Launched
<1>13. CASE Chown(c) \/ Attest(c)
  <2>1. \/ End(c, "ok")
        \/ Become(c, [r EXCEPT !.stateMutated = TRUE, !.stage = "restart"])
    BY <1>1, <1>13 DEF Chown, Attest
  <2>2. [r EXCEPT !.stateMutated = TRUE, !.stage = "restart"].stage = "restart"
    BY DEF CommandStates
  <2>3. CASE End(c, "ok")
    BY <1>2, <2>3, EndedState DEF End, Become, With, Outcomes
  <2>4. CASE Become(c, [r EXCEPT !.stateMutated = TRUE, !.stage = "restart"])
    BY <1>2, <2>2, <2>4 DEF Become, With
  <2> QED BY <2>1, <2>3, <2>4
<1>14. CASE GoesOn(c)
  BY <1>14, GoingOn
<1> QED
  BY <1>3, <1>4, <1>5, <1>9, <1>10, <1>11, <1>12, <1>13, <1>14 DEF Step, GoesOn

LEMMA NextAgrees ==
  ASSUME IInv, [Next]_vars, NEW c \in Commands
  PROVE  Agrees(c)
<1> DEFINE f == found[c]
<1> SUFFICES ASSUME InFlight(c), cmd'[c].stage = "ok", f # Unknown
             PROVE  /\ unit' = cmd[c].want
                    /\ loaded'.account = cmd[c].want.account /\ owner' = cmd[c].want.account
                    /\ cmd[c].kind # "repair" =>
                         /\ current' = cmd[c].record
                         /\ service' = [version |-> cmd[c].record.version,
                                        account |-> cmd[c].want.account]
  BY DEF Agrees
<1>1. PICK r \in CommandStates : r = cmd[c] /\ Undisturbed(r, Host, f)
  BY KnownOf
<1> HIDE DEF f
<1>2. cmd \in [Commands -> CommandStates]
  BY DEF IInv, TypeOK
<1>3. Step(c)
  BY OwnEnd DEF Settled, Outcomes
<1>4. ASSUME NEW o \in Outcomes \ {"ok"},
             End(c, o) \/ \E p : NewProcess(With(c, Ended(o)), p)
      PROVE  FALSE
  <2>1. cmd'[c] = Ended(o) \/ cmd'[c] = [Ended(o) EXCEPT !.oldPid = FALSE]
    BY <1>2, <1>4 DEF End, Become, With, NewProcess
  <2> QED BY <2>1, EndedStage
<1>5. CASE Attest(c)
  <2>1. r.stage = "attest" /\ service # Stopped /\ UNCHANGED host
    BY <1>1, <1>5 DEF Attest, At
  <2>2. /\ unit = r.want /\ loaded.account = r.want.account /\ owner = r.want.account
        /\ r.kind # "repair" /\ current = r.record
        /\ service = [version |-> r.record.version, account |-> r.want.account]
    BY <1>1, <2>1, HostFields DEF Undisturbed, Advancing, Forward
  <2> QED BY <1>1, <2>1, <2>2 DEF host
<1>6. CASE Chown(c)
  <2>1. /\ r.stage = "chown" /\ owner' = r.want.account /\ UNCHANGED <<unit, loaded>>
        /\ \/ r.kind = "repair"
           \/ Become(c, [r EXCEPT !.stateMutated = TRUE, !.stage = "restart"])
    BY <1>1, <1>6 DEF Chown, At, Configured
  <2>2. [r EXCEPT !.stateMutated = TRUE, !.stage = "restart"].stage = "restart"
    BY DEF CommandStates
  <2>3. r.kind = "repair"
    BY <1>2, <2>1, <2>2 DEF Become, With
  <2>4. unit = r.want /\ loaded.account = r.want.account
    BY <1>1, <2>1, HostFields DEF Undisturbed, Advancing
  <2> QED BY <1>1, <2>1, <2>3, <2>4
<1>7. CASE Refuse(c) \/ (Prepare(c) /\ End(c, "failed"))
  BY <1>4, <1>7 DEF Refuse, Outcomes
<1>8. CASE GoTo(c, "plan")
  BY <1>1, <1>2, <1>8, StageOnly DEF GoTo, Become, With, Stages
<1>9. CASE UndoUnit(c) \/ UndoReload(c) \/ Restore(c)
  <2>1. PICK x \in CommandStates, next \in Recovering \cup {"end"} : Continue(c, x, next)
    <3>1. [r EXCEPT !.failures = TRUE] \in CommandStates
      BY WithFailure
    <3>2. \E x \in {r, [r EXCEPT !.failures = TRUE]},
             next \in {"undo_reload", AfterUndo(r), AfterRestore(r)} : Continue(c, x, next)
      BY <1>1, <1>9 DEF UndoUnit, UndoReload, Restore
    <3> QED BY <3>1, <3>2, AfterUndoStages DEF Recovering
  <2>2. CASE next = "end"
    <3>1. Outcome(x) \in Outcomes \ {"ok"}
      BY DEF Outcome, Outcomes
    <3> QED BY <1>4, <2>1, <2>2, <3>1 DEF Continue
  <2>3. CASE next # "end"
    <3>1. next \in Stages /\ next # "ok"
      BY <2>3 DEF Recovering, Stages
    <3> DEFINE y == [x EXCEPT !.stage = next]
    <3>2. y.stage = next
      BY <3>1, StageOnly
    <3>3. cmd'[c] = y
      BY <1>2, <2>1, <2>3 DEF Continue, Become, With
    <3> HIDE DEF y
    <3> QED BY <3>1, <3>2, <3>3
  <2> QED BY <2>2, <2>3
<1>10. CASE Recover(c)
  <2>1. Outcome(r) \in Outcomes \ {"ok"} /\ {"failed", "rollback_failed"} \subseteq Outcomes
    BY DEF Outcome, Outcomes
  <2>2. \E o \in Outcomes \ {"ok"} : End(c, o) \/ \E p : NewProcess(With(c, Ended(o)), p)
    BY <1>1, <1>10, <2>1 DEF Recover
  <2> QED BY <1>4, <2>2
<1>11. CASE GoesOn(c)
  BY <1>11, GoingOn
<1> QED
  BY <1>3, <1>5, <1>6, <1>7, <1>8, <1>9, <1>10, <1>11 DEF Step, GoesOn, Prepare

\* A failure can be believed: an update or a rollback that reports an ordinary
\* failure has put back the activation, the unit and the owner of the state,
\* whichever of its commands failed, and left no process of the release it tried.
THEOREM FailureBelievable == Spec => FailureRestores
<1>1. IInv /\ [Next]_vars => \A c \in Commands : Restores(c)
  BY NextRestores
<1> QED BY <1>1, Invariance, PTL DEF Spec, FailureRestores

\* So can a success: the unit, the loaded account, the owner of the state, the
\* activation and the process agree, whatever earlier commands had left.
THEOREM SuccessBelievable == Spec => SuccessAgrees
<1>1. IInv /\ [Next]_vars => \A c \in Commands : Agrees(c)
  BY NextAgrees
<1> QED BY <1>1, Invariance, PTL DEF Spec, SuccessAgrees
=============================================================================
