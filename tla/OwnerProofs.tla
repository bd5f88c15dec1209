------------------------------ MODULE OwnerProofs ------------------------------
(* Theorems about the owner's changes to the providers, for every set of providers, *)
(* of credential references and of calls, and any number of restarts; and about the *)
(* sessions, host tokens, limiters and the secret that let the owner in; and about  *)
(* the record of lifecycle operations, over any number of writes and processes.     *)
EXTENDS OwnerConsole, SequenceTheorems, WellFoundedInduction, TLAPS

-------------------------------------------------------------------------------
(* The inductive invariant.                                                         *)

MutationSteps == {"activate", "restore", "reactivate", "recover"}

\* Each queue is held by the call whose step says so, and by no other.
Engaged(x) == x \in Intent /\ x.step # "queued" /\ x.op \in Orchestrated

Queues ==
  \A i \in Intents :
    /\ mutation = i <=> intent[i].step \in MutationSteps
    /\ saga = i <=> Engaged(intent[i])

\* What a rollback of x makes of the provider file.
Undone(x) == [stored EXCEPT ![x.id] = x.undo]

\* The form of a running call: only the orchestrator stages, cleans up and takes back.
Shaped(x) ==
  /\ x.op \notin Orchestrated =>
       x.staged = NoRef /\ x.step \notin {"credential", "unstage", "cleanup", "drop"}
  /\ x.step = "queued" => x.staged = NoRef
  /\ x.step \in {"credential", "unstage"} => x.staged # NoRef
  /\ x.staged \in minted \cup {NoRef}

\* What it saves or puts back has its credential, and a call that has not come from the
\* orchestrator puts back the reference it found.
Grounded(x) ==
  /\ x.step = "save" /\ x.op \in {"add", "auth"} => x.cand.ref \in creds \cup {NoRef}
  /\ x.step \in MutationSteps => x.undo.ref \in creds \cup {NoRef}
  /\ x.step \in MutationSteps /\ x.op \notin Orchestrated => x.undo.ref = stored[x.id].ref

\* A staged credential that will be taken back is named by nobody; one that is being
\* saved is not named once the rollback is done.  A reference that is about to be
\* dropped is named by nobody, and nothing is active that is not stored by then.
Fresh(x) ==
  /\ x.staged # NoRef /\ x.step \in {"credential", "probe", "save", "unstage"} =>
       x.staged \notin Named(stored) \cup Named(active)
  /\ x.staged # NoRef /\ x.step \in {"activate", "restore"} =>
       x.staged \notin Named(Undone(x)) \cup Named(active)
  /\ x.staged # NoRef /\ x.step = "recover" => x.staged \notin Named(Undone(x))
  /\ x.staged # NoRef /\ x.step = "reactivate" => x.staged \notin Named(stored)
  /\ x.step \in {"cleanup", "drop"} => Named(active) \subseteq Named(stored)
  /\ x.step = "drop" => x.prior.ref \notin Named(stored)

\* How far the disk is from what is active while a mutation is on.
Placed(x) ==
  /\ x.step \in {"activate", "restore"} /\ ~ diverged => active = Undone(x)
  /\ x.step = "recover" => ~ diverged /\ active = stored

Careful(x) == Shaped(x) /\ Grounded(x) /\ Fresh(x) /\ Placed(x)

AllCareful == \A i \in Intents : intent[i] \in Intent => Careful(intent[i])

IInv == SagaTypeOK /\ Queues /\ AllCareful /\ CredentialsStand /\ DiskIsActive

-------------------------------------------------------------------------------
(* Records and rows.                                                                *)

LEMMA NoIntentIsNone ==
  /\ NoIntent \notin Intent /\ Answered \notin Intent
  /\ NoIntent.step = "none" /\ Answered.step = "answered"
  /\ Missing.ref = NoRef
  BY DEF NoIntent, Answered, Intent, Missing

LEMMA CallRuns ==
  ASSUME SagaTypeOK, NEW i \in Intents, NEW s, At(i, s), s # "none", s # "answered"
  PROVE  intent[i] \in Intent /\ intent[i].step = s
  BY NoIntentIsNone DEF SagaTypeOK, At

LEMMA RowsHaveReferences ==
  ASSUME NEW row \in Row \cup {Missing}
  PROVE  row.ref \in Refs \cup {NoRef}
  BY NoIntentIsNone DEF Row

LEMMA NamedMembers ==
  ASSUME NEW rows, NEW r
  PROVE  r \in Named(rows) <=> r # NoRef /\ \E p \in Providers : rows[p].ref = r
  BY DEF Named

\* A row that keeps its reference keeps the names.
LEMMA SameNames ==
  ASSUME NEW rows \in [Providers -> Row \cup {Missing}], NEW p \in Providers,
         NEW row \in Row \cup {Missing}, row.ref = rows[p].ref
  PROVE  Named([rows EXCEPT ![p] = row]) = Named(rows)
<1> DEFINE new == [rows EXCEPT ![p] = row]
<1>1. \A q \in Providers : new[q].ref = rows[q].ref
  OBVIOUS
<1> HIDE DEF new
<1>2. \A r : r \in Named(new) <=> r \in Named(rows)
  BY <1>1, NamedMembers
<1>3. Named(new) = Named(rows)
  BY <1>2
<1> QED
  BY <1>3 DEF new

\* A row brings in at most its own reference.
LEMMA OneMoreName ==
  ASSUME NEW rows \in [Providers -> Row \cup {Missing}], NEW p \in Providers,
         NEW row \in Row \cup {Missing}
  PROVE  \A r \in Named([rows EXCEPT ![p] = row]) : r # NoRef /\ (r = row.ref \/ r \in Named(rows))
<1> DEFINE new == [rows EXCEPT ![p] = row]
<1>1. \A q \in Providers : new[q].ref = row.ref \/ new[q].ref = rows[q].ref
  OBVIOUS
<1> HIDE DEF new
<1>2. \A r \in Named(new) : r # NoRef /\ (r = row.ref \/ r \in Named(rows))
  BY <1>1, NamedMembers
<1> QED
  BY <1>2 DEF new

-------------------------------------------------------------------------------
(* What a step of one call leaves of the others.                                    *)

\* x is what another call than i is at.
AnotherCall(i, x) == \E j \in Intents \ {i} : intent[j] = x

\* The queues, when call i comes to be at y and enters or leaves them accordingly.
LEMMA CallMoves ==
  ASSUME IInv, NEW i \in Intents, NEW y \in Intent \cup {Answered}, Becomes(i, y),
         y.step \in MutationSteps => mutation \in {i, Nobody},
         Engaged(y) => saga \in {i, Nobody},
         mutation' = IF y.step \in MutationSteps THEN i
                     ELSE IF mutation = i THEN Nobody ELSE mutation,
         saga' = IF Engaged(y) THEN i ELSE IF saga = i THEN Nobody ELSE saga
  PROVE  /\ intent' \in [Intents -> Intent \cup {NoIntent, Answered}]
         /\ mutation' \in Intents \cup {Nobody} /\ saga' \in Intents \cup {Nobody}
         /\ intent'[i] = y /\ \A j \in Intents \ {i} : intent'[j] = intent[j]
         /\ Queues'
<1>1. intent \in [Intents -> Intent \cup {NoIntent, Answered}] /\ Queues
      /\ mutation \in Intents \cup {Nobody} /\ saga \in Intents \cup {Nobody}
  BY DEF IInv, SagaTypeOK
<1>2. intent' = [intent EXCEPT ![i] = y]
  BY DEF Becomes
<1>3. intent'[i] = y /\ \A j \in Intents \ {i} : intent'[j] = intent[j]
  BY <1>1, <1>2
<1>4. Nobody \notin Intents
  BY SentinelsAreApart
<1>5. ASSUME NEW j \in Intents
      PROVE  /\ mutation' = j <=> intent'[j].step \in MutationSteps
             /\ saga' = j <=> Engaged(intent'[j])
  <2>1. CASE j = i
    BY <1>3, <1>4, <2>1
  <2>2. CASE j # i
    <3>1. intent'[j] = intent[j]
      BY <1>3, <2>2
    <3>2. /\ mutation = j <=> intent[j].step \in MutationSteps
          /\ saga = j <=> Engaged(intent[j])
      BY <1>1 DEF Queues
    <3>3. mutation' = j <=> mutation = j
      BY <1>4, <2>2
    <3>4. saga' = j <=> saga = j
      BY <1>4, <2>2
    <3> QED
      BY <3>1, <3>2, <3>3, <3>4
  <2> QED
    BY <2>1, <2>2
<1>6. Queues'
  BY <1>5 DEF Queues, Engaged
<1> QED
  BY <1>1, <1>2, <1>3, <1>6

LEMMA AllStayCareful ==
  ASSUME IInv, NEW i \in Intents, NEW y \in Intent \cup {Answered},
         intent'[i] = y, \A j \in Intents \ {i} : intent'[j] = intent[j],
         y \in Intent => Careful(y)',
         \A x \in Intent : AnotherCall(i, x) => Careful(x)'
  PROVE  AllCareful'
<1>1. ASSUME NEW j \in Intents, intent'[j] \in Intent
      PROVE  Careful(intent[j])'
  <2>1. PICK x \in Intent : x = intent'[j]
    BY <1>1
  <2>2. Careful(x)'
    BY <2>1 DEF AnotherCall
  <2> QED
    BY <2>1, <2>2
<1> QED
  BY <1>1 DEF AllCareful

\* Nothing that a call looks at has changed, but for new credentials.
LEMMA QuietForOthers ==
  ASSUME NEW x \in Intent, Careful(x), UNCHANGED <<stored, active, diverged>>,
         creds \subseteq creds', minted \subseteq minted'
  PROVE  Careful(x)'
<1>1. Shaped(x)'
  BY DEF Careful, Shaped
<1>2. Grounded(x)'
  BY DEF Careful, Grounded
<1>3. Fresh(x)'
  BY DEF Careful, Fresh, Named, Undone
<1>4. Placed(x)'
  BY DEF Careful, Placed, Undone
<1> QED
  BY <1>1, <1>2, <1>3, <1>4 DEF Careful

\* A call outside the mutation that is not the orchestrator's is not concerned.
LEMMA IdleCall ==
  ASSUME NEW x \in Intent, Shaped(x), x.step \notin MutationSteps, ~ Engaged(x),
         minted \subseteq minted'
  PROVE  Careful(x)'
<1>1. Shaped(x)'
  BY DEF Shaped
<1>2. x.op \notin Orchestrated \/ x.step = "queued"
  BY DEF Engaged
<1>3. Grounded(x)'
  BY <1>2 DEF Grounded, Orchestrated
<1>4. Fresh(x)'
  BY <1>2 DEF Fresh, Shaped, MutationSteps
<1>5. Placed(x)'
  BY DEF Placed, MutationSteps
<1> QED
  BY <1>1, <1>3, <1>4, <1>5 DEF Careful

\* The orchestrator's call, outside the mutation, sees no other names.
LEMMA WaitingCall ==
  ASSUME NEW x \in Intent, Careful(x), x.step \notin MutationSteps,
         Named(stored)' = Named(stored), Named(active)' \subseteq Named(active) \cup Named(stored),
         creds \subseteq creds', minted \subseteq minted'
  PROVE  Careful(x)'
<1>1. Shaped(x)'
  BY DEF Careful, Shaped
<1>2. Grounded(x)'
  BY DEF Careful, Grounded
<1>3. Fresh(x)'
  BY DEF Careful, Fresh, MutationSteps
<1>4. Placed(x)'
  BY DEF Placed, MutationSteps
<1> QED
  BY <1>1, <1>2, <1>3, <1>4 DEF Careful

-------------------------------------------------------------------------------
(* Steps that change neither file nor generation.                                   *)

LEMMA QuietCall ==
  ASSUME IInv, NEW i \in Intents, NEW y \in Intent \cup {Answered}, Becomes(i, y),
         UNCHANGED <<stored, active, diverged, crashes>>,
         creds \subseteq creds', creds' \subseteq minted', minted \subseteq minted',
         minted' \subseteq Refs, loose' \subseteq Refs,
         intent[i].step \notin MutationSteps, y.step \notin MutationSteps,
         UNCHANGED mutation,
         Engaged(y) => saga \in {i, Nobody},
         saga' = (IF Engaged(y) THEN i ELSE IF saga = i THEN Nobody ELSE saga),
         y \in Intent => Careful(y)'
  PROVE  IInv'
<1>1. mutation # i
  BY DEF IInv, Queues
<1>2. /\ intent' \in [Intents -> Intent \cup {NoIntent, Answered}]
      /\ mutation' \in Intents \cup {Nobody} /\ saga' \in Intents \cup {Nobody}
      /\ intent'[i] = y /\ \A j \in Intents \ {i} : intent'[j] = intent[j]
      /\ Queues'
  BY <1>1, CallMoves
<1>3. ASSUME NEW x \in Intent, AnotherCall(i, x) PROVE Careful(x)'
  <2>1. Careful(x)
    BY <1>3 DEF IInv, AllCareful, AnotherCall
  <2> QED
    BY <2>1, QuietForOthers
<1>4. AllCareful'
  BY <1>2, <1>3, AllStayCareful
<1>5. SagaTypeOK'
  BY <1>2 DEF IInv, SagaTypeOK
<1>6. CredentialsStand' /\ DiskIsActive'
  BY DEF IInv, CredentialsStand, DiskIsActive, Named
<1> QED
  BY <1>2, <1>4, <1>5, <1>6 DEF IInv

\* What a running call holds are references.
LEMMA HeldReferences ==
  ASSUME SagaTypeOK, NEW i \in Intents
  PROVE  Held(i) \subseteq Refs
<1>1. CASE intent[i] \in {NoIntent, Answered}
  BY <1>1 DEF Held
<1>2. CASE intent[i] \in Intent
  <2>1. /\ intent[i].staged \in Refs \cup {NoRef}
        /\ intent[i].prior \in Row \cup {Missing} /\ intent[i].undo \in Row \cup {Missing}
    BY <1>2 DEF Intent
  <2>2. intent[i].prior.ref \in Refs \cup {NoRef} /\ intent[i].undo.ref \in Refs \cup {NoRef}
    BY <2>1, RowsHaveReferences
  <2>3. Held(i) = {intent[i].staged, intent[i].prior.ref, intent[i].undo.ref} \ {NoRef}
    BY <1>2, NoIntentIsNone DEF Held
  <2> QED
    BY <2>1, <2>2, <2>3
<1> QED
  BY <1>1, <1>2 DEF SagaTypeOK

LEMMA AnswerGivesUp ==
  ASSUME IInv, NEW i \in Intents, NEW answer, AnswersWith(i, answer)
  PROVE  /\ Becomes(i, Answered) /\ loose' \subseteq Refs
         /\ Answered.step \notin MutationSteps /\ ~ Engaged(Answered)
         /\ saga' = IF saga = i THEN Nobody ELSE saga
         /\ mutation' = IF mutation = i THEN Nobody ELSE mutation
<1>1. Held(i) \subseteq Refs /\ loose \subseteq Refs
  BY HeldReferences DEF IInv, SagaTypeOK
<1> QED
  BY <1>1, NoIntentIsNone DEF AnswersWith, Engaged, MutationSteps

LEMMA AnswersQuietly ==
  ASSUME IInv, NEW i \in Intents, NEW answer, AnswersWith(i, answer),
         intent[i].step \notin MutationSteps,
         UNCHANGED <<stored, active, creds, minted, diverged, crashes>>
  PROVE  IInv'
<1>1. mutation # i /\ creds \subseteq minted /\ minted \subseteq Refs
  BY DEF IInv, Queues, SagaTypeOK
<1>2. mutation' = mutation
  BY <1>1, AnswerGivesUp
<1> QED
  BY <1>1, <1>2, AnswerGivesUp, QuietCall, NoIntentIsNone

\* A call that goes to another step keeps all else it is at.
LEMMA CallGoes ==
  ASSUME IInv, NEW i \in Intents, intent[i] \in Intent,
         NEW s \in {"queued", "credential", "probe", "save", "activate", "restore",
                    "reactivate", "cleanup", "drop", "unstage", "recover"},
         Goes(i, s)
  PROVE  \E y \in Intent :
           /\ Becomes(i, y) /\ y.step = s /\ y.op = intent[i].op /\ y.id = intent[i].id
           /\ y.prior = intent[i].prior /\ y.undo = intent[i].undo /\ y.cand = intent[i].cand
           /\ y.staged = intent[i].staged
<1> DEFINE y == [intent[i] EXCEPT !.step = s]
<1>1. /\ y \in Intent /\ y.step = s /\ y.op = intent[i].op /\ y.id = intent[i].id
      /\ y.prior = intent[i].prior /\ y.undo = intent[i].undo /\ y.cand = intent[i].cand
      /\ y.staged = intent[i].staged
  BY DEF Intent
<1>2. intent \in [Intents -> Intent \cup {NoIntent, Answered}]
  BY DEF IInv, SagaTypeOK
<1>3. Becomes(i, y)
  BY <1>2 DEF Goes, Becomes
<1> HIDE DEF y
<1> QED
  BY <1>1, <1>3

LEMMA AskKeeps ==
  ASSUME IInv, NEW i \in Intents, NEW op \in Operation, NEW p \in Providers, Ask(i, op, p)
  PROVE  IInv'
<1> DEFINE new == [op |-> op, id |-> p, step |-> "queued", prior |-> Missing, undo |-> Missing,
                   cand |-> Missing, staged |-> NoRef]
<1>1. new \in Intent /\ new.step = "queued" /\ new.staged = NoRef /\ Becomes(i, new)
  BY DEF Intent, Ask
<1> HIDE DEF new
<1>2. PICK y \in Intent : y.step = "queued" /\ y.staged = NoRef /\ Becomes(i, y)
  BY <1>1
<1>3. y.step \notin MutationSteps /\ ~ Engaged(y)
  BY <1>2 DEF MutationSteps, Engaged
<1>4. Careful(y)'
  BY <1>2, <1>3 DEF Careful, Shaped, Grounded, Fresh, Placed, MutationSteps
<1>5. intent[i].step \notin MutationSteps /\ ~ Engaged(intent[i])
  BY NoIntentIsNone DEF Ask, MutationSteps, Engaged
<1>6. saga # i /\ creds \subseteq minted /\ minted \subseteq Refs /\ loose \subseteq Refs
  BY <1>5 DEF IInv, Queues, SagaTypeOK
<1>7. UNCHANGED <<stored, active, creds, minted, saga, mutation, diverged, loose, crashes>>
  BY DEF Ask
<1> QED
  BY <1>1, <1>2, <1>3, <1>4, <1>5, <1>6, <1>7, QuietCall

\* A queued call has staged nothing.
LEMMA QueuedCall ==
  ASSUME IInv, NEW i \in Intents, At(i, "queued")
  PROVE  /\ intent[i] \in Intent /\ intent[i].step = "queued" /\ intent[i].staged = NoRef
         /\ intent[i].step \notin MutationSteps /\ mutation # i /\ saga # i
         /\ intent[i].id \in Providers /\ stored[intent[i].id] \in Row \cup {Missing}
         /\ stored[intent[i].id].ref \in creds \cup {NoRef}
<1>1. intent[i] \in Intent /\ intent[i].step = "queued"
  BY CallRuns DEF IInv
<1>2. Careful(intent[i])
  BY <1>1 DEF IInv, AllCareful
<1>3. intent[i].id \in Providers /\ stored[intent[i].id] \in Row \cup {Missing}
  BY <1>1 DEF Intent, IInv, SagaTypeOK
<1>4. stored[intent[i].id].ref \in Named(stored) \cup {NoRef}
  BY <1>3 DEF Named
<1>5. stored[intent[i].id].ref \in creds \cup {NoRef}
  BY <1>4 DEF IInv, CredentialsStand
<1> QED
  BY <1>1, <1>2, <1>3, <1>5 DEF Careful, Shaped, MutationSteps, Engaged, IInv, Queues

\* The saga begins: with a reference nobody has seen, or with none staged.
LEMMA SagaBegins ==
  ASSUME IInv, NEW i \in Intents, At(i, "queued"), intent[i].op \in Orchestrated, saga = Nobody,
         NEW y \in Intent, Becomes(i, y), y.op = intent[i].op,
         \/ y.step = "credential" /\ y.staged \in Refs \ minted /\ minted' = minted \cup {y.staged}
         \/ y.step \in {"probe", "save"} /\ y.staged = NoRef /\ minted' = minted
            /\ (y.step = "save" => y.op \notin {"add", "auth"}),
         saga' = i,
         UNCHANGED <<stored, active, creds, mutation, diverged, loose, crashes>>
  PROVE  IInv'
<1>1. /\ creds \subseteq minted /\ minted \subseteq Refs /\ loose \subseteq Refs
      /\ Named(stored) \cup Named(active) \subseteq creds
  BY DEF IInv, SagaTypeOK, CredentialsStand
<1>2. y.step \notin MutationSteps /\ Engaged(y)
  BY DEF MutationSteps, Engaged
<1>3. minted \subseteq minted' /\ minted' \subseteq Refs /\ y.staged \in minted' \cup {NoRef}
  BY <1>1
<1>4. Shaped(y)'
  BY <1>3, SentinelsAreApart DEF Shaped
<1>5. Grounded(y)' /\ Placed(y)'
  BY <1>2 DEF Grounded, Placed, MutationSteps
<1>6. Fresh(y)'
  BY <1>1 DEF Fresh, Named
<1>7. Careful(y)'
  BY <1>4, <1>5, <1>6 DEF Careful
<1> QED
  BY <1>1, <1>2, <1>3, <1>7, QueuedCall, QuietCall

\* Where add and updateAuth begin, and with which references.
Begun(i) ==
  \E y \in Intent :
    /\ Becomes(i, y) /\ y.op = intent[i].op /\ y.id = intent[i].id
    /\ y.prior = stored[intent[i].id] /\ y.undo = intent[i].undo
    /\ \/ /\ y.step = "credential" /\ y.staged = y.cand.ref
          /\ y.staged \in Refs \ minted /\ minted' = minted \cup {y.staged}
       \/ y.step = "probe" /\ y.staged = NoRef /\ minted' = minted

LEMMA AddHasBegun ==
  ASSUME IInv, NEW i \in Intents, AddBegins(i)
  PROVE  Begun(i)
<1>1. At(i, "queued")
  BY Zenon DEF AddBegins
<1>2. /\ intent[i] \in Intent /\ intent[i].staged = NoRef
      /\ stored[intent[i].id] \in Row \cup {Missing}
  BY <1>1, QueuedCall
<1>3. ASSUME NEW ref \in Refs \ minted, minted' = minted \cup {ref},
             Becomes(i, [intent[i] EXCEPT !.step = "credential", !.staged = ref,
                           !.prior = stored[intent[i].id], !.cand = [ref |-> ref, enabled |-> TRUE]])
      PROVE  Begun(i)
  <2> DEFINE cand == [ref |-> ref, enabled |-> TRUE]
             new == [intent[i] EXCEPT !.step = "credential", !.staged = ref,
                           !.prior = stored[intent[i].id], !.cand = cand]
  <2>1. cand \in Row /\ cand.ref = ref
    BY DEF Row
  <2>2. Becomes(i, new)
    BY <1>3
  <2> HIDE DEF cand
  <2>3. /\ new \in Intent /\ new.op = intent[i].op /\ new.id = intent[i].id
        /\ new.prior = stored[intent[i].id] /\ new.undo = intent[i].undo
        /\ new.step = "credential" /\ new.staged = ref /\ new.cand = cand
    BY <1>2, <2>1 DEF Intent
  <2> HIDE DEF new
  <2>4. new.staged = new.cand.ref /\ minted' = minted \cup {new.staged} /\ new.staged \in Refs \ minted
    BY <1>3, <2>1, <2>3
  <2> QED
    BY <2>2, <2>3, <2>4, Zenon DEF Begun
<1>4. ASSUME NEW ref \in creds \cup {NoRef}, UNCHANGED minted,
             Becomes(i, [intent[i] EXCEPT !.step = "probe",
                           !.prior = stored[intent[i].id], !.cand = [ref |-> ref, enabled |-> TRUE]])
      PROVE  Begun(i)
  <2> DEFINE cand == [ref |-> ref, enabled |-> TRUE]
             new == [intent[i] EXCEPT !.step = "probe",
                           !.prior = stored[intent[i].id], !.cand = cand]
  <2>1. cand \in Row
    BY DEF Row, IInv, SagaTypeOK
  <2>2. Becomes(i, new)
    BY <1>4
  <2> HIDE DEF cand
  <2>3. /\ new \in Intent /\ new.op = intent[i].op /\ new.id = intent[i].id
        /\ new.prior = stored[intent[i].id] /\ new.undo = intent[i].undo
        /\ new.step = "probe" /\ new.staged = NoRef
    BY <1>2, <2>1 DEF Intent
  <2> HIDE DEF new
  <2>4. minted' = minted
    BY <1>4
  <2> QED
    BY <2>2, <2>3, <2>4, Zenon DEF Begun
<1> QED
  BY <1>3, <1>4, Zenon DEF AddBegins

LEMMA AuthHasBegun ==
  ASSUME IInv, NEW i \in Intents, AuthBegins(i)
  PROVE  Begun(i)
<1>1. At(i, "queued") /\ stored[intent[i].id].ref # NoRef
  BY Zenon DEF AuthBegins
<1>2. intent[i] \in Intent /\ stored[intent[i].id] \in Row \cup {Missing}
  BY <1>1, QueuedCall
<1>3. PICK ref \in Refs \ minted :
        /\ minted' = minted \cup {ref}
        /\ Becomes(i, [intent[i] EXCEPT !.step = "credential", !.staged = ref,
                         !.prior = stored[intent[i].id],
                         !.cand = [stored[intent[i].id] EXCEPT !.ref = ref]])
  BY Zenon DEF AuthBegins
<1> DEFINE cand == [stored[intent[i].id] EXCEPT !.ref = ref]
           new == [intent[i] EXCEPT !.step = "credential", !.staged = ref,
                         !.prior = stored[intent[i].id], !.cand = cand]
<1>4. cand \in Row /\ cand.ref = ref
  BY <1>1, <1>2, NoIntentIsNone DEF Row
<1>5. Becomes(i, new)
  BY <1>3
<1> HIDE DEF cand
<1>6. /\ new \in Intent /\ new.op = intent[i].op /\ new.id = intent[i].id
      /\ new.prior = stored[intent[i].id] /\ new.undo = intent[i].undo
      /\ new.step = "credential" /\ new.staged = ref /\ new.cand = cand
  BY <1>2, <1>4 DEF Intent
<1> HIDE DEF new
<1>7. new.staged = new.cand.ref /\ minted' = minted \cup {new.staged} /\ new.staged \in Refs \ minted
  BY <1>3, <1>4, <1>6
<1> QED
  BY <1>5, <1>6, <1>7, Zenon DEF Begun

LEMMA AddAndAuthBeginningsKeep ==
  ASSUME IInv, NEW i \in Intents, AddBegins(i) \/ AuthBegins(i)
  PROVE  IInv'
<1>1. /\ At(i, "queued") /\ intent[i].op \in {"add", "auth"} /\ saga = Nobody /\ saga' = i
      /\ UNCHANGED <<stored, active, creds, mutation, diverged, loose, crashes>>
  BY Zenon DEF AddBegins, AuthBegins
<1>2. Begun(i)
  BY AddHasBegun, AuthHasBegun
<1> QED
  BY <1>1, <1>2, SagaBegins DEF Begun, Orchestrated

LEMMA BeginningsKeep ==
  ASSUME IInv, NEW i \in Intents,
         AddBegins(i) \/ AuthRefused(i) \/ AuthBegins(i) \/ OtherBegins(i) \/ DirectBegins(i)
  PROVE  IInv'
<1>1. CASE AuthRefused(i)
  <2>1. /\ At(i, "queued") /\ AnswersWith(i, "rolled_back")
        /\ UNCHANGED <<stored, active, creds, minted, diverged, crashes>>
    BY <1>1 DEF AuthRefused
  <2> QED
    BY <2>1, QueuedCall, AnswersQuietly
<1>2. CASE OtherBegins(i)
  <2>1. /\ At(i, "queued") /\ intent[i].op \in {"remove", "sync"} /\ saga = Nobody /\ saga' = i
        /\ UNCHANGED <<stored, active, creds, minted, mutation, diverged, loose, crashes>>
        /\ Goes(i, "probe") \/ Goes(i, "save")
    BY <1>2 DEF OtherBegins
  <2>2. intent[i] \in Intent /\ intent[i].staged = NoRef
    BY <2>1, QueuedCall
  <2>3. PICK y \in Intent :
          /\ Becomes(i, y) /\ y.step \in {"probe", "save"} /\ y.op = intent[i].op
          /\ y.staged = intent[i].staged
    BY <2>1, <2>2, CallGoes
  <2> QED
    BY <2>1, <2>2, <2>3, SagaBegins DEF Orchestrated
<1>3. CASE DirectBegins(i)
  <2>1. /\ At(i, "queued") /\ intent[i].op \notin Orchestrated
        /\ UNCHANGED <<stored, active, creds, minted, saga, mutation, diverged, loose, crashes>>
        /\ Goes(i, "probe") \/ Goes(i, "save")
    BY <1>3 DEF DirectBegins, IsSaga
  <2>2. /\ intent[i] \in Intent /\ intent[i].staged = NoRef
        /\ intent[i].step \notin MutationSteps /\ saga # i
    BY <2>1, QueuedCall
  <2>3. PICK y \in Intent :
          /\ Becomes(i, y) /\ y.step \in {"probe", "save"} /\ y.op = intent[i].op
          /\ y.staged = intent[i].staged
    BY <2>1, <2>2, CallGoes
  <2>4. y.step \notin MutationSteps /\ ~ Engaged(y)
    BY <2>1, <2>3 DEF MutationSteps, Engaged
  <2>5. Shaped(y)
    BY <2>2, <2>3 DEF Shaped
  <2>6. minted' = minted /\ creds \subseteq minted /\ minted \subseteq Refs /\ loose \subseteq Refs
    BY <2>1 DEF IInv, SagaTypeOK
  <2>7. Careful(y)'
    BY <2>4, <2>5, <2>6, IdleCall
  <2> QED
    BY <2>1, <2>2, <2>3, <2>4, <2>6, <2>7, QuietCall
<1> QED
  BY <1>1, <1>2, <1>3, AddAndAuthBeginningsKeep

\* A call that is under way, and not in a mutation, goes on without leaving its queue.
LEMMA GoesQuietly ==
  ASSUME IInv, NEW i \in Intents, intent[i] \in Intent,
         intent[i].step \notin MutationSteps, intent[i].step # "queued",
         NEW y \in Intent, Becomes(i, y), y.step \notin MutationSteps, y.step # "queued",
         y.op = intent[i].op, Careful(y)',
         UNCHANGED <<stored, active, minted, saga, mutation, diverged, loose, crashes>>,
         creds \subseteq creds', creds' \subseteq minted
  PROVE  IInv'
<1>1. Engaged(y) <=> saga = i
  BY DEF IInv, Queues, Engaged
<1>2. minted \subseteq Refs /\ loose \subseteq Refs
  BY DEF IInv, SagaTypeOK
<1> QED
  BY <1>1, <1>2, QuietCall

\* A call outside the mutation that fails is answered, or takes back what it staged.
LEMMA FailsQuietly ==
  ASSUME IInv, NEW i \in Intents, intent[i] \in Intent, intent[i].step \in {"probe", "save"},
         NEW answer, Fails(i, answer),
         UNCHANGED <<stored, active, creds, minted, diverged, crashes>>
  PROVE  IInv'
<1>1. intent[i].step \notin MutationSteps /\ intent[i].step # "queued" /\ mutation # i
  BY DEF MutationSteps, IInv, Queues
<1>2. CASE intent[i].staged = NoRef
  BY <1>1, <1>2, AnswersQuietly DEF Fails
<1>3. CASE intent[i].staged # NoRef
  <2>1. Goes(i, "unstage") /\ UNCHANGED <<mutation, saga, loose>>
    BY <1>1, <1>3 DEF Fails
  <2>2. PICK y \in Intent :
          /\ Becomes(i, y) /\ y.step = "unstage" /\ y.op = intent[i].op
          /\ y.staged = intent[i].staged
    BY <2>1, CallGoes
  <2>3. PICK x \in Intent : x = intent[i]
    OBVIOUS
  <2>4. Careful(x)
    BY <2>3 DEF IInv, AllCareful
  <2>5. Careful(y)
    <3>1. Shaped(y)
      BY <1>3, <2>2, <2>3, <2>4 DEF Careful, Shaped
    <3>2. Grounded(y) /\ Placed(y)
      BY <2>2 DEF Grounded, Placed, MutationSteps
    <3>3. Fresh(y)
      BY <2>2, <2>3, <2>4 DEF Careful, Fresh
    <3> QED
      BY <3>1, <3>2, <3>3 DEF Careful
  <2>6. Careful(y)'
    BY <2>5, QuietForOthers
  <2>7. creds \subseteq minted /\ y.step \notin MutationSteps
    BY <2>2 DEF IInv, SagaTypeOK, MutationSteps
  <2> QED
    BY <1>1, <2>1, <2>2, <2>6, <2>7, GoesQuietly
<1> QED
  BY <1>2, <1>3

LEMMA CredentialSetKeeps ==
  ASSUME IInv, NEW i \in Intents, CredentialSet(i)
  PROVE  IInv'
<1>1. intent[i] \in Intent /\ intent[i].step = "credential"
  BY CallRuns DEF CredentialSet, IInv
<1>2. PICK x \in Intent : x = intent[i]
  BY <1>1
<1>3. Careful(x)
  BY <1>2 DEF IInv, AllCareful
<1>4. x.staged # NoRef /\ x.staged \in minted /\ x.op \in Orchestrated
  BY <1>1, <1>2, <1>3 DEF Careful, Shaped
<1>5. /\ creds \subseteq creds' /\ creds' \subseteq minted
      /\ Goes(i, "unstage") \/ Goes(i, "probe")
      /\ UNCHANGED <<stored, active, minted, saga, mutation, diverged, loose, crashes>>
  BY <1>2, <1>4 DEF CredentialSet, IInv, SagaTypeOK
<1>6. PICK y \in Intent :
        /\ Becomes(i, y) /\ y.step \in {"unstage", "probe"} /\ y.op = x.op
        /\ y.staged = x.staged
  BY <1>1, <1>2, <1>5, CallGoes
<1>7. Careful(y)
  <2>1. Shaped(y)
    BY <1>4, <1>6 DEF Shaped
  <2>2. Grounded(y) /\ Placed(y)
    BY <1>6 DEF Grounded, Placed, MutationSteps
  <2>3. Fresh(y)
    BY <1>1, <1>2, <1>3, <1>6 DEF Careful, Fresh
  <2> QED
    BY <2>1, <2>2, <2>3 DEF Careful
<1>8. Careful(y)'
  BY <1>5, <1>7, QuietForOthers
<1>9. x.step \notin MutationSteps /\ x.step # "queued" /\ y.step \notin MutationSteps
      /\ y.step # "queued"
  BY <1>1, <1>2, <1>6 DEF MutationSteps
<1> QED
  BY <1>1, <1>2, <1>5, <1>6, <1>8, <1>9, GoesQuietly

LEMMA ProbeKeeps ==
  ASSUME IInv, NEW i \in Intents, Probe(i)
  PROVE  IInv'
<1>1. intent[i] \in Intent /\ intent[i].step = "probe"
  BY CallRuns DEF Probe, IInv
<1>2. UNCHANGED <<stored, active, creds, minted, diverged, crashes>>
  BY DEF Probe
<1>3. CASE Fails(i, Failed(i))
  BY <1>1, <1>2, <1>3, FailsQuietly
<1>4. CASE /\ Subject(i).ref \in creds \cup {NoRef} /\ Goes(i, "save")
           /\ UNCHANGED <<saga, mutation, loose>>
  <2>1. PICK x \in Intent : x = intent[i]
    BY <1>1
  <2>2. Careful(x)
    BY <2>1 DEF IInv, AllCareful
  <2>3. PICK y \in Intent :
          /\ Becomes(i, y) /\ y.step = "save" /\ y.op = x.op /\ y.cand = x.cand
          /\ y.staged = x.staged
    BY <1>1, <1>4, <2>1, CallGoes
  <2>4. x.op \in {"add", "auth"} => x.cand.ref \in creds \cup {NoRef}
    BY <1>4, <2>1 DEF Subject
  <2>5. Shaped(y)
    BY <1>1, <2>1, <2>2, <2>3 DEF Careful, Shaped
  <2>6. Grounded(y) /\ Placed(y)
    BY <2>3, <2>4 DEF Grounded, Placed, MutationSteps
  <2>7. Fresh(y)
    BY <1>1, <2>1, <2>2, <2>3 DEF Careful, Fresh
  <2>8. Careful(y)'
    BY <1>2, <2>5, <2>6, <2>7, QuietForOthers DEF Careful
  <2>9. /\ x.step \notin MutationSteps /\ y.step \notin MutationSteps /\ creds \subseteq minted
        /\ x.step # "queued" /\ y.step # "queued"
    BY <1>1, <2>1, <2>3 DEF MutationSteps, IInv, SagaTypeOK
  <2> QED
    BY <1>1, <1>2, <1>4, <2>1, <2>3, <2>8, <2>9, GoesQuietly
<1> QED
  BY <1>3, <1>4 DEF Probe

LEMMA CleanupKeeps ==
  ASSUME IInv, NEW i \in Intents, Cleanup(i)
  PROVE  IInv'
<1>1. intent[i] \in Intent /\ intent[i].step = "cleanup"
  BY CallRuns DEF Cleanup, IInv
<1>2. UNCHANGED <<stored, active, creds, minted, diverged, crashes>>
  BY DEF Cleanup
<1>3. intent[i].step \notin MutationSteps /\ intent[i].step # "queued" /\ creds \subseteq minted
  BY <1>1 DEF MutationSteps, IInv, SagaTypeOK
<1>4. CASE \E answer \in {"committed", "partial_failure"} : AnswersWith(i, answer)
  BY <1>2, <1>3, <1>4, AnswersQuietly
<1>5. CASE /\ intent[i].prior.ref \notin Named(stored) /\ Goes(i, "drop")
           /\ UNCHANGED <<saga, mutation, loose>>
  <2>1. PICK x \in Intent : x = intent[i]
    BY <1>1
  <2>2. Careful(x)
    BY <2>1 DEF IInv, AllCareful
  <2>3. PICK y \in Intent :
          /\ Becomes(i, y) /\ y.step = "drop" /\ y.op = x.op /\ y.prior = x.prior
          /\ y.staged = x.staged
    BY <1>1, <1>5, <2>1, CallGoes
  <2>4. Shaped(y)
    BY <1>1, <2>1, <2>2, <2>3 DEF Careful, Shaped
  <2>5. Grounded(y) /\ Placed(y)
    BY <2>3 DEF Grounded, Placed, MutationSteps
  <2>6. Fresh(y)
    BY <1>1, <1>5, <2>1, <2>2, <2>3 DEF Careful, Fresh
  <2>7. Careful(y)'
    BY <1>2, <2>4, <2>5, <2>6, QuietForOthers DEF Careful
  <2>8. y.step \notin MutationSteps /\ y.step # "queued"
    BY <2>3 DEF MutationSteps
  <2> QED
    BY <1>1, <1>2, <1>3, <1>5, <2>1, <2>3, <2>7, <2>8, GoesQuietly
<1> QED
  BY <1>4, <1>5 DEF Cleanup

LEMMA SaveFailsKeeps ==
  ASSUME IInv, NEW i \in Intents, SaveFails(i)
  PROVE  IInv'
<1>1. intent[i] \in Intent /\ intent[i].step = "save"
  BY CallRuns DEF SaveFails, IInv
<1> QED
  BY <1>1, FailsQuietly DEF SaveFails

-------------------------------------------------------------------------------
(* Credentials that are removed.                                                    *)

\* The orchestrator's call ends and removes a credential that nobody names.
LEMMA CredentialRemoved ==
  ASSUME IInv, NEW i \in Intents, saga = i, intent[i].step \notin MutationSteps,
         NEW r, r \notin Named(stored) \cup Named(active), creds' = creds \ {r},
         NEW answer, AnswersWith(i, answer),
         UNCHANGED <<stored, active, minted, diverged, crashes>>
  PROVE  IInv'
<1>1. mutation # i /\ creds \subseteq minted /\ minted \subseteq Refs
  BY DEF IInv, Queues, SagaTypeOK
<1>2. /\ intent' \in [Intents -> Intent \cup {NoIntent, Answered}]
      /\ mutation' \in Intents \cup {Nobody} /\ saga' \in Intents \cup {Nobody}
      /\ intent'[i] = Answered /\ \A j \in Intents \ {i} : intent'[j] = intent[j]
      /\ Queues'
  BY AnswerGivesUp, CallMoves
<1>3. mutation' = mutation /\ loose' \subseteq Refs
  BY <1>1, AnswerGivesUp
<1>4. ASSUME NEW x \in Intent, AnotherCall(i, x) PROVE Careful(x)'
  <2>1. PICK j \in Intents \ {i} : intent[j] = x
    BY <1>4 DEF AnotherCall
  <2>2. Careful(x) /\ ~ Engaged(x)
    BY <2>1 DEF IInv, AllCareful, Queues
  <2>3. CASE x.step \notin MutationSteps
    BY <2>2, <2>3, IdleCall, <1>1 DEF Careful
  <2>4. CASE x.step \in MutationSteps
    <3>1. x.op \notin Orchestrated
      BY <2>2, <2>4 DEF Engaged, MutationSteps
    <3>2. x.staged = NoRef /\ x.undo.ref = stored[x.id].ref /\ x.undo.ref \in creds \cup {NoRef}
      BY <2>2, <2>4, <3>1 DEF Careful, Shaped, Grounded
    <3>3. x.id \in Providers
      BY DEF Intent
    <3>4. x.undo.ref = NoRef \/ x.undo.ref \in Named(stored)
      BY <3>2, <3>3, NamedMembers
    <3>5. x.undo.ref \in creds' \cup {NoRef}
      BY <3>2, <3>4
    <3>6. Shaped(x)'
      BY <2>2 DEF Careful, Shaped
    <3>7. Grounded(x)'
      BY <2>4, <3>2, <3>5 DEF Grounded, MutationSteps
    <3>8. Fresh(x)' /\ Placed(x)'
      BY <2>2, <2>4, <3>2 DEF Careful, Fresh, Placed, Undone, MutationSteps
    <3> QED
      BY <3>6, <3>7, <3>8 DEF Careful
  <2> QED
    BY <2>3, <2>4
<1>5. AllCareful'
  BY <1>2, <1>4, AllStayCareful, NoIntentIsNone
<1>6. SagaTypeOK'
  BY <1>1, <1>2, <1>3 DEF IInv, SagaTypeOK
<1>7. CredentialsStand'
  BY DEF IInv, CredentialsStand, Named
<1>8. DiskIsActive'
  BY <1>3 DEF IInv, DiskIsActive
<1> QED
  BY <1>2, <1>5, <1>6, <1>7, <1>8 DEF IInv

LEMMA UnstageKeeps ==
  ASSUME IInv, NEW i \in Intents, Unstage(i)
  PROVE  IInv'
<1>1. intent[i] \in Intent /\ intent[i].step = "unstage"
  BY CallRuns DEF Unstage, IInv
<1>2. Careful(intent[i])
  BY <1>1 DEF IInv, AllCareful
<1>3. /\ intent[i].staged # NoRef /\ intent[i].op \in Orchestrated
      /\ intent[i].staged \notin Named(stored) \cup Named(active)
  BY <1>1, <1>2 DEF Careful, Shaped, Fresh
<1>4. saga = i /\ intent[i].step \notin MutationSteps
  BY <1>1, <1>3 DEF IInv, Queues, Engaged, MutationSteps
<1>5. UNCHANGED <<stored, active, minted, diverged, crashes>>
  BY DEF Unstage
<1>6. CASE creds' = creds \ {intent[i].staged} /\ AnswersWith(i, "rolled_back")
  BY <1>3, <1>4, <1>5, <1>6, CredentialRemoved
<1>7. CASE AnswersWith(i, "partial_failure") /\ UNCHANGED creds
  BY <1>4, <1>5, <1>7, AnswersQuietly
<1> QED
  BY <1>6, <1>7 DEF Unstage

LEMMA DropKeeps ==
  ASSUME IInv, NEW i \in Intents, Drop(i)
  PROVE  IInv'
<1>1. intent[i] \in Intent /\ intent[i].step = "drop"
  BY CallRuns DEF Drop, IInv
<1>2. Careful(intent[i])
  BY <1>1 DEF IInv, AllCareful
<1>3. /\ intent[i].op \in Orchestrated
      /\ intent[i].prior.ref \notin Named(stored) \cup Named(active)
  BY <1>1, <1>2 DEF Careful, Shaped, Fresh
<1>4. saga = i /\ intent[i].step \notin MutationSteps
  BY <1>1, <1>3 DEF IInv, Queues, Engaged, MutationSteps
<1>5. UNCHANGED <<stored, active, minted, diverged, crashes>>
  BY DEF Drop
<1>6. CASE creds' = creds \ {intent[i].prior.ref} /\ AnswersWith(i, "committed")
  BY <1>3, <1>4, <1>5, <1>6, CredentialRemoved
<1>7. CASE AnswersWith(i, "partial_failure") /\ UNCHANGED creds
  BY <1>4, <1>5, <1>7, AnswersQuietly
<1> QED
  BY <1>6, <1>7 DEF Drop

-------------------------------------------------------------------------------
(* Steps of a policy mutation.                                                      *)

LEMMA MutationMoves ==
  ASSUME IInv, NEW i \in Intents, intent[i] \in Intent, intent[i].step # "queued",
         mutation \in {i, Nobody},
         NEW y \in Intent \cup {Answered}, Becomes(i, y),
         mutation' = (IF y.step \in MutationSteps THEN i ELSE Nobody),
         Engaged(y) => saga = i,
         saga' = (IF Engaged(y) THEN i ELSE IF saga = i THEN Nobody ELSE saga),
         y \in Intent => Careful(y)',
         loose' \subseteq Refs, UNCHANGED <<creds, minted, crashes>>,
         stored' \in [Providers -> Row \cup {Missing}],
         active' \in [Providers -> Row \cup {Missing}], diverged' \in BOOLEAN,
         Named(stored)' \cup Named(active)' \subseteq creds,
         Named(active)' \subseteq Named(active) \cup Named(stored),
         intent[i].op \notin Orchestrated => Named(stored)' = Named(stored),
         y.step \notin MutationSteps /\ ~ diverged' => active' = stored'
  PROVE  IInv'
<1>1. /\ intent' \in [Intents -> Intent \cup {NoIntent, Answered}]
      /\ mutation' \in Intents \cup {Nobody} /\ saga' \in Intents \cup {Nobody}
      /\ intent'[i] = y /\ \A j \in Intents \ {i} : intent'[j] = intent[j]
      /\ Queues'
  BY CallMoves
<1>2. ASSUME NEW x \in Intent, AnotherCall(i, x) PROVE Careful(x)'
  <2>1. PICK j \in Intents \ {i} : intent[j] = x
    BY <1>2 DEF AnotherCall
  <2>2. Careful(x) /\ x.step \notin MutationSteps
    BY <2>1, SentinelsAreApart DEF IInv, AllCareful, Queues
  <2>3. CASE intent[i].op \in Orchestrated
    <3>1. ~ Engaged(x)
      BY <2>1, <2>3 DEF IInv, Queues, Engaged
    <3> QED
      BY <2>2, <3>1, IdleCall DEF Careful
  <2>4. CASE intent[i].op \notin Orchestrated
    BY <2>2, <2>4, WaitingCall
  <2> QED
    BY <2>3, <2>4
<1>3. AllCareful'
  BY <1>1, <1>2, AllStayCareful
<1>4. SagaTypeOK'
  BY <1>1 DEF IInv, SagaTypeOK
<1>5. CredentialsStand'
  BY DEF CredentialsStand
<1>6. DiskIsActive'
  BY SentinelsAreApart DEF DiskIsActive
<1> QED
  BY <1>1, <1>3, <1>4, <1>5, <1>6 DEF IInv

LEMMA SaveKeeps ==
  ASSUME IInv, NEW i \in Intents, Save(i)
  PROVE  IInv'
<1>1. intent[i] \in Intent /\ intent[i].step = "save"
  BY CallRuns DEF Save, IInv
<1>2. PICK x \in Intent : x = intent[i]
  BY <1>1
<1>3. Careful(x)
  BY <1>2 DEF IInv, AllCareful
<1>4. PICK found : found = stored[x.id]
  OBVIOUS
<1>5. x.id \in Providers /\ x.cand \in Row \cup {Missing} /\ x.op \in Operation
  BY DEF Intent
<1>6. /\ stored \in [Providers -> Row \cup {Missing}]
      /\ active \in [Providers -> Row \cup {Missing}]
      /\ found \in Row \cup {Missing} /\ found.ref \in creds \cup {NoRef}
      /\ Named(stored) \cup Named(active) \subseteq creds
  <2>1. Named(stored) \cup Named(active) \subseteq creds
    BY DEF IInv, CredentialsStand
  <2>2. stored[x.id].ref = NoRef \/ stored[x.id].ref \in Named(stored)
    BY <1>5, NamedMembers
  <2> QED
    BY <1>4, <1>5, <2>1, <2>2 DEF IInv, SagaTypeOK
<1>7. PICK saved : saved = Saved(i, found)
  OBVIOUS
<1>8. found = Missing => x.op \in {"add", "auth"}
  BY <1>2, <1>4 DEF Save
<1>9. /\ saved \in Row \cup {Missing} /\ saved.ref \in creds \cup {NoRef}
      /\ x.op \notin Orchestrated => saved.ref = found.ref
  <2>1. CASE x.op = "remove"
    BY <1>2, <1>7, <2>1, NoIntentIsNone DEF Saved, Orchestrated
  <2>2. CASE x.op \in {"enable", "disable"}
    <3>1. found \in Row /\ saved = [found EXCEPT !.enabled = x.op = "enable"]
      BY <1>2, <1>6, <1>7, <1>8, <2>2 DEF Saved
    <3>2. (x.op = "enable") \in BOOLEAN
      OBVIOUS
    <3>3. saved \in Row /\ saved.ref = found.ref
      BY <3>1, <3>2 DEF Row
    <3> QED
      BY <1>6, <3>3
  <2>3. CASE x.op \in {"sync", "direct-sync"}
    BY <1>2, <1>6, <1>7, <2>3 DEF Saved
  <2>4. CASE x.op \in {"add", "auth"}
    <3>1. saved = x.cand
      BY <1>2, <1>7, <2>4 DEF Saved
    <3>2. x.cand.ref \in creds \cup {NoRef}
      BY <1>1, <1>2, <1>3, <2>4 DEF Careful, Grounded
    <3> QED
      BY <1>5, <2>4, <3>1, <3>2 DEF Orchestrated
  <2> QED
    BY <1>5, <2>1, <2>2, <2>3, <2>4 DEF Operation, Orchestrated
<1>10. /\ mutation = Nobody /\ mutation' = i
       /\ UNCHANGED <<active, creds, minted, saga, diverged, loose, crashes>>
       /\ stored' = [stored EXCEPT ![x.id] = saved]
  BY <1>2, <1>4, <1>7 DEF Save
<1> DEFINE new == [x EXCEPT !.step = "activate", !.undo = found, !.cand = saved]
<1>11. /\ new \in Intent /\ new.step = "activate" /\ new.undo = found /\ new.op = x.op
       /\ new.id = x.id /\ new.staged = x.staged
  BY <1>6, <1>9 DEF Intent
<1>12. Becomes(i, new)
  BY <1>2, <1>4, <1>7 DEF Save
<1> HIDE DEF new
<1>13. PICK y \in Intent :
         /\ y.step = "activate" /\ y.undo = found /\ y.op = x.op
         /\ y.id = x.id /\ y.staged = x.staged /\ Becomes(i, y)
  BY <1>11, <1>12
<1>14. stored' \in [Providers -> Row \cup {Missing}] /\ stored'[x.id] = saved
  BY <1>5, <1>6, <1>9, <1>10
<1>15. Undone(y)' = stored
  BY <1>4, <1>5, <1>6, <1>10, <1>13 DEF Undone
<1>16. Careful(y)'
  <2>1. Shaped(y)'
    BY <1>1, <1>2, <1>3, <1>10, <1>13 DEF Careful, Shaped
  <2>2. Grounded(y)'
    BY <1>6, <1>9, <1>10, <1>13, <1>14 DEF Grounded
  <2>3. y.staged # NoRef => y.staged \notin Named(stored) \cup Named(active)
    BY <1>1, <1>2, <1>3, <1>13 DEF Careful, Fresh
  <2>4. Named(Undone(y))' = Named(stored) /\ Named(active)' = Named(active)
    BY <1>10, <1>15 DEF Named
  <2>5. Fresh(y)'
    BY <1>13, <2>3, <2>4 DEF Fresh
  <2>6. ~ diverged => active = stored
    BY <1>10 DEF IInv, DiskIsActive
  <2>7. Placed(y)'
    BY <1>10, <1>13, <1>15, <2>6 DEF Placed
  <2> QED
    BY <2>1, <2>2, <2>5, <2>7 DEF Careful
<1>17. /\ Named(stored)' \subseteq creds
       /\ x.op \notin Orchestrated => Named(stored)' = Named(stored)
  <2>1. Named(stored)' = Named([stored EXCEPT ![x.id] = saved])
    BY <1>10 DEF Named
  <2>2. \A r \in Named([stored EXCEPT ![x.id] = saved]) :
          r # NoRef /\ (r = saved.ref \/ r \in Named(stored))
    BY <1>5, <1>6, <1>9, OneMoreName
  <2>3. saved.ref = found.ref => Named([stored EXCEPT ![x.id] = saved]) = Named(stored)
    BY <1>4, <1>5, <1>6, <1>9, SameNames
  <2> QED
    BY <1>6, <1>9, <2>1, <2>2, <2>3
<1>18. Named(active)' = Named(active)
  BY <1>10 DEF Named
<1>19. Engaged(y) <=> saga = i
  BY <1>1, <1>2, <1>13 DEF IInv, Queues, Engaged
<1>20. loose \subseteq Refs /\ diverged \in BOOLEAN
  BY DEF IInv, SagaTypeOK
<1>21. y.step \in MutationSteps
  BY <1>13 DEF MutationSteps
<1> QED
  BY <1>1, <1>2, <1>6, <1>10, <1>13, <1>14, <1>16, <1>17, <1>18, <1>19, <1>20, <1>21, MutationMoves

\* The call that holds the mutation, and what the provider file is rolled back to.
LEMMA MutatingCall ==
  ASSUME IInv, NEW i \in Intents, NEW s \in MutationSteps, At(i, s)
  PROVE  /\ intent[i] \in Intent /\ intent[i].step = s /\ mutation = i
         /\ Careful(intent[i])
         /\ Engaged(intent[i]) <=> saga = i
         /\ Restored(i) = Undone(intent[i])
         /\ Undone(intent[i]) \in [Providers -> Row \cup {Missing}]
         /\ Named(Undone(intent[i])) \subseteq creds
         /\ intent[i].op \notin Orchestrated => Named(Undone(intent[i])) = Named(stored)
<1>1. intent[i] \in Intent /\ intent[i].step = s
  BY CallRuns DEF IInv, MutationSteps
<1>2. PICK x \in Intent : x = intent[i]
  BY <1>1
<1>3. mutation = i /\ Careful(x) /\ (Engaged(x) <=> saga = i)
  BY <1>1, <1>2 DEF IInv, Queues, AllCareful
<1>4. /\ stored \in [Providers -> Row \cup {Missing}] /\ x.id \in Providers
      /\ x.undo \in Row \cup {Missing} /\ Named(stored) \subseteq creds
  BY DEF IInv, SagaTypeOK, CredentialsStand, Intent
<1>5. /\ x.undo.ref \in creds \cup {NoRef}
      /\ x.op \notin Orchestrated => x.undo.ref = stored[x.id].ref
  BY <1>1, <1>2, <1>3 DEF Careful, Grounded
<1>6. \A r \in Named([stored EXCEPT ![x.id] = x.undo]) :
        r # NoRef /\ (r = x.undo.ref \/ r \in Named(stored))
  BY <1>4, OneMoreName
<1>7. x.op \notin Orchestrated => Named([stored EXCEPT ![x.id] = x.undo]) = Named(stored)
  BY <1>4, <1>5, SameNames
<1>8. [stored EXCEPT ![x.id] = x.undo] \in [Providers -> Row \cup {Missing}]
  BY <1>4
<1>9. Named([stored EXCEPT ![x.id] = x.undo]) \subseteq creds
  BY <1>4, <1>5, <1>6
<1> QED
  BY <1>1, <1>2, <1>3, <1>7, <1>8, <1>9 DEF Restored, Undone

\* The mutation ends and its call with it.
LEMMA MutationAnswered ==
  ASSUME IInv, NEW i \in Intents, intent[i] \in Intent, mutation = i,
         NEW answer, AnswersWith(i, answer), UNCHANGED <<creds, minted, crashes>>,
         stored' \in [Providers -> Row \cup {Missing}],
         active' \in [Providers -> Row \cup {Missing}], diverged' \in BOOLEAN,
         Named(stored)' \cup Named(active)' \subseteq creds,
         Named(active)' \subseteq Named(active) \cup Named(stored),
         intent[i].op \notin Orchestrated => Named(stored)' = Named(stored),
         ~ diverged' => active' = stored'
  PROVE  IInv'
<1>1. intent[i].step # "queued"
  BY DEF IInv, Queues, MutationSteps
<1> QED
  BY <1>1, AnswerGivesUp, NoIntentIsNone, MutationMoves

\* The mutation ends without its call: a staged credential has to be taken back first.
LEMMA MutationFails ==
  ASSUME IInv, NEW i \in Intents, intent[i] \in Intent, mutation = i,
         NEW answer, Fails(i, answer), UNCHANGED <<creds, minted, crashes>>,
         stored' \in [Providers -> Row \cup {Missing}],
         active' \in [Providers -> Row \cup {Missing}], diverged' \in BOOLEAN,
         Named(stored)' \cup Named(active)' \subseteq creds,
         Named(active)' \subseteq Named(active) \cup Named(stored),
         intent[i].op \notin Orchestrated => Named(stored)' = Named(stored),
         ~ diverged' => active' = stored',
         intent[i].staged # NoRef => intent[i].staged \notin Named(stored)' \cup Named(active)'
  PROVE  IInv'
<1>1. CASE intent[i].staged = NoRef
  <2>1. AnswersWith(i, answer)
    BY <1>1 DEF Fails
  <2> QED
    BY <2>1, MutationAnswered
<1>2. CASE intent[i].staged # NoRef
  <2>1. Goes(i, "unstage") /\ mutation' = Nobody /\ UNCHANGED <<saga, loose>>
    BY <1>2 DEF Fails
  <2>2. PICK x \in Intent : x = intent[i]
    OBVIOUS
  <2>3. Careful(x) /\ (Engaged(x) <=> saga = i) /\ x.step \in MutationSteps
    BY <2>2 DEF IInv, Queues, AllCareful
  <2>4. PICK y \in Intent :
          /\ Becomes(i, y) /\ y.step = "unstage" /\ y.op = x.op /\ y.staged = x.staged
    BY <2>1, <2>2, CallGoes
  <2>5. x.op \in Orchestrated /\ x.staged \in minted
    BY <1>2, <2>2, <2>3 DEF Careful, Shaped
  <2>6. Shaped(y)'
    BY <1>2, <2>2, <2>4, <2>5 DEF Shaped
  <2>7. Grounded(y)' /\ Placed(y)'
    BY <2>4 DEF Grounded, Placed, MutationSteps
  <2>8. Fresh(y)'
    BY <2>2, <2>4 DEF Fresh, MutationSteps
  <2>9. Careful(y)'
    BY <2>6, <2>7, <2>8 DEF Careful
  <2>10. Engaged(y) /\ saga = i /\ y.step \notin MutationSteps /\ x.step # "queued"
    BY <2>3, <2>4, <2>5 DEF Engaged, MutationSteps
  <2>11. loose' \subseteq Refs
    BY <2>1 DEF IInv, SagaTypeOK
  <2> QED
    BY <2>1, <2>2, <2>4, <2>9, <2>10, <2>11, MutationMoves
<1> QED
  BY <1>1, <1>2

\* The mutation goes on, or its call does without it.
LEMMA MutationGoes ==
  ASSUME IInv, NEW i \in Intents, intent[i] \in Intent, mutation = i,
         NEW y \in Intent, Becomes(i, y), y.op = intent[i].op, y.step # "queued",
         mutation' = (IF y.step \in MutationSteps THEN i ELSE Nobody),
         Careful(y)', UNCHANGED <<creds, minted, crashes, saga, loose>>,
         stored' \in [Providers -> Row \cup {Missing}],
         active' \in [Providers -> Row \cup {Missing}], diverged' \in BOOLEAN,
         Named(stored)' \cup Named(active)' \subseteq creds,
         Named(active)' \subseteq Named(active) \cup Named(stored),
         intent[i].op \notin Orchestrated => Named(stored)' = Named(stored),
         y.step \notin MutationSteps /\ ~ diverged' => active' = stored'
  PROVE  IInv'
<1>1. intent[i].step # "queued" /\ (Engaged(intent[i]) <=> saga = i)
  BY DEF IInv, Queues, MutationSteps
<1>2. Engaged(y) <=> saga = i
  BY <1>1 DEF Engaged
<1>3. loose' \subseteq Refs
  BY DEF IInv, SagaTypeOK
<1> QED
  BY <1>1, <1>2, <1>3, MutationMoves

LEMMA MutationEndings ==
  ASSUME NEW i \in Intents
  PROVE  /\ \A result \in {"not-activated", "threw"} :
              MutationEnds(i, result) => \E answer : Fails(i, answer)
         /\ MutationEnds(i, "incomplete") => \E answer : AnswersWith(i, answer)
         /\ MutationEnds(i, "activated") =>
              IF intent[i].op \in {"add", "auth"}
              THEN Goes(i, "cleanup") /\ mutation' = Nobody /\ UNCHANGED <<saga, loose>>
              ELSE \E answer : AnswersWith(i, answer)
<1>1. ASSUME MutationEnds(i, "not-activated") PROVE \E answer : Fails(i, answer)
  BY <1>1 DEF MutationEnds, Keeps
<1>2. ASSUME MutationEnds(i, "threw") PROVE \E answer : Fails(i, answer)
  BY <1>2 DEF MutationEnds, Keeps
<1>3. ASSUME MutationEnds(i, "incomplete") PROVE \E answer : AnswersWith(i, answer)
  BY <1>3 DEF MutationEnds, Keeps
<1>4. ASSUME MutationEnds(i, "activated")
      PROVE  IF intent[i].op \in {"add", "auth"}
             THEN Goes(i, "cleanup") /\ mutation' = Nobody /\ UNCHANGED <<saga, loose>>
             ELSE \E answer : AnswersWith(i, answer)
  BY <1>4 DEF MutationEnds, Keeps
<1> QED
  BY <1>1, <1>2, <1>3, <1>4

LEMMA ActivatedKeeps ==
  ASSUME IInv, NEW i \in Intents, Activated(i)
  PROVE  IInv'
<1>1. At(i, "activate")
  BY DEF Activated
<1>2. PICK x \in Intent : x = intent[i]
  BY <1>1, MutatingCall DEF MutationSteps
<1>3. /\ x.step = "activate" /\ mutation = i /\ Careful(x) /\ Named(Undone(x)) \subseteq creds
  BY <1>1, <1>2, MutatingCall DEF MutationSteps
<1>4. /\ active' = stored /\ ~ diverged' /\ diverged' \in BOOLEAN
      /\ UNCHANGED <<stored, creds, minted, crashes>>
  BY DEF Activated
<1>5. /\ stored \in [Providers -> Row \cup {Missing}] /\ Named(stored) \subseteq creds
      /\ Named(stored)' = Named(stored) /\ Named(active)' = Named(stored)
  BY <1>4 DEF IInv, SagaTypeOK, CredentialsStand, Named
<1>6. CASE MutationEnds(i, "activated") /\ x.op \notin {"add", "auth"}
  <2>1. PICK answer : AnswersWith(i, answer)
    BY <1>2, <1>6, MutationEndings
  <2> QED
    BY <1>2, <1>3, <1>4, <1>5, <2>1, MutationAnswered
<1>7. CASE MutationEnds(i, "activated") /\ x.op \in {"add", "auth"}
  <2>1. Goes(i, "cleanup") /\ mutation' = Nobody /\ UNCHANGED <<saga, loose>>
    BY <1>2, <1>7, MutationEndings
  <2>2. PICK y \in Intent :
          /\ Becomes(i, y) /\ y.step = "cleanup" /\ y.op = x.op /\ y.staged = x.staged
    BY <1>2, <2>1, CallGoes
  <2>3. Shaped(y)'
    BY <1>3, <1>4, <1>7, <2>2 DEF Careful, Shaped, Orchestrated
  <2>4. Grounded(y)' /\ Placed(y)'
    BY <2>2 DEF Grounded, Placed, MutationSteps
  <2>5. Fresh(y)'
    BY <1>5, <2>2 DEF Fresh
  <2>6. Careful(y)' /\ y.step \notin MutationSteps
    BY <2>2, <2>3, <2>4, <2>5 DEF Careful, MutationSteps
  <2> QED
    BY <1>2, <1>3, <1>4, <1>5, <2>1, <2>2, <2>6, MutationGoes
<1>8. CASE Goes(i, "recover") /\ UNCHANGED <<saga, mutation, loose>>
  <2>1. PICK y \in Intent :
          /\ Becomes(i, y) /\ y.step = "recover" /\ y.op = x.op /\ y.id = x.id
          /\ y.undo = x.undo /\ y.staged = x.staged
    BY <1>2, <1>8, CallGoes
  <2>2. Shaped(y)'
    BY <1>3, <1>4, <2>1 DEF Careful, Shaped
  <2>3. Grounded(y)'
    BY <1>3, <1>4, <2>1 DEF Careful, Grounded, MutationSteps
  <2>4. Named(Undone(y))' = Named(Undone(x))
    BY <1>4, <2>1 DEF Undone, Named
  <2>5. Fresh(y)'
    BY <1>3, <2>1, <2>4 DEF Careful, Fresh
  <2>6. Placed(y)'
    BY <1>4, <2>1 DEF Placed
  <2>7. Careful(y)' /\ y.step \in MutationSteps
    BY <2>1, <2>2, <2>3, <2>5, <2>6 DEF Careful, MutationSteps
  <2> QED
    BY <1>2, <1>3, <1>4, <1>5, <1>8, <2>1, <2>7, MutationGoes
<1> QED
  BY <1>2, <1>6, <1>7, <1>8 DEF Activated

LEMMA NotActivatedKeeps ==
  ASSUME IInv, NEW i \in Intents, NotActivated(i)
  PROVE  IInv'
<1>1. At(i, "activate") /\ Goes(i, "restore")
      /\ UNCHANGED <<stored, active, creds, minted, saga, mutation, diverged, loose, crashes>>
  BY DEF NotActivated
<1>2. PICK x \in Intent : x = intent[i]
  BY <1>1, MutatingCall DEF MutationSteps
<1>3. x.step = "activate" /\ mutation = i /\ Careful(x)
  BY <1>1, <1>2, MutatingCall DEF MutationSteps
<1>4. PICK y \in Intent :
        /\ Becomes(i, y) /\ y.step = "restore" /\ y.op = x.op /\ y.id = x.id
        /\ y.undo = x.undo /\ y.staged = x.staged
  BY <1>1, <1>2, CallGoes
<1>5. Careful(y)
  <2>1. Shaped(y)
    BY <1>3, <1>4 DEF Careful, Shaped
  <2>2. Grounded(y)
    BY <1>3, <1>4 DEF Careful, Grounded, MutationSteps
  <2>3. Undone(y) = Undone(x)
    BY <1>4 DEF Undone
  <2>4. Fresh(y) /\ Placed(y)
    BY <1>3, <1>4, <2>3 DEF Careful, Fresh, Placed
  <2> QED
    BY <2>1, <2>2, <2>4 DEF Careful
<1>6. Careful(y)'
  BY <1>1, <1>5, QuietForOthers
<1>7. /\ stored' \in [Providers -> Row \cup {Missing}] /\ active' \in [Providers -> Row \cup {Missing}]
      /\ diverged' \in BOOLEAN /\ Named(stored)' = Named(stored) /\ Named(active)' = Named(active)
      /\ Named(stored) \cup Named(active) \subseteq creds
  BY <1>1 DEF IInv, SagaTypeOK, CredentialsStand, Named
<1>8. y.step \in MutationSteps
  BY <1>4 DEF MutationSteps
<1> QED
  BY <1>1, <1>2, <1>3, <1>4, <1>6, <1>7, <1>8, MutationGoes

LEMMA RestoreKeeps ==
  ASSUME IInv, NEW i \in Intents, Restore(i)
  PROVE  IInv'
<1>1. At(i, "restore") /\ UNCHANGED <<active, creds, minted, crashes>>
  BY DEF Restore
<1>2. PICK x \in Intent : x = intent[i]
  BY <1>1, MutatingCall DEF MutationSteps
<1>3. /\ x.step = "restore" /\ mutation = i /\ Careful(x) /\ Restored(i) = Undone(x)
      /\ Undone(x) \in [Providers -> Row \cup {Missing}] /\ Named(Undone(x)) \subseteq creds
      /\ x.op \notin Orchestrated => Named(Undone(x)) = Named(stored)
  BY <1>1, <1>2, MutatingCall DEF MutationSteps
<1>4. /\ stored \in [Providers -> Row \cup {Missing}] /\ active' \in [Providers -> Row \cup {Missing}]
      /\ Named(active)' = Named(active) /\ Named(stored) \cup Named(active) \subseteq creds
      /\ diverged \in BOOLEAN
  BY <1>1 DEF IInv, SagaTypeOK, CredentialsStand, Named
<1>5. CASE /\ stored' = Restored(i) /\ UNCHANGED diverged
           /\ \E result \in {"not-activated", "threw"} : MutationEnds(i, result)
  <2>1. PICK answer : Fails(i, answer)
    BY <1>5, MutationEndings
  <2>2. Named(stored)' = Named(Undone(x))
    BY <1>3, <1>5 DEF Named
  <2>3. x.staged # NoRef => x.staged \notin Named(stored)' \cup Named(active)'
    BY <1>3, <1>4, <2>2 DEF Careful, Fresh
  <2>4. ~ diverged' => active' = stored'
    BY <1>1, <1>3, <1>5 DEF Careful, Placed
  <2> QED
    BY <1>1, <1>2, <1>3, <1>4, <1>5, <2>1, <2>2, <2>3, <2>4, MutationFails
<1>6. CASE MutationEnds(i, "incomplete") /\ diverged' = TRUE /\ UNCHANGED stored
  <2>1. PICK answer : AnswersWith(i, answer)
    BY <1>6, MutationEndings
  <2>2. Named(stored)' = Named(stored)
    BY <1>6 DEF Named
  <2> QED
    BY <1>1, <1>2, <1>3, <1>4, <1>6, <2>1, <2>2, MutationAnswered
<1> QED
  BY <1>5, <1>6 DEF Restore

LEMMA RecoverKeeps ==
  ASSUME IInv, NEW i \in Intents, Recover(i)
  PROVE  IInv'
<1>1. At(i, "recover") /\ UNCHANGED <<active, creds, minted, diverged, crashes>>
  BY DEF Recover
<1>2. PICK x \in Intent : x = intent[i]
  BY <1>1, MutatingCall DEF MutationSteps
<1>3. /\ x.step = "recover" /\ mutation = i /\ Careful(x) /\ Restored(i) = Undone(x)
      /\ Undone(x) \in [Providers -> Row \cup {Missing}] /\ Named(Undone(x)) \subseteq creds
      /\ x.op \notin Orchestrated => Named(Undone(x)) = Named(stored)
  BY <1>1, <1>2, MutatingCall DEF MutationSteps
<1>4. /\ stored \in [Providers -> Row \cup {Missing}] /\ active' \in [Providers -> Row \cup {Missing}]
      /\ Named(active)' = Named(active) /\ Named(stored) \cup Named(active) \subseteq creds
      /\ diverged' \in BOOLEAN
  BY <1>1 DEF IInv, SagaTypeOK, CredentialsStand, Named
<1>5. CASE stored' = Restored(i) /\ Goes(i, "reactivate") /\ UNCHANGED <<saga, mutation, loose>>
  <2>1. PICK y \in Intent :
          /\ Becomes(i, y) /\ y.step = "reactivate" /\ y.op = x.op /\ y.id = x.id
          /\ y.undo = x.undo /\ y.staged = x.staged
    BY <1>2, <1>5, CallGoes
  <2>2. Named(stored)' = Named(Undone(x))
    BY <1>3, <1>5 DEF Named
  <2>3. Shaped(y)'
    BY <1>1, <1>3, <2>1 DEF Careful, Shaped
  <2>4. stored'[x.id] = x.undo
    BY <1>3, <1>4, <1>5 DEF Undone, Intent
  <2>5. Grounded(y)'
    BY <1>1, <1>3, <2>1, <2>4 DEF Careful, Grounded, MutationSteps
  <2>6. Fresh(y)' /\ Placed(y)'
    BY <1>3, <2>1, <2>2 DEF Careful, Fresh, Placed
  <2>7. Careful(y)' /\ y.step \in MutationSteps
    BY <2>1, <2>3, <2>5, <2>6 DEF Careful, MutationSteps
  <2> QED
    BY <1>1, <1>2, <1>3, <1>4, <1>5, <2>1, <2>2, <2>7, MutationGoes
<1>6. CASE MutationEnds(i, "incomplete") /\ UNCHANGED stored
  <2>1. PICK answer : AnswersWith(i, answer)
    BY <1>6, MutationEndings
  <2>2. Named(stored)' = Named(stored) /\ active' = stored'
    BY <1>1, <1>3, <1>6 DEF Named, Careful, Placed
  <2> QED
    BY <1>1, <1>2, <1>3, <1>4, <1>6, <2>1, <2>2, MutationAnswered
<1> QED
  BY <1>5, <1>6 DEF Recover

LEMMA ReactivateKeeps ==
  ASSUME IInv, NEW i \in Intents, Reactivate(i)
  PROVE  IInv'
<1>1. At(i, "reactivate") /\ UNCHANGED <<stored, creds, minted, crashes>>
  BY DEF Reactivate
<1>2. PICK x \in Intent : x = intent[i]
  BY <1>1, MutatingCall DEF MutationSteps
<1>3. x.step = "reactivate" /\ mutation = i /\ Careful(x)
  BY <1>1, <1>2, MutatingCall DEF MutationSteps
<1>4. /\ stored' \in [Providers -> Row \cup {Missing}] /\ active \in [Providers -> Row \cup {Missing}]
      /\ Named(stored)' = Named(stored) /\ Named(stored) \cup Named(active) \subseteq creds
  BY <1>1 DEF IInv, SagaTypeOK, CredentialsStand, Named
<1>5. CASE MutationEnds(i, "incomplete") /\ diverged' = TRUE /\ UNCHANGED active
  <2>1. PICK answer : AnswersWith(i, answer)
    BY <1>5, MutationEndings
  <2>2. Named(active)' = Named(active)
    BY <1>5 DEF Named
  <2> QED
    BY <1>1, <1>2, <1>3, <1>4, <1>5, <2>1, <2>2, MutationAnswered
<1>6. CASE /\ active' = stored /\ diverged' = FALSE
           /\ MutationEnds(i, "threw") \/ MutationEnds(i, "incomplete")
  <2>1. Named(active)' = Named(stored)
    BY <1>6 DEF Named
  <2>2. CASE MutationEnds(i, "threw")
    <3>1. PICK answer : Fails(i, answer)
      BY <2>2, MutationEndings
    <3>2. x.staged # NoRef => x.staged \notin Named(stored)' \cup Named(active)'
      BY <1>3, <1>4, <2>1 DEF Careful, Fresh
    <3> QED
      BY <1>1, <1>2, <1>3, <1>4, <1>6, <2>1, <3>1, <3>2, MutationFails
  <2>3. CASE MutationEnds(i, "incomplete")
    <3>1. PICK answer : AnswersWith(i, answer)
      BY <2>3, MutationEndings
    <3> QED
      BY <1>1, <1>2, <1>3, <1>4, <1>6, <2>1, <3>1, MutationAnswered
  <2> QED
    BY <1>6, <2>2, <2>3
<1> QED
  BY <1>5, <1>6 DEF Reactivate

LEMMA ReloadKeeps ==
  ASSUME IInv, Reload
  PROVE  IInv'
<1>1. /\ mutation = Nobody /\ active' = stored /\ diverged' = FALSE
      /\ UNCHANGED <<stored, creds, minted, intent, saga, mutation, loose, crashes>>
  BY DEF Reload
<1>2. Named(stored)' = Named(stored) /\ Named(active)' = Named(stored)
  BY <1>1 DEF Named
<1>3. ASSUME NEW j \in Intents, intent[j] \in Intent
      PROVE  Careful(intent[j])'
  <2>1. PICK x \in Intent : x = intent[j]
    BY <1>3
  <2>2. Careful(x) /\ x.step \notin MutationSteps
    BY <1>1, <2>1, SentinelsAreApart DEF IInv, AllCareful, Queues
  <2>3. Careful(x)'
    BY <1>1, <1>2, <2>2, WaitingCall
  <2> QED
    BY <1>1, <2>1, <2>3
<1>4. AllCareful'
  BY <1>1, <1>3 DEF AllCareful
<1>5. SagaTypeOK'
  BY <1>1 DEF IInv, SagaTypeOK
<1>6. Queues'
  BY <1>1 DEF IInv, Queues, Engaged
<1>7. CredentialsStand' /\ DiskIsActive'
  BY <1>1, <1>2 DEF IInv, CredentialsStand, DiskIsActive
<1> QED
  BY <1>4, <1>5, <1>6, <1>7 DEF IInv

LEMMA CrashKeeps ==
  ASSUME IInv, Crash
  PROVE  IInv'
<1>1. /\ crashes < MaxCrashes /\ crashes' = crashes + 1
      /\ intent' = [i \in Intents |-> IF intent[i] = NoIntent THEN NoIntent ELSE Answered]
      /\ loose' = loose \cup UNION {Held(i) : i \in Intents}
      /\ active' = stored /\ diverged' = FALSE /\ saga' = Nobody /\ mutation' = Nobody
      /\ UNCHANGED <<stored, creds, minted>>
  BY DEF Crash
<1>2. \A i \in Intents : intent'[i] \in {NoIntent, Answered}
  BY <1>1
<1>3. SagaTypeOK'
  <2>1. UNION {Held(i) : i \in Intents} \subseteq Refs
    BY HeldReferences DEF IInv
  <2>2. crashes' \in 0..MaxCrashes
    BY <1>1, BoundIsNatural DEF IInv, SagaTypeOK
  <2>3. intent' \in [Intents -> Intent \cup {NoIntent, Answered}]
    BY <1>1
  <2> QED
    BY <1>1, <2>1, <2>2, <2>3 DEF IInv, SagaTypeOK
<1>4. Queues'
  BY <1>1, <1>2, NoIntentIsNone, SentinelsAreApart DEF Queues, Engaged, MutationSteps
<1>5. AllCareful'
  BY <1>2, NoIntentIsNone DEF AllCareful
<1>6. Named(stored)' = Named(stored) /\ Named(active)' = Named(stored)
  BY <1>1 DEF Named
<1>7. CredentialsStand' /\ DiskIsActive'
  BY <1>1, <1>6 DEF IInv, CredentialsStand, DiskIsActive
<1> QED
  BY <1>3, <1>4, <1>5, <1>7 DEF IInv

-------------------------------------------------------------------------------
(* The theorems.                                                                    *)

LEMMA InitIsSafe ==
  ASSUME SagaInit
  PROVE  IInv
<1>1. /\ stored \in [Providers -> Row \cup {Missing}] /\ active = stored
      /\ creds = Named(stored) /\ minted = creds
      /\ intent = [i \in Intents |-> NoIntent] /\ saga = Nobody /\ mutation = Nobody
      /\ diverged = FALSE /\ loose = {} /\ crashes = 0
  BY DEF SagaInit, Named
<1>2. Named(stored) \subseteq Refs
  <2>1. \A p \in Providers : stored[p].ref \in Refs \cup {NoRef}
    BY <1>1, RowsHaveReferences
  <2> QED
    BY <2>1 DEF Named
<1>3. SagaTypeOK
  <2>1. 0 \in 0..MaxCrashes
    BY BoundIsNatural
  <2>2. intent \in [Intents -> Intent \cup {NoIntent, Answered}]
    BY <1>1
  <2>3. creds \subseteq minted /\ minted \subseteq Refs /\ loose \subseteq Refs
    BY <1>1, <1>2
  <2>4. crashes \in 0..MaxCrashes /\ diverged \in BOOLEAN
    BY <1>1, <2>1
  <2> QED
    BY <1>1, <2>2, <2>3, <2>4 DEF SagaTypeOK
<1>4. Queues
  BY <1>1, NoIntentIsNone, SentinelsAreApart DEF Queues, Engaged, MutationSteps
<1>5. AllCareful
  BY <1>1, NoIntentIsNone DEF AllCareful
<1>6. CredentialsStand /\ DiskIsActive
  BY <1>1 DEF CredentialsStand, DiskIsActive
<1> QED
  BY <1>3, <1>4, <1>5, <1>6 DEF IInv

LEMMA StepsKeep ==
  ASSUME IInv, [SagaNext]_sagaVars
  PROVE  IInv'
<1>1. ASSUME NEW i \in Intents, NEW op \in Operation, NEW p \in Providers, Ask(i, op, p)
      PROVE  IInv'
  BY <1>1, AskKeeps
<1>2. ASSUME NEW i \in Intents, SagaStep(i) PROVE IInv'
  BY <1>2, BeginningsKeep, CredentialSetKeeps, UnstageKeeps, ProbeKeeps, CleanupKeeps,
     DropKeeps, SaveFailsKeeps, SaveKeeps, ActivatedKeeps, NotActivatedKeeps, RestoreKeeps,
     RecoverKeeps, ReactivateKeeps DEF SagaStep
<1>3. CASE UNCHANGED sagaVars
  <2>1. UNCHANGED <<stored, active, creds, minted, intent, saga, mutation, diverged, loose, crashes>>
    BY <1>3 DEF sagaVars
  <2>2. SagaTypeOK'
    BY <2>1 DEF IInv, SagaTypeOK
  <2>3. Queues'
    BY <2>1 DEF IInv, Queues, Engaged
  <2>4. AllCareful'
    BY <2>1 DEF IInv, AllCareful, Careful, Shaped, Grounded, Fresh, Placed, Undone, Named
  <2>5. CredentialsStand' /\ DiskIsActive'
    BY <2>1 DEF IInv, CredentialsStand, DiskIsActive, Named
  <2> QED
    BY <2>2, <2>3, <2>4, <2>5 DEF IInv
<1> QED
  BY <1>1, <1>2, <1>3, ReloadKeeps, CrashKeeps DEF SagaNext

\* The invariant holds throughout: overlapping calls, steps that fail, restarts.
THEOREM InvariantHolds == SagaSpec => []IInv
<1>1. SagaInit => IInv
  BY InitIsSafe
<1>2. IInv /\ [SagaNext]_sagaVars => IInv'
  BY StepsKeep
<1> QED
  BY <1>1, <1>2, PTL DEF SagaSpec

\* No rollback and no cleanup of a provider change removes a credential that a stored or
\* an active provider names (mcp-owner-orchestrator.ts, cleanupUnused and the two
\* removals of a staged credential).
THEOREM CredentialsAlwaysStand == SagaSpec => []CredentialsStand
<1>1. IInv => CredentialsStand
  BY DEF IInv
<1> QED
  BY <1>1, InvariantHolds, PTL

\* Between provider mutations the provider file says what is active, unless the last
\* rollback was answered as incomplete (mcp-provider-service.ts, commitProvider).
THEOREM DiskIsAlwaysActive == SagaSpec => []DiskIsActive
<1>1. IInv => DiskIsActive
  BY DEF IInv
<1> QED
  BY <1>1, InvariantHolds, PTL

\* No two provider mutations and no two orchestrated changes are ever under way at once,
\* and each queue is free when nobody is in it: a call that fails does not keep it.
THEOREM QueuesAreExclusive == SagaSpec => []Queues
<1>1. IInv => Queues
  BY DEF IInv
<1> QED
  BY <1>1, InvariantHolds, PTL

-------------------------------------------------------------------------------
(* No credential is left behind.                                                    *)

\* The references x has to do with, and those of the call of the orchestrator.
Own(x) == {x.staged, x.prior.ref, x.undo.ref} \ {NoRef}
InHand == IF saga = Nobody THEN {} ELSE Own(intent[saga])

\* The file as it was before the mutation of the orchestrator's call, until that is over.
Undoing(x) == Engaged(x) /\ x.step \in {"activate", "restore", "recover"}

\* Where a call of the orchestrator has its references from: the reference it replaces is
\* the stored one, first as the provider it listed, then as the one it found; the one it
\* staged is stored once it is saved.
Traced(x) ==
  LET ref == stored[x.id].ref IN
  /\ x.step = "queued" => x.prior.ref = NoRef /\ x.undo.ref = NoRef
  /\ x.op \in {"remove", "sync"} => x.prior.ref = NoRef /\ x.staged = NoRef
  /\ Engaged(x) =>
       /\ x.step \in {"credential", "probe", "save"} =>
            /\ x.undo.ref = NoRef /\ x.staged \in {NoRef, x.cand.ref}
            /\ x.op \in {"add", "auth"} => x.prior.ref = ref
       /\ x.step = "unstage" => x.prior.ref \in {NoRef, ref} /\ x.undo.ref \in {NoRef, ref}
       /\ x.step \in MutationSteps /\ x.op \in {"add", "auth"} => x.prior.ref = x.undo.ref
       /\ x.step \in {"activate", "restore", "recover"} =>
            /\ x.staged \in {NoRef, ref}
            /\ x.op = "sync" => x.undo.ref = ref
       /\ x.step = "reactivate" => x.undo.ref = ref
       /\ x.step \in {"cleanup", "drop"} =>
            x.prior.ref = x.undo.ref /\ x.staged \in {NoRef, ref}

AllTraced == \A i \in Intents : intent[i] \in Intent => Traced(intent[i])

\* What nobody names is loose or in the orchestrator's hands, also in the file that a
\* rollback of its call would bring back.
Accounted ==
  /\ creds \subseteq Named(stored) \cup loose \cup InHand
  /\ \A i \in Intents : intent[i] \in Intent /\ Undoing(intent[i]) =>
       creds \subseteq Named(Undone(intent[i])) \cup loose \cup InHand

OInv == AllTraced /\ Accounted

\* A call that is queued, or not the orchestrator's.
Waits(y) ==
  /\ ~ Engaged(y)
  /\ y.step = "queued" => y.prior.ref = NoRef /\ y.undo.ref = NoRef /\ y.staged = NoRef

RefsKept == \A p \in Providers : stored'[p].ref = stored[p].ref

LEMMA IdleTraced ==
  ASSUME NEW y \in Intent, Waits(y)
  PROVE  Traced(y) /\ Traced(y)'
<1>1. y.op \in Orchestrated => y.step = "queued"
  BY DEF Waits, Engaged
<1>2. y.op \in {"remove", "sync"} => y.prior.ref = NoRef /\ y.staged = NoRef
  BY <1>1 DEF Waits, Orchestrated
<1> QED
  BY <1>2 DEF Waits, Traced, Engaged

LEMMA TracedIdle ==
  ASSUME NEW y \in Intent, Traced(y), Shaped(y), ~ Engaged(y)
  PROVE  Waits(y)
  BY DEF Traced, Shaped, Waits

LEMMA HeldIsOwn ==
  ASSUME NEW i \in Intents, intent[i] \in Intent
  PROVE  Held(i) = Own(intent[i])
  BY NoIntentIsNone DEF Held, Own

\* The call of the orchestrator.
LEMMA SagaFacts ==
  ASSUME IInv, OInv, NEW i \in Intents, NEW x \in Intent, x = intent[i], Engaged(x)
  PROVE  /\ saga = i /\ i # Nobody /\ Traced(x) /\ Careful(x) /\ x.step # "queued"
         /\ creds \subseteq Named(stored) \cup loose \cup Own(x)
         /\ Undoing(x) => creds \subseteq Named(Undone(x)) \cup loose \cup Own(x)
         /\ x.id \in Providers /\ stored \in [Providers -> Row \cup {Missing}]
         /\ x.undo \in Row \cup {Missing} /\ x.op \in Orchestrated
         /\ stored[x.id].ref # NoRef => stored[x.id].ref \in Named(stored)
         /\ Held(i) = Own(x)
<1>1. saga = i /\ i # Nobody
  BY SentinelsAreApart DEF IInv, Queues
<1>2. InHand = Own(x)
  BY <1>1 DEF InHand
<1>3. /\ creds \subseteq Named(stored) \cup loose \cup Own(x)
      /\ Undoing(x) => creds \subseteq Named(Undone(x)) \cup loose \cup Own(x)
  BY <1>2 DEF OInv, Accounted
<1>4. Traced(x) /\ Careful(x)
  BY DEF OInv, AllTraced, IInv, AllCareful
<1>5. /\ x.id \in Providers /\ stored \in [Providers -> Row \cup {Missing}]
      /\ x.undo \in Row \cup {Missing} /\ x.op \in Orchestrated /\ x.step # "queued"
  BY DEF Intent, IInv, SagaTypeOK, Engaged
<1>6. stored[x.id].ref # NoRef => stored[x.id].ref \in Named(stored)
  BY <1>5, NamedMembers
<1> QED
  BY <1>1, <1>3, <1>4, <1>5, <1>6, HeldIsOwn

\* The others, while the orchestrator's call makes a step.
LEMMA OthersTraced ==
  ASSUME IInv, OInv, NEW i \in Intents, saga \in {i, Nobody},
         \A j \in Intents \ {i} : intent'[j] = intent[j],
         intent'[i] \in Intent => Traced(intent[i])'
  PROVE  AllTraced'
<1>1. ASSUME NEW j \in Intents, intent'[j] \in Intent
      PROVE  Traced(intent[j])'
  <2>1. CASE j = i
    BY <1>1, <2>1
  <2>2. CASE j # i
    <3>1. PICK x \in Intent : x = intent'[j]
      BY <1>1
    <3>2. x = intent[j] /\ ~ Engaged(x)
      BY <2>2, <3>1, SentinelsAreApart DEF IInv, Queues
    <3>3. Waits(x)
      BY <3>1, <3>2, TracedIdle DEF OInv, AllTraced, IInv, AllCareful, Careful
    <3>4. Traced(x)'
      BY <3>1, <3>3, IdleTraced
    <3> QED
      BY <3>1, <3>4
  <2> QED
    BY <2>1, <2>2
<1> QED
  BY <1>1 DEF AllTraced

\* The orchestrator's call comes to be at y.
LEMMA OwnStep ==
  ASSUME IInv, OInv, IInv', NEW i \in Intents, saga \in {i, Nobody}, saga' = i,
         NEW y \in Intent, intent'[i] = y, \A j \in Intents \ {i} : intent'[j] = intent[j],
         Traced(y)',
         creds' \subseteq Named(stored)' \cup loose' \cup Own(y),
         Undoing(y) => creds' \subseteq Named(Undone(y))' \cup loose' \cup Own(y)
  PROVE  OInv'
<1>1. AllTraced'
  BY OthersTraced
<1>2. i # Nobody /\ InHand' = Own(y)
  BY SentinelsAreApart DEF InHand, Own
<1>3. ASSUME NEW j \in Intents, intent'[j] \in Intent, Undoing(intent[j])'
      PROVE  creds' \subseteq Named(Undone(intent[j]))' \cup loose' \cup Own(y)
  <2>1. Engaged(intent'[j])
    BY <1>3 DEF Undoing, Engaged
  <2>2. j = i
    BY <2>1 DEF IInv, Queues, Engaged
  <2> QED
    BY <1>3, <2>2 DEF Undoing, Engaged
<1>4. Accounted'
  BY <1>2, <1>3 DEF Accounted
<1> QED
  BY <1>1, <1>4 DEF OInv

\* The orchestrator's call is answered.
LEMMA OwnAnswer ==
  ASSUME IInv, OInv, IInv', NEW i \in Intents, saga = i, NEW answer, AnswersWith(i, answer),
         creds' \subseteq Named(stored)' \cup loose'
  PROVE  OInv'
<1>1. saga' = Nobody /\ intent' = [intent EXCEPT ![i] = Answered]
  BY DEF AnswersWith, Becomes
<1>2. intent'[i] = Answered /\ \A j \in Intents \ {i} : intent'[j] = intent[j]
  BY <1>1 DEF IInv, SagaTypeOK
<1>3. AllTraced'
  BY <1>2, OthersTraced, NoIntentIsNone
<1>4. ASSUME NEW j \in Intents, intent'[j] \in Intent, Undoing(intent[j])'
      PROVE  FALSE
  <2>1. Engaged(intent'[j])
    BY <1>4 DEF Undoing, Engaged
  <2>2. saga' = j
    BY <2>1 DEF IInv, Queues, Engaged
  <2> QED
    BY <1>1, <2>2, SentinelsAreApart
<1>5. InHand' = {}
  BY <1>1 DEF InHand
<1>6. Accounted'
  BY <1>4, <1>5 DEF Accounted
<1> QED
  BY <1>3, <1>6 DEF OInv

\* Another call makes a step, or nobody: no reference of the file changes.
LEMMA BystanderStep ==
  ASSUME IInv, OInv, IInv', saga' = saga, saga # Nobody => intent'[saga] = intent[saga],
         RefsKept, creds' \subseteq creds, loose \subseteq loose',
         \A j \in Intents : intent'[j] \in Intent => intent'[j] = intent[j] \/ Waits(intent'[j])
  PROVE  OInv'
<1>1. /\ stored \in [Providers -> Row \cup {Missing}] /\ stored' \in [Providers -> Row \cup {Missing}]
  BY DEF IInv, SagaTypeOK
<1>2. \A r : r \in Named(stored)' <=> r \in Named(stored)
  BY NamedMembers DEF RefsKept, Named
<1>3. ASSUME NEW x \in Intent
      PROVE  /\ \A r : r \in Named(Undone(x))' <=> r \in Named(Undone(x))
             /\ Traced(x) => Traced(x)'
  <2>1. x.id \in Providers
    BY DEF Intent
  <2>2. \A p \in Providers : [stored' EXCEPT ![x.id] = x.undo][p].ref
                             = [stored EXCEPT ![x.id] = x.undo][p].ref
    BY <1>1, <2>1 DEF RefsKept
  <2>3. \A r : r \in Named(Undone(x))' <=> r \in Named(Undone(x))
    BY <2>2 DEF Undone, Named
  <2>4. stored'[x.id].ref = stored[x.id].ref
    BY <2>1 DEF RefsKept
  <2>5. Traced(x) => Traced(x)'
    BY <2>4 DEF Traced, Engaged
  <2> QED
    BY <2>3, <2>5
<1>4. ASSUME NEW j \in Intents, intent'[j] \in Intent
      PROVE  Traced(intent[j])'
  <2>1. PICK x \in Intent : x = intent'[j]
    BY <1>4
  <2>2. Traced(x)'
    <3>1. CASE x = intent[j]
      BY <1>3, <2>1, <3>1 DEF OInv, AllTraced
    <3>2. CASE Waits(x)
      BY <2>1, <3>2, IdleTraced
    <3> QED
      BY <2>1, <3>1, <3>2
  <2> QED
    BY <2>1, <2>2
<1>5. InHand' = InHand
  BY DEF InHand, Own
<1>6. ASSUME NEW j \in Intents, intent'[j] \in Intent, Undoing(intent[j])'
      PROVE  creds' \subseteq Named(Undone(intent[j]))' \cup loose' \cup InHand
  <2>1. PICK x \in Intent : x = intent'[j]
    BY <1>6
  <2>2. Engaged(x) /\ Undoing(x)
    BY <1>6, <2>1 DEF Undoing, Engaged
  <2>3. saga' = j
    BY <2>1, <2>2 DEF IInv, Queues, Engaged
  <2>4. x = intent[j]
    BY <2>1, <2>3, SentinelsAreApart
  <2>5. creds \subseteq Named(Undone(x)) \cup loose \cup InHand
    BY <2>2, <2>4 DEF OInv, Accounted
  <2>6. creds' \subseteq Named(Undone(x))' \cup loose' \cup InHand
    BY <1>3, <2>5
  <2> QED
    BY <2>1, <2>6
<1>7. creds' \subseteq Named(stored)' \cup loose' \cup InHand
  BY <1>2 DEF OInv, Accounted
<1>8. Accounted'
  BY <1>5, <1>6, <1>7 DEF Accounted
<1> QED
  BY <1>4, <1>8 DEF OInv, AllTraced

LEMMA DirectMoves ==
  ASSUME IInv, OInv, IInv', NEW i \in Intents, NEW x \in Intent, x = intent[i],
         x.op \notin Orchestrated, RefsKept, creds' \subseteq creds,
         \/ \E answer : AnswersWith(i, answer)
         \/ \E y \in Intent : /\ Becomes(i, y) /\ y.op = x.op /\ y.step # "queued"
                              /\ UNCHANGED <<saga, loose>>
  PROVE  OInv'
<1>1. saga # i
  BY DEF IInv, Queues, Engaged
<1>2. /\ intent \in [Intents -> Intent \cup {NoIntent, Answered}]
      /\ saga \in Intents \cup {Nobody}
  BY DEF IInv, SagaTypeOK
<1>3. PICK y : /\ intent' = [intent EXCEPT ![i] = y]
               /\ y \in Intent => y.op = x.op /\ y.step # "queued"
  <2>1. ASSUME NEW answer, AnswersWith(i, answer)
        PROVE  intent' = [intent EXCEPT ![i] = Answered] /\ Answered \notin Intent
    BY <2>1, NoIntentIsNone DEF AnswersWith, Becomes
  <2> QED
    BY <2>1 DEF Becomes
<1>4. intent'[i] = y /\ \A j \in Intents \ {i} : intent'[j] = intent[j]
  BY <1>2, <1>3
<1>5. y \in Intent => Waits(y)
  BY <1>3 DEF Waits, Engaged
<1>6. saga' = saga /\ loose \subseteq loose'
  BY <1>1 DEF AnswersWith
<1>7. saga # Nobody => intent'[saga] = intent[saga]
  BY <1>1, <1>2, <1>4
<1> QED
  BY <1>4, <1>5, <1>6, <1>7, BystanderStep

\* A call of the service without the orchestrator leaves the references of the file as
\* they are, and its answer gives up none.
LEMMA DirectCallsAccount ==
  ASSUME IInv, OInv, IInv', NEW i \in Intents, intent[i] \in Intent,
         intent[i].op \notin Orchestrated, SagaStep(i)
  PROVE  OInv'
<1>1. PICK x \in Intent : x = intent[i]
  OBVIOUS
<1>2. Careful(x) /\ x.staged = NoRef /\ x.step \notin {"credential", "unstage", "cleanup", "drop"}
  BY <1>1 DEF IInv, AllCareful, Careful, Shaped
<1>3. /\ stored \in [Providers -> Row \cup {Missing}] /\ x.id \in Providers
      /\ x.op \in Operation \ Orchestrated
  BY <1>1 DEF IInv, SagaTypeOK, Intent
<1>4. stored' = stored => RefsKept
  BY DEF RefsKept
<1>5. ASSUME NEW s \in {"probe", "save", "activate", "restore", "reactivate", "recover"},
             Goes(i, s), UNCHANGED <<saga, loose>>
      PROVE  \E y \in Intent : /\ Becomes(i, y) /\ y.op = x.op /\ y.step # "queued"
                               /\ UNCHANGED <<saga, loose>>
  <2>1. PICK y \in Intent : Becomes(i, y) /\ y.step = s /\ y.op = x.op
    BY <1>1, <1>5, CallGoes
  <2> QED
    BY <1>5, <2>1
<1>6. ASSUME NEW answer, Fails(i, answer)
      PROVE  AnswersWith(i, answer)
  BY <1>1, <1>2, <1>6 DEF Fails
<1>7. CASE DirectBegins(i)
  <2>1. /\ Goes(i, "probe") \/ Goes(i, "save")
        /\ UNCHANGED <<stored, creds, saga, loose>>
    BY <1>7 DEF DirectBegins
  <2> QED
    BY <1>1, <1>3, <1>4, <1>5, <2>1, DirectMoves
<1>8. CASE Probe(i)
  <2>1. /\ UNCHANGED <<stored, creds>>
        /\ \/ \E answer : Fails(i, answer)
           \/ Goes(i, "save") /\ UNCHANGED <<saga, loose>>
    BY <1>8 DEF Probe
  <2> QED
    BY <1>1, <1>3, <1>4, <1>5, <1>6, <2>1, DirectMoves
<1>9. CASE SaveFails(i)
  <2>1. UNCHANGED <<stored, creds>> /\ \E answer : Fails(i, answer)
    BY <1>9 DEF SaveFails
  <2> QED
    BY <1>1, <1>3, <1>4, <1>6, <2>1, DirectMoves
<1>10. CASE Save(i)
  <2> DEFINE found == stored[x.id]
             saved == Saved(i, found)
             new == [x EXCEPT !.step = "activate", !.undo = found, !.cand = saved]
  <2>1. /\ found # Missing /\ stored' = [stored EXCEPT ![x.id] = saved] /\ Becomes(i, new)
        /\ UNCHANGED <<creds, saga, loose>>
    BY <1>1, <1>3, <1>10 DEF Save, Orchestrated
  <2>2. found \in Row
    BY <1>3, <2>1
  <2>3. saved \in Row /\ saved.ref = found.ref
    <3>1. CASE x.op \in {"enable", "disable"}
      <4>1. saved = [found EXCEPT !.enabled = x.op = "enable"]
        BY <1>1, <3>1 DEF Saved
      <4>2. (x.op = "enable") \in BOOLEAN
        OBVIOUS
      <4> QED
        BY <2>2, <4>1, <4>2 DEF Row
    <3>2. CASE x.op = "direct-sync"
      BY <1>1, <2>2, <3>2 DEF Saved
    <3> QED
      BY <1>3, <3>1, <3>2 DEF Operation, Orchestrated
  <2> HIDE DEF found, saved
  <2>4. new \in Intent /\ new.op = x.op /\ new.step = "activate"
    BY <2>2, <2>3 DEF Intent
  <2> HIDE DEF new
  <2>5. RefsKept
    BY <1>3, <2>1, <2>3 DEF RefsKept, found
  <2>6. \E y \in Intent : Becomes(i, y) /\ y.op = x.op /\ y.step # "queued"
                          /\ UNCHANGED <<saga, loose>>
    BY <2>1, <2>4
  <2> QED
    BY <1>1, <1>3, <2>1, <2>5, <2>6, DirectMoves
<1>11. CASE Activated(i)
  <2>1. /\ UNCHANGED <<stored, creds>>
        /\ \/ MutationEnds(i, "activated")
           \/ Goes(i, "recover") /\ UNCHANGED <<saga, loose>>
    BY <1>11 DEF Activated
  <2>2. MutationEnds(i, "activated") => \E answer : AnswersWith(i, answer)
    BY <1>1, <1>3, MutationEndings DEF Orchestrated
  <2> QED
    BY <1>1, <1>3, <1>4, <1>5, <2>1, <2>2, DirectMoves
<1>12. CASE NotActivated(i)
  <2>1. UNCHANGED <<stored, creds, saga, loose>> /\ Goes(i, "restore")
    BY <1>12 DEF NotActivated
  <2> QED
    BY <1>1, <1>3, <1>4, <1>5, <2>1, DirectMoves
<1>13. ASSUME stored' = Restored(i), x.step \in MutationSteps
       PROVE  RefsKept
  <2>1. x.undo.ref = stored[x.id].ref
    BY <1>2, <1>3, <1>13 DEF Careful, Grounded
  <2>2. stored' = [stored EXCEPT ![x.id] = x.undo]
    BY <1>1, <1>13 DEF Restored
  <2> QED
    BY <1>3, <2>1, <2>2 DEF RefsKept
<1>14. CASE Restore(i)
  <2>1. /\ x.step = "restore" /\ UNCHANGED creds
        /\ \/ stored' = Restored(i)
              /\ \E result \in {"not-activated", "threw"} : MutationEnds(i, result)
           \/ MutationEnds(i, "incomplete") /\ UNCHANGED stored
    BY <1>1, <1>14 DEF Restore, At
  <2>2. \E answer : AnswersWith(i, answer)
    BY <1>6, <2>1, MutationEndings
  <2>3. RefsKept
    BY <1>4, <1>13, <2>1 DEF MutationSteps
  <2> QED
    BY <1>1, <1>3, <2>1, <2>2, <2>3, DirectMoves
<1>15. CASE Recover(i)
  <2>1. /\ x.step = "recover" /\ UNCHANGED creds
        /\ \/ stored' = Restored(i) /\ Goes(i, "reactivate") /\ UNCHANGED <<saga, loose>>
           \/ MutationEnds(i, "incomplete") /\ UNCHANGED stored
    BY <1>1, <1>15 DEF Recover, At
  <2>2. RefsKept
    BY <1>4, <1>13, <2>1 DEF MutationSteps
  <2>3. MutationEnds(i, "incomplete") => \E answer : AnswersWith(i, answer)
    BY MutationEndings
  <2> QED
    BY <1>1, <1>3, <1>5, <2>1, <2>2, <2>3, DirectMoves
<1>16. CASE Reactivate(i)
  <2>1. /\ UNCHANGED <<stored, creds>>
        /\ \/ MutationEnds(i, "incomplete") \/ MutationEnds(i, "threw")
    BY <1>16 DEF Reactivate
  <2>2. \E answer : AnswersWith(i, answer)
    BY <1>6, <2>1, MutationEndings
  <2> QED
    BY <1>1, <1>3, <1>4, <2>1, <2>2, DirectMoves
<1>17. ~ AddBegins(i) /\ ~ AuthRefused(i) /\ ~ AuthBegins(i) /\ ~ OtherBegins(i)
  <2>1. /\ AddBegins(i) => intent[i].op = "add"
        /\ AuthRefused(i) \/ AuthBegins(i) => intent[i].op = "auth"
        /\ OtherBegins(i) => intent[i].op \in {"remove", "sync"}
    BY Zenon DEF AddBegins, AuthRefused, AuthBegins, OtherBegins
  <2> QED
    BY <1>1, <1>3, <2>1 DEF Orchestrated
<1>18. ~ CredentialSet(i) /\ ~ Unstage(i) /\ ~ Cleanup(i) /\ ~ Drop(i)
  BY <1>1, <1>2 DEF CredentialSet, Unstage, Cleanup, Drop, At
<1> QED
  BY <1>7, <1>8, <1>9, <1>10, <1>11, <1>12, <1>14, <1>15, <1>16, <1>17, <1>18 DEF SagaStep

\* A call of the orchestrator fails: it is answered, and nothing is in its hands that is
\* not stored, or it goes and takes back what it staged.
LEMMA OwnFails ==
  ASSUME IInv, OInv, IInv', NEW i \in Intents, NEW x \in Intent, x = intent[i], Engaged(x),
         NEW answer, Fails(i, answer), creds' = creds,
         {x.prior.ref, x.undo.ref} \subseteq {NoRef, stored'[x.id].ref},
         creds \subseteq Named(stored)' \cup loose \cup Own(x)
  PROVE  OInv'
<1>1. /\ saga = i /\ Traced(x) /\ x.id \in Providers /\ x.op \in Orchestrated
  BY SagaFacts
<1>2. stored'[x.id].ref # NoRef => stored'[x.id].ref \in Named(stored)'
  BY <1>1, NamedMembers DEF Named
<1>3. CASE x.staged = NoRef
  <2>1. AnswersWith(i, answer)
    BY <1>3 DEF Fails
  <2>2. loose \subseteq loose'
    BY <2>1 DEF AnswersWith
  <2>3. Own(x) \subseteq Named(stored)'
    BY <1>2, <1>3 DEF Own
  <2> QED
    BY <1>1, <2>1, <2>2, <2>3, OwnAnswer
<1>4. CASE x.staged # NoRef
  <2>1. Goes(i, "unstage") /\ saga' = i /\ loose' = loose
    BY <1>1, <1>4 DEF Fails
  <2>2. PICK y \in Intent :
          /\ Becomes(i, y) /\ y.step = "unstage" /\ y.op = x.op /\ y.id = x.id
          /\ y.prior = x.prior /\ y.undo = x.undo /\ y.staged = x.staged
    BY <2>1, CallGoes
  <2>3. intent'[i] = y /\ \A j \in Intents \ {i} : intent'[j] = intent[j]
    BY <2>2 DEF Becomes, IInv, SagaTypeOK
  <2>4. Traced(y)'
    BY <1>1, <2>2 DEF Traced, MutationSteps, Engaged
  <2>5. Own(y) = Own(x) /\ ~ Undoing(y)
    BY <2>2 DEF Own, Undoing
  <2> QED
    BY <1>1, <2>1, <2>3, <2>4, <2>5, OwnStep
<1> QED
  BY <1>3, <1>4

\* It leaves what it holds to the owner.
LEMMA OwnPartial ==
  ASSUME IInv, OInv, IInv', NEW i \in Intents, Engaged(intent[i]),
         AnswersWith(i, "partial_failure"), creds' = creds, stored' = stored
  PROVE  OInv'
<1>1. PICK x \in Intent : x = intent[i]
  BY DEF Engaged
<1>2. /\ saga = i /\ creds \subseteq Named(stored) \cup loose \cup Own(x) /\ Held(i) = Own(x)
  BY <1>1, SagaFacts
<1>3. loose' = loose \cup Own(x)
  BY <1>2 DEF AnswersWith, LeavesSome
<1>4. creds' \subseteq Named(stored)' \cup loose'
  BY <1>2, <1>3 DEF Named
<1> QED
  BY <1>2, <1>4, OwnAnswer

\* It goes on in the same mutation, or outside of any, with the references it has.
LEMMA OwnGoes ==
  ASSUME IInv, OInv, IInv', NEW i \in Intents, NEW x \in Intent, x = intent[i], Engaged(x),
         NEW s \in {"probe", "save", "restore", "cleanup", "drop", "recover", "unstage"},
         Goes(i, s), saga' = saga, loose' = loose, stored' = stored,
         creds' \subseteq creds \cup {x.staged}, NoRef \notin creds',
         s \in {"probe", "save"} => x.step \in {"credential", "probe"},
         s = "unstage" => x.step = "credential",
         s \in {"restore", "recover"} => x.step = "activate",
         s = "cleanup" => x.step = "activate" /\ x.op \in {"add", "auth"},
         s = "drop" => x.step = "cleanup"
  PROVE  OInv'
<1>1. /\ saga = i /\ Traced(x) /\ x.op \in Orchestrated
      /\ creds \subseteq Named(stored) \cup loose \cup Own(x)
      /\ Undoing(x) => creds \subseteq Named(Undone(x)) \cup loose \cup Own(x)
  BY SagaFacts
<1>2. PICK y \in Intent :
        /\ Becomes(i, y) /\ y.step = s /\ y.op = x.op /\ y.id = x.id
        /\ y.prior = x.prior /\ y.undo = x.undo /\ y.staged = x.staged /\ y.cand = x.cand
  BY CallGoes
<1>3. intent'[i] = y /\ \A j \in Intents \ {i} : intent'[j] = intent[j]
  BY <1>2 DEF Becomes, IInv, SagaTypeOK
<1>4. Own(y) = Own(x) /\ creds' \subseteq creds \cup Own(y)
  BY <1>2 DEF Own
<1>5. Traced(y)'
  BY <1>1, <1>2 DEF Traced, MutationSteps, Engaged, Orchestrated
<1>6. Undoing(y) => Undoing(x)
  BY <1>2 DEF Undoing
<1>7. Undone(y)' = Undone(x) /\ Named(stored)' = Named(stored)
  BY <1>2 DEF Undone, Named
<1>8. Named(Undone(y))' = Named(Undone(x))
  BY <1>7 DEF Named
<1>9. creds' \subseteq Named(stored)' \cup loose' \cup Own(y)
  BY <1>1, <1>4, <1>7
<1>10. Undoing(y) => creds' \subseteq Named(Undone(y))' \cup loose' \cup Own(y)
  BY <1>1, <1>4, <1>6, <1>8
<1> QED
  BY <1>1, <1>3, <1>5, <1>9, <1>10, OwnStep

LEMMA BeginsAccounts ==
  ASSUME IInv, OInv, IInv', NEW i \in Intents, At(i, "queued"), intent[i].op \in Orchestrated,
         saga = Nobody, saga' = i, UNCHANGED <<stored, creds, loose>>,
         \/ intent[i].op \in {"add", "auth"} /\ Begun(i)
         \/ intent[i].op \in {"remove", "sync"} /\ (Goes(i, "probe") \/ Goes(i, "save"))
  PROVE  OInv'
<1>1. intent[i] \in Intent /\ intent[i].step = "queued" /\ intent[i].staged = NoRef
  BY QueuedCall
<1>2. PICK x \in Intent : x = intent[i]
  BY <1>1
<1>3. Traced(x)
  BY <1>2 DEF OInv, AllTraced
<1>4. PICK y \in Intent :
        /\ Becomes(i, y) /\ y.op = x.op /\ y.id = x.id /\ y.undo = x.undo
        /\ y.step \in {"credential", "probe", "save"} /\ y.staged \in {NoRef, y.cand.ref}
        /\ IF x.op \in {"remove", "sync"} THEN y.prior = x.prior /\ y.staged = NoRef
           ELSE y.prior = stored[x.id]
  <2>1. CASE intent[i].op \in {"add", "auth"} /\ Begun(i)
    <3>1. PICK y \in Intent :
            /\ Becomes(i, y) /\ y.op = intent[i].op /\ y.id = intent[i].id
            /\ y.prior = stored[intent[i].id] /\ y.undo = intent[i].undo
            /\ \/ y.step = "credential" /\ y.staged = y.cand.ref
               \/ y.step = "probe" /\ y.staged = NoRef
      BY <2>1, Zenon DEF Begun
    <3>2. /\ y.op = x.op /\ y.id = x.id /\ y.undo = x.undo
          /\ y.step \in {"credential", "probe", "save"} /\ y.staged \in {NoRef, y.cand.ref}
          /\ IF x.op \in {"remove", "sync"} THEN y.prior = x.prior /\ y.staged = NoRef
             ELSE y.prior = stored[x.id]
      BY <1>2, <2>1, <3>1
    <3>3. Becomes(i, y)
      BY <3>1
    <3> QED
      BY <3>2, <3>3, Zenon
  <2>2. CASE intent[i].op \in {"remove", "sync"} /\ (Goes(i, "probe") \/ Goes(i, "save"))
    BY <1>1, <1>2, <2>2, CallGoes
  <2> QED
    BY <2>1, <2>2
<1>5. intent'[i] = y /\ \A j \in Intents \ {i} : intent'[j] = intent[j]
  BY <1>4 DEF Becomes, IInv, SagaTypeOK
<1>6. Traced(y)'
  BY <1>1, <1>2, <1>3, <1>4 DEF Traced, MutationSteps, Engaged
<1>7. creds' \subseteq Named(stored)' \cup loose' \cup Own(y)
  BY DEF OInv, Accounted, InHand, Named
<1>8. ~ Undoing(y)
  BY <1>4 DEF Undoing
<1> QED
  BY <1>5, <1>6, <1>7, <1>8, OwnStep

LEMMA RefusalAccounts ==
  ASSUME IInv, OInv, IInv', NEW i \in Intents, AuthRefused(i)
  PROVE  OInv'
<1>1. /\ At(i, "queued") /\ saga = Nobody /\ AnswersWith(i, "rolled_back")
      /\ UNCHANGED <<stored, creds>>
  BY Zenon DEF AuthRefused
<1>2. saga' = Nobody /\ loose \subseteq loose' /\ intent' = [intent EXCEPT ![i] = Answered]
  BY <1>1 DEF AnswersWith, Becomes
<1>3. \A j \in Intents : intent'[j] = intent[j] \/ intent'[j] = Answered
  BY <1>2 DEF IInv, SagaTypeOK
<1>4. RefsKept
  BY <1>1 DEF RefsKept
<1> QED
  BY <1>1, <1>2, <1>3, <1>4, BystanderStep, NoIntentIsNone

LEMMA StagingAccounts ==
  ASSUME IInv, OInv, IInv', NEW i \in Intents, intent[i] \in Intent,
         intent[i].op \in Orchestrated, CredentialSet(i) \/ Unstage(i)
  PROVE  OInv'
<1>1. PICK x \in Intent : x = intent[i]
  OBVIOUS
<1>2. x.step \in {"credential", "unstage"} /\ Engaged(x)
  BY <1>1 DEF CredentialSet, Unstage, At, Engaged
<1>3. /\ saga = i /\ Traced(x) /\ Careful(x) /\ Held(i) = Own(x)
      /\ creds \subseteq Named(stored) \cup loose \cup Own(x)
      /\ stored[x.id].ref # NoRef => stored[x.id].ref \in Named(stored)
  BY <1>1, <1>2, SagaFacts
<1>4. NoRef \notin creds
  BY SentinelsAreApart DEF IInv, SagaTypeOK
<1>5. CASE CredentialSet(i)
  <2>1. /\ x.step = "credential" /\ UNCHANGED <<stored, saga, loose>>
        /\ creds' \subseteq creds \cup {x.staged}
        /\ Goes(i, "unstage") \/ Goes(i, "probe")
    BY <1>1, <1>5 DEF CredentialSet, At
  <2>2. x.staged # NoRef
    BY <1>3, <2>1 DEF Careful, Shaped
  <2> QED
    BY <1>1, <1>2, <1>4, <2>1, <2>2, OwnGoes
<1>6. CASE Unstage(i)
  <2>1. CASE AnswersWith(i, "partial_failure") /\ UNCHANGED creds
    <3>1. stored' = stored
      BY <1>6 DEF Unstage
    <3> QED
      BY <1>1, <1>2, <2>1, <3>1, OwnPartial
  <2>2. CASE creds' = creds \ {x.staged} /\ AnswersWith(i, "rolled_back")
    <3>1. stored' = stored /\ x.step = "unstage"
      BY <1>1, <1>6 DEF Unstage, At
    <3>2. {x.prior.ref, x.undo.ref} \ {NoRef} \subseteq Named(stored)
      BY <1>2, <1>3, <3>1 DEF Traced
    <3>3. loose \subseteq loose'
      BY <2>2 DEF AnswersWith
    <3>4. creds' \subseteq Named(stored)' \cup loose'
      BY <1>3, <2>2, <3>1, <3>2, <3>3 DEF Own, Named
    <3> QED
      BY <1>3, <2>2, <3>4, OwnAnswer
  <2> QED
    BY <1>1, <1>6, <2>1, <2>2 DEF Unstage
<1> QED
  BY <1>5, <1>6

LEMMA ProbingAccounts ==
  ASSUME IInv, OInv, IInv', NEW i \in Intents, intent[i] \in Intent,
         intent[i].op \in Orchestrated, Probe(i) \/ SaveFails(i)
  PROVE  OInv'
<1>1. PICK x \in Intent : x = intent[i]
  OBVIOUS
<1>2. /\ x.step \in {"probe", "save"} /\ Engaged(x) /\ UNCHANGED <<stored, creds>>
      /\ \/ \E answer : Fails(i, answer)
         \/ x.step = "probe" /\ Goes(i, "save") /\ UNCHANGED <<saga, loose>>
  BY <1>1 DEF Probe, SaveFails, At, Engaged
<1>3. /\ Traced(x) /\ creds \subseteq Named(stored) \cup loose \cup Own(x)
      /\ x.op \in Orchestrated
  BY <1>1, <1>2, SagaFacts
<1>4. NoRef \notin creds'
  BY <1>2, SentinelsAreApart DEF IInv, SagaTypeOK
<1>5. {x.prior.ref, x.undo.ref} \subseteq {NoRef, stored'[x.id].ref}
  BY <1>2, <1>3 DEF Traced, Orchestrated
<1>6. Named(stored)' = Named(stored)
  BY <1>2 DEF Named
<1>7. ASSUME NEW answer, Fails(i, answer) PROVE OInv'
  BY <1>1, <1>2, <1>3, <1>5, <1>6, <1>7, OwnFails
<1>8. ASSUME x.step = "probe", Goes(i, "save"), UNCHANGED <<saga, loose>> PROVE OInv'
  BY <1>1, <1>2, <1>4, <1>8, OwnGoes
<1> QED
  BY <1>2, <1>7, <1>8

LEMMA CleaningAccounts ==
  ASSUME IInv, OInv, IInv', NEW i \in Intents, intent[i] \in Intent,
         intent[i].op \in Orchestrated, Cleanup(i) \/ Drop(i)
  PROVE  OInv'
<1>1. PICK x \in Intent : x = intent[i]
  OBVIOUS
<1>2. x.step \in {"cleanup", "drop"} /\ Engaged(x) /\ UNCHANGED stored
  BY <1>1 DEF Cleanup, Drop, At, Engaged
<1>3. /\ saga = i /\ Traced(x) /\ creds \subseteq Named(stored) \cup loose \cup Own(x)
      /\ stored[x.id].ref # NoRef => stored[x.id].ref \in Named(stored)
  BY <1>1, <1>2, SagaFacts
<1>4. NoRef \notin creds
  BY SentinelsAreApart DEF IInv, SagaTypeOK
<1>5. creds \subseteq Named(stored) \cup loose \cup {x.prior.ref}
  BY <1>2, <1>3 DEF Traced, Own
<1>6. ASSUME AnswersWith(i, "partial_failure"), UNCHANGED creds PROVE OInv'
  BY <1>1, <1>2, <1>6, OwnPartial
<1>7. ASSUME NEW answer, AnswersWith(i, answer),
             creds' \subseteq creds,
             x.prior.ref \in Named(stored) \cup {NoRef} \/ x.prior.ref \notin creds'
      PROVE  OInv'
  <2>1. loose \subseteq loose'
    BY <1>7 DEF AnswersWith
  <2>2. creds' \subseteq Named(stored)' \cup loose'
    BY <1>2, <1>4, <1>5, <1>7, <2>1 DEF Named
  <2> QED
    BY <1>3, <1>7, <2>2, OwnAnswer
<1>8. CASE Cleanup(i)
  <2>1. /\ UNCHANGED creds /\ x.step = "cleanup"
        /\ \/ x.prior.ref \in Named(stored) \cup {NoRef} /\ AnswersWith(i, "committed")
           \/ AnswersWith(i, "partial_failure")
           \/ Goes(i, "drop") /\ UNCHANGED <<saga, loose>>
    BY <1>1, <1>8 DEF Cleanup, At
  <2>2. ASSUME Goes(i, "drop"), UNCHANGED <<saga, loose>> PROVE OInv'
    BY <1>1, <1>2, <1>4, <2>1, <2>2, OwnGoes
  <2> QED
    BY <1>6, <1>7, <2>1, <2>2
<1>9. CASE Drop(i)
  <2>1. \/ creds' = creds \ {x.prior.ref} /\ AnswersWith(i, "committed")
        \/ AnswersWith(i, "partial_failure") /\ UNCHANGED creds
    BY <1>1, <1>9 DEF Drop
  <2> QED
    BY <1>6, <1>7, <2>1
<1> QED
  BY <1>8, <1>9

\* Saving puts the provider that was found where a rollback brings it back from.
LEMMA SavingAccounts ==
  ASSUME IInv, OInv, IInv', NEW i \in Intents, intent[i] \in Intent,
         intent[i].op \in Orchestrated, Save(i)
  PROVE  OInv'
<1>1. PICK x \in Intent : x = intent[i]
  OBVIOUS
<1>2. x.step = "save" /\ Engaged(x)
  BY <1>1 DEF Save, At, Engaged
<1>3. /\ saga = i /\ Traced(x) /\ creds \subseteq Named(stored) \cup loose \cup Own(x)
      /\ x.id \in Providers /\ stored \in [Providers -> Row \cup {Missing}]
      /\ x.op \in Orchestrated
  BY <1>1, <1>2, SagaFacts
<1>found. PICK found : found = stored[x.id]
  OBVIOUS
<1>saved. PICK saved : saved = Saved(i, found)
  OBVIOUS
<1>new. PICK new : new = [x EXCEPT !.step = "activate", !.undo = found, !.cand = saved]
  OBVIOUS
<1>4. /\ found = Missing => x.op \in {"add", "auth"}
      /\ stored' = [stored EXCEPT ![x.id] = saved] /\ Becomes(i, new)
      /\ UNCHANGED <<creds, saga, loose>>
  BY <1>1, <1>found, <1>saved, <1>new DEF Save
<1>5. found \in Row \cup {Missing}
  BY <1>3, <1>found
<1>6. /\ saved \in Row \cup {Missing}
      /\ x.op \in {"add", "auth"} => saved = x.cand
      /\ x.op = "sync" => saved = found
  <2>1. CASE x.op = "remove"
    BY <1>1, <1>saved, <2>1 DEF Saved
  <2>2. CASE x.op = "sync"
    BY <1>1, <1>5, <1>saved, <2>2 DEF Saved
  <2>3. CASE x.op \in {"add", "auth"}
    BY <1>1, <1>saved, <2>3 DEF Saved, Intent
  <2> QED
    BY <1>3, <2>1, <2>2, <2>3 DEF Orchestrated
<1>7. /\ new \in Intent /\ new.op = x.op /\ new.id = x.id /\ new.step = "activate"
      /\ new.undo = found /\ new.prior = x.prior /\ new.staged = x.staged
  BY <1>5, <1>6, <1>new DEF Intent
<1>8. intent'[i] = new /\ \A j \in Intents \ {i} : intent'[j] = intent[j]
  BY <1>4 DEF Becomes, IInv, SagaTypeOK
<1>9. stored'[x.id] = saved
  BY <1>3, <1>4
<1>10. Traced(new)'
  BY <1>2, <1>3, <1>6, <1>7, <1>9, <1>found DEF Traced, MutationSteps, Engaged, Orchestrated
<1>11. Undone(new)' = stored
  BY <1>3, <1>4, <1>7, <1>found DEF Undone
<1>12. Named(Undone(new))' = Named(stored)
  BY <1>11 DEF Named
<1>13. \A r \in Named(stored) : r \in Named(stored)' \cup Own(new)
  <2>1. ASSUME NEW r \in Named(stored) PROVE r \in Named(stored)' \cup Own(new)
    <3>1. PICK p \in Providers : stored[p].ref = r /\ r # NoRef
      BY NamedMembers
    <3>2. CASE p = x.id
      BY <1>7, <1>found, <3>1, <3>2 DEF Own
    <3>3. CASE p # x.id
      <4>1. stored'[p].ref = r
        BY <1>3, <1>4, <3>1, <3>3
      <4> QED
        BY <3>1, <4>1 DEF Named
    <3> QED
      BY <3>2, <3>3
  <2> QED
    BY <2>1
<1>14. Own(x) \subseteq Own(new)
  BY <1>2, <1>3, <1>7 DEF Own, Traced
<1>15. creds' \subseteq Named(stored)' \cup loose' \cup Own(new)
  BY <1>3, <1>4, <1>13, <1>14
<1>16. creds' \subseteq Named(Undone(new))' \cup loose' \cup Own(new)
  BY <1>3, <1>4, <1>12, <1>14
<1> QED
  BY <1>3, <1>4, <1>7, <1>8, <1>10, <1>15, <1>16, OwnStep

\* Once activated, the reference that was replaced is in the hands of the clean-up.
LEMMA ActivationAccounts ==
  ASSUME IInv, OInv, IInv', NEW i \in Intents, intent[i] \in Intent,
         intent[i].op \in Orchestrated, Activated(i) \/ NotActivated(i)
  PROVE  OInv'
<1>1. PICK x \in Intent : x = intent[i]
  OBVIOUS
<1>2. /\ x.step = "activate" /\ Engaged(x) /\ UNCHANGED <<stored, creds>>
      /\ \/ MutationEnds(i, "activated")
         \/ (Goes(i, "recover") \/ Goes(i, "restore")) /\ UNCHANGED <<saga, loose>>
  BY <1>1 DEF Activated, NotActivated, At, Engaged
<1>3. /\ saga = i /\ Traced(x) /\ creds \subseteq Named(stored) \cup loose \cup Own(x)
      /\ x.op \in Orchestrated /\ Held(i) = Own(x)
      /\ stored[x.id].ref # NoRef => stored[x.id].ref \in Named(stored)
  BY <1>1, <1>2, SagaFacts
<1>4. NoRef \notin creds
  BY SentinelsAreApart DEF IInv, SagaTypeOK
<1>5. CASE (Goes(i, "recover") \/ Goes(i, "restore")) /\ UNCHANGED <<saga, loose>>
  BY <1>1, <1>2, <1>4, <1>5, OwnGoes
<1>6. CASE MutationEnds(i, "activated")
  <2>1. CASE x.op \in {"add", "auth"}
    <3>1. Goes(i, "cleanup") /\ UNCHANGED <<saga, loose>>
      BY <1>1, <1>6, <2>1, MutationEndings
    <3> QED
      BY <1>1, <1>2, <1>4, <2>1, <3>1, OwnGoes
  <2>2. CASE x.op \in {"remove", "sync"}
    <3>0. intent[i].op \notin {"add", "auth"} /\ IsSaga(i)
      BY <1>1, <1>3, <2>2 DEF IsSaga
    <3>1. AnswersWith(i, "committed")
      <4> DEFINE answer == IF IsSaga(i) THEN "committed" ELSE "activated"
      <4>1. answer = "committed"
        BY <3>0
      <4>2. AnswersWith(i, answer)
        BY <1>6, <3>0 DEF MutationEnds, Keeps
      <4> QED
        BY <4>1, <4>2, Zenon
    <3>2. IF x.op = "remove" THEN loose' = loose \cup Own(x) ELSE loose \subseteq loose'
      BY <1>1, <1>3, <3>1 DEF AnswersWith, LeavesSome
    <3>3. x.op = "sync" => Own(x) \subseteq Named(stored)
      BY <1>2, <1>3 DEF Traced, Own
    <3>4. creds' \subseteq Named(stored)' \cup loose'
      BY <1>2, <1>3, <2>2, <3>2, <3>3 DEF Named
    <3> QED
      BY <1>3, <3>1, <3>4, OwnAnswer
  <2> QED
    BY <1>3, <2>1, <2>2 DEF Orchestrated
<1> QED
  BY <1>2, <1>5, <1>6

\* A rollback brings the reference back that the call had found.
LEMMA RollbackAccounts ==
  ASSUME IInv, OInv, IInv', NEW i \in Intents, intent[i] \in Intent,
         intent[i].op \in Orchestrated, Restore(i) \/ Recover(i) \/ Reactivate(i)
  PROVE  OInv'
<1>1. PICK x \in Intent : x = intent[i]
  OBVIOUS
<1>2. x.step \in {"restore", "recover", "reactivate"} /\ Engaged(x) /\ UNCHANGED creds
  BY <1>1 DEF Restore, Recover, Reactivate, At, Engaged
<1>3. /\ saga = i /\ Traced(x) /\ creds \subseteq Named(stored) \cup loose \cup Own(x)
      /\ Undoing(x) => creds \subseteq Named(Undone(x)) \cup loose \cup Own(x)
      /\ x.id \in Providers /\ stored \in [Providers -> Row \cup {Missing}]
      /\ x.op \in Orchestrated
  BY <1>1, <1>2, SagaFacts
<1>4. ASSUME MutationEnds(i, "incomplete"), UNCHANGED stored
      PROVE  OInv'
  <2>1. AnswersWith(i, "partial_failure")
    BY <1>4, Zenon DEF MutationEnds, Keeps, IsSaga
  <2> QED
    BY <1>1, <1>2, <1>4, <2>1, OwnPartial
<1>5. ASSUME stored' = Restored(i), x.step \in {"restore", "recover"}
      PROVE  /\ creds \subseteq Named(stored)' \cup loose \cup Own(x)
             /\ stored'[x.id].ref = x.undo.ref
             /\ {x.prior.ref, x.undo.ref} \subseteq {NoRef, stored'[x.id].ref}
  <2>1. stored' = Undone(x)
    BY <1>1, <1>5 DEF Restored, Undone
  <2>2. Named(stored)' = Named(Undone(x))
    BY <2>1 DEF Named
  <2>3. stored'[x.id].ref = x.undo.ref
    BY <1>3, <2>1 DEF Undone
  <2>4. Undoing(x)
    BY <1>2, <1>5 DEF Undoing
  <2>5. x.prior.ref \in {NoRef, x.undo.ref}
    BY <1>2, <1>3, <1>5 DEF Traced, MutationSteps, Orchestrated
  <2> QED
    BY <1>3, <2>2, <2>3, <2>4, <2>5
<1>6. CASE Restore(i)
  <2>1. x.step = "restore"
    BY <1>1, <1>6 DEF Restore, At
  <2>2. \/ stored' = Restored(i) /\ \E result \in {"not-activated", "threw"} : MutationEnds(i, result)
        \/ MutationEnds(i, "incomplete") /\ UNCHANGED stored
    BY <1>6 DEF Restore
  <2>3. ASSUME NEW answer, stored' = Restored(i), Fails(i, answer) PROVE OInv'
    BY <1>1, <1>2, <1>5, <2>1, <2>3, OwnFails
  <2> QED
    BY <1>4, <2>2, <2>3, MutationEndings
<1>7. CASE Recover(i)
  <2>1. x.step = "recover"
    BY <1>1, <1>7 DEF Recover, At
  <2>2. \/ stored' = Restored(i) /\ Goes(i, "reactivate") /\ UNCHANGED <<saga, loose>>
        \/ MutationEnds(i, "incomplete") /\ UNCHANGED stored
    BY <1>7 DEF Recover
  <2>3. ASSUME stored' = Restored(i), Goes(i, "reactivate"), UNCHANGED <<saga, loose>>
        PROVE  OInv'
    <3>1. PICK y \in Intent :
            /\ Becomes(i, y) /\ y.step = "reactivate" /\ y.op = x.op /\ y.id = x.id
            /\ y.prior = x.prior /\ y.undo = x.undo /\ y.staged = x.staged
      BY <1>1, <2>3, CallGoes
    <3>2. intent'[i] = y /\ \A j \in Intents \ {i} : intent'[j] = intent[j]
      BY <3>1 DEF Becomes, IInv, SagaTypeOK
    <3>3. Traced(y)'
      BY <1>2, <1>3, <1>5, <2>1, <2>3, <3>1 DEF Traced, MutationSteps, Engaged
    <3>4. Own(y) = Own(x) /\ ~ Undoing(y)
      BY <3>1 DEF Own, Undoing
    <3>5. creds' \subseteq Named(stored)' \cup loose' \cup Own(y)
      BY <1>2, <1>5, <2>1, <2>3, <3>4
    <3> QED
      BY <1>3, <2>3, <3>2, <3>3, <3>4, <3>5, OwnStep
  <2> QED
    BY <1>4, <2>2, <2>3
<1>8. CASE Reactivate(i)
  <2>1. x.step = "reactivate" /\ UNCHANGED stored
    BY <1>1, <1>8 DEF Reactivate, At
  <2>2. MutationEnds(i, "threw") \/ MutationEnds(i, "incomplete")
    BY <1>8 DEF Reactivate
  <2>3. {x.prior.ref, x.undo.ref} \subseteq {NoRef, stored'[x.id].ref}
    BY <1>2, <1>3, <2>1 DEF Traced, MutationSteps, Orchestrated
  <2>4. Named(stored)' = Named(stored)
    BY <2>1 DEF Named
  <2>5. ASSUME NEW answer, Fails(i, answer) PROVE OInv'
    BY <1>1, <1>2, <1>3, <2>3, <2>4, <2>5, OwnFails
  <2> QED
    BY <1>4, <2>1, <2>2, <2>5, MutationEndings
<1> QED
  BY <1>6, <1>7, <1>8

LEMMA CallsAccount ==
  ASSUME IInv, OInv, IInv', NEW i \in Intents, SagaStep(i)
  PROVE  OInv'
<1>1. intent[i] \in Intent
  <2>1. \E s \in {"queued", "credential", "unstage", "probe", "cleanup", "drop", "save",
                  "activate", "restore", "recover", "reactivate"} : At(i, s)
    BY Zenon DEF SagaStep, AddBegins, AuthRefused, AuthBegins, OtherBegins, DirectBegins,
       CredentialSet, Unstage, Probe, Cleanup, Drop, SaveFails, Save, Activated, NotActivated,
       Restore, Recover, Reactivate
  <2> QED
    BY <2>1, CallRuns DEF IInv
<1>2. CASE intent[i].op \in Orchestrated
  <2>1. CASE AddBegins(i) \/ AuthBegins(i)
    <3>1. /\ At(i, "queued") /\ intent[i].op \in {"add", "auth"} /\ saga = Nobody /\ saga' = i
          /\ UNCHANGED <<stored, creds, loose>>
      BY <2>1, Zenon DEF AddBegins, AuthBegins
    <3>2. Begun(i)
      BY <2>1, AddHasBegun, AuthHasBegun
    <3> QED
      BY <1>2, <3>1, <3>2, BeginsAccounts
  <2>2. CASE OtherBegins(i)
    <3>1. /\ At(i, "queued") /\ intent[i].op \in {"remove", "sync"} /\ saga = Nobody /\ saga' = i
          /\ UNCHANGED <<stored, creds, loose>>
          /\ Goes(i, "probe") \/ Goes(i, "save")
      BY <2>2 DEF OtherBegins
    <3> QED
      BY <1>2, <3>1, BeginsAccounts
  <2>3. ~ DirectBegins(i)
    BY <1>2 DEF DirectBegins, IsSaga
  <2> QED
    BY <1>1, <1>2, <2>1, <2>2, <2>3, RefusalAccounts, StagingAccounts, ProbingAccounts,
       CleaningAccounts, SavingAccounts, ActivationAccounts, RollbackAccounts DEF SagaStep
<1> QED
  BY <1>1, <1>2, DirectCallsAccount

LEMMA AllStepsAccount ==
  ASSUME IInv, OInv, [SagaNext]_sagaVars
  PROVE  OInv'
<1>1. IInv'
  BY StepsKeep
<1>2. ASSUME NEW i \in Intents, SagaStep(i) PROVE OInv'
  BY <1>1, <1>2, CallsAccount
<1>3. ASSUME NEW i \in Intents, NEW op \in Operation, NEW p \in Providers, Ask(i, op, p)
      PROVE  OInv'
  <2> DEFINE new == [op |-> op, id |-> p, step |-> "queued", prior |-> Missing, undo |-> Missing,
                     cand |-> Missing, staged |-> NoRef]
  <2>1. /\ intent[i] = NoIntent /\ intent' = [intent EXCEPT ![i] = new]
        /\ UNCHANGED <<stored, creds, saga, loose>>
    BY <1>3 DEF Ask, Becomes
  <2>2. Waits(new)
    BY NoIntentIsNone DEF Waits, Engaged
  <2> HIDE DEF new
  <2>3. \A j \in Intents : intent'[j] = intent[j] \/ Waits(intent'[j])
    BY <2>1, <2>2 DEF IInv, SagaTypeOK
  <2>4. saga # i
    BY <2>1, NoIntentIsNone DEF IInv, Queues, Engaged
  <2>5. saga # Nobody => intent'[saga] = intent[saga]
    BY <2>1, <2>4 DEF IInv, SagaTypeOK
  <2>6. RefsKept
    BY <2>1 DEF RefsKept
  <2> QED
    BY <1>1, <2>1, <2>3, <2>5, <2>6, BystanderStep
<1>4. ASSUME UNCHANGED <<stored, creds, intent, saga, loose>>
      PROVE  OInv'
  <2>1. RefsKept
    BY <1>4 DEF RefsKept
  <2> QED
    BY <1>1, <1>4, <2>1, BystanderStep
<1>5. ASSUME Crash PROVE OInv'
  <2>1. /\ saga' = Nobody /\ loose' = loose \cup UNION {Held(i) : i \in Intents}
        /\ \A i \in Intents : intent'[i] \in {NoIntent, Answered}
        /\ UNCHANGED <<stored, creds>>
    BY <1>5 DEF Crash
  <2>2. InHand \subseteq loose'
    <3>1. CASE saga = Nobody
      BY <3>1 DEF InHand
    <3>2. CASE saga # Nobody
      <4>1. saga \in Intents /\ intent[saga] \in Intent
        BY <3>2 DEF IInv, SagaTypeOK, Queues, Engaged
      <4>2. InHand = Held(saga)
        BY <3>2, <4>1, HeldIsOwn DEF InHand
      <4> QED
        BY <2>1, <4>1, <4>2
    <3> QED
      BY <3>1, <3>2
  <2>3. AllTraced'
    BY <2>1, NoIntentIsNone DEF AllTraced
  <2>4. Accounted'
    BY <2>1, <2>2, NoIntentIsNone DEF Accounted, OInv, InHand, Named
  <2> QED
    BY <2>3, <2>4 DEF OInv
<1>6. ASSUME Reload PROVE OInv'
  BY <1>4, <1>6 DEF Reload
<1>7. CASE UNCHANGED sagaVars
  BY <1>4, <1>7 DEF sagaVars
<1> QED
  BY <1>2, <1>3, <1>5, <1>6, <1>7 DEF SagaNext

LEMMA InitAccounts ==
  ASSUME SagaInit
  PROVE  OInv
<1>1. /\ creds = {stored[p].ref : p \in Providers} \ {NoRef}
      /\ \A i \in Intents : intent[i] = NoIntent
  BY DEF SagaInit
<1>2. creds = Named(stored)
  BY <1>1 DEF Named
<1> QED
  BY <1>1, <1>2, NoIntentIsNone DEF OInv, AllTraced, Accounted

\* While nobody is in the orchestrator's queue, every credential that is there is one a
\* provider names, or one that an answer, a removal or a restart has left to the owner:
\* add, updateAuth and sync that are answered "committed" or "rolled_back" leave none.
THEOREM NothingIsOrphaned == SagaSpec => []NoOrphans
<1>1. SagaInit => OInv
  BY InitAccounts
<1>2. IInv /\ OInv /\ [SagaNext]_sagaVars => OInv'
  BY AllStepsAccount
<1>3. SagaSpec => []OInv
  BY <1>1, <1>2, InvariantHolds, PTL DEF SagaSpec
<1>4. OInv => NoOrphans
  BY DEF OInv, Accounted, InHand, NoOrphans
<1> QED
  BY <1>3, <1>4, PTL

-------------------------------------------------------------------------------
(* The owner's access and the owner's secret.                                       *)

SessionRecord == [idle : Nat, absolute : Nat]
TokenRow == [used : Nat, live : {TRUE}]

\* The wall clock is behind the time that passed, and never before its start.
Clocked == elapsed \in Nat /\ slip \in 0..MaxSlip /\ elapsed > MaxSlip

\* A session is not ended, and its absolute end is the one of its login; a host token is
\* not ended, and was last used when it says.  A token that ended once had been issued.
SessionsStand ==
  /\ session \in [Sessions -> {NoSession} \cup SessionRecord]
  /\ \A s \in Sessions :
       /\ session[s] # NoSession =>
            /\ s \notin ended /\ opened[s] # 0
            /\ session[s].absolute = opened[s] + AbsoluteTtl
       /\ s \in ended => opened[s] # 0

TokensStand ==
  /\ hostToken \in [HostTokens -> {NoToken} \cup TokenRow]
  /\ \A t \in HostTokens :
       /\ hostToken[t] # NoToken =>
            t \notin ended /\ opened[t] # 0 /\ hostToken[t].used = opened[t]
       /\ t \in ended => opened[t] # 0

\* What a limiter has let through falls into windows that begin at least a window's length
\* after each other, each with no more than the limit: starts are the first of each, and
\* c counts the last one if that is not over.
Windows(log, most, c, starts) ==
  LET first == Len(log) - c.count + 1
  IN
  /\ starts \subseteq DOMAIN log
  /\ \A f, g \in starts : f < g => log[f] + Window <= log[g]
  /\ \A i \in DOMAIN log : i + most <= Len(log) =>
       \E f \in starts : i < f /\ f <= i + most
  /\ c = NoCounter => \A f \in starts : log[f] + Window <= elapsed
  /\ c # NoCounter =>
       /\ first \in starts /\ \A f \in starts : f <= first
       /\ log[first] + Window <= c.reset + slip

Logged(log) ==
  /\ log \in Seq(Nat)
  /\ \A i \in DOMAIN log : log[i] <= elapsed
  /\ \A i, j \in DOMAIN log : i <= j => log[i] <= log[j]

Rationed(log, most, c) ==
  /\ c \in {NoCounter} \cup [count : 1..most, reset : Nat]
  /\ Logged(log)
  /\ \E starts \in SUBSET DOMAIN log : Windows(log, most, c, starts)

AllRationed ==
  /\ counter = [k \in Keys |-> counter[k]] /\ DOMAIN spent = Keys
  /\ \A k \in Keys : Rationed(spent[k], Most(k), counter[k])

\* One process at most is about to write the secret, into a file without one; whoever
\* started with a secret of the file has the one that is there.
OneSecret ==
  /\ \A g \in Processes :
       process[g].step = "writing" =>
         secretFile = "empty" /\ \A h \in Processes : process[h].step = "writing" => h = g
  /\ \A g \in Processes :
       process[g].step = "started" /\ process[g].secret # "environment" =>
         process[g].secret \in Processes /\ process[g].secret = secretFile

AInv ==
  /\ Clocked /\ opened \in [Sessions \cup HostTokens -> Nat]
  /\ AccessTypeOK /\ SessionsStand /\ TokensStand /\ AllRationed /\ OneSecret

LEMMA Timed ==
  ASSUME Clocked
  PROVE  /\ now \in Nat /\ now # 0 /\ now + slip = elapsed
         /\ IdleTtl \in Nat \ {0} /\ AbsoluteTtl \in Nat \ {0} /\ TokenIdle \in Nat \ {0}
         /\ Window \in Nat \ {0} /\ MaxSlip \in Nat /\ elapsed \in Nat /\ slip \in Nat
  BY AccessAssumption DEF Clocked, now

LEMMA MostIsPositive ==
  ASSUME NEW k \in Keys
  PROVE  Most(k) \in Nat \ {0} /\ Most(k) \in 1..More(Limit, PeerLimit)
  BY AccessAssumption DEF Most, More

-------------------------------------------------------------------------------
(* The limiters.                                                                    *)

\* Looking at a counter forgets a window that is over.
LEMMA PurgeRations ==
  ASSUME Clocked, NEW log, NEW most \in Nat \ {0}, NEW c, Rationed(log, most, c),
         c # NoCounter, c.reset <= now
  PROVE  Rationed(log, most, NoCounter)
<1>1. PICK starts \in SUBSET DOMAIN log : Windows(log, most, c, starts)
  BY DEF Rationed
<1>2. c \in [count : 1..most, reset : Nat] /\ log \in Seq(Nat) /\ Logged(log)
  BY DEF Rationed, Logged
<1> DEFINE first == Len(log) - c.count + 1
<1>3. /\ first \in starts /\ log[first] + Window <= c.reset + slip
      /\ \A f \in starts : f <= first
  BY <1>1 DEF Windows
<1>4. first \in DOMAIN log /\ log[first] \in Nat /\ DOMAIN log = 1..Len(log)
  BY <1>1, <1>2, <1>3
<1> HIDE DEF first
<1>5. log[first] + Window <= elapsed
  BY <1>2, <1>3, <1>4, Timed
<1>6. ASSUME NEW f \in starts PROVE log[f] + Window <= elapsed
  <2>1. f \in DOMAIN log /\ log[f] \in Nat
    BY <1>2
  <2>2. log[f] <= log[first]
    BY <1>2, <1>3, <1>4, <2>1 DEF Logged
  <2> QED
    BY <1>4, <1>5, <2>1, <2>2, Timed
<1>7. Windows(log, most, NoCounter, starts)
  BY <1>1, <1>6 DEF Windows
<1> QED
  BY <1>2, <1>7 DEF Rationed

\* One more is let through while there is room.
LEMMA OneMoreRation ==
  ASSUME Clocked, NEW log, NEW most \in Nat \ {0}, NEW c, Rationed(log, most, c), c.count < most,
         NEW d,
         \/ c = NoCounter /\ d = [count |-> 1, reset |-> now + Window]
         \/ c # NoCounter /\ d = [c EXCEPT !.count = c.count + 1]
  PROVE  Rationed(Append(log, elapsed), most, d)
<1>1. PICK starts \in SUBSET DOMAIN log : Windows(log, most, c, starts)
  BY DEF Rationed
<1>2. /\ log \in Seq(Nat) /\ Logged(log) /\ elapsed \in Nat
      /\ c \in {NoCounter} \cup [count : 1..most, reset : Nat]
  BY DEF Rationed, Logged, Clocked
<1> DEFINE n == Len(log)
<1>3. PICK more : more = Append(log, elapsed)
  OBVIOUS
<1>4. /\ more \in Seq(Nat) /\ Len(more) = n + 1 /\ DOMAIN more = 1..(n + 1) /\ n \in Nat
      /\ DOMAIN log = 1..n /\ more[n + 1] = elapsed
      /\ \A i \in 1..n : more[i] = log[i] /\ log[i] \in Nat
  BY <1>2, <1>3
<1> HIDE DEF n
<1>5. Logged(more)
  <2>1. \A i \in 1..n : more[i] <= elapsed
    BY <1>2, <1>4 DEF Logged
  <2>2. \A i \in 1..(n + 1) : more[i] <= elapsed
    BY <1>2, <1>4, <2>1
  <2>3. ASSUME NEW i \in 1..(n + 1), NEW j \in 1..(n + 1), i <= j
        PROVE  more[i] <= more[j]
    <3>1. CASE j = n + 1
      BY <1>4, <2>2, <3>1
    <3>2. CASE j # n + 1
      <4>1. i \in 1..n /\ j \in 1..n
        BY <1>4, <2>3, <3>2
      <4>2. log[i] <= log[j]
        BY <1>2, <1>4, <2>3, <4>1 DEF Logged
      <4> QED
        BY <1>4, <4>1, <4>2
    <3> QED
      BY <3>1, <3>2
  <2> QED
    BY <1>4, <2>2, <2>3 DEF Logged
<1>6. c # NoCounter => c.count \in 1..most /\ c.reset \in Nat
  BY <1>2
<1>7. /\ d \in [count : 1..most, reset : Nat] /\ d # NoCounter
      /\ c = NoCounter => d.count = 1 /\ d.reset = now + Window
      /\ c # NoCounter => d.count = c.count + 1 /\ d.reset = c.reset
  <2>1. CASE c = NoCounter
    <3>1. d = [count |-> 1, reset |-> now + Window]
      BY <2>1
    <3> QED
      BY <2>1, <3>1, Timed DEF NoCounter
  <2>2. CASE c # NoCounter
    <3>1. c \in [count : 1..most, reset : Nat] /\ d = [c EXCEPT !.count = c.count + 1]
      BY <1>2, <2>2
    <3>2. c.count + 1 \in 1..most
      BY <1>6, <2>2
    <3> QED
      BY <2>2, <3>1, <3>2 DEF NoCounter
  <2> QED
    BY <2>1, <2>2
<1>8. CASE c = NoCounter
  <2> DEFINE new == starts \cup {n + 1}
  <2>1. new \subseteq DOMAIN more
    BY <1>1, <1>4
  <2>2. \A f \in starts : f \in 1..n /\ more[f] + Window <= elapsed
    BY <1>1, <1>4, <1>8 DEF Windows
  <2>3. \A f, g \in new : f < g => more[f] + Window <= more[g]
    <3>1. SUFFICES ASSUME NEW f \in new, NEW g \in new, f < g
                   PROVE  more[f] + Window <= more[g]
      OBVIOUS
    <3>2. f \in starts
      BY <2>2, <3>1, <1>4
    <3>3. CASE g \in starts
      BY <1>1, <1>4, <2>2, <3>1, <3>2, <3>3 DEF Windows
    <3>4. CASE g = n + 1
      BY <1>4, <2>2, <3>2, <3>4
    <3> QED
      BY <3>3, <3>4
  <2>4. \A i \in DOMAIN more : i + most <= Len(more) => \E f \in new : i < f /\ f <= i + most
    <3>1. SUFFICES ASSUME NEW i \in 1..(n + 1), i + most <= n + 1
                   PROVE  \E f \in new : i < f /\ f <= i + most
      BY <1>4
    <3>2. CASE i + most = n + 1
      <4>1. i < n + 1
        BY <1>4, <3>1, <3>2
      <4> QED
        BY <3>2, <4>1
    <3>3. CASE i + most <= n
      BY <1>1, <1>4, <3>1, <3>3 DEF Windows
    <3> QED
      BY <1>4, <3>1, <3>2, <3>3
  <2>5. Len(more) - d.count + 1 = n + 1
    BY <1>4, <1>7, <1>8
  <2>6. \A f \in new : f <= n + 1
    BY <1>4, <2>2
  <2>7. more[n + 1] + Window <= d.reset + slip
    <3>1. more[n + 1] = elapsed /\ d.reset = now + Window
      BY <1>4, <1>7, <1>8
    <3>2. now \in Nat /\ slip \in Nat /\ elapsed \in Nat /\ Window \in Nat /\ now + slip = elapsed
      BY Timed
    <3>3. elapsed + Window <= (now + Window) + slip
      BY <3>2
    <3> QED
      BY <3>1, <3>3, Zenon
  <2>8. n + 1 \in new
    OBVIOUS
  <2> HIDE DEF new
  <2>9. Windows(more, most, d, new)
    BY <1>7, <2>1, <2>3, <2>4, <2>5, <2>6, <2>7, <2>8 DEF Windows
  <2> QED
    BY <1>3, <1>5, <1>7, <2>1, <2>9 DEF Rationed
<1>9. CASE c # NoCounter
  <2> DEFINE first == n - c.count + 1
  <2>1. /\ first \in starts /\ \A f \in starts : f <= first
        /\ log[first] + Window <= c.reset + slip
    BY <1>1, <1>9 DEF Windows, n
  <2>2. c.count \in Nat /\ c.count < most /\ first \in 1..n
    BY <1>1, <1>4, <1>6, <1>9, <2>1
  <2>3. Len(more) - d.count + 1 = first
    BY <1>4, <1>7, <1>9, <2>2
  <2>4. \A i \in DOMAIN more : i + most <= Len(more) => \E f \in starts : i < f /\ f <= i + most
    <3>1. SUFFICES ASSUME NEW i \in 1..(n + 1), i + most <= n + 1
                   PROVE  \E f \in starts : i < f /\ f <= i + most
      BY <1>4
    <3>2. CASE i + most = n + 1
      <4>1. PICK count \in Nat : count = c.count /\ count < most
        BY <2>2
      <4>2. first = n - count + 1 /\ first \in 1..n /\ i \in Nat /\ n \in Nat
        BY <1>4, <2>2, <4>1
      <4>3. i < first /\ first <= i + most
        BY <3>2, <4>1, <4>2
      <4> QED
        BY <2>1, <4>3
    <3>3. CASE i + most <= n
      BY <1>1, <1>4, <3>1, <3>3 DEF Windows
    <3> QED
      BY <1>4, <3>1, <3>2, <3>3
  <2> HIDE DEF first
  <2>5. starts \subseteq DOMAIN more /\ \A f, g \in starts : f < g => more[f] + Window <= more[g]
    BY <1>1, <1>4 DEF Windows
  <2>6. more[first] + Window <= d.reset + slip
    BY <1>4, <1>7, <1>9, <2>1, <2>2
  <2>7. Windows(more, most, d, starts)
    BY <1>7, <2>1, <2>3, <2>4, <2>5, <2>6 DEF Windows
  <2> QED
    BY <1>3, <1>5, <1>7, <2>5, <2>7 DEF Rationed
<1> QED
  BY <1>8, <1>9

\* What a step makes of the counters: it looks, or lets one through where there is room.
RationStep ==
  \/ Checked
  \/ \E ks \in SUBSET Keys : Consumed(ks) /\ \A k \in ks : ~ Full(k)

LEMMA CountersRationed ==
  ASSUME Clocked, AllRationed, NEW k \in Keys
  PROVE  Rationed(spent[k], Most(k), Counters[k])
<1>1. PICK c : c = counter[k]
  OBVIOUS
<1>2. Rationed(spent[k], Most(k), c) /\ Most(k) \in Nat \ {0}
  BY <1>1, MostIsPositive DEF AllRationed
<1>3. CASE c # NoCounter /\ c.reset <= now
  <2>1. Counters[k] = NoCounter
    BY <1>1, <1>3 DEF Counters
  <2>2. PICK log, most : log = spent[k] /\ most = Most(k)
    OBVIOUS
  <2> QED
    BY <1>2, <1>3, <2>1, <2>2, PurgeRations
<1>4. CASE ~ (c # NoCounter /\ c.reset <= now)
  <2>1. Counters[k] = c
    BY <1>1, <1>4 DEF Counters
  <2> QED
    BY <1>2, <2>1
<1> QED
  BY <1>3, <1>4

LEMMA LimitersRation ==
  ASSUME Clocked, AllRationed, RationStep, UNCHANGED <<elapsed, slip, door>>
  PROVE  AllRationed'
<1>1. \A k \in Keys : Most(k)' = Most(k)
  BY DEF Most
<1>2. ASSUME NEW log, NEW most, NEW c, Rationed(log, most, c)
      PROVE  Rationed(log, most, c)'
  BY <1>2 DEF Rationed, Logged, Windows
<1>3. DOMAIN spent = Keys
  BY DEF AllRationed
<1>4. CASE Checked
  <2>1. counter' = Counters /\ spent' = spent
    BY <1>4 DEF Checked
  <2>2. counter' = [k \in Keys |-> counter'[k]] /\ DOMAIN spent' = Keys
    BY <1>3, <2>1 DEF Counters
  <2>3. ASSUME NEW k \in Keys PROVE Rationed(spent[k], Most(k), counter[k])'
    <3>1. PICK log, most, c : log = spent[k] /\ most = Most(k) /\ c = Counters[k]
      OBVIOUS
    <3>2. Rationed(log, most, c)'
      BY <1>2, <3>1, CountersRationed
    <3>3. log = spent'[k] /\ most = Most(k)' /\ c = counter'[k]
      BY <1>1, <2>1, <3>1
    <3> QED
      BY <3>2, <3>3
  <2> QED
    BY <2>2, <2>3 DEF AllRationed
<1>5. ASSUME NEW ks \in SUBSET Keys, Consumed(ks), \A k \in ks : ~ Full(k)
      PROVE  AllRationed'
  <2>1. counter' = [k \in Keys |-> counter'[k]] /\ DOMAIN spent' = Keys
    BY <1>5 DEF Consumed
  <2>2. ASSUME NEW k \in Keys PROVE Rationed(spent[k], Most(k), counter[k])'
    <3>1. PICK log, most, c : log = spent[k] /\ most = Most(k) /\ c = Counters[k]
      OBVIOUS
    <3>2. Rationed(log, most, c) /\ most \in Nat \ {0} /\ most = Most(k)'
      BY <1>1, <3>1, CountersRationed, MostIsPositive
    <3>3. CASE k \notin ks
      <4>1. log = spent'[k] /\ c = counter'[k]
        BY <1>5, <3>1, <3>3 DEF Consumed
      <4> QED
        BY <1>2, <3>2, <4>1
    <3>4. CASE k \in ks
      <4>1. c.count < most
        <5>1. ~ (c.count >= most)
          BY <1>5, <3>1, <3>4 DEF Full
        <5>2. c.count \in Nat
          BY <3>2 DEF Rationed, NoCounter
        <5> QED
          BY <3>2, <5>1, <5>2
      <4>2. PICK d : d = counter'[k]
        OBVIOUS
      <4>3. \/ c = NoCounter /\ d = [count |-> 1, reset |-> now + Window]
            \/ c # NoCounter /\ d = [c EXCEPT !.count = c.count + 1]
        BY <1>5, <3>1, <3>4, <4>2 DEF Consumed
      <4>4. PICK more : more = Append(log, elapsed)
        OBVIOUS
      <4>5. Rationed(more, most, d)
        BY <3>2, <4>1, <4>3, <4>4, OneMoreRation
      <4>6. more = spent'[k]
        BY <1>5, <3>1, <3>4, <4>4 DEF Consumed
      <4> QED
        BY <1>2, <3>2, <4>2, <4>5, <4>6
    <3> QED
      BY <3>3, <3>4
  <2> QED
    BY <2>1, <2>2 DEF AllRationed
<1> QED
  BY <1>4, <1>5 DEF RationStep

\* Time passes, and the clock may be set back.
LEMMA TimeRations ==
  ASSUME Clocked, AllRationed, Clocked', elapsed' >= elapsed, slip' >= slip,
         UNCHANGED <<door, counter, spent>>
  PROVE  AllRationed'
<1>1. \A k \in Keys : Most(k)' = Most(k)
  BY DEF Most
<1>2. /\ elapsed \in Nat /\ slip \in Nat /\ elapsed' \in Nat /\ slip' \in Nat /\ Window \in Nat
  BY AccessAssumption DEF Clocked
<1>3. ASSUME NEW k \in Keys PROVE Rationed(spent[k], Most(k), counter[k])'
  <2>1. PICK log, most, c : log = spent[k] /\ most = Most(k) /\ c = counter[k]
    OBVIOUS
  <2>2. Rationed(log, most, c)
    BY <2>1 DEF AllRationed
  <2>3. PICK starts \in SUBSET DOMAIN log : Windows(log, most, c, starts)
    BY <2>2 DEF Rationed
  <2>4. /\ c \in {NoCounter} \cup [count : 1..most, reset : Nat] /\ log \in Seq(Nat)
        /\ \A i \in DOMAIN log : log[i] \in Nat
    BY <2>2 DEF Rationed, Logged
  <2>5. Logged(log)'
    BY <1>2, <2>2, <2>4 DEF Rationed, Logged
  <2> DEFINE first == Len(log) - c.count + 1
  <2>6. c # NoCounter => first \in DOMAIN log /\ log[first] \in Nat /\ c.reset \in Nat
                         /\ log[first] + Window <= c.reset + slip
    BY <2>3, <2>4 DEF Windows
  <2> HIDE DEF first
  <2>7. c # NoCounter => log[first] + Window <= c.reset + slip'
    BY <1>2, <2>6
  <2>8. c = NoCounter => \A f \in starts : log[f] + Window <= elapsed'
    BY <1>2, <2>3, <2>4 DEF Windows
  <2>9. Windows(log, most, c, starts)'
    BY <2>3, <2>7, <2>8 DEF Windows, first
  <2>10. Rationed(log, most, c)'
    BY <2>4, <2>5, <2>9 DEF Rationed
  <2> QED
    BY <1>1, <2>1, <2>10
<1> QED
  BY <1>3 DEF AllRationed

\* Windows that begin a window's length apart, each with no more than the limit: between
\* two that are twice the limit apart a whole one has passed.
LEMMA RationedApart ==
  ASSUME Clocked, NEW log, NEW most \in Nat \ {0}, NEW c, Rationed(log, most, c),
         NEW i \in DOMAIN log, i + 2 * most \in DOMAIN log
  PROVE  log[i + 2 * most] - log[i] >= Window
<1>1. PICK starts \in SUBSET DOMAIN log : Windows(log, most, c, starts)
  BY DEF Rationed
<1>2. /\ log \in Seq(Nat) /\ Logged(log) /\ DOMAIN log = 1..Len(log) /\ Len(log) \in Nat
      /\ \A f \in DOMAIN log : log[f] \in Nat
  BY DEF Rationed, Logged
<1>3. PICK j \in DOMAIN log : j = i + 2 * most
  OBVIOUS
<1>4. i + most <= Len(log) /\ i \in Nat /\ j \in Nat /\ j <= Len(log)
  BY <1>2, <1>3
<1>5. PICK f \in starts : i < f /\ f <= i + most
  BY <1>1, <1>4 DEF Windows
<1>6. f \in DOMAIN log /\ f \in Nat /\ f + most <= Len(log)
  BY <1>2, <1>3, <1>4, <1>5
<1>7. PICK g \in starts : f < g /\ g <= f + most
  BY <1>1, <1>6 DEF Windows
<1>8. g \in DOMAIN log /\ g \in Nat /\ g <= j
  <2>1. g \in DOMAIN log /\ g \in Nat
    BY <1>2, <1>7
  <2>2. most \in Nat /\ i \in Nat /\ f \in Nat /\ j = i + most + most
    BY <1>3, <1>4, <1>6
  <2>3. g <= f + most /\ f <= i + most
    BY <1>5, <1>7
  <2> QED
    BY <1>4, <2>1, <2>2, <2>3
<1>9. log[f] + Window <= log[g]
  BY <1>1, <1>7 DEF Windows
<1>10. log[i] <= log[f] /\ log[g] <= log[j]
  <2>1. \A k, l \in DOMAIN log : k <= l => log[k] <= log[l]
    BY <1>2 DEF Logged
  <2>2. i <= f
    BY <1>4, <1>5, <1>6
  <2> QED
    BY <1>6, <1>8, <2>1, <2>2, Zenon
<1>11. log[i] \in Nat /\ log[f] \in Nat /\ log[g] \in Nat /\ log[j] \in Nat /\ Window \in Nat
  BY <1>2, <1>6, <1>8, Timed
<1>12. log[j] - log[i] >= Window
  BY <1>9, <1>10, <1>11
<1> QED
  BY <1>3, <1>12

-------------------------------------------------------------------------------
(* What each kind of step may change.                                               *)

RequestsTyped == request \in [Requests -> {NoRequest} \cup [step : {"login", "act"}]]

\* A request is let through, limited or answered; no session and no token changes.
LEMMA LimiterSteps ==
  ASSUME AInv, NEW r \in Requests,
         LoginAsks(r) \/ LoginFails(r) \/ ControlAsks(r) \/ OAuthAsked(r) \/ OAuthCalled(r)
  PROVE  /\ UNCHANGED <<elapsed, slip, door, session, hostToken, secretFile, process, opened, ended>>
         /\ RationStep \/ UNCHANGED <<counter, spent>>
         /\ RequestsTyped'
<1>1. RequestsTyped
  BY DEF AInv, AccessTypeOK, RequestsTyped
<1>2. ASSUME NEW ks \in SUBSET Keys, WrongSecret(ks) PROVE RationStep
  BY <1>2 DEF WrongSecret, RationStep
<1>3. {"peer"} \in SUBSET Keys /\ "peer" \in Keys
  BY DEF Keys
<1>4. ASSUME NEW x \in {NoRequest} \cup [step : {"login", "act"}],
             request' = [request EXCEPT ![r] = x]
      PROVE  RequestsTyped'
  BY <1>1, <1>4 DEF RequestsTyped
<1>5. CASE LoginAsks(r)
  <2>1. RationStep
    BY <1>5 DEF LoginAsks, RationStep
  <2>2. RequestsTyped'
    <3>1. CASE Full("peer")
      BY <1>4, <1>5, <3>1 DEF LoginAsks
    <3>2. CASE ~ Full("peer")
      BY <1>4, <1>5, <3>2 DEF LoginAsks
    <3> QED
      BY <3>1, <3>2
  <2> QED
    BY <1>5, <2>1, <2>2 DEF LoginAsks
<1>6. CASE LoginFails(r)
  <2>1. RationStep
    BY <1>2, <1>3, <1>6 DEF LoginFails
  <2>2. RequestsTyped'
    BY <1>4, <1>6 DEF LoginFails
  <2> QED
    BY <1>6, <2>1, <2>2 DEF LoginFails
<1>7. CASE ControlAsks(r)
  <2>1. RationStep
    <3>1. Checked \/ WrongSecret({"peer"})
      BY <1>7 DEF ControlAsks
    <3> QED
      BY <1>2, <1>3, <3>1 DEF RationStep
  <2>2. RequestsTyped'
    <3>1. UNCHANGED request => RequestsTyped'
      BY <1>1 DEF RequestsTyped
    <3> QED
      BY <1>4, <1>7, <3>1 DEF ControlAsks
  <2> QED
    BY <1>7, <2>1, <2>2 DEF ControlAsks
<1>8. CASE OAuthAsked(r)
  <2>1. RationStep
    BY <1>3, <1>8 DEF OAuthAsked, RationStep
  <2>2. RequestsTyped'
    <3>1. UNCHANGED request => RequestsTyped'
      BY <1>1 DEF RequestsTyped
    <3> QED
      BY <1>4, <1>8, <3>1 DEF OAuthAsked
  <2> QED
    BY <1>8, <2>1, <2>2 DEF OAuthAsked
<1>9. CASE OAuthCalled(r)
  BY <1>4, <1>9 DEF OAuthCalled
<1> QED
  BY <1>5, <1>6, <1>7, <1>8, <1>9

LEMMA ConsentSteps ==
  ASSUME AInv, NEW x \in Transactions, ConsentAsked(x)
  PROVE  /\ UNCHANGED <<elapsed, slip, door, session, hostToken, request, secretFile, process,
                        opened, ended>>
         /\ RationStep
<1>1. {x, "peer"} \in SUBSET Keys
  BY DEF Keys
<1>2. WrongSecret({x, "peer"}) => RationStep
  BY <1>1 DEF WrongSecret, RationStep
<1>3. Checked \/ WrongSecret({x, "peer"})
  BY DEF ConsentAsked
<1>4. RationStep
  BY <1>2, <1>3 DEF RationStep
<1> QED
  BY <1>4 DEF ConsentAsked

\* What the sessions look like once the ones that are over are gone.
LEMMA PrunedSessions ==
  ASSUME AInv
  PROVE  /\ Kept \in [Sessions -> {NoSession} \cup SessionRecord] /\ Gone \subseteq Sessions
         /\ \A s \in Sessions :
              /\ Kept[s] # NoSession => s \notin Gone /\ Kept[s] = session[s] /\ ~ Over(Kept[s])
              /\ s \in Gone => session[s] # NoSession /\ Kept[s] = NoSession
<1>1. session \in [Sessions -> {NoSession} \cup SessionRecord]
  BY DEF AInv, SessionsStand
<1>2. \A s \in Sessions : Kept[s] = session[s] \/ (session[s] # NoSession /\ Kept[s] = NoSession)
  BY DEF Kept
<1>3. \A s \in Sessions : Kept[s] # NoSession => Kept[s] = session[s] /\ ~ Over(Kept[s])
  BY DEF Kept
<1> QED
  BY <1>1, <1>2, <1>3 DEF Gone, Kept

\* A step that puts some sessions out, and leaves the others as they are but for their
\* idle time, or brings in a new one.
LEMMA SessionsMove ==
  ASSUME AInv, session' \in [Sessions -> {NoSession} \cup SessionRecord],
         \A s \in Sessions :
           \/ /\ session'[s] = NoSession /\ opened'[s] = opened[s]
              /\ s \in ended' => s \in ended \/ session[s] # NoSession
           \/ /\ session[s] # NoSession /\ session'[s] # NoSession
              /\ session'[s].absolute = session[s].absolute
              /\ opened'[s] = opened[s] /\ (s \in ended' => s \in ended)
           \/ /\ opened[s] = 0 /\ opened'[s] # 0 /\ session'[s] # NoSession
              /\ session'[s].absolute = opened'[s] + AbsoluteTtl
              /\ s \in ended' => s \in ended
  PROVE  SessionsStand'
<1>1. SessionsStand
  BY DEF AInv
<1>2. ASSUME NEW s \in Sessions
      PROVE  /\ session'[s] # NoSession =>
                  /\ s \notin ended' /\ opened'[s] # 0
                  /\ session'[s].absolute = opened'[s] + AbsoluteTtl
             /\ s \in ended' => opened'[s] # 0
  BY <1>1 DEF SessionsStand
<1> QED
  BY <1>2 DEF SessionsStand

\* The same for host tokens: one is used now, put out or issued.
LEMMA TokensMove ==
  ASSUME AInv, hostToken' \in [HostTokens -> {NoToken} \cup TokenRow],
         \A t \in HostTokens :
           \/ /\ hostToken'[t] = NoToken /\ opened'[t] = opened[t]
              /\ t \in ended' => t \in ended \/ hostToken[t] # NoToken
           \/ /\ hostToken[t] # NoToken /\ hostToken'[t] # NoToken
              /\ hostToken'[t].used = opened'[t] /\ opened'[t] # 0 /\ (t \in ended' => t \in ended)
           \/ /\ opened[t] = 0 /\ opened'[t] # 0 /\ hostToken'[t] # NoToken
              /\ hostToken'[t].used = opened'[t] /\ (t \in ended' => t \in ended)
  PROVE  TokensStand'
<1>1. TokensStand
  BY DEF AInv
<1>2. ASSUME NEW t \in HostTokens
      PROVE  /\ hostToken'[t] # NoToken =>
                  t \notin ended' /\ opened'[t] # 0 /\ hostToken'[t].used = opened'[t]
             /\ t \in ended' => opened'[t] # 0
  BY <1>1 DEF TokensStand
<1> QED
  BY <1>2 DEF TokensStand

LEMMA SentinelsAreNoRecords ==
  NoSession \notin SessionRecord /\ NoToken \notin TokenRow
<1>1. DOMAIN NoSession = {"csrf"} /\ DOMAIN NoToken = {"used"}
  BY DEF NoSession, NoToken
<1>2. ASSUME NEW x \in SessionRecord PROVE DOMAIN x = {"idle", "absolute"}
  BY DEF SessionRecord
<1>3. ASSUME NEW x \in TokenRow PROVE DOMAIN x = {"used", "live"}
  BY DEF TokenRow
<1> QED
  BY <1>1, <1>2, <1>3

\* Logins, requests with a session, and what ends one.
LEMMA SessionSteps ==
  ASSUME AInv, NEW s \in Sessions,
         \/ \E r \in Requests : LogsIn(r) \/ Admitted(r, s)
         \/ NotAdmitted(s)
         \/ LogsOut(s)
  PROVE  /\ UNCHANGED <<elapsed, slip, door, counter, hostToken, secretFile, process, spent>>
         /\ SessionsStand' /\ RequestsTyped'
         /\ opened' \in [Sessions \cup HostTokens -> Nat]
         /\ ended' \subseteq Sessions \cup HostTokens
         /\ \A t \in HostTokens : opened'[t] = opened[t] /\ (t \in ended' => t \in ended)
<1>1. /\ RequestsTyped /\ opened \in [Sessions \cup HostTokens -> Nat]
      /\ ended \subseteq Sessions \cup HostTokens /\ Sessions \cap HostTokens = {}
      /\ Gone \subseteq Sessions /\ Kept \in [Sessions -> {NoSession} \cup SessionRecord]
      /\ now \in Nat /\ now # 0 /\ IdleTtl \in Nat /\ AbsoluteTtl \in Nat /\ SessionsStand
  BY Timed, PrunedSessions, NamesAreApart DEF AInv, AccessTypeOK, RequestsTyped
<1>2. \A q \in Sessions :
        /\ q \in Gone => session[q] # NoSession
        /\ \/ Kept[q] = session[q] /\ q \notin Gone
           \/ Kept[q] = NoSession /\ session[q] # NoSession
  BY PrunedSessions DEF Gone
<1>3. ASSUME NEW r \in Requests, LogsIn(r)
      PROVE  /\ SessionsStand' /\ RequestsTyped'
             /\ opened' \in [Sessions \cup HostTokens -> Nat]
             /\ ended' \subseteq Sessions \cup HostTokens
             /\ \A t \in HostTokens : opened'[t] = opened[t] /\ (t \in ended' => t \in ended)
  <2>1. PICK q \in Sessions :
          /\ opened[q] = 0
          /\ session' = [Kept EXCEPT ![q] = [idle |-> now + IdleTtl, absolute |-> now + AbsoluteTtl]]
          /\ opened' = [opened EXCEPT ![q] = now]
    BY <1>3 DEF LogsIn
  <2>2. PICK new : new = [idle |-> now + IdleTtl, absolute |-> now + AbsoluteTtl]
    OBVIOUS
  <2>3. new \in SessionRecord /\ new # NoSession /\ new.absolute = now + AbsoluteTtl
    BY <1>1, <2>2, SentinelsAreNoRecords DEF SessionRecord
  <2>4. /\ session' \in [Sessions -> {NoSession} \cup SessionRecord]
        /\ session'[q] = new /\ opened'[q] = now
        /\ \A p \in Sessions \ {q} : session'[p] = Kept[p] /\ opened'[p] = opened[p]
        /\ \A t \in HostTokens : opened'[t] = opened[t]
        /\ opened' \in [Sessions \cup HostTokens -> Nat]
    BY <1>1, <2>1, <2>2, <2>3
  <2>5. ended' = ended \cup Gone
    BY <1>3 DEF LogsIn
  <2>6. q \notin Gone /\ session[q] = NoSession
    BY <1>1, <1>2, <2>1 DEF SessionsStand
  <2>7. SessionsStand'
    <3>1. ASSUME NEW p \in Sessions
          PROVE
           \/ /\ session'[p] = NoSession /\ opened'[p] = opened[p]
              /\ p \in ended' => p \in ended \/ session[p] # NoSession
           \/ /\ session[p] # NoSession /\ session'[p] # NoSession
              /\ session'[p].absolute = session[p].absolute
              /\ opened'[p] = opened[p] /\ (p \in ended' => p \in ended)
           \/ /\ opened[p] = 0 /\ opened'[p] # 0 /\ session'[p] # NoSession
              /\ session'[p].absolute = opened'[p] + AbsoluteTtl
              /\ p \in ended' => p \in ended
      <4>1. CASE p = q
        BY <1>1, <2>1, <2>3, <2>4, <2>5, <2>6, <4>1
      <4>2. CASE p # q
        BY <1>2, <2>4, <2>5, <4>2
      <4> QED
        BY <4>1, <4>2
    <3> QED
      BY <2>4, <3>1, SessionsMove
  <2>8. RequestsTyped'
    BY <1>1, <1>3 DEF LogsIn, RequestsTyped
  <2> QED
    BY <1>1, <2>4, <2>5, <2>7, <2>8
<1>4. ASSUME session' \in [Sessions -> {NoSession} \cup SessionRecord], opened' = opened,
             RequestsTyped',
             NEW out \in SUBSET {s}, ended' = ended \cup Gone \cup out,
             out # {} => Kept[s] # NoSession /\ session'[s] = NoSession,
             \A p \in Sessions : p \notin out =>
               \/ session'[p] = Kept[p]
               \/ /\ Kept[p] # NoSession /\ session'[p] # NoSession
                  /\ session'[p].absolute = Kept[p].absolute
      PROVE  /\ SessionsStand' /\ RequestsTyped'
             /\ opened' \in [Sessions \cup HostTokens -> Nat]
             /\ ended' \subseteq Sessions \cup HostTokens
             /\ \A t \in HostTokens : opened'[t] = opened[t] /\ (t \in ended' => t \in ended)
  <2>1. ASSUME NEW p \in Sessions
        PROVE
           \/ /\ session'[p] = NoSession /\ opened'[p] = opened[p]
              /\ p \in ended' => p \in ended \/ session[p] # NoSession
           \/ /\ session[p] # NoSession /\ session'[p] # NoSession
              /\ session'[p].absolute = session[p].absolute
              /\ opened'[p] = opened[p] /\ (p \in ended' => p \in ended)
    <3>1. CASE p \in out
      BY <1>2, <1>4, <3>1
    <3>2. CASE p \notin out
      BY <1>2, <1>4, <3>2
    <3> QED
      BY <3>1, <3>2
  <2>2. SessionsStand'
    BY <1>4, <2>1, SessionsMove
  <2>3. out \subseteq Sessions
    OBVIOUS
  <2> QED
    BY <1>1, <1>4, <2>2, <2>3
<1>5. UNCHANGED request => RequestsTyped'
  BY <1>1 DEF RequestsTyped
<1>6. ASSUME NEW r \in Requests, Admitted(r, s)
      PROVE  /\ SessionsStand' /\ RequestsTyped'
             /\ opened' \in [Sessions \cup HostTokens -> Nat]
             /\ ended' \subseteq Sessions \cup HostTokens
             /\ \A t \in HostTokens : opened'[t] = opened[t] /\ (t \in ended' => t \in ended)
  <2>1. /\ Kept[s] # NoSession /\ session' = Renewed(s) /\ ended' = ended \cup Gone
        /\ opened' = opened
        /\ \E csrf \in BOOLEAN :
             request' = [request EXCEPT ![r] = IF csrf THEN [step |-> "act"] ELSE NoRequest]
    BY <1>6 DEF Admitted
  <2>2. Kept[s] \in SessionRecord
    BY <1>1, <2>1
  <2>3. PICK new : new = [Kept[s] EXCEPT !.idle = Less(now + IdleTtl, Kept[s].absolute)]
    OBVIOUS
  <2>4. new \in SessionRecord /\ new.absolute = Kept[s].absolute /\ new # NoSession
    BY <1>1, <2>2, <2>3, SentinelsAreNoRecords DEF SessionRecord, Less
  <2>5. session' = [Kept EXCEPT ![s] = new]
    BY <1>1, <2>1, <2>3 DEF Renewed
  <2>6. /\ session' \in [Sessions -> {NoSession} \cup SessionRecord] /\ session'[s] = new
        /\ \A p \in Sessions \ {s} : session'[p] = Kept[p]
    BY <1>1, <2>4, <2>5
  <2>7. RequestsTyped'
    <3>1. PICK x \in {NoRequest, [step |-> "act"]} : request' = [request EXCEPT ![r] = x]
      BY <2>1
    <3> QED
      BY <1>1, <3>1 DEF RequestsTyped
  <2>8. {} \in SUBSET {s} /\ ended' = ended \cup Gone \cup {}
    BY <2>1
  <2>9. \A p \in Sessions :
          \/ session'[p] = Kept[p]
          \/ /\ Kept[p] # NoSession /\ session'[p] # NoSession
             /\ session'[p].absolute = Kept[p].absolute
    BY <2>1, <2>4, <2>6
  <2> QED
    BY <1>4, <2>1, <2>6, <2>7, <2>8, <2>9
<1>7. ASSUME NotAdmitted(s)
      PROVE  /\ SessionsStand' /\ RequestsTyped'
             /\ opened' \in [Sessions \cup HostTokens -> Nat]
             /\ ended' \subseteq Sessions \cup HostTokens
             /\ \A t \in HostTokens : opened'[t] = opened[t] /\ (t \in ended' => t \in ended)
  <2>1. session' = Kept /\ ended' = ended \cup Gone /\ UNCHANGED <<opened, request>>
    BY <1>7 DEF NotAdmitted
  <2> QED
    BY <1>1, <1>4, <1>5, <2>1
<1>8. ASSUME LogsOut(s)
      PROVE  /\ SessionsStand' /\ RequestsTyped'
             /\ opened' \in [Sessions \cup HostTokens -> Nat]
             /\ ended' \subseteq Sessions \cup HostTokens
             /\ \A t \in HostTokens : opened'[t] = opened[t] /\ (t \in ended' => t \in ended)
  <2>1. /\ Kept[s] # NoSession /\ session' = [Kept EXCEPT ![s] = NoSession]
        /\ ended' = ended \cup Gone \cup {s} /\ UNCHANGED <<opened, request>>
    BY <1>8 DEF LogsOut
  <2>2. /\ session' \in [Sessions -> {NoSession} \cup SessionRecord] /\ session'[s] = NoSession
        /\ \A p \in Sessions \ {s} : session'[p] = Kept[p]
    BY <1>1, <2>1
  <2> QED
    BY <1>4, <1>5, <2>1, <2>2
<1>9. UNCHANGED <<elapsed, slip, door, counter, hostToken, secretFile, process, spent>>
  BY DEF LogsIn, Admitted, NotAdmitted, LogsOut
<1> QED
  BY <1>3, <1>6, <1>7, <1>8, <1>9

\* Host tokens are listed, issued, revoked, used or found idle.
LEMMA TokenSteps ==
  ASSUME AInv,
         \/ \E r \in Requests :
              \/ TokensListed(r) \/ Other(r)
              \/ \E t \in HostTokens : TokenIssued(r, t) \/ TokenRevoked(r, t)
         \/ \E t \in HostTokens : TokenUsed(t) \/ TokenFound(t)
  PROVE  /\ UNCHANGED <<elapsed, slip, door, session, counter, secretFile, process, spent>>
         /\ TokensStand' /\ RequestsTyped'
         /\ opened' \in [Sessions \cup HostTokens -> Nat]
         /\ ended' \subseteq Sessions \cup HostTokens
         /\ \A s \in Sessions : opened'[s] = opened[s] /\ (s \in ended' <=> s \in ended)
<1>1. /\ RequestsTyped /\ opened \in [Sessions \cup HostTokens -> Nat]
      /\ ended \subseteq Sessions \cup HostTokens /\ Sessions \cap HostTokens = {}
      /\ hostToken \in [HostTokens -> {NoToken} \cup TokenRow] /\ TokensStand
      /\ now \in Nat /\ now # 0
  BY Timed, NamesAreApart DEF AInv, AccessTypeOK, RequestsTyped, TokensStand
<1>2. IdleTokens \subseteq LiveTokens
      /\ \A t : t \in LiveTokens <=> t \in HostTokens /\ hostToken[t] # NoToken
  BY DEF IdleTokens, LiveTokens
<1>3. ASSUME NEW gone \in SUBSET HostTokens, hostToken' = Without(gone), opened' = opened,
             NEW out \in SUBSET (gone \cap LiveTokens), ended' = ended \cup out
      PROVE  /\ TokensStand'
             /\ opened' \in [Sessions \cup HostTokens -> Nat]
             /\ ended' \subseteq Sessions \cup HostTokens
             /\ \A s \in Sessions : opened'[s] = opened[s] /\ (s \in ended' <=> s \in ended)
  <2>1. /\ hostToken' \in [HostTokens -> {NoToken} \cup TokenRow]
        /\ \A t \in HostTokens : hostToken'[t] = IF t \in gone THEN NoToken ELSE hostToken[t]
    BY <1>1, <1>3 DEF Without
  <2>2. ASSUME NEW t \in HostTokens
        PROVE
           \/ /\ hostToken'[t] = NoToken /\ opened'[t] = opened[t]
              /\ t \in ended' => t \in ended \/ hostToken[t] # NoToken
           \/ /\ hostToken[t] # NoToken /\ hostToken'[t] # NoToken
              /\ hostToken'[t].used = opened'[t] /\ opened'[t] # 0 /\ (t \in ended' => t \in ended)
    BY <1>1, <1>2, <1>3, <2>1 DEF TokensStand
  <2>3. TokensStand'
    BY <2>1, <2>2, TokensMove
  <2>4. out \subseteq HostTokens
    OBVIOUS
  <2> QED
    BY <1>1, <1>3, <2>3, <2>4
<1>4. ASSUME NEW r \in Requests, request' = [request EXCEPT ![r] = NoRequest] PROVE RequestsTyped'
  BY <1>1, <1>4 DEF RequestsTyped
<1>5. UNCHANGED request => RequestsTyped'
  BY <1>1 DEF RequestsTyped
<1>6. ASSUME NEW r \in Requests, TokensListed(r)
      PROVE  /\ TokensStand' /\ RequestsTyped'
             /\ opened' \in [Sessions \cup HostTokens -> Nat]
             /\ ended' \subseteq Sessions \cup HostTokens
             /\ \A s \in Sessions : opened'[s] = opened[s] /\ (s \in ended' <=> s \in ended)
  <2>1. /\ hostToken' = Without(IdleTokens) /\ ended' = ended \cup IdleTokens /\ opened' = opened
        /\ request' = [request EXCEPT ![r] = NoRequest]
    BY <1>6 DEF TokensListed
  <2>2. IdleTokens \in SUBSET HostTokens /\ IdleTokens \in SUBSET (IdleTokens \cap LiveTokens)
    BY <1>2
  <2> QED
    BY <1>3, <1>4, <2>1, <2>2
<1>7. ASSUME NEW r \in Requests, Other(r)
      PROVE  /\ TokensStand' /\ RequestsTyped'
             /\ opened' \in [Sessions \cup HostTokens -> Nat]
             /\ ended' \subseteq Sessions \cup HostTokens
             /\ \A s \in Sessions : opened'[s] = opened[s] /\ (s \in ended' <=> s \in ended)
  <2>1. /\ UNCHANGED <<hostToken, opened, ended>> /\ request' = [request EXCEPT ![r] = NoRequest]
    BY <1>7 DEF Other
  <2>2. TokensStand'
    BY <1>1, <2>1 DEF TokensStand
  <2> QED
    BY <1>1, <1>4, <2>1, <2>2
<1>8. ASSUME NEW r \in Requests, NEW t \in HostTokens, TokenRevoked(r, t)
      PROVE  /\ TokensStand' /\ RequestsTyped'
             /\ opened' \in [Sessions \cup HostTokens -> Nat]
             /\ ended' \subseteq Sessions \cup HostTokens
             /\ \A s \in Sessions : opened'[s] = opened[s] /\ (s \in ended' <=> s \in ended)
  <2>1. /\ hostToken' = Without({t}) /\ opened' = opened
        /\ ended' = IF t \in LiveTokens THEN ended \cup {t} ELSE ended
        /\ request' = [request EXCEPT ![r] = NoRequest]
    BY <1>8 DEF TokenRevoked
  <2>2. ended' = ended \cup ({t} \cap LiveTokens)
    BY <2>1
  <2> QED
    BY <1>3, <1>4, <2>1, <2>2
<1>9. ASSUME NEW t \in HostTokens, TokenFound(t)
      PROVE  /\ TokensStand' /\ RequestsTyped'
             /\ opened' \in [Sessions \cup HostTokens -> Nat]
             /\ ended' \subseteq Sessions \cup HostTokens
             /\ \A s \in Sessions : opened'[s] = opened[s] /\ (s \in ended' <=> s \in ended)
  <2>1. /\ hostToken' = Without({t}) /\ ended' = ended \cup {t} /\ UNCHANGED <<opened, request>>
        /\ t \in IdleTokens
    BY <1>9 DEF TokenFound
  <2>2. {t} \in SUBSET ({t} \cap LiveTokens)
    BY <1>2, <2>1
  <2> QED
    BY <1>3, <1>5, <2>1, <2>2
<1>10. ASSUME NEW r \in Requests, NEW t \in HostTokens, TokenIssued(r, t)
      PROVE  /\ TokensStand' /\ RequestsTyped'
             /\ opened' \in [Sessions \cup HostTokens -> Nat]
             /\ ended' \subseteq Sessions \cup HostTokens
             /\ \A s \in Sessions : opened'[s] = opened[s] /\ (s \in ended' <=> s \in ended)
  <2>1. PICK new : new = [used |-> now, live |-> TRUE]
    OBVIOUS
  <2>2. /\ opened[t] = 0 /\ hostToken' = [Without(IdleTokens) EXCEPT ![t] = new]
        /\ opened' = [opened EXCEPT ![t] = now] /\ ended' = ended \cup IdleTokens
        /\ request' = [request EXCEPT ![r] = NoRequest]
    BY <1>10, <2>1 DEF TokenIssued
  <2>3. new \in TokenRow /\ new # NoToken /\ new.used = now
    <3>1. new \in TokenRow
      BY <1>1, <2>1 DEF TokenRow
    <3>2. new.used = now
      BY <2>1
    <3> QED
      BY <3>1, <3>2, SentinelsAreNoRecords
  <2>4. /\ hostToken' \in [HostTokens -> {NoToken} \cup TokenRow] /\ hostToken'[t] = new
        /\ \A u \in HostTokens \ {t} :
             hostToken'[u] = IF u \in IdleTokens THEN NoToken ELSE hostToken[u]
    BY <1>1, <2>2, <2>3 DEF Without
  <2>5. /\ opened' \in [Sessions \cup HostTokens -> Nat] /\ opened'[t] = now
        /\ \A u \in (Sessions \cup HostTokens) \ {t} : opened'[u] = opened[u]
    BY <1>1, <2>2
  <2>6. t \notin LiveTokens
    BY <1>1, <1>2, <2>2 DEF TokensStand
  <2>7. ASSUME NEW u \in HostTokens
        PROVE
           \/ /\ hostToken'[u] = NoToken /\ opened'[u] = opened[u]
              /\ u \in ended' => u \in ended \/ hostToken[u] # NoToken
           \/ /\ hostToken[u] # NoToken /\ hostToken'[u] # NoToken
              /\ hostToken'[u].used = opened'[u] /\ opened'[u] # 0 /\ (u \in ended' => u \in ended)
           \/ /\ opened[u] = 0 /\ opened'[u] # 0 /\ hostToken'[u] # NoToken
              /\ hostToken'[u].used = opened'[u] /\ (u \in ended' => u \in ended)
    <3>1. CASE u = t
      BY <1>1, <1>2, <2>2, <2>3, <2>4, <2>5, <2>6, <3>1
    <3>2. CASE u # t
      BY <1>1, <1>2, <2>2, <2>4, <2>5, <3>2 DEF TokensStand
    <3> QED
      BY <3>1, <3>2
  <2>8. TokensStand'
    BY <2>4, <2>7, TokensMove
  <2>9. IdleTokens \subseteq HostTokens
    BY <1>2
  <2> QED
    BY <1>1, <1>4, <2>2, <2>5, <2>8, <2>9
<1>11. ASSUME NEW t \in HostTokens, TokenUsed(t)
      PROVE  /\ TokensStand' /\ RequestsTyped'
             /\ opened' \in [Sessions \cup HostTokens -> Nat]
             /\ ended' \subseteq Sessions \cup HostTokens
             /\ \A s \in Sessions : opened'[s] = opened[s] /\ (s \in ended' <=> s \in ended)
  <2>1. /\ t \in LiveTokens /\ ended' = ended /\ request' = request
        /\ hostToken' = [hostToken EXCEPT ![t].used = Used(hostToken[t])]
        /\ opened' = [opened EXCEPT ![t] = More(now, opened[t])]
    BY <1>11 DEF TokenUsed
  <2>2. hostToken[t] \in TokenRow /\ hostToken[t].used = opened[t] /\ opened[t] \in Nat
    BY <1>1, <1>2, <2>1 DEF TokensStand
  <2>3. PICK used : used = More(now, opened[t])
    OBVIOUS
  <2>4. used \in Nat /\ used # 0
    BY <1>1, <2>2, <2>3 DEF More
  <2>5. PICK new : new = [hostToken[t] EXCEPT !.used = used]
    OBVIOUS
  <2>6. new \in TokenRow /\ new # NoToken /\ new.used = used
    BY <2>2, <2>4, <2>5, SentinelsAreNoRecords DEF TokenRow
  <2>7. /\ hostToken' = [hostToken EXCEPT ![t] = new]
        /\ opened' = [opened EXCEPT ![t] = used]
    BY <1>1, <2>1, <2>2, <2>3, <2>5 DEF Used
  <2>8. /\ hostToken' \in [HostTokens -> {NoToken} \cup TokenRow] /\ hostToken'[t] = new
        /\ \A u \in HostTokens \ {t} : hostToken'[u] = hostToken[u]
        /\ opened' \in [Sessions \cup HostTokens -> Nat] /\ opened'[t] = used
        /\ \A u \in (Sessions \cup HostTokens) \ {t} : opened'[u] = opened[u]
    BY <1>1, <2>4, <2>6, <2>7
  <2>9. ASSUME NEW u \in HostTokens
        PROVE
           \/ /\ hostToken'[u] = NoToken /\ opened'[u] = opened[u]
              /\ u \in ended' => u \in ended \/ hostToken[u] # NoToken
           \/ /\ hostToken[u] # NoToken /\ hostToken'[u] # NoToken
              /\ hostToken'[u].used = opened'[u] /\ opened'[u] # 0 /\ (u \in ended' => u \in ended)
    <3>1. CASE u = t
      BY <1>2, <2>1, <2>4, <2>6, <2>8, <3>1
    <3>2. CASE u # t
      BY <1>1, <2>1, <2>8, <3>2 DEF TokensStand
    <3> QED
      BY <3>1, <3>2
  <2>10. TokensStand'
    BY <2>8, <2>9, TokensMove
  <2> QED
    BY <1>1, <1>5, <2>1, <2>8, <2>10
<1>12. UNCHANGED <<elapsed, slip, door, session, counter, secretFile, process, spent>>
  BY DEF TokensListed, Other, TokenIssued, TokenRevoked, TokenUsed, TokenFound
<1> QED
  BY <1>6, <1>7, <1>8, <1>9, <1>10, <1>11, <1>12

ProcessState ==
  {Off} \cup [step : {"generate", "writing", "raced", "started"},
              secret : Processes \cup {"environment", "none"}]

\* A process comes to be at x: off, raced, about to generate, about to write a file that is
\* empty now, started with the environment's verifier or with what is in the file.
LEMMA SecretMoves ==
  ASSUME AInv, NEW g \in Processes, NEW x \in ProcessState, process' = [process EXCEPT ![g] = x],
         secretFile' \in {"absent", "empty"} \cup Processes,
         \/ /\ secretFile' = secretFile
            /\ x.step # "writing" /\ x.step # "started"
         \/ secretFile' = secretFile /\ x.step = "started" /\ x.secret = "environment"
         \/ /\ secretFile' = secretFile /\ x.step = "started"
            /\ x.secret \in Processes /\ x.secret = secretFile
         \/ secretFile = "absent" /\ secretFile' = "empty" /\ x.step = "writing"
         \/ /\ process[g].step = "writing" /\ secretFile' = g
            /\ x.step = "started" /\ x.secret = g
  PROVE  /\ secretFile' \in {"absent", "empty"} \cup Processes
         /\ process' \in [Processes -> ProcessState] /\ OneSecret'
<1>1. /\ process \in [Processes -> ProcessState] /\ OneSecret
      /\ "absent" \notin Processes /\ "empty" \notin Processes
  BY NamesAreApart DEF AInv, AccessTypeOK, ProcessState
<1>2. process'[g] = x /\ \A h \in Processes \ {g} : process'[h] = process[h]
  BY <1>1
<1>3. ASSUME NEW h \in Processes, process'[h].step = "writing"
      PROVE  secretFile' = "empty" /\ \A p \in Processes : process'[p].step = "writing" => p = h
  <2>1. CASE x.step = "writing"
    <3>1. \A p \in Processes \ {g} : process'[p].step # "writing"
      BY <1>1, <1>2, <2>1 DEF OneSecret
    <3> QED
      BY <1>1, <1>2, <1>3, <2>1, <3>1
  <2>2. CASE x.step # "writing"
    <3>1. h # g /\ process[h].step = "writing" /\ secretFile = "empty"
      BY <1>1, <1>2, <1>3, <2>2 DEF OneSecret
    <3>2. process[g].step # "writing"
      BY <1>1, <3>1 DEF OneSecret
    <3> QED
      BY <1>1, <1>2, <2>2, <3>1, <3>2 DEF OneSecret
  <2> QED
    BY <2>1, <2>2
<1>4. ASSUME NEW h \in Processes, process'[h].step = "started", process'[h].secret # "environment"
      PROVE  process'[h].secret \in Processes /\ process'[h].secret = secretFile'
  <2>1. CASE h = g
    BY <1>2, <1>4, <2>1
  <2>2. CASE h # g
    <3>1. process[h].secret \in Processes /\ process[h].secret = secretFile
      BY <1>1, <1>2, <1>4, <2>2 DEF OneSecret
    <3>2. secretFile' = secretFile
      BY <1>1, <3>1 DEF OneSecret
    <3> QED
      BY <1>2, <2>2, <3>1, <3>2
  <2> QED
    BY <2>1, <2>2
<1>5. OneSecret'
  BY <1>3, <1>4 DEF OneSecret
<1>6. process' \in [Processes -> ProcessState]
  BY <1>1
<1> QED
  BY <1>5, <1>6

LEMMA SecretSteps ==
  ASSUME AInv, NEW g \in Processes, SecretStep(g)
  PROVE  /\ secretFile' \in {"absent", "empty"} \cup Processes
         /\ process' \in [Processes -> ProcessState] /\ OneSecret'
         /\ UNCHANGED <<elapsed, slip, door, session, counter, hostToken, request, opened, ended, spent>>
<1> SUFFICES /\ secretFile' \in {"absent", "empty"} \cup Processes
             /\ process' \in [Processes -> ProcessState] /\ OneSecret'
  BY DEF SecretStep
<1>1. secretFile \in {"absent", "empty"} \cup Processes
  BY DEF AInv, AccessTypeOK
<1>2. /\ "absent" \notin Processes /\ "empty" \notin Processes
      /\ "environment" \notin Processes /\ "none" \notin Processes
  BY NamesAreApart
<1>3. Off \in ProcessState /\ Off.step = "off"
  BY DEF Off, ProcessState
<1>4. ASSUME NEW step \in {"generate", "writing", "raced", "started"},
             NEW secret \in Processes \cup {"environment", "none"}
      PROVE  /\ [step |-> step, secret |-> secret] \in ProcessState
             /\ [step |-> step, secret |-> secret].step = step
             /\ [step |-> step, secret |-> secret].secret = secret
  BY DEF ProcessState
<1>5. ASSUME process' = [process EXCEPT ![g] = Off], UNCHANGED secretFile
      PROVE  /\ secretFile' \in {"absent", "empty"} \cup Processes
             /\ process' \in [Processes -> ProcessState] /\ OneSecret'
  BY <1>1, <1>3, <1>5, SecretMoves
<1>6. ASSUME NEW step \in {"generate", "raced"}, Reaches(g, step, "none"), UNCHANGED secretFile
      PROVE  /\ secretFile' \in {"absent", "empty"} \cup Processes
             /\ process' \in [Processes -> ProcessState] /\ OneSecret'
  <2>1. PICK x : x = [step |-> step, secret |-> "none"]
    OBVIOUS
  <2>2. x \in ProcessState /\ x.step = step /\ process' = [process EXCEPT ![g] = x]
    BY <1>4, <1>6, <2>1 DEF Reaches
  <2> QED
    BY <1>1, <1>6, <2>2, SecretMoves
<1>7. ASSUME secretFile \in Processes, Reaches(g, "started", secretFile), UNCHANGED secretFile
      PROVE  /\ secretFile' \in {"absent", "empty"} \cup Processes
             /\ process' \in [Processes -> ProcessState] /\ OneSecret'
  <2>1. PICK x : x = [step |-> "started", secret |-> secretFile]
    OBVIOUS
  <2>2. /\ x \in ProcessState /\ x.step = "started" /\ x.secret = secretFile
        /\ process' = [process EXCEPT ![g] = x]
    BY <1>4, <1>7, <2>1 DEF Reaches
  <2> QED
    BY <1>1, <1>7, <2>2, SecretMoves
<1>8. CASE GatewayStarts(g)
  BY <1>1, <1>5, <1>6, <1>7, <1>8 DEF GatewayStarts, ReadsSecret
<1>9. CASE SecretCreated(g)
  <2>1. CASE secretFile = "absent"
    <3>1. secretFile' = "empty" /\ Reaches(g, "writing", "none")
      BY <1>9, <2>1 DEF SecretCreated, MayCreate
    <3>2. PICK x : x = [step |-> "writing", secret |-> "none"]
      OBVIOUS
    <3>3. x \in ProcessState /\ x.step = "writing" /\ process' = [process EXCEPT ![g] = x]
      BY <1>4, <3>1, <3>2 DEF Reaches
    <3> QED
      BY <2>1, <3>1, <3>3, SecretMoves DEF SecretStep
  <2>2. CASE secretFile # "absent"
    BY <1>6, <1>9, <2>2 DEF SecretCreated, MayCreate
  <2> QED
    BY <2>1, <2>2
<1>10. CASE SecretWritten(g)
  <2>1. process[g].step = "writing" /\ secretFile' = g /\ Reaches(g, "started", g)
    BY <1>10 DEF SecretWritten
  <2>2. PICK x : x = [step |-> "started", secret |-> g]
    OBVIOUS
  <2>3. /\ x \in ProcessState /\ x.step = "started" /\ x.secret = g
        /\ process' = [process EXCEPT ![g] = x]
    BY <1>4, <2>1, <2>2 DEF Reaches
  <2> QED
    BY <2>1, <2>3, SecretMoves
<1>11. CASE NotWritten(g)
  <2>1. CASE Reaches(g, "started", "environment") /\ UNCHANGED secretFile
    <3>1. PICK x : x = [step |-> "started", secret |-> "environment"]
      OBVIOUS
    <3>2. /\ x \in ProcessState /\ x.step = "started" /\ x.secret = "environment"
          /\ process' = [process EXCEPT ![g] = x]
      BY <1>4, <2>1, <3>1 DEF Reaches
    <3> QED
      BY <1>1, <2>1, <3>2, SecretMoves
  <2> QED
    BY <1>5, <1>11, <2>1 DEF NotWritten
<1>12. CASE SecretRaced(g)
  BY <1>1, <1>5, <1>7, <1>12 DEF SecretRaced, ReadsSecret
<1>13. CASE GatewayEnds(g)
  BY <1>5, <1>13 DEF GatewayEnds
<1> QED
  BY <1>8, <1>9, <1>10, <1>11, <1>12, <1>13 DEF SecretStep

LEMMA TypesAgain ==
  ASSUME elapsed' \in Time, slip' \in 0..MaxSlip, SessionsStand', TokensStand', AllRationed',
         RequestsTyped', secretFile' \in {"absent", "empty"} \cup Processes,
         process' \in [Processes -> ProcessState], ended' \subseteq Sessions \cup HostTokens
  PROVE  AccessTypeOK'
<1>1. session' \in [Sessions -> {NoSession} \cup [idle : Nat, absolute : Nat]]
  BY DEF SessionsStand, SessionRecord
<1>2. hostToken' \in [HostTokens -> {NoToken} \cup [used : Nat, live : {TRUE}]]
  BY Zenon DEF TokensStand, TokenRow
<1>3. counter' \in [Keys -> {NoCounter} \cup [count : 1..More(Limit, PeerLimit), reset : Nat]]
  <2>1. ASSUME NEW k \in Keys
        PROVE  counter'[k] \in {NoCounter} \cup [count : 1..More(Limit, PeerLimit), reset : Nat]
    <3>1. PICK most : most = Most(k)'
      OBVIOUS
    <3>2. counter'[k] \in {NoCounter} \cup [count : 1..most, reset : Nat]
      BY <3>1 DEF AllRationed, Rationed
    <3>3. most \in Nat /\ most <= More(Limit, PeerLimit) /\ More(Limit, PeerLimit) \in Nat
      BY <3>1, AccessAssumption DEF Most, More
    <3>4. 1..most \subseteq 1..More(Limit, PeerLimit)
      BY <3>3
    <3> QED
      BY <3>2, <3>4
  <2>2. counter' = [k \in Keys |-> counter'[k]]
    BY DEF AllRationed
  <2> QED
    BY <2>1, <2>2
<1>4. process' \in [Processes -> {Off} \cup
       [step : {"generate", "writing", "raced", "started"}, secret : Processes \cup {"environment", "none"}]]
  BY DEF ProcessState
<1> QED
  BY <1>1, <1>2, <1>3, <1>4 DEF AccessTypeOK, RequestsTyped

\* What does not change, stays true.
LEMMA Frames ==
  ASSUME AInv
  PROVE  /\ /\ session' = session
            /\ \A s \in Sessions : opened'[s] = opened[s] /\ (s \in ended' => s \in ended)
            => SessionsStand'
         /\ /\ hostToken' = hostToken
            /\ \A t \in HostTokens : opened'[t] = opened[t] /\ (t \in ended' => t \in ended)
            => TokensStand'
         /\ UNCHANGED <<secretFile, process>> =>
              /\ secretFile' \in {"absent", "empty"} \cup Processes
              /\ process' \in [Processes -> ProcessState] /\ OneSecret'
         /\ UNCHANGED <<elapsed, slip>> =>
              Clocked' /\ elapsed' \in Time /\ slip' \in 0..MaxSlip
         /\ UNCHANGED <<elapsed, slip, door, counter, spent>> => AllRationed'
         /\ UNCHANGED request => RequestsTyped'
         /\ UNCHANGED opened => opened' \in [Sessions \cup HostTokens -> Nat]
         /\ UNCHANGED ended => ended' \subseteq Sessions \cup HostTokens
<1>1. SessionsStand /\ TokensStand /\ AccessTypeOK /\ OneSecret /\ Clocked /\ AllRationed
      /\ opened \in [Sessions \cup HostTokens -> Nat]
  BY DEF AInv
<1>2. ASSUME session' = session,
             \A s \in Sessions : opened'[s] = opened[s] /\ (s \in ended' => s \in ended)
      PROVE  SessionsStand'
  BY <1>1, <1>2 DEF SessionsStand
<1>3. ASSUME hostToken' = hostToken,
             \A t \in HostTokens : opened'[t] = opened[t] /\ (t \in ended' => t \in ended)
      PROVE  TokensStand'
  BY <1>1, <1>3 DEF TokensStand
<1>4. ASSUME UNCHANGED <<secretFile, process>>
      PROVE  /\ secretFile' \in {"absent", "empty"} \cup Processes
             /\ process' \in [Processes -> ProcessState] /\ OneSecret'
  BY <1>1, <1>4 DEF AccessTypeOK, ProcessState, OneSecret
<1>5. ASSUME UNCHANGED <<elapsed, slip>>
      PROVE  Clocked' /\ elapsed' \in Time /\ slip' \in 0..MaxSlip
  BY <1>1, <1>5 DEF AccessTypeOK, Clocked
<1>6. ASSUME UNCHANGED <<elapsed, slip, door, counter, spent>> PROVE AllRationed'
  <2>1. Clocked' /\ elapsed' >= elapsed /\ slip' >= slip
    BY <1>1, <1>5, <1>6, Timed
  <2> QED
    BY <1>1, <1>6, <2>1, TimeRations
<1>7. ASSUME UNCHANGED request PROVE RequestsTyped'
  BY <1>1, <1>7 DEF AccessTypeOK, RequestsTyped
<1>8. ended \subseteq Sessions \cup HostTokens
  BY <1>1 DEF AccessTypeOK
<1> QED
  BY <1>1, <1>2, <1>3, <1>4, <1>5, <1>6, <1>7, <1>8

LEMMA AccessSteps ==
  ASSUME AInv, AccessNext \/ StartNext \/ UNCHANGED accessVars
  PROVE  AInv'
<1>1. Clocked /\ AllRationed /\ elapsed \in Time /\ slip \in 0..MaxSlip
      /\ MaxTime \in Nat /\ MaxSlip \in Nat
  BY AccessAssumption DEF AInv, AccessTypeOK
<1>2. ASSUME NEW r \in Requests,
             LoginAsks(r) \/ LoginFails(r) \/ ControlAsks(r) \/ OAuthAsked(r) \/ OAuthCalled(r)
      PROVE  AInv'
  <2>1. /\ UNCHANGED <<elapsed, slip, door, session, hostToken, secretFile, process, opened, ended>>
        /\ RationStep \/ UNCHANGED <<counter, spent>>
        /\ RequestsTyped'
    BY <1>2, LimiterSteps
  <2>2. AllRationed'
    BY <1>1, <2>1, LimitersRation, Frames
  <2> QED
    BY <2>1, <2>2, Frames, TypesAgain DEF AInv
<1>3. ASSUME NEW x \in Transactions, ConsentAsked(x) PROVE AInv'
  <2>1. /\ UNCHANGED <<elapsed, slip, door, session, hostToken, request, secretFile, process,
                       opened, ended>>
        /\ RationStep
    BY <1>3, ConsentSteps
  <2>2. AllRationed'
    BY <1>1, <2>1, LimitersRation
  <2> QED
    BY <2>1, <2>2, Frames, TypesAgain DEF AInv
<1>4. ASSUME NEW s \in Sessions,
             \/ \E r \in Requests : LogsIn(r) \/ Admitted(r, s)
             \/ NotAdmitted(s)
             \/ LogsOut(s)
      PROVE  AInv'
  <2>1. /\ UNCHANGED <<elapsed, slip, door, counter, hostToken, secretFile, process, spent>>
        /\ SessionsStand' /\ RequestsTyped'
        /\ opened' \in [Sessions \cup HostTokens -> Nat]
        /\ ended' \subseteq Sessions \cup HostTokens
        /\ \A t \in HostTokens : opened'[t] = opened[t] /\ (t \in ended' => t \in ended)
    BY <1>4, SessionSteps
  <2> QED
    BY <2>1, Frames, TypesAgain DEF AInv
<1>5. ASSUME \/ \E r \in Requests :
                  \/ TokensListed(r) \/ Other(r)
                  \/ \E t \in HostTokens : TokenIssued(r, t) \/ TokenRevoked(r, t)
             \/ \E t \in HostTokens : TokenUsed(t) \/ TokenFound(t)
      PROVE  AInv'
  <2>1. /\ UNCHANGED <<elapsed, slip, door, session, counter, secretFile, process, spent>>
        /\ TokensStand' /\ RequestsTyped'
        /\ opened' \in [Sessions \cup HostTokens -> Nat]
        /\ ended' \subseteq Sessions \cup HostTokens
        /\ \A s \in Sessions : opened'[s] = opened[s] /\ (s \in ended' <=> s \in ended)
    BY <1>5, TokenSteps
  <2> QED
    BY <2>1, Frames, TypesAgain DEF AInv
<1>6. ASSUME StartNext PROVE AInv'
  <2>1. PICK g \in Processes : SecretStep(g)
    BY <1>6 DEF StartNext
  <2>2. /\ secretFile' \in {"absent", "empty"} \cup Processes
        /\ process' \in [Processes -> ProcessState] /\ OneSecret'
        /\ UNCHANGED <<elapsed, slip, door, session, counter, hostToken, request, opened, ended, spent>>
    BY <2>1, SecretSteps
  <2> QED
    BY <2>2, Frames, TypesAgain DEF AInv
<1>7. ASSUME Tick \/ ClockSetBack PROVE AInv'
  <2>1. /\ UNCHANGED <<door, session, counter, hostToken, request, secretFile, process, opened,
                       ended, spent>>
        /\ elapsed' \in Time /\ slip' \in 0..MaxSlip /\ elapsed' >= elapsed /\ slip' >= slip
    BY <1>1, <1>7 DEF Tick, ClockSetBack, Time
  <2>2. Clocked'
    BY <1>1, <2>1 DEF Clocked, Time
  <2>3. AllRationed'
    BY <1>1, <2>1, <2>2, TimeRations
  <2> QED
    BY <2>1, <2>2, <2>3, Frames, TypesAgain DEF AInv
<1>8. ASSUME UNCHANGED accessVars PROVE AInv'
  <2>1. UNCHANGED <<elapsed, slip, door, session, counter, hostToken, request, secretFile, process,
                    opened, ended, spent>>
    BY <1>8 DEF accessVars
  <2> QED
    BY <2>1, Frames, TypesAgain DEF AInv
<1>9. ASSUME AccessNext PROVE AInv'
  <2>1. \/ \E r \in Requests :
             \/ LoginAsks(r) \/ LoginFails(r) \/ LogsIn(r) \/ ControlAsks(r) \/ OAuthAsked(r)
             \/ OAuthCalled(r)
             \/ \E s \in Sessions : Admitted(r, s)
             \/ TokensListed(r) \/ Other(r)
             \/ \E t \in HostTokens : TokenIssued(r, t) \/ TokenRevoked(r, t)
        \/ \E s \in Sessions : NotAdmitted(s) \/ LogsOut(s)
        \/ \E t \in HostTokens : TokenUsed(t) \/ TokenFound(t)
        \/ \E x \in Transactions : ConsentAsked(x)
        \/ Tick
        \/ ClockSetBack
    BY <1>9, Zenon DEF AccessNext
  <2>2. ASSUME NEW r \in Requests, LogsIn(r) PROVE \E s \in Sessions : TRUE
    BY <2>2 DEF LogsIn
  <2> QED
    BY <1>2, <1>3, <1>4, <1>5, <1>7, <2>1, <2>2
<1> QED
  BY <1>6, <1>8, <1>9

LEMMA AccessBegins ==
  ASSUME AccessInit
  PROVE  AInv
<1>1. Clocked
  BY AccessAssumption DEF AccessInit, Clocked
<1>2. opened \in [Sessions \cup HostTokens -> Nat] /\ ended = {}
  BY DEF AccessInit
<1>3. SessionsStand /\ TokensStand
  BY DEF AccessInit, SessionsStand, TokensStand
<1>4. AllRationed
  <2>1. counter = [k \in Keys |-> NoCounter] /\ spent = [k \in Keys |-> <<>>]
    BY DEF AccessInit
  <2>2. ASSUME NEW most PROVE Rationed(<<>>, most, NoCounter)
    <3>1. Logged(<<>>)
      BY DEF Logged
    <3>2. {} \in SUBSET DOMAIN <<>> /\ Windows(<<>>, most, NoCounter, {})
      BY DEF Windows
    <3> QED
      BY <3>1, <3>2 DEF Rationed
  <2>3. ASSUME NEW k \in Keys PROVE Rationed(spent[k], Most(k), counter[k])
    <3>1. spent[k] = <<>> /\ counter[k] = NoCounter
      BY <2>1
    <3>2. Rationed(<<>>, Most(k), NoCounter)
      BY <2>2
    <3> QED
      BY <3>1, <3>2
  <2>4. counter = [k \in Keys |-> counter[k]] /\ DOMAIN spent = Keys
    BY <2>1
  <2> QED
    BY <2>3, <2>4 DEF AllRationed
<1>5. OneSecret
  BY DEF AccessInit, OneSecret, Off
<1>6. AccessTypeOK
  <2>1. elapsed \in Time /\ slip \in 0..MaxSlip
    BY AccessAssumption DEF AccessInit, Time
  <2>2. session \in [Sessions -> {NoSession} \cup [idle : Nat, absolute : Nat]]
    BY <1>3 DEF SessionsStand, SessionRecord
  <2>3. counter \in [Keys -> {NoCounter} \cup [count : 1..More(Limit, PeerLimit), reset : Nat]]
    BY Zenon DEF AccessInit
  <2>4. hostToken \in [HostTokens -> {NoToken} \cup [used : Nat, live : {TRUE}]]
    BY Zenon DEF AccessInit
  <2>5. request \in [Requests -> {NoRequest} \cup [step : {"login", "act"}]]
    BY Zenon DEF AccessInit
  <2>6. secretFile \in {"absent", "empty"} \cup Processes
    BY DEF AccessInit
  <2>7. process \in [Processes -> {Off} \cup
          [step : {"generate", "writing", "raced", "started"},
           secret : Processes \cup {"environment", "none"}]]
    BY Zenon DEF AccessInit
  <2> QED
    BY <1>2, <2>1, <2>2, <2>3, <2>4, <2>5, <2>6, <2>7, Zenon DEF AccessTypeOK
<1> QED
  BY <1>1, <1>2, <1>3, <1>4, <1>5, <1>6 DEF AInv

-------------------------------------------------------------------------------
(* The owner's surfaces together.                                                   *)

LEMMA OwnerBegins ==
  ASSUME OwnerInit
  PROVE  SagaInit /\ AccessInit
  BY DEF OwnerInit

LEMMA OwnerSteps ==
  ASSUME [OwnerNext]_ownerVars
  PROVE  [SagaNext]_sagaVars /\ (AccessNext \/ StartNext \/ UNCHANGED accessVars)
<1>1. OwnerNext => [SagaNext]_sagaVars /\ (AccessNext \/ StartNext \/ UNCHANGED accessVars)
  BY Zenon DEF OwnerNext
<1>2. UNCHANGED ownerVars => UNCHANGED sagaVars /\ UNCHANGED accessVars
  BY Zenon DEF ownerVars
<1> QED
  BY <1>1, <1>2

\* The owner's surfaces keep what the changes to the providers keep.
THEOREM ProvidersBehindTheConsole == OwnerSpec => SagaSpec
<1>1. OwnerInit => SagaInit
  BY OwnerBegins
<1>2. [OwnerNext]_ownerVars => [SagaNext]_sagaVars
  BY OwnerSteps
<1> QED
  BY <1>1, <1>2, PTL DEF OwnerSpec, SagaSpec

\* What the clock, the sessions and host tokens, the limiters and the processes that start
\* say of each other: what ended is in no table, and what each limiter let through lies in
\* the windows that its counter counts.
THEOREM AccessHolds == OwnerSpec => []AInv
<1>1. OwnerInit => AInv
  BY OwnerBegins, AccessBegins
<1>2. AInv /\ [OwnerNext]_ownerVars => AInv'
  BY OwnerSteps, AccessSteps
<1> QED
  BY <1>1, <1>2, PTL DEF OwnerSpec

\* However the gateway's processes start, race for the file or fail to write it, whoever
\* runs with a secret of the file runs with the one the file tells the owner.
THEOREM TheSecretIsOne == OwnerSpec => []SecretsAgree
<1>1. AInv => SecretsAgree
  BY DEF AInv, OneSecret, SecretsAgree
<1> QED
  BY <1>1, AccessHolds, PTL

\* Wherever the windows of a limiter begin, and if the clock is set back: no stretch of a
\* window's length lets more than twice the limit through.
THEOREM LimitersHold == OwnerSpec => []FailuresAreRationed
<1>1. AInv => FailuresAreRationed
  <2>1. SUFFICES ASSUME AInv, NEW k \in Keys, NEW i \in DOMAIN spent[k],
                        i + 2 * Most(k) \in DOMAIN spent[k]
                 PROVE  spent[k][i + 2 * Most(k)] - spent[k][i] >= Window
    BY DEF FailuresAreRationed
  <2>2. PICK log, most, c : log = spent[k] /\ most = Most(k) /\ c = counter[k]
    OBVIOUS
  <2>3. Clocked /\ Rationed(log, most, c) /\ most \in Nat \ {0}
    BY <2>1, <2>2, MostIsPositive DEF AInv, AllRationed
  <2> QED
    BY <2>1, <2>2, <2>3, RationedApart
<1> QED
  BY <1>1, AccessHolds, PTL

\* A session or a host token that ended lets nobody in again, a session none after its
\* absolute time, and no token that is in use is let expire, if the clock is set back too.
THEOREM AccessIsOver == OwnerSpec => AccessEnds
<1>1. ASSUME AInv
      PROVE  /\ \A r \in Requests, s \in Sessions :
                  Admitted(r, s) => s \notin ended /\ now < opened[s] + AbsoluteTtl
             /\ \A t \in HostTokens :
                  /\ TokenUsed(t) => t \notin ended
                  /\ TokenFound(t) => now >= opened[t] + TokenIdle
  <2>1. SessionsStand /\ TokensStand /\ opened \in [Sessions \cup HostTokens -> Nat]
        /\ now \in Nat /\ AbsoluteTtl \in Nat
    BY <1>1, Timed DEF AInv
  <2>2. ASSUME NEW r \in Requests, NEW s \in Sessions, Admitted(r, s)
        PROVE  s \notin ended /\ now < opened[s] + AbsoluteTtl
    <3>1. Kept[s] # NoSession
      BY <2>2 DEF Admitted
    <3>2. Kept[s] = session[s] /\ session[s] # NoSession /\ ~ (session[s].absolute <= now)
      BY <1>1, <3>1, PrunedSessions DEF Over
    <3>3. s \notin ended /\ session[s].absolute = opened[s] + AbsoluteTtl /\ opened[s] \in Nat
      BY <2>1, <3>2 DEF SessionsStand
    <3> QED
      BY <2>1, <3>2, <3>3
  <2>3. ASSUME NEW t \in HostTokens, TokenUsed(t) PROVE t \notin ended
    <3>1. t \in LiveTokens
      BY <2>3 DEF TokenUsed
    <3> QED
      BY <2>1, <3>1 DEF LiveTokens, TokensStand
  <2>4. ASSUME NEW t \in HostTokens, TokenFound(t) PROVE now >= opened[t] + TokenIdle
    <3>1. t \in LiveTokens /\ now >= hostToken[t].used + TokenIdle
      BY <2>4 DEF TokenFound, IdleTokens, Idle
    <3>2. hostToken[t].used = opened[t]
      BY <2>1, <3>1 DEF LiveTokens, TokensStand
    <3> QED
      BY <3>1, <3>2
  <2> QED
    BY <2>2, <2>3, <2>4
<1> QED
  BY <1>1, AccessHolds, PTL DEF AccessEnds

-------------------------------------------------------------------------------
(* The record of lifecycle operations: the stamps rise along the file, the memory   *)
(* and the acknowledgements, a record acknowledged behind a whole line stands on a  *)
(* whole line of its own, and what follows it in its operation has its request.     *)

Entries == Records \cup {Garbage}
Line == [says : Entries, ended : BOOLEAN]
Answer == [record : Records, clean : BOOLEAN]

\* The stamps of the records in s rise, up to the given one.
Stamped(s, most) ==
  /\ \A m \in DOMAIN s : Valid(s[m]) => s[m].stamp <= most
  /\ \A m, n \in DOMAIN s :
       m < n /\ Valid(s[m]) /\ Valid(s[n]) => s[m].stamp < s[n].stamp

\* The later records of r's operation have its request.
Obeys(s, r) ==
  \A m \in DOMAIN s :
    Valid(s[m]) /\ s[m].op = r.op /\ s[m].stamp > r.stamp => s[m].request = r.request

\* r cannot be torn, and the memory knows it.
Stands(r) ==
  /\ \E m \in DOMAIN lines : lines[m].says = r /\ lines[m].ended
  /\ loaded => \E n \in DOMAIN known : known[n] = r

Replied == [i \in DOMAIN acked |-> acked[i].record]

LInv ==
  /\ LedgerTypeOK
  /\ \A s \in {OnDisk, known, Replied} : Stamped(s, writes)
  /\ \A i \in CleanOnes :
       /\ Stands(acked[i].record)
       /\ \A s \in {OnDisk, known, Replied} : Obeys(s, acked[i].record)

\* t is s with r behind it, or some of it lost.
Grown(t, s, r) ==
  \A m \in DOMAIN t :
    \/ m \in DOMAIN s /\ t[m] = s[m]
    \/ t[m] = Garbage
    \/ m = Len(s) + 1 /\ t[m] = r

LEMMA RecordsAreValid ==
  ASSUME NEW r \in Records
  PROVE  Valid(r) /\ r.stamp \in Nat /\ r.stamp # 0 /\ r.op \in Operations
BY LedgerAssumption DEF Valid, Records, Garbage

LEMMA GrownStamped ==
  ASSUME NEW s \in Seq(Entries), NEW t \in Seq(Entries), NEW most \in Nat,
         NEW r \in Records, r.stamp = most + 1, Stamped(s, most), Grown(t, s, r)
  PROVE  Stamped(t, most + 1)
<1>1. \A e \in Entries : Valid(e) => e \in Records /\ e.stamp \in Nat
  BY RecordsAreValid DEF Entries, Valid
<1>2. ASSUME NEW m \in DOMAIN t, Valid(t[m])
      PROVE  /\ t[m].stamp \in Nat /\ t[m].stamp <= most + 1 /\ m \in Nat
             /\ \/ m \in DOMAIN s /\ t[m] = s[m] /\ t[m].stamp <= most /\ m <= Len(s)
                \/ m = Len(s) + 1 /\ t[m].stamp = most + 1
  <2>1. t[m] \in Entries /\ t[m] # Garbage /\ m \in Nat /\ Len(s) \in Nat
    BY <1>2 DEF Valid
  <2>2. CASE m \in DOMAIN s /\ t[m] = s[m]
    BY <1>1, <1>2, <2>1, <2>2 DEF Stamped
  <2>3. CASE m = Len(s) + 1 /\ t[m] = r
    BY <1>1, <1>2, <2>1, <2>3
  <2> QED
    BY <2>1, <2>2, <2>3 DEF Grown
<1>3. ASSUME NEW m \in DOMAIN t, NEW n \in DOMAIN t, m < n, Valid(t[m]), Valid(t[n])
      PROVE  t[m].stamp < t[n].stamp
  <2>1. Len(s) \in Nat
    OBVIOUS
  <2> QED
    BY <1>2, <1>3, <2>1 DEF Stamped
<1> QED
  BY <1>2, <1>3 DEF Stamped

LEMMA GrownObeys ==
  ASSUME NEW s, NEW t, NEW r, NEW first, Obeys(s, first), Grown(t, s, r),
         r.op = first.op => r.request = first.request
  PROVE  Obeys(t, first)
BY DEF Obeys, Grown, Valid

\* What comes before r in time does not disobey it.
LEMMA EarlierObey ==
  ASSUME NEW s \in Seq(Entries), NEW t, NEW most \in Nat, NEW r \in Records,
         r.stamp = most + 1, Stamped(s, most), Grown(t, s, r)
  PROVE  Obeys(t, r)
<1> SUFFICES ASSUME NEW m \in DOMAIN t, Valid(t[m]), t[m].stamp > r.stamp
             PROVE  FALSE
  BY DEF Obeys
<1>1. (m \in DOMAIN s /\ t[m] = s[m]) \/ t[m] = r
  BY DEF Grown, Valid
<1>2. r.stamp \in Nat /\ ~ (r.stamp > r.stamp)
  BY RecordsAreValid
<1>3. m \in DOMAIN s /\ t[m] = s[m]
  BY <1>1, <1>2
<1>4. t[m] \in Records /\ t[m].stamp \in Nat
  BY <1>3, RecordsAreValid DEF Entries, Valid
<1>5. s[m].stamp <= most
  BY <1>3 DEF Stamped
<1> QED
  BY <1>3, <1>4, <1>5

LEMMA GreatestIsIn ==
  ASSUME NEW top \in Nat, NEW T \in SUBSET (1..top), T # {}
  PROVE  Max(T) \in T /\ \A j \in T : Max(T) >= j
<1> DEFINE less == {ss \in Nat \X Nat : ss[1] < ss[2]}
           U == {top - i : i \in T}
<1>1. IsWellFoundedOn(less, Nat)
  BY NatLessThanWellFounded, Zenon DEF OpToRel
<1>2. U \subseteq Nat /\ U # {}
  <2>1. \A i \in T : i \in 1..top
    OBVIOUS
  <2>2. \A i \in T : top - i \in Nat
    BY <2>1
  <2> QED
    BY <2>2
<1>3. \E x \in U : \A y \in U : <<y, x>> \notin less
  <2> HIDE DEF less, U
  <2> QED
    BY <1>1, <1>2, WFMin, Zenon
<1>4. PICK x \in U : \A y \in U : <<y, x>> \notin less
  BY <1>3
<1>5. PICK i \in T : x = top - i
  BY <1>4
<1>6. \A j \in T : i >= j
  <2> SUFFICES ASSUME NEW j \in T, ~ (i >= j) PROVE FALSE
    OBVIOUS
  <2>1. top - j \in U /\ top - j \in Nat /\ x \in Nat /\ top - j < x
    BY <1>5
  <2>2. <<top - j, x>> \in less
    BY <2>1
  <2> QED
    BY <1>4, <2>1, <2>2
<1> QED
  BY <1>5, <1>6 DEF Max

-------------------------------------------------------------------------------
LEMMA LedgerTyped ==
  ASSUME LedgerTypeOK
  PROVE  /\ lines \in Seq(Line) /\ acked \in Seq(Answer)
         /\ \A m \in DOMAIN lines : lines[m].says \in Entries
         /\ \A n \in DOMAIN acked : acked[n].record \in Records
<1>1. lines \in Seq(Line) /\ acked \in Seq(Answer)
  BY DEF LedgerTypeOK, Line, Answer, Entries
<1>2. (\A m \in DOMAIN lines : lines[m] \in Line) /\ (\A n \in DOMAIN acked : acked[n] \in Answer)
  BY <1>1
<1> QED
  BY <1>1, <1>2 DEF Line, Answer

LEMMA TellersTyped ==
  ASSUME NEW file \in Seq(Line), NEW answers \in Seq(Answer)
  PROVE  /\ [m \in DOMAIN file |-> file[m].says] \in Seq(Entries)
         /\ [n \in DOMAIN answers |-> answers[n].record] \in Seq(Entries)
<1>1. (\A m \in DOMAIN file : file[m] \in Line) /\ (\A n \in DOMAIN answers : answers[n] \in Answer)
  OBVIOUS
<1>2. (\A m \in DOMAIN file : file[m].says \in Entries)
      /\ (\A n \in DOMAIN answers : answers[n].record \in Entries)
  BY <1>1 DEF Line, Answer, Entries
<1> QED
  BY <1>2

LEMMA SourcesTyped ==
  ASSUME LedgerTypeOK
  PROVE  /\ OnDisk \in Seq(Entries) /\ known \in Seq(Entries) /\ Replied \in Seq(Entries)
         /\ DOMAIN OnDisk = DOMAIN lines /\ Len(OnDisk) = Len(lines)
         /\ Len(Replied) = Len(acked) /\ writes \in Nat /\ Index \in Seq(Entries)
<1>1. lines \in Seq(Line) /\ \A m \in DOMAIN lines : lines[m].says \in Entries
  BY LedgerTyped
<1>2. acked \in Seq(Answer) /\ \A n \in DOMAIN acked : acked[n].record \in Entries
  BY LedgerTyped DEF Entries
<1>3. OnDisk \in Seq(Entries) /\ DOMAIN OnDisk = DOMAIN lines /\ Len(OnDisk) = Len(lines)
  BY <1>1 DEF OnDisk
<1>4. Replied \in Seq(Entries) /\ Len(Replied) = Len(acked)
  BY <1>2 DEF Replied
<1>5. known \in Seq(Entries) /\ writes \in Nat
  BY LedgerAssumption DEF LedgerTypeOK, Entries
<1> QED
  BY <1>3, <1>4, <1>5 DEF Index

\* The index that a call works with is as good as the file.
LEMMA IndexStands ==
  ASSUME LInv
  PROVE  /\ Stamped(Index, writes)
         /\ \A i \in CleanOnes :
              /\ Obeys(Index, acked[i].record)
              /\ \E n \in DOMAIN Index : Index[n] = acked[i].record
<1>1. Index \in {OnDisk, known}
  BY DEF Index
<1>2. ASSUME NEW i \in CleanOnes
      PROVE  \E n \in DOMAIN Index : Index[n] = acked[i].record
  <2>1. CASE loaded
    BY <1>2, <2>1 DEF LInv, Stands, Index
  <2>2. CASE ~ loaded
    <3>1. PICK m \in DOMAIN lines : lines[m].says = acked[i].record
      BY <1>2 DEF LInv, Stands
    <3> QED
      BY <2>2, <3>1 DEF Index, OnDisk
  <2> QED
    BY <2>1, <2>2
<1> QED
  BY <1>1, <1>2 DEF LInv

\* What an append compares a request with says what the operation was acknowledged for.
LEMMA LatestRules ==
  ASSUME LInv, NEW i \in CleanOnes, NEW asked, NEW op, op = acked[i].record.op,
         Latest(op) # Garbage => SameRequest(Latest(op), asked)
  PROVE  asked = acked[i].record.request
<1> DEFINE r == acked[i].record
           history == {n \in DOMAIN Index : Valid(Index[n]) /\ Index[n].op = op}
<1>1. Index \in Seq(Entries) /\ r \in Records
  BY SourcesTyped, LedgerTyped DEF LInv, CleanOnes
<1>2. Stamped(Index, writes) /\ Obeys(Index, r)
  BY IndexStands
<1>3. PICK n \in DOMAIN Index : Index[n] = r
  BY IndexStands
<1>4. n \in history
  BY <1>1, <1>3, RecordsAreValid
<1>5. Max(history) \in history /\ Max(history) >= n
  <2>1. Len(Index) \in Nat /\ history \in SUBSET (1..Len(Index)) /\ history # {}
    BY <1>1, <1>4
  <2> HIDE DEF history
  <2> QED
    BY <1>4, <2>1, GreatestIsIn
<1>6. PICK k \in DOMAIN Index : k = Max(history) /\ Valid(Index[k]) /\ Index[k].op = op
  BY <1>5
<1>7. Latest(op) = Index[k]
  BY <1>4, <1>6 DEF Latest
<1>8. Index[k].request = asked
  BY <1>6, <1>7 DEF Valid, SameRequest
<1>9. CASE k = n
  BY <1>3, <1>8, <1>9
<1>10. CASE k # n
  <2>1. n < k
    BY <1>1, <1>5, <1>6, <1>10
  <2>2. Index[k].stamp > r.stamp
    <3>1. Index[k] \in Records
      BY <1>1, <1>6 DEF Entries, Valid
    <3>2. Index[k].stamp \in Nat /\ r.stamp \in Nat /\ Valid(r)
      BY <1>1, <3>1, RecordsAreValid
    <3>3. Index[n].stamp < Index[k].stamp
      BY <1>2, <1>3, <1>6, <2>1, <3>2 DEF Stamped
    <3> QED
      BY <1>3, <3>2, <3>3
  <2> QED
    BY <1>2, <1>6, <1>8, <2>2 DEF Obeys
<1> QED
  BY <1>9, <1>10

\* A text that is appended spares every line that ended, and stands by itself behind one.
LEMMA WrittenBehind ==
  ASSUME LedgerTypeOK, NEW text \in Line
  PROVE  /\ Written(text) \in Seq(Line)
         /\ \A m \in DOMAIN lines : lines[m].ended =>
              m \in DOMAIN Written(text) /\ Written(text)[m] = lines[m]
         /\ \A m \in DOMAIN Written(text) :
              \/ m \in DOMAIN lines /\ Written(text)[m] = lines[m]
              \/ Written(text)[m].says = Garbage
              \/ m = Len(lines) + 1 /\ Written(text)[m] = text
         /\ LastEnded => /\ Len(lines) + 1 \in DOMAIN Written(text)
                         /\ Written(text)[Len(lines) + 1] = text
<1>1. lines \in Seq(Line) /\ Len(lines) \in Nat
  BY LedgerTyped
<1>2. CASE LastEnded
  <2>1. Written(text) = Append(lines, text)
    BY <1>2 DEF Written
  <2>2. Append(lines, text) \in Seq(Line) /\ DOMAIN Append(lines, text) = 1..(Len(lines) + 1)
    BY <1>1
  <2>3. \A m \in DOMAIN lines : Append(lines, text)[m] = lines[m]
    BY <1>1
  <2>4. Append(lines, text)[Len(lines) + 1] = text
    BY <1>1
  <2>5. DOMAIN lines = 1..Len(lines)
    BY <1>1
  <2> QED
    BY <1>1, <1>2, <2>1, <2>2, <2>3, <2>4, <2>5
<1>3. CASE ~ LastEnded
  <2> DEFINE torn == [says |-> Garbage, ended |-> text.ended]
             top == Len(lines) - 1
             new == Append(Front(lines), torn)
  <2>1. lines # <<>> /\ ~ lines[Len(lines)].ended /\ Len(lines) >= 1 /\ top \in Nat
    BY <1>1, <1>3 DEF LastEnded, Last
  <2>2. Written(text) = new
    BY <1>3 DEF Written
  <2>3. /\ Front(lines) \in Seq(Line) /\ Len(Front(lines)) = top
        /\ \A m \in 1..top : Front(lines)[m] = lines[m]
    <3>1. \A m \in 1..top : lines[m] \in Line
      BY <1>1, <2>1
    <3>2. Front(lines) = SubSeq(lines, 1, top)
      BY DEF Front
    <3> HIDE DEF top
    <3>3. /\ SubSeq(lines, 1, top) \in Seq(Line)
          /\ Len(SubSeq(lines, 1, top)) = IF 1 <= top THEN top - 1 + 1 ELSE 0
          /\ \A m \in 1..(top - 1 + 1) : SubSeq(lines, 1, top)[m] = lines[1 + m - 1]
      BY <2>1, <3>1, SubSeqProperties
    <3> QED
      BY <2>1, <3>2, <3>3
  <2>4. torn \in Line /\ torn.says = Garbage
    BY DEF Line, Entries
  <2> HIDE DEF torn
  <2>5. /\ new \in Seq(Line) /\ DOMAIN new = 1..(top + 1)
        /\ \A m \in 1..top : new[m] = lines[m]
        /\ new[top + 1] = torn
    BY <2>1, <2>3, <2>4
  <2> HIDE DEF new
  <2>6. DOMAIN lines = 1..Len(lines) /\ Len(lines) = top + 1
    BY <1>1
  <2>7. \A m \in DOMAIN lines : lines[m].ended => m \in 1..top
    BY <1>1, <2>1, <2>6
  <2> HIDE DEF top
  <2>8. \A m \in 1..(top + 1) : m \in 1..top \/ m = top + 1
    BY <2>1
  <2>9. \A m \in 1..top : m \in 1..(top + 1)
    BY <2>1
  <2> QED
    BY <1>3, <2>2, <2>4, <2>5, <2>6, <2>7, <2>8, <2>9
<1> QED
  BY <1>2, <1>3

-------------------------------------------------------------------------------
\* A call that writes nothing reads the file at most.
LEMMA ReadingHolds ==
  ASSUME LInv, known' \in {Index, OnDisk}, loaded' = TRUE,
         UNCHANGED <<lines, life, writes, acked>>
  PROVE  LInv'
<1>1. OnDisk' = OnDisk /\ Replied' = Replied /\ CleanOnes' = CleanOnes
  BY DEF OnDisk, Replied, CleanOnes
<1>2. known' \in {OnDisk, known}
  BY DEF Index
<1>3. LedgerTypeOK'
  <2>1. known' \in Seq(Records \cup {Garbage})
    BY <1>2, SourcesTyped DEF LInv, LedgerTypeOK, Entries
  <2> QED
    BY <2>1 DEF LInv, LedgerTypeOK
<1>4. ASSUME NEW i \in CleanOnes PROVE Stands(acked[i].record)'
  <2>1. PICK m \in DOMAIN lines : lines[m].says = acked[i].record /\ lines[m].ended
    BY <1>4 DEF LInv, Stands
  <2>2. \E n \in DOMAIN Index : Index[n] = acked[i].record
    BY <1>4, IndexStands
  <2>3. m \in DOMAIN OnDisk /\ OnDisk[m] = acked[i].record
    BY <2>1 DEF OnDisk
  <2>4. \E n \in DOMAIN known' : known'[n] = acked[i].record
    BY <2>2, <2>3
  <2> QED
    BY <2>1, <2>4 DEF Stands
<1> QED
  BY <1>1, <1>2, <1>3, <1>4 DEF LInv

\* A write that comes out well or badly: everything grows by r at most, nothing that was
\* whole is lost, and what is acknowledged beside what was is r, which stands.
LEMMA WritingHolds ==
  ASSUME LInv, LedgerTypeOK', NEW r \in Records, r.stamp = writes + 1, writes' = writes + 1,
         Grown(OnDisk', OnDisk, r), Grown(known', Index, r), Grown(Replied', Replied, r),
         \A m \in DOMAIN lines : lines[m].ended => m \in DOMAIN lines' /\ lines'[m] = lines[m],
         \A n \in DOMAIN Index : n \in DOMAIN known' /\ known'[n] = Index[n],
         \A i \in CleanOnes : r.op = acked[i].record.op => r.request = acked[i].record.request,
         \A i \in CleanOnes' :
           \/ i \in CleanOnes /\ acked'[i] = acked[i]
           \/ acked'[i].record = r /\ Stands(r)'
  PROVE  LInv'
<1>1. /\ OnDisk \in Seq(Entries) /\ known \in Seq(Entries) /\ Replied \in Seq(Entries)
      /\ Index \in Seq(Entries) /\ writes \in Nat
  BY SourcesTyped DEF LInv
<1>2. OnDisk' \in Seq(Entries) /\ known' \in Seq(Entries) /\ Replied' \in Seq(Entries)
  <2>1. lines' \in Seq(Line) /\ acked' \in Seq(Answer) /\ known' \in Seq(Entries)
    BY DEF LedgerTypeOK, Line, Answer, Entries
  <2> QED
    BY <2>1, TellersTyped DEF OnDisk, Replied
<1>3. Stamped(OnDisk, writes) /\ Stamped(Index, writes) /\ Stamped(Replied, writes)
  BY IndexStands DEF LInv
<1>4. Stamped(OnDisk', writes + 1) /\ Stamped(known', writes + 1) /\ Stamped(Replied', writes + 1)
  BY <1>1, <1>2, <1>3, GrownStamped
<1>5. ASSUME NEW i \in CleanOnes'
      PROVE  /\ Stands(acked[i].record)'
             /\ Obeys(OnDisk', acked'[i].record) /\ Obeys(known', acked'[i].record)
             /\ Obeys(Replied', acked'[i].record)
  <2>1. CASE i \in CleanOnes /\ acked'[i] = acked[i]
    <3>1. PICK m \in DOMAIN lines : lines[m].says = acked[i].record /\ lines[m].ended
      BY <2>1 DEF LInv, Stands
    <3>2. PICK n \in DOMAIN Index : Index[n] = acked[i].record
      BY <2>1, IndexStands
    <3>3. Stands(acked[i].record)'
      BY <2>1, <3>1, <3>2 DEF Stands
    <3>4. /\ Obeys(OnDisk, acked[i].record) /\ Obeys(Index, acked[i].record)
          /\ Obeys(Replied, acked[i].record)
      BY <2>1, IndexStands DEF LInv
    <3>5. r.op = acked[i].record.op => r.request = acked[i].record.request
      BY <2>1
    <3> QED
      BY <2>1, <3>3, <3>4, <3>5, GrownObeys
  <2>2. CASE acked'[i].record = r /\ Stands(r)'
    <3>1. Obeys(OnDisk', r) /\ Obeys(known', r) /\ Obeys(Replied', r)
      BY <1>1, <1>3, EarlierObey
    <3>2. Stands(acked[i].record)'
      BY <2>2 DEF Stands
    <3> QED
      BY <2>2, <3>1, <3>2
  <2> QED
    BY <1>5, <2>1, <2>2
<1> QED
  BY <1>4, <1>5 DEF LInv

LEMMA LineIsLine ==
  ASSUME NEW says \in Entries, NEW done \in BOOLEAN
  PROVE  [says |-> says, ended |-> done] \in Line
BY DEF Line

\* An append puts no other request behind an acknowledged one, whatever its write does.
LEMMA AppendingHolds ==
  ASSUME LInv, NEW op \in Operations, NEW asked \in Payloads, NEW state \in States,
         Appended(op, asked, state)
  PROVE  LInv'
<1>1. LedgerTypeOK /\ writes \in Nat /\ writes < MaxWrites /\ writes' = writes + 1
      /\ loaded' = TRUE /\ life' = life
  BY SourcesTyped DEF LInv, Appended
<1>2. PICK r \in Records :
        /\ r = [op |-> op, request |-> asked, state |-> state, by |-> life, stamp |-> writes + 1]
        /\ r.stamp = writes + 1 /\ r.op = op /\ r.request = asked
  <2> DEFINE new == [op |-> op, request |-> asked, state |-> state, by |-> life,
                     stamp |-> writes + 1]
  <2>1. new \in Records /\ new.stamp = writes + 1 /\ new.op = op /\ new.request = asked
    BY <1>1, LedgerAssumption DEF Records, LedgerTypeOK
  <2>2. PICK r \in Records : r = new
    BY <2>1
  <2> QED
    BY <2>1, <2>2
<1> DEFINE whole == [says |-> r, ended |-> TRUE]
           bare == [says |-> r, ended |-> FALSE]
           shred == [says |-> Garbage, ended |-> FALSE]
           answer == [record |-> r, clean |-> LastEnded]
<1>3. \A i \in CleanOnes : op = acked[i].record.op => asked = acked[i].record.request
  <2>1. Latest(op) # Garbage => SameRequest(Latest(op), asked)
    BY DEF Appended
  <2> QED
    BY <2>1, LatestRules
<1>4. writes' \in 0..MaxWrites /\ life' \in 1..MaxLives
  BY <1>1, LedgerAssumption DEF LedgerTypeOK
<1>5. lines \in Seq(Line) /\ acked \in Seq(Answer) /\ Index \in Seq(Entries) /\ Len(lines) \in Nat
      /\ LastEnded \in BOOLEAN
  <2>1. lines \in Seq(Line) /\ acked \in Seq(Answer) /\ Index \in Seq(Entries)
    BY <1>1, LedgerTyped, SourcesTyped
  <2>2. lines # <<>> => lines[Len(lines)] \in Line
    BY <2>1
  <2>3. LastEnded \in BOOLEAN
    BY <2>2 DEF LastEnded, Last, Line
  <2> QED
    BY <2>1, <2>3
<1>6. \/ lines' = Written(whole) /\ known' = Append(Index, r) /\ acked' = Append(acked, answer)
      \/ lines' \in Remains(r) /\ known' = Index /\ acked' = acked
  BY <1>2 DEF Appended
<1>7. r \in Entries /\ Garbage \in Entries
  BY DEF Entries
<1>15. /\ answer.record = r /\ answer.clean = LastEnded /\ whole.says = r /\ whole.ended
       /\ bare.says = r /\ shred.says = Garbage
  OBVIOUS
<1>19. whole \in Line /\ bare \in Line /\ shred \in Line
  BY <1>7, LineIsLine
<1>20. answer \in Answer
  BY <1>5 DEF Answer
<1>21. \A l : l \in Remains(r) => l = lines \/ \E text \in {shred, bare, whole} : l = Written(text)
  BY DEF Remains
<1> HIDE DEF whole, bare, shred, answer
<1>8. PICK text \in Line : text.says \in {r, Garbage} /\ lines' \in {lines, Written(text)}
                          /\ (acked' # acked => text = whole /\ lines' = Written(text))
  <2>1. CASE lines' = Written(whole)
    BY <1>15, <1>19, <2>1
  <2>2. CASE lines' \in Remains(r) /\ acked' = acked
    <3>1. CASE lines' = lines
      BY <1>15, <1>19, <2>2, <3>1
    <3>2. CASE \E text \in {shred, bare, whole} : lines' = Written(text)
      BY <1>15, <1>19, <2>2, <3>2
    <3> QED
      BY <1>21, <2>2, <3>1, <3>2
  <2> QED
    BY <1>6, <2>1, <2>2
<1>9. /\ Written(text) \in Seq(Line)
      /\ \A m \in DOMAIN lines : lines[m].ended =>
           m \in DOMAIN Written(text) /\ Written(text)[m] = lines[m]
      /\ \A m \in DOMAIN Written(text) :
           \/ m \in DOMAIN lines /\ Written(text)[m] = lines[m]
           \/ Written(text)[m].says = Garbage
           \/ m = Len(lines) + 1 /\ Written(text)[m] = text
      /\ LastEnded => /\ Len(lines) + 1 \in DOMAIN Written(text)
                      /\ Written(text)[Len(lines) + 1] = text
  BY <1>1, <1>8, WrittenBehind
<1>10. lines' \in Seq(Line) /\ known' \in Seq(Entries) /\ acked' \in Seq(Answer)
  <2>1. lines' \in Seq(Line)
    BY <1>5, <1>8, <1>9
  <2>2. known' \in Seq(Entries)
    <3>1. Append(Index, r) \in Seq(Entries)
      BY <1>5, <1>7, AppendProperties
    <3>2. known' = Append(Index, r) \/ known' = Index
      BY <1>6
    <3> QED
      BY <1>5, <3>1, <3>2
  <2>3. acked' \in Seq(Answer)
    <3>1. Append(acked, answer) \in Seq(Answer)
      BY <1>5, <1>20, AppendProperties
    <3>2. acked' = Append(acked, answer) \/ acked' = acked
      BY <1>6
    <3> QED
      BY <1>5, <3>1, <3>2
  <2> QED
    BY <2>1, <2>2, <2>3
<1>11. LedgerTypeOK'
  BY <1>1, <1>4, <1>10 DEF LedgerTypeOK, Line, Answer, Entries
<1>12. Grown(OnDisk', OnDisk, r)
  <2>1. Len(OnDisk) = Len(lines) /\ DOMAIN OnDisk = DOMAIN lines
    BY <1>1, SourcesTyped
  <2>2. DOMAIN OnDisk' = DOMAIN lines' /\ \A m \in DOMAIN lines' : OnDisk'[m] = lines'[m].says
    BY DEF OnDisk
  <2>3. \A m \in DOMAIN lines : OnDisk[m] = lines[m].says
    BY DEF OnDisk
  <2> QED
    BY <1>8, <1>9, <2>1, <2>2, <2>3 DEF Grown
<1>13. /\ Grown(known', Index, r)
       /\ \A n \in DOMAIN Index : n \in DOMAIN known' /\ known'[n] = Index[n]
  <2>1. CASE known' = Index
    BY <2>1 DEF Grown
  <2>2. CASE known' = Append(Index, r)
    <3>1. /\ DOMAIN Append(Index, r) = 1..(Len(Index) + 1) /\ DOMAIN Index = 1..Len(Index)
          /\ \A n \in 1..Len(Index) : Append(Index, r)[n] = Index[n]
          /\ Append(Index, r)[Len(Index) + 1] = r /\ Len(Index) \in Nat
      BY <1>5, <1>7, AppendProperties
    <3> QED
      BY <2>2, <3>1 DEF Grown
  <2> QED
    BY <1>6, <2>1, <2>2
<1>14. /\ acked' = acked \/ acked' = Append(acked, answer)
       /\ DOMAIN acked' = IF acked' = acked THEN DOMAIN acked ELSE 1..(Len(acked) + 1)
       /\ \A i \in DOMAIN acked' : (i \in DOMAIN acked /\ acked'[i] = acked[i])
                                 \/ (acked' # acked /\ i = Len(acked) + 1 /\ acked'[i] = answer)
  <2>1. /\ DOMAIN Append(acked, answer) = 1..(Len(acked) + 1) /\ DOMAIN acked = 1..Len(acked)
        /\ \A i \in 1..Len(acked) : Append(acked, answer)[i] = acked[i]
        /\ Append(acked, answer)[Len(acked) + 1] = answer /\ Len(acked) \in Nat
    BY <1>5, <1>20, AppendProperties
  <2>2. Append(acked, answer) # acked
    <3>1. Len(Append(acked, answer)) = Len(acked) + 1
      BY <1>5, <1>20, AppendProperties
    <3>2. Len(acked) \in Nat
      BY <1>5
    <3>3. \A n \in Nat : n # n + 1
      OBVIOUS
    <3> QED
      BY <3>1, <3>2, <3>3, Zenon
  <2>3. \A i \in 1..(Len(acked) + 1) : i \in 1..Len(acked) \/ i = Len(acked) + 1
    BY <2>1
  <2> QED
    BY <1>6, <2>1, <2>2, <2>3
<1>16. Grown(Replied', Replied, r)
  <2>1. Len(Replied) = Len(acked)
    BY <1>1, SourcesTyped
  <2>2. /\ DOMAIN Replied = DOMAIN acked /\ DOMAIN Replied' = DOMAIN acked'
        /\ \A i \in DOMAIN acked : Replied[i] = acked[i].record
        /\ \A i \in DOMAIN acked' : Replied'[i] = acked'[i].record
    BY DEF Replied
  <2> QED
    BY <1>14, <1>15, <2>1, <2>2 DEF Grown
<1>17. \A m \in DOMAIN lines : lines[m].ended => m \in DOMAIN lines' /\ lines'[m] = lines[m]
  BY <1>8, <1>9
<1>18. ASSUME NEW i \in CleanOnes'
       PROVE  \/ i \in CleanOnes /\ acked'[i] = acked[i]
              \/ acked'[i].record = r /\ Stands(r)'
  <2>1. i \in DOMAIN acked' /\ acked'[i].clean
    BY <1>18 DEF CleanOnes
  <2>2. CASE i \in DOMAIN acked /\ acked'[i] = acked[i]
    BY <2>1, <2>2 DEF CleanOnes
  <2>3. CASE acked' # acked /\ acked'[i] = answer
    <3>1. LastEnded /\ acked'[i].record = r
      BY <1>15, <2>1, <2>3
    <3>2. /\ Len(lines) + 1 \in DOMAIN lines' /\ lines'[Len(lines) + 1].says = r
          /\ lines'[Len(lines) + 1].ended
      BY <1>8, <1>9, <1>15, <2>3, <3>1
    <3>3. known' = Append(Index, r)
      BY <1>6, <2>3
    <3>4. Len(Index) + 1 \in DOMAIN known' /\ known'[Len(Index) + 1] = r
      BY <1>5, <1>7, <3>3
    <3> QED
      BY <3>1, <3>2, <3>4 DEF Stands
  <2> QED
    BY <1>14, <2>1, <2>2, <2>3
<1> QED
  BY <1>1, <1>2, <1>3, <1>11, <1>12, <1>13, <1>16, <1>17, <1>18, WritingHolds

LEMMA LedgerStarts == LedgerInit => LInv
<1> SUFFICES ASSUME LedgerInit PROVE LInv
  OBVIOUS
<1>1. LedgerTypeOK
  <2>1. \A S : <<>> \in Seq(S)
    OBVIOUS
  <2>2. 1 \in 1..MaxLives /\ 0 \in 0..MaxWrites
    BY LedgerAssumption
  <2> QED
    BY <2>1, <2>2, Zenon DEF LedgerInit, LedgerTypeOK
<1>2. DOMAIN OnDisk = {} /\ DOMAIN known = {} /\ DOMAIN Replied = {} /\ CleanOnes = {}
  BY DEF LedgerInit, OnDisk, Replied, CleanOnes
<1> QED
  BY <1>1, <1>2 DEF LInv, Stamped

LEMMA LedgerSteps ==
  ASSUME LInv, LedgerNext
  PROVE  LInv'
<1>1. ASSUME NEW op \in Operations, NEW asked \in Payloads, NEW state \in States,
             AppendAnswered(op, asked, state)
      PROVE  LInv'
  BY <1>1, ReadingHolds DEF AppendAnswered, Looks
<1>2. CASE LedgerRead
  BY <1>2, ReadingHolds DEF LedgerRead, Looks
<1>3. CASE Loaded
  BY <1>3, ReadingHolds DEF Loaded
<1>4. CASE LedgerRestart
  <2>1. /\ life' = life + 1 /\ life < MaxLives /\ known' = <<>> /\ loaded' = FALSE
        /\ UNCHANGED <<lines, writes, acked>>
    BY <1>4 DEF LedgerRestart
  <2>2. OnDisk' = OnDisk /\ Replied' = Replied /\ CleanOnes' = CleanOnes
    BY <2>1 DEF OnDisk, Replied, CleanOnes
  <2>3. life' \in 1..MaxLives
    BY <2>1, LedgerAssumption DEF LInv, LedgerTypeOK
  <2>4. LedgerTypeOK'
    <3>1. \A S : <<>> \in Seq(S)
      OBVIOUS
    <3>2. known' \in Seq(Records \cup {Garbage}) /\ loaded' \in BOOLEAN
      BY <2>1, <3>1, Zenon
    <3> QED
      BY <2>1, <2>3, <3>2 DEF LInv, LedgerTypeOK
  <2>5. DOMAIN known' = {}
    BY <2>1
  <2>6. Stamped(known', writes') /\ \A i \in CleanOnes : Obeys(known', acked[i].record)
    BY <2>5 DEF Stamped, Obeys
  <2>7. \A i \in CleanOnes : Stands(acked[i].record)'
    BY <2>1 DEF LInv, Stands
  <2> QED
    BY <2>1, <2>2, <2>4, <2>6, <2>7 DEF LInv
<1> QED
  BY <1>1, <1>2, <1>3, <1>4, AppendingHolds DEF LedgerNext

\* The rising stamps tell the places in the file and the places among the answers apart.
LEMMA LedgerIsTrue == LInv => LedgerKeepsItsWord
<1> SUFFICES ASSUME LInv PROVE LedgerKeepsItsWord
  OBVIOUS
<1>1. \A i \in CleanOnes : \E m \in DOMAIN lines : lines[m].says = acked[i].record
  BY DEF LInv, Stands
<1>2. \A i \in DOMAIN acked : acked[i].record \in Records
  BY LedgerTyped DEF LInv
<1>3. \A i \in DOMAIN acked : /\ Valid(acked[i].record) /\ acked[i].record.stamp \in Nat
                            /\ i \in DOMAIN Replied /\ Replied[i] = acked[i].record /\ i \in Nat
  <2>1. Len(acked) \in Nat /\ DOMAIN acked = 1..Len(acked)
    BY LedgerTyped DEF LInv
  <2> QED
    BY <1>2, <2>1, RecordsAreValid DEF Replied
<1>4. \A i, j \in DOMAIN acked : i < j => acked[i].record.stamp < acked[j].record.stamp
  <2>1. Stamped(Replied, writes)
    BY DEF LInv
  <2> QED
    BY <1>3, <2>1 DEF Stamped
<1>5. \A m, n \in DOMAIN lines : Valid(lines[m].says) /\ Valid(lines[n].says) /\ m < n =>
        lines[m].says.stamp < lines[n].says.stamp
  <2>1. Stamped(OnDisk, writes)
    BY DEF LInv
  <2> QED
    BY <2>1 DEF Stamped, OnDisk
<1>6. CleanOnes \subseteq DOMAIN acked
  BY DEF CleanOnes
<1>7. ASSUME NEW i \in CleanOnes, NEW j \in CleanOnes, NEW m \in DOMAIN lines, NEW n \in DOMAIN lines,
             lines[m].says = acked[i].record, lines[n].says = acked[j].record
      PROVE  i < j <=> m < n
  <2>1. i \in DOMAIN acked /\ j \in DOMAIN acked /\ i \in Nat /\ j \in Nat
    BY <1>3, <1>6
  <2>2. m \in Nat /\ n \in Nat
    BY LedgerTyped DEF LInv
  <2>3. PICK x, y : x = acked[i].record.stamp /\ y = acked[j].record.stamp
    OBVIOUS
  <2>4. x \in Nat /\ y \in Nat /\ (i < j => x < y) /\ (j < i => y < x) /\ (i = j => x = y)
    BY <1>3, <1>4, <2>1, <2>3
  <2>5. (m < n => x < y) /\ (n < m => y < x) /\ (m = n => x = y)
    BY <1>3, <1>5, <1>7, <2>1, <2>3
  <2> QED
    BY <2>1, <2>2, <2>4, <2>5
<1>8. ASSUME NEW i \in CleanOnes, NEW j \in DOMAIN acked, i < j,
             acked[i].record.op = acked[j].record.op
      PROVE  acked[j].record.request = acked[i].record.request
  <2>1. i \in DOMAIN acked /\ Obeys(Replied, acked[i].record)
    BY <1>6 DEF LInv
  <2>2. acked[j].record.stamp > acked[i].record.stamp
    BY <1>3, <1>4, <1>8, <2>1
  <2> QED
    BY <1>3, <1>8, <2>1, <2>2 DEF Obeys
<1> QED
  BY <1>1, <1>7, <1>8 DEF LedgerKeepsItsWord

LEMMA LedgerRests ==
  ASSUME LInv, UNCHANGED ledgerVars
  PROVE  LInv'
<1>1. OnDisk' = OnDisk /\ Replied' = Replied /\ CleanOnes' = CleanOnes
  BY DEF OnDisk, Replied, CleanOnes, ledgerVars
<1>2. LedgerTypeOK'
  BY DEF LInv, LedgerTypeOK, ledgerVars
<1>3. \A i \in CleanOnes : Stands(acked[i].record)'
  BY DEF LInv, Stands, ledgerVars
<1> QED
  BY <1>1, <1>2, <1>3 DEF LInv, ledgerVars

\* Whoever uses the record, and whatever fails: the types hold, the stamps rise, what was
\* acknowledged behind a whole line stands, and nobody takes its operation for another one.
THEOREM LedgerHolds == OwnerSpec => []LInv
<1>1. OwnerInit => LInv
  BY LedgerStarts DEF OwnerInit
<1>2. LInv /\ [OwnerNext]_ownerVars => LInv'
  <2> SUFFICES ASSUME LInv, [OwnerNext]_ownerVars PROVE LInv'
    OBVIOUS
  <2>1. CASE UNCHANGED ledgerVars
    BY <2>1, LedgerRests
  <2>2. CASE LedgerNext
    BY <2>2, LedgerSteps
  <2> QED
    BY <2>1, <2>2 DEF OwnerNext, ownerVars
<1> QED
  BY <1>1, <1>2, PTL DEF OwnerSpec

\* The file gives back every record that was acknowledged behind a whole line, once and in
\* the order of the answers, and an operation id stays with the request it was first
\* acknowledged for, over any number of writes, failures and processes.
THEOREM LedgerIsKept == OwnerSpec => []LedgerKeepsItsWord
BY LedgerHolds, LedgerIsTrue, PTL
=============================================================================
