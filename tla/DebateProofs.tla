----------------------------- MODULE DebateProofs -----------------------------
(***************************************************************************)
(* Theorems about the Debate store and the Debate service over it, for     *)
(* every set of connections, message ids, contents and turn limits, every  *)
(* pair of timeouts and every set of concurrent waits.                     *)
(***************************************************************************)
EXTENDS DebateRefinement, DebateService, FiniteSetTheorems, TLAPS

\* The transcript so far is the one the turn rule dictates, and no stored
\* message but the last allowed one is final.
TurnOrder ==
  \A i \in 1..Len(messages) :
    /\ messages[i].author = AuthorDue(i, debate.maxTurns, debate.finalizer)
    /\ messages[i].isFinal <=> i = debate.maxTurns

\* What each status says of the rest of the row.
StatusShape ==
  /\ debate.status \in {"absent", "deleted", "waiting"} => messages = <<>>
  /\ debate.status \in {"absent", "deleted"} =>
       debate = [NoDebate EXCEPT !.status = debate.status]
  /\ Exists => debate.maxTurns \in TurnLimits
  /\ Exists => debate.sequence = Len(messages) /\ debate.completedTurns = Len(messages)
  /\ debate.status \in {"active", "paused_timeout"} => Len(messages) < debate.maxTurns

\* The inductive invariant: the turn of a running debate can only be known to
\* be right together with the authors of what is already stored.
IInv == TypeOK /\ StatusShape /\ TurnOrder /\ TurnIsNeverLost

-----------------------------------------------------------------------------

LEMMA OtherRoleAlternates ==
  ASSUME NEW i \in Nat
  PROVE  OtherRole(IF i % 2 = 1 THEN "creator" ELSE "joiner")
           = IF (i + 1) % 2 = 1 THEN "creator" ELSE "joiner"
  BY DEF OtherRole

\* Recording an expiry keeps the row a row and touches only the status of an
\* active debate and the reason of its pause.
LEMMA ExpiryKeepsRow ==
  ASSUME NEW d \in Row, NEW t \in Nat
  PROVE  LET e == ExpireIfDue(d, t) IN
         /\ e \in Row
         /\ e.status = d.status \/ (d.status = "active" /\ e.status = "paused_timeout")
         /\ d.status # "active" => e = d
         /\ e.status = "active" => e = d
         /\ e.sequence = d.sequence /\ e.completedTurns = d.completedTurns
         /\ e.maxTurns = d.maxTurns /\ e.finalizer = d.finalizer
         /\ e.current = d.current
  BY DEF ExpireIfDue, PickupDue, ResponseDue, Row, Statuses, PauseReasons

\* Whoever is due to speak is a participant.
LEMMA DueIsARole ==
  ASSUME NEW i \in Nat, NEW n \in Nat, NEW f \in Roles
  PROVE  AuthorDue(i, n, f) \in Roles
  BY DEF AuthorDue, Roles

\* The participant a send hands over to is the one due after it.
LEMMA HandsOverToDue ==
  ASSUME NEW d \in Row, d.maxTurns \in TurnLimits, NEW k \in Nat, k + 1 < d.maxTurns
  PROVE  NextParticipant(d, AuthorDue(k + 1, d.maxTurns, d.finalizer), k + 1)
           = AuthorDue(k + 2, d.maxTurns, d.finalizer)
<1>1. d.maxTurns \in Nat
  BY TurnLimitsAssumption
<1>2. CASE k + 1 = d.maxTurns - 1
  BY <1>1, <1>2 DEF NextParticipant, AuthorDue
<1>3. CASE k + 1 # d.maxTurns - 1
  <2>1. k + 1 # d.maxTurns /\ k + 2 # d.maxTurns
    BY <1>1, <1>3
  <2>2. OtherRole(IF (k + 1) % 2 = 1 THEN "creator" ELSE "joiner")
          = IF (k + 1 + 1) % 2 = 1 THEN "creator" ELSE "joiner"
    BY OtherRoleAlternates, k + 1 \in Nat
  <2>3. k + 1 + 1 = k + 2
    OBVIOUS
  <2> QED
    BY <1>3, <2>1, <2>2, <2>3 DEF NextParticipant, AuthorDue
<1> QED
  BY <1>2, <1>3

LEMMA InitIInv == Init => IInv
<1> SUFFICES ASSUME Init PROVE IInv
  OBVIOUS
<1>1. NoDebate \in Row
  BY DEF NoDebate, Row, Statuses, PauseReasons, Roles, Never, NoOne
<1>2. TypeOK
  BY <1>1 DEF Init, TypeOK, MessageRow
<1>3. StatusShape
  BY DEF Init, StatusShape, NoDebate, Exists
<1>4. TurnOrder /\ TurnIsNeverLost
  BY DEF Init, TurnOrder, TurnIsNeverLost, NoDebate
<1> QED
  BY <1>2, <1>3, <1>4 DEF IInv

\* What every method sees of the row after its own expireIfDue.
LEMMA SeenFacts ==
  ASSUME IInv
  PROVE  /\ Seen \in Row
         /\ Seen.status = debate.status
              \/ (debate.status = "active" /\ Seen.status = "paused_timeout")
         /\ debate.status # "active" => Seen = debate
         /\ Seen.status = "active" => Seen = debate
         /\ Seen.sequence = debate.sequence
         /\ Seen.completedTurns = debate.completedTurns
         /\ Seen.maxTurns = debate.maxTurns /\ Seen.finalizer = debate.finalizer
         /\ Seen.current = debate.current
  BY ExpiryKeepsRow DEF IInv, TypeOK, Seen

\* A row that changed only in status and clocks, between statuses that exist,
\* keeps the invariant when the transcript and the holder are kept.
LEMMA SameTurnKeepsIInv ==
  ASSUME IInv, Exists,
         UNCHANGED <<now, member, messages, answers>>,
         debate' \in Row,
         debate'.sequence = debate.sequence,
         debate'.completedTurns = debate.completedTurns,
         debate'.maxTurns = debate.maxTurns, debate'.finalizer = debate.finalizer,
         \/ debate'.status = debate.status /\ debate'.current = debate.current
         \/ /\ debate.status \in {"active", "paused_timeout"}
            /\ debate'.status \in {"active", "paused_timeout"}
            /\ debate'.current = debate.current
         \/ debate'.status = "stopped"
  PROVE  IInv'
<1>1. TypeOK'
  BY DEF IInv, TypeOK
<1>2. StatusShape'
  BY DEF IInv, StatusShape, Exists, TypeOK
<1>3. TurnOrder'
  BY DEF IInv, TurnOrder
<1>4. TurnIsNeverLost'
  BY DEF IInv, TurnIsNeverLost
<1> QED
  BY <1>1, <1>2, <1>3, <1>4 DEF IInv

LEMMA ReadRowFacts ==
  ASSUME IInv, NEW p \in Roles
  PROVE  /\ ReadRow(p) \in Row
         /\ ReadRow(p).status = Seen.status /\ ReadRow(p).current = debate.current
         /\ ReadRow(p).sequence = debate.sequence
         /\ ReadRow(p).completedTurns = debate.completedTurns
         /\ ReadRow(p).maxTurns = debate.maxTurns
         /\ ReadRow(p).finalizer = debate.finalizer
<1>1. now \in Nat /\ now + ResponseTimeout \in Nat
  BY TimeoutsAssumption DEF IInv, TypeOK
<1> QED
  BY <1>1, SeenFacts DEF ReadRow, Acknowledged, Row

LEMMA StoppedFacts ==
  ASSUME IInv, Exists
  PROVE  /\ Stopped(Seen) \in Row /\ Stopped(Seen).status = "stopped"
         /\ Stopped(Seen).sequence = debate.sequence
         /\ Stopped(Seen).completedTurns = debate.completedTurns
         /\ Stopped(Seen).maxTurns = debate.maxTurns
         /\ Stopped(Seen).finalizer = debate.finalizer
  BY SeenFacts DEF Stopped, Row, Statuses, PauseReasons, NoOne, Never

\* A send stores the message the transcript calls for and hands over to the
\* participant due next, or completes the debate.
LEMMA SendFacts ==
  ASSUME IInv, NEW p \in Roles, NEW c \in Connections, NEW id \in MessageIds,
         NEW content \in Payloads, NEW expected,
         Send(p, c, id, content, expected)
  PROVE  LET n == Len(messages)
             m == messages'[n + 1]
         IN
         /\ debate.status = "active" /\ Seen = debate
         /\ n \in Nat /\ n < debate.maxTurns
         /\ debate.maxTurns \in TurnLimits /\ debate.maxTurns \in Nat
         /\ p = AuthorDue(n + 1, debate.maxTurns, debate.finalizer)
         /\ messages' = Append(messages, m) /\ m \in MessageRow
         /\ m.author = p /\ (m.isFinal <=> n + 1 = debate.maxTurns)
         /\ debate' \in Row /\ answers' = Append(answers, debate')
         /\ debate' = [debate EXCEPT
              !.status = IF m.isFinal THEN "completed" ELSE "active",
              !.sequence = n + 1, !.completedTurns = n + 1,
              !.current = m.nextCurrent, !.pickup = m.nextPickup,
              !.acked = FALSE, !.response = Never, !.pauseReason = "none"]
         /\ ~m.isFinal => m.nextCurrent = AuthorDue(n + 2, debate.maxTurns, debate.finalizer)
<1> DEFINE n == Len(messages)
           final == n + 1 = debate.maxTurns
           next == IF final THEN NoOne ELSE NextParticipant(debate, p, n + 1)
           pickup == IF final THEN Never ELSE now + PickupTimeout
           m == [author |-> p, id |-> id, content |-> content, isFinal |-> final,
                 nextCurrent |-> next, nextPickup |-> pickup]
<1>1. Seen.status = "active" /\ Seen.current = p
  BY DEF Send, MayWrite
<1>2. debate.status = "active" /\ Seen = debate
  BY <1>1, SeenFacts
<1>3. n \in Nat /\ n < debate.maxTurns /\ debate.maxTurns \in TurnLimits
      /\ debate.sequence = n /\ debate.completedTurns = n
      /\ debate.current = AuthorDue(n + 1, debate.maxTurns, debate.finalizer)
      /\ debate \in Row /\ now \in Nat /\ messages \in Seq(MessageRow)
  BY <1>2 DEF IInv, StatusShape, TurnIsNeverLost, TypeOK, Exists
<1>4. debate.maxTurns \in Nat
  BY <1>3, TurnLimitsAssumption
<1>5. /\ messages' = Append(messages, m)
      /\ debate' = [debate EXCEPT
              !.status = IF final THEN "completed" ELSE "active",
              !.sequence = n + 1, !.completedTurns = n + 1,
              !.current = next, !.pickup = pickup,
              !.acked = FALSE, !.response = Never, !.pauseReason = "none"]
      /\ answers' = Append(answers, debate')
  BY <1>3 DEF Send
<1>6. ~final => next = AuthorDue(n + 2, debate.maxTurns, debate.finalizer)
  <2> SUFFICES ASSUME ~final PROVE next = AuthorDue(n + 2, debate.maxTurns, debate.finalizer)
    OBVIOUS
  <2>1. n + 1 < debate.maxTurns
    BY <1>3, <1>4
  <2>2. NextParticipant(debate, AuthorDue(n + 1, debate.maxTurns, debate.finalizer), n + 1)
          = AuthorDue(n + 2, debate.maxTurns, debate.finalizer)
    BY <1>3, <2>1, HandsOverToDue
  <2> QED
    BY <1>1, <1>2, <1>3, <2>2
<1>7. next \in Roles \cup {NoOne} /\ pickup \in Nat
  <2>1. debate.finalizer \in Roles
    BY <1>3 DEF Row
  <2>2. ~final => next \in Roles
    BY <1>3, <1>4, <1>6, <2>1, DueIsARole, n + 2 \in Nat
  <2> QED
    BY <1>3, <2>2, TimeoutsAssumption DEF Never
<1>8. m \in MessageRow
  BY <1>7 DEF MessageRow
<1>9. debate' \in Row
  <2> DEFINE status == IF final THEN "completed" ELSE "active"
  <2>1. status \in Statuses /\ n + 1 \in Nat /\ Never \in Nat /\ "none" \in PauseReasons
    BY <1>3 DEF Statuses, PauseReasons, Never
  <2>2. debate' = [debate EXCEPT !.status = status, !.sequence = n + 1,
                     !.completedTurns = n + 1, !.current = next, !.pickup = pickup,
                     !.acked = FALSE, !.response = Never, !.pauseReason = "none"]
    BY <1>5
  <2> HIDE DEF status, next, pickup, n
  <2> QED
    BY <1>3, <1>7, <2>1, <2>2 DEF Row
<1>10. messages'[n + 1] = m
  BY <1>3, <1>5, <1>8
<1>11. /\ m.author = p /\ (m.isFinal <=> final)
       /\ m.nextCurrent = next /\ m.nextPickup = pickup
  OBVIOUS
<1>12. debate' = [debate EXCEPT
              !.status = IF m.isFinal THEN "completed" ELSE "active",
              !.sequence = n + 1, !.completedTurns = n + 1,
              !.current = m.nextCurrent, !.pickup = m.nextPickup,
              !.acked = FALSE, !.response = Never, !.pauseReason = "none"]
  BY <1>5
<1>13. ~m.isFinal => m.nextCurrent = AuthorDue(n + 2, debate.maxTurns, debate.finalizer)
  BY <1>6, <1>11
<1>14. p = AuthorDue(n + 1, debate.maxTurns, debate.finalizer)
  BY <1>1, <1>2, <1>3
<1>15. messages' = Append(messages, m) /\ answers' = Append(answers, debate')
  BY <1>5
<1>16. m.isFinal <=> n + 1 = debate.maxTurns
  BY <1>11
<1> HIDE DEF m
<1> QED
  BY <1>2, <1>3, <1>4, <1>8, <1>9, <1>10, <1>11, <1>12, <1>13, <1>14, <1>15, <1>16

LEMMA SendKeepsIInv ==
  ASSUME IInv, NEW p \in Roles, NEW c \in Connections, NEW id \in MessageIds,
         NEW content \in Payloads, NEW expected,
         Send(p, c, id, content, expected)
  PROVE  IInv'
<1> DEFINE n == Len(messages)
           m == messages'[n + 1]
<1>1. /\ debate.status = "active"
      /\ n \in Nat /\ n < debate.maxTurns
      /\ debate.maxTurns \in TurnLimits /\ debate.maxTurns \in Nat
      /\ p = AuthorDue(n + 1, debate.maxTurns, debate.finalizer)
      /\ messages' = Append(messages, m) /\ m \in MessageRow
      /\ m.author = p /\ (m.isFinal <=> n + 1 = debate.maxTurns)
      /\ debate' \in Row /\ answers' = Append(answers, debate')
      /\ debate' = [debate EXCEPT
           !.status = IF m.isFinal THEN "completed" ELSE "active",
           !.sequence = n + 1, !.completedTurns = n + 1,
           !.current = m.nextCurrent, !.pickup = m.nextPickup,
           !.acked = FALSE, !.response = Never, !.pauseReason = "none"]
      /\ ~m.isFinal => m.nextCurrent = AuthorDue(n + 2, debate.maxTurns, debate.finalizer)
  BY SendFacts
<1>2. debate \in Row /\ messages \in Seq(MessageRow) /\ answers \in Seq(Row)
  BY DEF IInv, TypeOK
<1>3. /\ debate'.status = IF m.isFinal THEN "completed" ELSE "active"
      /\ debate'.sequence = n + 1 /\ debate'.completedTurns = n + 1
      /\ debate'.current = m.nextCurrent
      /\ debate'.maxTurns = debate.maxTurns /\ debate'.finalizer = debate.finalizer
  BY <1>1, <1>2 DEF Row
<1>4. /\ messages' \in Seq(MessageRow) /\ Len(messages') = n + 1
      /\ \A i \in 1..n : messages'[i] = messages[i]
  <2>1. messages' = Append(messages, m) /\ m \in MessageRow
    BY <1>1
  <2> HIDE DEF m
  <2> QED
    BY <1>1, <1>2, <2>1
<1>5. TypeOK'
  <2>1. answers' \in Seq(Row)
    BY <1>1, <1>2
  <2>2. UNCHANGED <<now, member>>
    BY DEF Send
  <2> QED
    BY <1>1, <1>4, <2>1, <2>2 DEF IInv, TypeOK
<1>6. StatusShape'
  BY <1>1, <1>3, <1>4 DEF StatusShape, Exists
<1>7. TurnOrder'
  <2> SUFFICES ASSUME NEW i \in 1..(n + 1)
               PROVE  /\ messages'[i].author
                           = AuthorDue(i, debate.maxTurns, debate.finalizer)
                      /\ messages'[i].isFinal <=> i = debate.maxTurns
    BY <1>3, <1>4 DEF TurnOrder
  <2>1. CASE i = n + 1
    BY <1>1, <2>1
  <2>2. CASE i \in 1..n
    BY <1>4, <2>2 DEF IInv, TurnOrder
  <2> QED
    BY <1>1, <2>1, <2>2
<1>8. TurnIsNeverLost'
  <2>1. n + 1 + 1 = n + 2
    BY <1>1
  <2> QED
    BY <1>1, <1>3, <1>4, <2>1 DEF TurnIsNeverLost
<1> QED
  BY <1>5, <1>6, <1>7, <1>8 DEF IInv

LEMMA NextIInv == IInv /\ [Next]_storeVars => IInv'
<1> SUFFICES ASSUME IInv, [Next]_storeVars PROVE IInv'
  OBVIOUS
<1>create. ASSUME NEW c \in Connections, NEW n \in TurnLimits, NEW f \in Roles,
                  Create(c, n, f)
           PROVE  IInv'
  <2>1. debate' \in Row /\ debate'.status = "waiting" /\ debate'.maxTurns = n
        /\ debate'.sequence = 0 /\ debate'.completedTurns = 0
    BY <1>create DEF Create, NoDebate, Row, Statuses, PauseReasons, NoOne, Never
  <2>2. messages = <<>> /\ messages' = <<>>
    BY <1>create DEF Create, IInv, StatusShape
  <2>3. TypeOK'
    BY <1>create, <2>1 DEF Create, IInv, TypeOK, Roles
  <2>4. StatusShape' /\ TurnOrder' /\ TurnIsNeverLost'
    BY <2>1, <2>2 DEF StatusShape, TurnOrder, TurnIsNeverLost, Exists
  <2> QED
    BY <2>3, <2>4 DEF IInv
<1>join. ASSUME NEW c \in Connections, Join(c)
         PROVE  IInv'
  <2>1. now + PickupTimeout \in Nat
    BY TimeoutsAssumption DEF IInv, TypeOK
  <2>2. debate' \in Row /\ debate'.status = "active" /\ debate'.current = "creator"
        /\ debate'.sequence = debate.sequence
        /\ debate'.completedTurns = debate.completedTurns
        /\ debate'.maxTurns = debate.maxTurns /\ debate'.finalizer = debate.finalizer
    BY <1>join, <2>1 DEF Join, IInv, TypeOK, Row, Statuses, PauseReasons, Roles, Never
  <2>3. messages = <<>> /\ messages' = <<>> /\ debate.maxTurns \in TurnLimits
        /\ debate.sequence = 0 /\ debate.completedTurns = 0
    BY <1>join DEF Join, IInv, StatusShape, Exists
  <2>4. debate.maxTurns \in Nat /\ debate.maxTurns >= 3
    BY <2>3, TurnLimitsAssumption
  <2>5. TypeOK'
    BY <1>join, <2>2 DEF Join, IInv, TypeOK, Roles
  <2>6. StatusShape' /\ TurnOrder'
    BY <2>2, <2>3, <2>4 DEF StatusShape, TurnOrder, Exists
  <2>7. TurnIsNeverLost'
    BY <2>2, <2>3, <2>4 DEF TurnIsNeverLost, AuthorDue
  <2> QED
    BY <2>5, <2>6, <2>7 DEF IInv
<1>read. ASSUME NEW p \in Roles, NEW c \in Connections, Read(p, c)
         PROVE  IInv'
  <2>1. Exists /\ debate' = ReadRow(p) /\ UNCHANGED <<now, member, messages, answers>>
    BY <1>read DEF Read, VerifyMembership
  <2> QED
    BY <2>1, ReadRowFacts, SeenFacts, SameTurnKeepsIInv
<1>send. ASSUME NEW p \in Roles, NEW c \in Connections, NEW id \in MessageIds,
                NEW content \in Payloads, NEW expected \in 0..Len(messages),
                Send(p, c, id, content, expected)
         PROVE  IInv'
  BY <1>send, SendKeepsIInv
<1>replay. ASSUME NEW p \in Roles, NEW c \in Connections, NEW id \in MessageIds,
                  NEW content \in Payloads, NEW expected \in 0..Len(messages),
                  SendReplay(p, c, id, content, expected)
           PROVE  IInv'
  <2>1. Exists /\ debate' = Seen /\ UNCHANGED <<now, member, messages, answers>>
    BY <1>replay DEF SendReplay, VerifyMembership
  <2> QED
    BY <2>1, SeenFacts, SameTurnKeepsIInv
<1>stop. ASSUME NEW p \in Roles, NEW c \in Connections, StopMember(p, c)
         PROVE  IInv'
  <2>1. Exists /\ debate' = Stopped(Seen) /\ UNCHANGED <<now, member, messages, answers>>
    BY <1>stop DEF StopMember, VerifyMembership
  <2> QED
    BY <2>1, StoppedFacts, SameTurnKeepsIInv
<1>ownerRead. CASE OwnerRead
  <2>1. Exists /\ debate' = Seen /\ UNCHANGED <<now, member, messages, answers>>
    BY <1>ownerRead DEF OwnerRead
  <2> QED
    BY <2>1, SeenFacts, SameTurnKeepsIInv
<1>ownerStop. CASE OwnerStop
  <2>1. Exists /\ debate' = Stopped(Seen) /\ UNCHANGED <<now, member, messages, answers>>
    BY <1>ownerStop DEF OwnerStop
  <2> QED
    BY <2>1, StoppedFacts, SameTurnKeepsIInv
<1>ownerDelete. CASE OwnerDelete
  <2>1. debate' = [NoDebate EXCEPT !.status = "deleted"] /\ messages' = <<>>
        /\ answers' = <<>> /\ member' = [q \in Roles |-> NoConnection] /\ now' = now
    BY <1>ownerDelete DEF OwnerDelete
  <2>2. debate' \in Row /\ debate'.status = "deleted"
    BY <2>1 DEF NoDebate, Row, Statuses, PauseReasons, Roles, Never, NoOne
  <2>3. TypeOK'
    BY <2>1, <2>2 DEF IInv, TypeOK
  <2>4. StatusShape' /\ TurnOrder' /\ TurnIsNeverLost'
    BY <2>1, <2>2 DEF StatusShape, TurnOrder, TurnIsNeverLost, Exists
  <2> QED
    BY <2>3, <2>4 DEF IInv
<1>ownerResume. CASE OwnerResume
  <2>1. now + PickupTimeout \in Nat
    BY TimeoutsAssumption DEF IInv, TypeOK
  <2>2. Exists /\ UNCHANGED <<now, member, messages, answers>>
    BY <1>ownerResume DEF OwnerResume
  <2>3. Seen.status = "paused_timeout" /\ Seen \in Row
        /\ debate' = [Seen EXCEPT !.status = "active", !.pickup = now + PickupTimeout,
                        !.acked = FALSE, !.response = Never, !.pauseReason = "none"]
    BY <1>ownerResume, SeenFacts DEF OwnerResume
  <2>4. debate' \in Row /\ debate'.status = "active" /\ debate'.current = Seen.current
        /\ debate'.sequence = Seen.sequence
        /\ debate'.completedTurns = Seen.completedTurns
        /\ debate'.maxTurns = Seen.maxTurns /\ debate'.finalizer = Seen.finalizer
    BY <2>1, <2>3 DEF Row, Statuses, PauseReasons, Never
  <2>5. debate.status \in {"active", "paused_timeout"}
    BY <2>3, SeenFacts
  <2> QED
    BY <2>2, <2>4, <2>5, SeenFacts, SameTurnKeepsIInv
<1>tick. CASE Tick
  <2>1. now' \in Nat \ {0}
    BY <1>tick DEF Tick, IInv, TypeOK
  <2> QED
    BY <1>tick, <2>1 DEF Tick, IInv, TypeOK, StatusShape, TurnOrder, TurnIsNeverLost, Exists
<1>stutter. CASE UNCHANGED storeVars
  BY <1>stutter DEF storeVars, IInv, TypeOK, StatusShape, TurnOrder, TurnIsNeverLost, Exists
<1> QED
  BY <1>create, <1>join, <1>read, <1>send, <1>replay, <1>stop, <1>ownerRead, <1>ownerStop,
     <1>ownerDelete, <1>ownerResume, <1>tick, <1>stutter DEF Next

-----------------------------------------------------------------------------

THEOREM InductiveInvariant == Spec => []IInv
<1> QED
  BY InitIInv, NextIInv, PTL DEF Spec

\* The row and the tables stay well formed.
THEOREM TypeCorrect == Spec => []TypeOK
<1>1. IInv => TypeOK
  BY DEF IInv
<1> QED
  BY <1>1, InductiveInvariant, PTL

\* No pause, resume, expiry, retry or replay loses a turn or passes it on.
THEOREM TurnKept == Spec => []TurnIsNeverLost
<1>1. IInv => TurnIsNeverLost
  BY DEF IInv
<1> QED
  BY <1>1, InductiveInvariant, PTL

-----------------------------------------------------------------------------
(* Idempotent replay.                                                      *)

\* The row rebuilt from what a message stores: of the row it starts from only
\* the limit and the finalizer get through.
Overwritten(d, status, i, current, pickup) ==
  [d EXCEPT !.status = status, !.sequence = i, !.completedTurns = i,
            !.current = current, !.pickup = pickup,
            !.acked = FALSE, !.response = Never, !.pauseReason = "none"]

Rebuilt(d, m, i) ==
  Overwritten(d, IF m.isFinal THEN "completed" ELSE "active", i, m.nextCurrent, m.nextPickup)

\* Two rows that agree on every column are one row.
LEMMA RowExtensionality ==
  ASSUME NEW d \in Row, NEW e \in Row,
         d.status = e.status, d.sequence = e.sequence,
         d.completedTurns = e.completedTurns, d.maxTurns = e.maxTurns,
         d.finalizer = e.finalizer, d.current = e.current, d.acked = e.acked,
         d.pickup = e.pickup, d.response = e.response, d.pauseReason = e.pauseReason
  PROVE  d = e
  BY DEF Row

LEMMA OverwrittenIgnoresState ==
  ASSUME NEW d \in Row, NEW e \in Row, NEW status \in Statuses, NEW i \in Nat,
         NEW current \in Roles \cup {NoOne}, NEW pickup \in Nat,
         d.maxTurns = e.maxTurns, d.finalizer = e.finalizer
  PROVE  Overwritten(d, status, i, current, pickup) = Overwritten(e, status, i, current, pickup)
<1> SUFFICES ASSUME NEW x, x = Overwritten(d, status, i, current, pickup),
                    NEW y, y = Overwritten(e, status, i, current, pickup)
             PROVE  x = y
  OBVIOUS
<1>1. Never \in Nat /\ "none" \in PauseReasons
  BY DEF PauseReasons, Never
<1>2. x \in Row /\ y \in Row
  BY <1>1 DEF Row, Overwritten
<1>3. x.status = y.status /\ x.sequence = y.sequence /\ x.completedTurns = y.completedTurns
  BY DEF Row, Overwritten
<1>4. x.maxTurns = y.maxTurns /\ x.finalizer = y.finalizer
  BY DEF Row, Overwritten
<1>5. x.current = y.current /\ x.acked = y.acked /\ x.pickup = y.pickup
  BY DEF Row, Overwritten
<1>6. x.response = y.response /\ x.pauseReason = y.pauseReason
  BY <1>1 DEF Row, Overwritten
<1> QED
  BY <1>2, <1>3, <1>4, <1>5, <1>6, RowExtensionality

LEMMA RebuiltIgnoresState ==
  ASSUME NEW d \in Row, NEW e \in Row, NEW m \in MessageRow, NEW i \in Nat,
         d.maxTurns = e.maxTurns, d.finalizer = e.finalizer
  PROVE  Rebuilt(d, m, i) = Rebuilt(e, m, i)
<1> DEFINE status == IF m.isFinal THEN "completed" ELSE "active"
<1>1. status \in Statuses /\ m.nextCurrent \in Roles \cup {NoOne} /\ m.nextPickup \in Nat
  BY DEF Statuses, MessageRow
<1> HIDE DEF status
<1>2. Overwritten(d, status, i, m.nextCurrent, m.nextPickup)
        = Overwritten(e, status, i, m.nextCurrent, m.nextPickup)
  BY <1>1, OverwrittenIgnoresState
<1> QED
  BY <1>2 DEF Rebuilt, status

LEMMA NextReplay == IInv /\ ReplayRepeatsAnswer /\ [Next]_storeVars => ReplayRepeatsAnswer'
<1> SUFFICES ASSUME IInv, ReplayRepeatsAnswer, [Next]_storeVars PROVE ReplayRepeatsAnswer'
  OBVIOUS
<1>0. debate \in Row /\ debate' \in Row /\ messages \in Seq(MessageRow) /\ answers \in Seq(Row)
  BY NextIInv DEF IInv, TypeOK
<1>kept. ASSUME messages' = messages, answers' = answers,
                debate'.maxTurns = debate.maxTurns, debate'.finalizer = debate.finalizer
         PROVE  ReplayRepeatsAnswer'
  <2>1. \A i \in 1..Len(messages) : ReplayAnswer(i)' = ReplayAnswer(i)
    <3> SUFFICES ASSUME NEW i \in 1..Len(messages)
                 PROVE  ReplayAnswer(i)' = ReplayAnswer(i)
      OBVIOUS
    <3>1. Rebuilt(debate', messages[i], i) = Rebuilt(debate, messages[i], i)
      BY <1>0, <1>kept, RebuiltIgnoresState
    <3> QED
      BY <1>kept, <3>1 DEF ReplayAnswer, Rebuilt, Overwritten
  <2> QED
    BY <1>kept, <2>1 DEF ReplayRepeatsAnswer
<1>empty. ASSUME messages' = <<>>, answers' = <<>>
          PROVE  ReplayRepeatsAnswer'
  BY <1>empty DEF ReplayRepeatsAnswer
<1>create. ASSUME NEW c \in Connections, NEW n \in TurnLimits, NEW f \in Roles,
                  Create(c, n, f)
           PROVE  ReplayRepeatsAnswer'
  <2>1. messages' = <<>> /\ answers' = answers
    BY <1>create DEF Create, IInv, StatusShape
  <2>2. Len(answers) = Len(messages) /\ messages = <<>>
    BY <1>create, <2>1 DEF Create, ReplayRepeatsAnswer
  <2> QED
    BY <2>1, <2>2 DEF ReplayRepeatsAnswer
<1>join. ASSUME NEW c \in Connections, Join(c)
         PROVE  ReplayRepeatsAnswer'
  BY <1>0, <1>kept, <1>join DEF Join, Row
<1>read. ASSUME NEW p \in Roles, NEW c \in Connections, Read(p, c)
         PROVE  ReplayRepeatsAnswer'
  BY <1>kept, <1>read, ReadRowFacts DEF Read
<1>send. ASSUME NEW p \in Roles, NEW c \in Connections, NEW id \in MessageIds,
                NEW content \in Payloads, NEW expected \in 0..Len(messages),
                Send(p, c, id, content, expected)
         PROVE  ReplayRepeatsAnswer'
  <2> DEFINE n == Len(messages)
             m == messages'[n + 1]
  <2>1. /\ n \in Nat /\ messages' = Append(messages, m) /\ m \in MessageRow
        /\ answers' = Append(answers, debate')
        /\ debate' = Rebuilt(debate, m, n + 1)
    BY <1>send, SendFacts DEF Rebuilt, Overwritten
  <2>2. debate'.maxTurns = debate.maxTurns /\ debate'.finalizer = debate.finalizer
    BY <1>0, <2>1 DEF Rebuilt, Overwritten, Row
  <2>3. Len(answers) = n
    BY DEF ReplayRepeatsAnswer
  <2>4. /\ Len(messages') = n + 1 /\ Len(answers') = n + 1
        /\ \A i \in 1..n : messages'[i] = messages[i] /\ answers'[i] = answers[i]
        /\ answers'[n + 1] = debate'
    <3> HIDE DEF m
    <3> QED
      BY <1>0, <2>1, <2>3
  <2>5. ASSUME NEW i \in 1..n
        PROVE  ReplayAnswer(i)' = answers'[i]
    <3>1. Rebuilt(debate', messages[i], i) = Rebuilt(debate, messages[i], i)
      BY <1>0, <2>2, RebuiltIgnoresState
    <3>2. ReplayAnswer(i)' = Rebuilt(debate', messages[i], i)
      BY <2>4 DEF ReplayAnswer, Rebuilt, Overwritten
    <3>3. ReplayAnswer(i) = Rebuilt(debate, messages[i], i)
      BY DEF ReplayAnswer, Rebuilt, Overwritten
    <3> QED
      BY <2>4, <3>1, <3>2, <3>3 DEF ReplayRepeatsAnswer
  <2>6. ASSUME NEW k \in Nat, k = n + 1
        PROVE  ReplayAnswer(k)' = answers'[k]
    <3>1. Rebuilt(debate', m, k) = Rebuilt(debate, m, k)
      BY <1>0, <2>1, <2>2, RebuiltIgnoresState
    <3>2. ReplayAnswer(k)' = Rebuilt(debate', m, k)
      BY <2>6 DEF ReplayAnswer, Rebuilt, Overwritten
    <3> HIDE DEF m
    <3> QED
      BY <2>1, <2>4, <2>6, <3>1, <3>2
  <2>7. ASSUME NEW k \in 1..(n + 1)
        PROVE  ReplayAnswer(k)' = answers'[k]
    <3>1. k \in 1..n \/ (k \in Nat /\ k = n + 1)
      BY <2>1
    <3> HIDE DEF m, n
    <3>2. CASE k \in 1..n
      BY <2>5, <3>2
    <3>3. CASE k \in Nat /\ k = n + 1
      BY <2>6, <3>3
    <3> QED
      BY <3>1, <3>2, <3>3
  <2>8. Len(messages') = n + 1 /\ Len(answers') = n + 1
    BY <2>4
  <2> HIDE DEF m
  <2> QED
    BY <2>7, <2>8 DEF ReplayRepeatsAnswer
<1>replay. ASSUME NEW p \in Roles, NEW c \in Connections, NEW id \in MessageIds,
                  NEW content \in Payloads, NEW expected \in 0..Len(messages),
                  SendReplay(p, c, id, content, expected)
           PROVE  ReplayRepeatsAnswer'
  BY <1>kept, <1>replay, SeenFacts DEF SendReplay
<1>stop. ASSUME NEW p \in Roles, NEW c \in Connections, StopMember(p, c) \/ OwnerStop
         PROVE  ReplayRepeatsAnswer'
  <2>1. Exists /\ debate' = Stopped(Seen) /\ messages' = messages /\ answers' = answers
    BY <1>stop DEF StopMember, OwnerStop, VerifyMembership
  <2> QED
    BY <1>kept, <2>1, StoppedFacts
<1>ownerStop. CASE OwnerStop
  <2>1. Exists /\ debate' = Stopped(Seen) /\ messages' = messages /\ answers' = answers
    BY <1>ownerStop DEF OwnerStop
  <2> QED
    BY <1>kept, <2>1, StoppedFacts
<1>ownerRead. CASE OwnerRead
  BY <1>kept, <1>ownerRead, SeenFacts DEF OwnerRead
<1>ownerDelete. CASE OwnerDelete
  BY <1>empty, <1>ownerDelete DEF OwnerDelete
<1>ownerResume. CASE OwnerResume
  <2>1. messages' = messages /\ answers' = answers
        /\ debate' = [Seen EXCEPT !.status = "active", !.pickup = now + PickupTimeout,
                        !.acked = FALSE, !.response = Never, !.pauseReason = "none"]
    BY <1>ownerResume DEF OwnerResume
  <2>2. debate'.maxTurns = debate.maxTurns /\ debate'.finalizer = debate.finalizer
    BY <2>1, SeenFacts DEF Row
  <2> QED
    BY <1>kept, <2>1, <2>2
<1>tick. CASE Tick
  BY <1>kept, <1>tick DEF Tick
<1>stutter. CASE UNCHANGED storeVars
  BY <1>kept, <1>stutter DEF storeVars
<1> QED
  BY <1>create, <1>join, <1>read, <1>send, <1>replay, <1>stop, <1>ownerStop, <1>ownerRead,
     <1>ownerDelete, <1>ownerResume, <1>tick, <1>stutter DEF Next

\* A retried send is answered with what the original send returned, whatever
\* happened to the debate in between.
THEOREM ReplayStable == Spec => []ReplayRepeatsAnswer
<1>1. Init => ReplayRepeatsAnswer
  BY DEF Init, ReplayRepeatsAnswer
<1> QED
  BY <1>1, NextReplay, InductiveInvariant, PTL DEF Spec

-----------------------------------------------------------------------------
(* Action properties.                                                      *)

\* A turn that has been read in time is not touched by a method's expireIfDue.
LEMMA ReadInTimeIsKept ==
  ASSUME debate.status = "active", debate.acked, now < debate.response, IInv
  PROVE  Seen = debate
<1>1. now \in Nat /\ debate.response \in Nat
  BY DEF IInv, TypeOK, Row
<1> QED
  BY <1>1 DEF Seen, ExpireIfDue, PickupDue, ResponseDue

LEMMA StepIsTimely ==
  ASSUME IInv, [Next]_storeVars, Len(messages') > Len(messages)
  PROVE  /\ debate.status = "active" /\ debate.acked
         /\ now < debate.response
         /\ messages'[Len(messages')].author = debate.current
<1>0. messages \in Seq(MessageRow) /\ Len(messages) \in Nat
  BY DEF IInv, TypeOK
<1>1. PICK p \in Roles, c \in Connections, id \in MessageIds, content \in Payloads,
           expected \in 0..Len(messages) : Send(p, c, id, content, expected)
  <2>1. ~ (messages' = messages \/ messages' = <<>>)
    BY <1>0
  <2> QED
    BY <2>1 DEF Next, storeVars, Create, Join, Read, SendReplay, StopMember, OwnerRead,
                OwnerStop, OwnerDelete, OwnerResume, Tick
<1>2. Seen = debate /\ debate.status = "active" /\ debate.acked /\ debate.response # Never
      /\ debate.current = p
  BY <1>1, SeenFacts DEF Send, MayWrite
<1>3. now < debate.response
  <2>1. now \in Nat /\ debate.response \in Nat
    BY DEF IInv, TypeOK, Row
  <2>2. ~ ResponseDue(debate, now)
    <3> SUFFICES ASSUME ResponseDue(debate, now) PROVE FALSE
      OBVIOUS
    <3>1. ~ PickupDue(debate, now)
      BY <1>2 DEF PickupDue
    <3>2. Seen = [debate EXCEPT !.status = "paused_timeout",
                                !.pauseReason = "response_timeout"]
      BY <3>1 DEF Seen, ExpireIfDue
    <3>3. Seen.status = "paused_timeout"
      BY <3>2 DEF IInv, TypeOK, Row
    <3> QED
      BY <1>2, <3>3
  <2> QED
    BY <1>2, <2>1, <2>2 DEF ResponseDue
<1>4. messages'[Len(messages')].author = debate.current
  <2>1. /\ messages' = Append(messages, messages'[Len(messages) + 1])
        /\ messages'[Len(messages) + 1].author = p
    BY <1>1, SendFacts
  <2>2. Len(messages') = Len(messages) + 1
    BY <1>0, <2>1
  <2> QED
    BY <1>2, <2>1, <2>2
<1> QED
  BY <1>2, <1>3, <1>4

\* A message is stored only from the holder of a read turn, in time.
THEOREM TimelySends == Spec => SendsAreTimely
<1>1. IInv /\ [Next]_storeVars =>
        (Len(messages') > Len(messages) =>
           /\ debate.status = "active" /\ debate.acked
           /\ now < debate.response
           /\ messages'[Len(messages')].author = debate.current)
  BY StepIsTimely
<1> QED
  BY <1>1, InductiveInvariant, PTL DEF Spec, SendsAreTimely

LEMMA StepKeepsResponseClock ==
  ASSUME IInv, [Next]_storeVars,
         debate.status = "active", debate.acked, now < debate.response,
         debate'.status = "active", Len(messages') = Len(messages)
  PROVE  debate'.acked /\ debate'.response = debate.response
<1>1. Seen = debate
  BY ReadInTimeIsKept
<1>2. messages \in Seq(MessageRow) /\ debate \in Row
  BY DEF IInv, TypeOK
<1>3. ASSUME NEW p \in Roles, NEW c \in Connections, NEW id \in MessageIds,
             NEW content \in Payloads, NEW expected \in 0..Len(messages),
             Send(p, c, id, content, expected)
      PROVE  FALSE
  <2>1. messages' = Append(messages, messages'[Len(messages) + 1])
    BY <1>3, SendFacts
  <2> QED
    BY <1>2, <2>1
<1>4. ASSUME NEW p \in Roles, NEW c \in Connections, StopMember(p, c) \/ OwnerStop
      PROVE  FALSE
  BY <1>1, <1>2, <1>4 DEF StopMember, OwnerStop, Stopped, Row
<1>5. ~ OwnerDelete
  BY <1>2 DEF OwnerDelete, NoDebate
<1>6. ~ OwnerResume
  BY <1>1 DEF OwnerResume
<1>7. ASSUME NEW p \in Roles, NEW c \in Connections, Read(p, c)
      PROVE  debate' = debate
  BY <1>1, <1>7 DEF Read, ReadRow, Acknowledged
<1>8. ~ \E c \in Connections, n \in TurnLimits, f \in Roles : Create(c, n, f)
  BY DEF Create
<1>9. ~ \E c \in Connections : Join(c)
  BY DEF Join
<1>10. ~ OwnerStop
  BY <1>1, <1>2 DEF OwnerStop, Stopped, Row
<1> QED
  BY <1>1, <1>3, <1>4, <1>5, <1>6, <1>7, <1>8, <1>9, <1>10
     DEF Next, storeVars, SendReplay, OwnerRead, Tick

\* The response clock of a live turn is neither extended nor cut short.
THEOREM FixedResponseClock == Spec => ResponseClockIsFixed
<1>1. IInv /\ [Next]_storeVars =>
        ((/\ debate.status = "active" /\ debate.acked /\ now < debate.response
          /\ debate'.status = "active" /\ Len(messages') = Len(messages)) =>
           debate'.acked /\ debate'.response = debate.response)
  BY StepKeepsResponseClock
<1> QED
  BY <1>1, InductiveInvariant, PTL DEF Spec, ResponseClockIsFixed

-----------------------------------------------------------------------------
(* The store implements the protocol.                                      *)

\* An expiry once recorded is not recorded again at the same instant.
LEMMA ExpiryIdempotent ==
  ASSUME NEW d \in Row, NEW t \in Nat
  PROVE  ExpireIfDue(ExpireIfDue(d, t), t) = ExpireIfDue(d, t)
  BY DEF ExpireIfDue, PickupDue, ResponseDue, Row

LEMMA SeenOfSeen ==
  ASSUME IInv, debate' = Seen, now' = now
  PROVE  Seen' = Seen
  BY ExpiryIdempotent DEF Seen, IInv, TypeOK

\* A row that is not active, or whose running clock is in the future, is seen
\* as it is stored.
LEMMA FreshIsSeen ==
  ASSUME NEW d \in Row, NEW t \in Nat,
         \/ d.status # "active"
         \/ ~d.acked /\ d.pickup > t
         \/ d.acked /\ d.response > t
  PROVE  ExpireIfDue(d, t) = d
  BY DEF ExpireIfDue, PickupDue, ResponseDue, Row

LEMMA AuthorsFacts ==
  ASSUME IInv
  PROVE  Len(Authors) = Len(messages)
<1>1. Len(messages) \in Nat
  BY DEF IInv, TypeOK
<1> QED
  BY <1>1 DEF Authors

LEMMA ProtocolInit == Init => Protocol!Init
<1> SUFFICES ASSUME Init PROVE Protocol!Init
  OBVIOUS
<1>1. Seen = NoDebate
  BY DEF Init, Seen, ExpireIfDue, PickupDue, ResponseDue, NoDebate
<1>2. Authors = <<>>
  BY DEF Init, Authors
<1> QED
  BY <1>1, <1>2 DEF Init, Protocol!Init, NoDebate

LEMMA ProtocolStep ==
  ASSUME IInv, [Next]_storeVars, IInv'
  PROVE  [Protocol!Next]_(Protocol!protocolVars)
<1> USE DEF Protocol!protocolVars
<1>0. /\ now \in Nat /\ now' \in Nat /\ debate \in Row /\ debate' \in Row
      /\ messages \in Seq(MessageRow)
  BY DEF IInv, TypeOK
<1>same. ASSUME debate' = Seen, now' = now, messages' = messages
         PROVE  UNCHANGED Protocol!protocolVars
  BY <1>same, SeenOfSeen, SeenFacts DEF Authors
<1>create. ASSUME NEW c \in Connections, NEW n \in TurnLimits, NEW f \in Roles,
                  Create(c, n, f)
           PROVE  Protocol!Next
  <2>1. debate'.status = "waiting" /\ debate'.maxTurns = n /\ debate'.finalizer = f
        /\ debate.status = "absent" /\ messages' = messages
    BY <1>create DEF Create, NoDebate
  <2>2. Seen = debate /\ Seen' = debate'
    BY <1>0, <2>1, FreshIsSeen, SeenFacts DEF Seen
  <2>3. Protocol!Open(n, f)
    BY <2>1, <2>2 DEF Protocol!Open, Authors
  <2> QED
    BY <2>3 DEF Protocol!Next, Protocol!Sides, Roles
<1>join. ASSUME NEW c \in Connections, Join(c)
         PROVE  Protocol!Next
  <2>1. debate'.status = "active" /\ ~debate'.acked /\ debate'.pickup = now + PickupTimeout
        /\ debate.status = "waiting" /\ messages' = messages /\ now' = now
        /\ debate'.maxTurns = debate.maxTurns /\ debate'.finalizer = debate.finalizer
    BY <1>0, <1>join DEF Join, Row
  <2>2. debate'.pickup > now'
    BY <1>0, <2>1, TimeoutsAssumption
  <2>3. Seen = debate /\ Seen' = debate'
    BY <1>0, <2>1, <2>2, FreshIsSeen, SeenFacts DEF Seen
  <2>4. Protocol!Meet
    BY <2>1, <2>3 DEF Protocol!Meet, Authors
  <2> QED
    BY <2>4 DEF Protocol!Next
<1>read. ASSUME NEW p \in Roles, NEW c \in Connections, Read(p, c)
         PROVE  UNCHANGED Protocol!protocolVars
  <2>1. debate' = ReadRow(p) /\ now' = now /\ messages' = messages
    BY <1>read DEF Read
  <2>2. CASE Seen.status = "active" /\ Seen.current = p /\ ~Seen.acked
    <3>1. debate' = [Seen EXCEPT !.acked = TRUE, !.response = now + ResponseTimeout]
      BY <2>1, <2>2 DEF ReadRow, Acknowledged
    <3>2. debate'.status = Seen.status /\ debate'.acked /\ debate'.response > now'
          /\ debate'.maxTurns = Seen.maxTurns /\ debate'.finalizer = Seen.finalizer
      BY <1>0, <2>1, <3>1, SeenFacts, TimeoutsAssumption DEF Row
    <3>3. Seen' = debate'
      BY <1>0, <3>2, FreshIsSeen DEF Seen
    <3> QED
      BY <2>1, <3>2, <3>3, SeenFacts DEF Authors
  <2>3. CASE ~(Seen.status = "active" /\ Seen.current = p /\ ~Seen.acked)
    BY <1>same, <2>1, <2>3 DEF ReadRow, Acknowledged
  <2> QED
    BY <2>2, <2>3
<1>send. ASSUME NEW p \in Roles, NEW c \in Connections, NEW id \in MessageIds,
                NEW content \in Payloads, NEW expected \in 0..Len(messages),
                Send(p, c, id, content, expected)
         PROVE  Protocol!Next
  <2> DEFINE n == Len(messages)
             m == messages'[n + 1]
  <2>1. /\ debate.status = "active" /\ Seen = debate
        /\ n \in Nat /\ n < debate.maxTurns /\ debate.maxTurns \in Nat
        /\ p = AuthorDue(n + 1, debate.maxTurns, debate.finalizer)
        /\ messages' = Append(messages, m) /\ m \in MessageRow
        /\ m.author = p /\ (m.isFinal <=> n + 1 = debate.maxTurns)
        /\ debate' = [debate EXCEPT
             !.status = IF m.isFinal THEN "completed" ELSE "active",
             !.sequence = n + 1, !.completedTurns = n + 1,
             !.current = m.nextCurrent, !.pickup = m.nextPickup,
             !.acked = FALSE, !.response = Never, !.pauseReason = "none"]
    BY <1>send, SendFacts
  <2>2. /\ debate'.status = IF m.isFinal THEN "completed" ELSE "active"
        /\ debate'.maxTurns = debate.maxTurns /\ debate'.finalizer = debate.finalizer
        /\ ~debate'.acked /\ debate'.pickup = m.nextPickup
    BY <1>0, <2>1 DEF Row
  <2>3. ~m.isFinal => debate'.pickup > now'
    <3>1. m.nextPickup = IF n + 1 = debate.maxTurns THEN Never ELSE now + PickupTimeout
      <4>1. debate.completedTurns = n
        BY <2>1 DEF IInv, StatusShape, Exists
      <4> QED
        BY <1>0, <1>send, <2>1, <4>1 DEF Send
    <3>2. now' = now
      BY <1>send DEF Send
    <3> QED
      BY <1>0, <2>1, <2>2, <3>1, <3>2, TimeoutsAssumption
  <2>4. Seen' = debate'
    BY <1>0, <2>2, <2>3, FreshIsSeen DEF Seen
  <2>5. Authors' = Append(Authors, p)
    <3>1. Len(messages') = n + 1 /\ \A i \in 1..n : messages'[i] = messages[i]
      BY <1>0, <2>1
    <3> HIDE DEF m
    <3> QED
      BY <1>0, <2>1, <3>1 DEF Authors
  <2>6. p = Protocol!Due(Len(Authors) + 1)
    BY <2>1, AuthorsFacts DEF AuthorDue, Protocol!Due
  <2>7. Seen'.status = IF Len(Authors) + 1 = debate.maxTurns THEN "completed" ELSE "active"
    BY <2>1, <2>2, <2>4, AuthorsFacts
  <2>8. Protocol!Speak
    BY <2>1, <2>2, <2>5, <2>6, <2>7 DEF Protocol!Speak
  <2> QED
    BY <2>8 DEF Protocol!Next
<1>stop. ASSUME Exists, Seen.status # "completed", debate' = Stopped(Seen),
                now' = now, messages' = messages
         PROVE  [Protocol!Next]_(Protocol!protocolVars)
  <2>1. CASE Seen.status = "stopped"
    BY <1>same, <1>stop, <2>1 DEF Stopped
  <2>2. CASE Seen.status # "stopped"
    <3>1. Seen' = debate'
      BY <1>0, <1>stop, StoppedFacts, FreshIsSeen DEF Seen
    <3>2. Seen.status \in {"waiting", "active", "paused_timeout"}
      BY <1>stop, <2>2, SeenFacts DEF Exists, Row, Statuses
    <3>3. Protocol!Close
      BY <1>stop, <3>1, <3>2, StoppedFacts DEF Protocol!Close, Authors
    <3> QED
      BY <3>3 DEF Protocol!Next
  <2> QED
    BY <2>1, <2>2
<1>delete. CASE OwnerDelete
  <2>1. debate' = [NoDebate EXCEPT !.status = "deleted"] /\ messages' = <<>>
        /\ Exists /\ Seen.status # "active"
    BY <1>delete DEF OwnerDelete
  <2>2. debate'.status = "deleted" /\ debate'.maxTurns = 0 /\ debate'.finalizer = "creator"
    BY <2>1 DEF NoDebate
  <2>3. Seen' = debate'
    BY <1>0, <2>2, FreshIsSeen DEF Seen
  <2>4. Seen.status \in {"waiting", "paused_timeout", "stopped", "completed"}
    BY <2>1, SeenFacts DEF Exists, Row, Statuses
  <2>5. Authors' = <<>>
    BY <2>1 DEF Authors
  <2>6. Protocol!Remove
    BY <2>2, <2>3, <2>4, <2>5 DEF Protocol!Remove
  <2> QED
    BY <2>6 DEF Protocol!Next
<1>resume. CASE OwnerResume
  <2>1. Seen.status = "paused_timeout" /\ messages' = messages /\ now' = now
        /\ debate' = [Seen EXCEPT !.status = "active", !.pickup = now + PickupTimeout,
                        !.acked = FALSE, !.response = Never, !.pauseReason = "none"]
    BY <1>resume DEF OwnerResume
  <2>2. debate'.status = "active" /\ ~debate'.acked /\ debate'.pickup = now + PickupTimeout
        /\ debate'.maxTurns = Seen.maxTurns /\ debate'.finalizer = Seen.finalizer
    BY <2>1, SeenFacts DEF Row
  <2>3. debate'.pickup > now'
    BY <1>0, <2>1, <2>2, TimeoutsAssumption
  <2>4. Seen' = debate'
    BY <1>0, <2>2, <2>3, FreshIsSeen DEF Seen
  <2>5. Protocol!Release
    BY <2>1, <2>2, <2>4, SeenFacts DEF Protocol!Release, Authors
  <2> QED
    BY <2>5 DEF Protocol!Next
<1>tick. CASE Tick
  <2>1. debate' = debate /\ messages' = messages /\ now' = now + 1
    BY <1>tick DEF Tick
  <2>2. Seen'.status = Seen.status
          \/ (Seen.status = "active" /\ Seen'.status = "paused_timeout")
    BY <1>0, <2>1 DEF Seen, ExpireIfDue, PickupDue, ResponseDue, Row
  <2>3. CASE Seen'.status = Seen.status
    BY <2>1, <2>3 DEF Authors
  <2>4. CASE Seen.status = "active" /\ Seen'.status = "paused_timeout"
    <3>1. Protocol!Hold
      BY <2>1, <2>4 DEF Protocol!Hold, Authors
    <3> QED
      BY <3>1 DEF Protocol!Next
  <2> QED
    BY <2>2, <2>3, <2>4
<1>stutter. CASE UNCHANGED storeVars
  BY <1>stutter DEF storeVars, Seen, Authors
<1>replay. ASSUME NEW p \in Roles, NEW c \in Connections, NEW id \in MessageIds,
                  NEW content \in Payloads, NEW expected \in 0..Len(messages),
                  SendReplay(p, c, id, content, expected)
           PROVE  UNCHANGED Protocol!protocolVars
  BY <1>replay, <1>same DEF SendReplay
<1>ownerRead. CASE OwnerRead
  BY <1>ownerRead, <1>same DEF OwnerRead
<1>stopMember. ASSUME NEW p \in Roles, NEW c \in Connections, StopMember(p, c)
               PROVE  [Protocol!Next]_(Protocol!protocolVars)
  BY <1>stopMember, <1>stop DEF StopMember, VerifyMembership
<1>ownerStop. CASE OwnerStop
  BY <1>ownerStop, <1>stop DEF OwnerStop
<1> QED
  BY <1>create, <1>join, <1>read, <1>send, <1>replay, <1>stopMember, <1>ownerRead,
     <1>ownerStop, <1>delete, <1>resume, <1>tick, <1>stutter DEF Next

\* Every run of the store is a run of the turn-taking protocol.
THEOREM StoreImplementsProtocol == Spec => ImplementsProtocol
<1>1. IInv /\ IInv' /\ [Next]_storeVars => [Protocol!Next]_(Protocol!protocolVars)
  BY ProtocolStep
<1> QED
  BY <1>1, ProtocolInit, InductiveInvariant, PTL
     DEF Spec, ImplementsProtocol, Protocol!Spec

-----------------------------------------------------------------------------
(* The service: its registry of waiters.                                   *)

WaitRow == [pc : {"idle", "asleep", "awake", "rejected"}, role : Roles,
            conn : Connections \cup {NoConnection}, after : Nat, deadline : Nat,
            wakeAt : Nat, onSignal : BOOLEAN, aborted : BOOLEAN,
            outcome : {"none", "actionable", "timed_out", "wait_cancelled",
                       "debate_store_closed", "membership_invalid"}]

\* The waits whose registration is on the signal in the map.
Holders(f) == {w \in Waiters : f[w].onSignal}

\* The registry counts its holders, a sleeper is one of them, and a slot
\* without a call is none.
SoundSlot(k) ==
  /\ k.pc = "asleep" => k.onSignal
  /\ k.pc = "idle" => ~k.onSignal
  /\ k.pc # "idle" => k.outcome = "none" /\ k.conn \in Connections

Sound(n, f) ==
  /\ f \in [Waiters -> WaitRow]
  /\ IsFiniteSet(Holders(f)) /\ n = Cardinality(Holders(f))
  /\ \A w \in Waiters : SoundSlot(f[w])

\* One slot before and after something that does not touch the call in it.
SameCall(k, j) ==
  /\ k.role = j.role /\ k.conn = j.conn /\ k.after = j.after
  /\ k.deadline = j.deadline /\ k.wakeAt = j.wakeAt /\ k.outcome = j.outcome

Stirred(k, j) ==
  /\ SameCall(k, j)
  /\ k.pc = j.pc \/ (j.pc = "asleep" /\ k.pc = "awake")

WokenSlot(k) ==
  [k EXCEPT !.onSignal = FALSE, !.pc = IF @ = "asleep" /\ k.onSignal THEN "awake" ELSE @]

LEMMA WokenSlotFacts ==
  ASSUME NEW k \in WaitRow, SoundSlot(k)
  PROVE  /\ WokenSlot(k) \in WaitRow /\ SoundSlot(WokenSlot(k))
         /\ Stirred(WokenSlot(k), k)
         /\ ~WokenSlot(k).onSignal /\ WokenSlot(k).pc # "asleep"
<1>1. WokenSlot(k) \in WaitRow
  BY DEF WokenSlot, WaitRow
<1>2. /\ WokenSlot(k).pc = IF k.pc = "asleep" /\ k.onSignal THEN "awake" ELSE k.pc
      /\ ~WokenSlot(k).onSignal
      /\ SameCall(WokenSlot(k), k)
  BY DEF WokenSlot, WaitRow, SameCall
<1>3. k.pc = "asleep" => k.onSignal
  BY DEF SoundSlot
<1> QED
  BY <1>1, <1>2, <1>3 DEF SoundSlot, Stirred, SameCall

LEMMA NotifiedFacts ==
  ASSUME NEW r, Sound(r.refs, r.waits)
  PROVE  LET s == Notified(r) IN
         /\ Sound(s.refs, s.waits)
         /\ \A v \in Waiters : /\ Stirred(s.waits[v], r.waits[v])
                               /\ s.waits[v].pc # "asleep" /\ ~s.waits[v].onSignal
<1> DEFINE s == Notified(r)
<1>1. /\ s.refs = 0
      /\ s.waits = [v \in Waiters |-> WokenSlot(r.waits[v])]
  BY DEF Notified, WokenSlot
<1>2. \A v \in Waiters : r.waits[v] \in WaitRow /\ SoundSlot(r.waits[v])
  BY DEF Sound
<1> HIDE DEF s
<1>3. ASSUME NEW v \in Waiters
      PROVE  /\ s.waits[v] \in WaitRow /\ SoundSlot(s.waits[v])
             /\ Stirred(s.waits[v], r.waits[v])
             /\ s.waits[v].pc # "asleep" /\ ~s.waits[v].onSignal
  BY <1>1, <1>2, WokenSlotFacts
<1>4. s.waits \in [Waiters -> WaitRow]
  BY <1>1, <1>3
<1>5. Holders(s.waits) = {}
  BY <1>3 DEF Holders
<1>6. IsFiniteSet(Holders(s.waits)) /\ s.refs = Cardinality(Holders(s.waits))
  BY <1>1, <1>5, FS_EmptySet
<1> QED
  BY <1>3, <1>4, <1>6 DEF Sound, s

DroppedSlot(k, held) == [k EXCEPT !.onSignal = @ /\ held]

\* A cancelled registration is off the signal, and nobody else's is: the map
\* entry goes only with its last holder.
LEMMA CancelFacts ==
  ASSUME NEW r, Sound(r.refs, r.waits), NEW w \in Waiters,
         r.waits[w].pc \in {"awake", "rejected"}
  PROVE  LET s == Cancel(r, w) IN
         /\ Sound(s.refs, s.waits)
         /\ \A v \in Waiters : SameCall(s.waits[v], r.waits[v])
                               /\ s.waits[v].pc = r.waits[v].pc
         /\ ~s.waits[w].onSignal
<1> DEFINE s == Cancel(r, w)
           h == Holders(r.waits)
<1>1. \A v \in Waiters : r.waits[v] \in WaitRow /\ SoundSlot(r.waits[v])
  BY DEF Sound
<1>2. CASE ~r.waits[w].onSignal
  BY <1>2 DEF Cancel, SameCall
<1>3. CASE r.waits[w].onSignal
  <2>1. /\ s.refs = r.refs - 1
        /\ s.waits = [v \in Waiters |-> DroppedSlot(r.waits[v], v # w /\ r.refs > 1)]
    BY <1>3 DEF Cancel, DroppedSlot
  <2> HIDE DEF s
  <2>2. w \in h /\ IsFiniteSet(h) /\ r.refs = Cardinality(h)
    BY <1>3 DEF Holders, Sound
  <2>3. /\ IsFiniteSet(h \ {w}) /\ Cardinality(h \ {w}) = r.refs - 1
        /\ r.refs \in Nat
    BY <2>2, FS_RemoveElement, FS_CardinalityType
  <2>4. ASSUME NEW v \in Waiters, v \in h, v # w
        PROVE  r.refs > 1
    <3>1. v \in h \ {w}
      BY <2>4
    <3>2. Cardinality(h \ {w}) # 0
      BY <2>3, <3>1, FS_EmptySet
    <3>3. Cardinality(h \ {w}) \in Nat
      BY <2>3, FS_CardinalityType
    <3> QED
      BY <2>3, <3>2, <3>3
  <2>5. ASSUME NEW v \in Waiters
        PROVE  /\ s.waits[v] \in WaitRow
               /\ SameCall(s.waits[v], r.waits[v]) /\ s.waits[v].pc = r.waits[v].pc
               /\ s.waits[v].onSignal <=> v \in h \ {w}
    <3>1. s.waits[v] = DroppedSlot(r.waits[v], v # w /\ r.refs > 1)
      BY <2>1
    <3>2. v \in h <=> r.waits[v].onSignal
      BY DEF Holders
    <3>3. s.waits[v] \in WaitRow /\ SameCall(s.waits[v], r.waits[v])
          /\ s.waits[v].pc = r.waits[v].pc
          /\ (s.waits[v].onSignal <=> r.waits[v].onSignal /\ v # w /\ r.refs > 1)
      BY <1>1, <3>1 DEF DroppedSlot, WaitRow, SameCall
    <3> QED
      BY <2>4, <3>2, <3>3
  <2>6. s.waits \in [Waiters -> WaitRow]
    BY <2>1, <2>5
  <2>7. Holders(s.waits) = h \ {w}
    BY <2>5 DEF Holders
  <2>8. ASSUME NEW v \in Waiters
        PROVE  SoundSlot(s.waits[v])
    <3>1. v = w => s.waits[v].pc # "asleep"
      BY <2>5
    <3>2. v \in h <=> r.waits[v].onSignal
      BY DEF Holders
    <3> QED
      BY <1>1, <2>5, <3>1, <3>2 DEF SoundSlot, SameCall
  <2>9. Sound(s.refs, s.waits)
    BY <2>1, <2>3, <2>6, <2>7, <2>8 DEF Sound
  <2> QED
    BY <2>5, <2>9 DEF s
<1> QED
  BY <1>2, <1>3

\* A call in a slot off the signal may be replaced by what ends it, or by a
\* new call that is neither asleep nor registered.
LEMMA ReplacedFacts ==
  ASSUME NEW n, NEW f, Sound(n, f), NEW w \in Waiters, ~f[w].onSignal,
         NEW k \in WaitRow, ~k.onSignal, k.pc # "asleep",
         k.pc # "idle" => k.outcome = "none" /\ k.conn \in Connections
  PROVE  Sound(n, [f EXCEPT ![w] = k])
<1> DEFINE g == [f EXCEPT ![w] = k]
<1>1. /\ g \in [Waiters -> WaitRow] /\ g[w] = k
      /\ \A v \in Waiters : v # w => g[v] = f[v]
  BY DEF Sound
<1> HIDE DEF g
<1>2. Holders(g) = Holders(f)
  BY <1>1 DEF Holders
<1>3. \A v \in Waiters : SoundSlot(g[v])
  <2>1. SoundSlot(k)
    BY DEF SoundSlot
  <2> QED
    BY <1>1, <2>1 DEF Sound
<1> QED
  BY <1>1, <1>2, <1>3 DEF Sound, g

Registered(k, t) == [k EXCEPT !.onSignal = TRUE, !.pc = "asleep", !.wakeAt = t]

\* A call goes to sleep as one more holder of the signal.
LEMMA AsleepFacts ==
  ASSUME NEW r, Sound(r.refs, r.waits), NEW w \in Waiters, ~r.waits[w].onSignal,
         r.waits[w].outcome = "none", r.waits[w].conn \in Connections,
         NEW d, WakeAt(d, r.waits[w].deadline) \in Nat
  PROVE  LET s == Asleep(r, w, d)
             k == r.waits[w]
         IN
         /\ Sound(s.refs, s.waits)
         /\ \A v \in Waiters : v # w => s.waits[v] = r.waits[v]
         /\ s.waits[w].pc = "asleep" /\ s.waits[w].wakeAt = WakeAt(d, k.deadline)
         /\ s.waits[w].role = k.role /\ s.waits[w].after = k.after
         /\ s.waits[w].outcome = "none"
<1> DEFINE s == Asleep(r, w, d)
           k == r.waits[w]
           t == WakeAt(d, k.deadline)
           h == Holders(r.waits)
<1>1. r.waits \in [Waiters -> WaitRow] /\ k \in WaitRow
  BY DEF Sound
<1>2. /\ s.refs = r.refs + 1
      /\ s.waits = [r.waits EXCEPT ![w] = Registered(k, t)]
  <2> DEFINE q == Register(r, w)
             e == [k EXCEPT !.onSignal = TRUE]
  <2>1. q.refs = r.refs + 1 /\ q = [refs |-> q.refs, waits |-> q.waits]
        /\ q.waits = [r.waits EXCEPT ![w] = e]
    BY DEF Register
  <2>2. q.waits[w] = e /\ e.deadline = k.deadline
    BY <1>1, <2>1 DEF WaitRow
  <2>3. s = [q EXCEPT !.waits[w].pc = "asleep", !.waits[w].wakeAt = t]
    BY <2>2 DEF Asleep
  <2> HIDE DEF q, t, s
  <2>4. s.refs = q.refs
        /\ s.waits = [q.waits EXCEPT ![w] = [e EXCEPT !.pc = "asleep", !.wakeAt = t]]
    BY <1>1, <2>1, <2>2, <2>3
  <2> QED
    BY <1>1, <2>1, <2>4 DEF Registered
<1>3. /\ Registered(k, t) \in WaitRow /\ Registered(k, t).pc = "asleep"
      /\ Registered(k, t).wakeAt = t /\ Registered(k, t).onSignal
      /\ Registered(k, t).role = k.role /\ Registered(k, t).after = k.after
      /\ Registered(k, t).outcome = k.outcome /\ Registered(k, t).conn = k.conn
  BY <1>1 DEF Registered, WaitRow
<1>4. /\ s.waits \in [Waiters -> WaitRow] /\ s.waits[w] = Registered(k, t)
      /\ \A v \in Waiters : v # w => s.waits[v] = r.waits[v]
  BY <1>1, <1>2, <1>3
<1>5. w \notin h
  BY DEF Holders
<1> HIDE DEF s, t, k
<1>6. Holders(s.waits) = h \cup {w}
  BY <1>3, <1>4 DEF Holders
<1>7. IsFiniteSet(Holders(s.waits)) /\ s.refs = Cardinality(Holders(s.waits))
  BY <1>2, <1>5, <1>6, FS_AddElement DEF Sound
<1>8. \A v \in Waiters : SoundSlot(s.waits[v])
  <2>1. SoundSlot(s.waits[w])
    BY <1>3, <1>4 DEF SoundSlot, k
  <2> QED
    BY <1>4, <2>1 DEF Sound
<1>9. Sound(s.refs, s.waits)
  BY <1>4, <1>7, <1>8 DEF Sound
<1> QED
  BY <1>3, <1>4, <1>9 DEF s, t, k

-----------------------------------------------------------------------------
(* The service: what a sleeper can rely on.                                *)

\* The deadline that runs in an active debate.
DueOf(d) == IF d.acked THEN d.response ELSE d.pickup

ClockRuns(d) == d.status = "active" => DueOf(d) # Never

\* A sleeper has seen every message and is not the one to speak, and its timer
\* outlives the running deadline by one unit at most: that timer is all it has
\* against an expiry nobody announces.
SleepsWell(k, d, t) ==
  /\ d.sequence <= k.after
  /\ \/ d.status = "waiting"
     \/ d.status = "active" /\ d.current # k.role /\ k.wakeAt <= DueOf(d) + 1
     \/ d.status = "paused_timeout" /\ k.wakeAt <= t + 1

Settled(f, d, t) == \A w \in Waiters : f[w].pc = "asleep" => SleepsWell(f[w], d, t)

\* The inductive invariant of the service.
ServiceInv ==
  /\ IInv
  /\ ClockRuns(debate)
  /\ Sound(refs, waits)
  /\ Settled(waits, debate, now)

LEMMA WakeAtFacts ==
  ASSUME NEW d \in Row, NEW deadline \in Nat, now \in Nat
  PROVE  /\ WakeAt(d, deadline) \in Nat
         /\ d.status = "active" /\ DueOf(d) # Never /\ DueOf(d) > now =>
              WakeAt(d, deadline) <= DueOf(d) + 1
<1>1. DueOf(d) \in Nat
  BY DEF DueOf, Row
<1>2. WakeAt(d, deadline) =
        now + Greatest(1, IF d.status = "active" /\ DueOf(d) # Never
                          THEN Least(deadline - now, Greatest(0, DueOf(d) - now) + 1)
                          ELSE deadline - now)
  BY DEF WakeAt, DueOf
<1> HIDE DEF DueOf
<1> QED
  BY <1>1, <1>2 DEF Greatest, Least

\* An expiry that is not announced leaves every sleeper with a timer that is
\* about to fire.
LEMMA ExpiryKeepsSleep ==
  ASSUME IInv, NEW k \in WaitRow, SleepsWell(k, debate, now)
  PROVE  SleepsWell(k, Seen, now)
<1>1. debate \in Row /\ now \in Nat
  BY DEF IInv, TypeOK
<1>2. CASE Seen = debate
  BY <1>2
<1>3. CASE Seen # debate
  <2>1. /\ PickupDue(debate, now) \/ ResponseDue(debate, now)
        /\ debate.status = "active"
    BY <1>3 DEF Seen, ExpireIfDue, PickupDue, ResponseDue
  <2>2. DueOf(debate) \in Nat /\ DueOf(debate) <= now
    BY <1>1, <2>1 DEF DueOf, PickupDue, ResponseDue, Row
  <2>3. Seen.status = "paused_timeout" /\ Seen.sequence = debate.sequence
    BY <1>3, <2>1, SeenFacts
  <2>4. debate.sequence <= k.after /\ k.wakeAt <= DueOf(debate) + 1 /\ k.wakeAt \in Nat
    BY <2>1 DEF SleepsWell, WaitRow
  <2>5. k.wakeAt <= now + 1
    BY <1>1, <2>2, <2>4
  <2> QED
    BY <2>3, <2>4, <2>5 DEF SleepsWell
<1> QED
  BY <1>2, <1>3

\* The row a member reads: if the debate is active its clock is in the future,
\* and seeing it again at that instant shows the same row.
LEMMA ReadRowClock ==
  ASSUME IInv, ClockRuns(debate), NEW p \in Roles
  PROVE  /\ ClockRuns(ReadRow(p))
         /\ ReadRow(p).status = "active" => DueOf(ReadRow(p)) > now
         /\ ExpireIfDue(ReadRow(p), now) = ReadRow(p)
<1> DEFINE row == ReadRow(p)
<1>1. now \in Nat /\ now # 0 /\ debate \in Row /\ Seen \in Row /\ row \in Row
  BY ReadRowFacts, SeenFacts DEF IInv, TypeOK
<1>2. row.status = Seen.status
  BY ReadRowFacts
<1>3. CASE Seen.status # "active"
  <2>1. ExpireIfDue(row, now) = row
    BY <1>1, <1>2, <1>3, FreshIsSeen
  <2> QED
    BY <1>2, <1>3, <2>1 DEF ClockRuns
<1>4. CASE Seen.status = "active"
  <2>1. Seen = debate /\ debate.status = "active" /\ DueOf(debate) # Never
    BY <1>4, SeenFacts DEF ClockRuns
  <2>2. DueOf(debate) > now
    <3> SUFFICES ASSUME DueOf(debate) <= now PROVE FALSE
      BY <1>1 DEF DueOf, Row
    <3>1. PickupDue(debate, now) \/ ResponseDue(debate, now)
      BY <1>1, <2>1 DEF PickupDue, ResponseDue, DueOf, Row
    <3>2. Seen.status = "paused_timeout"
      BY <1>1, <3>1 DEF Seen, ExpireIfDue, Row
    <3> QED
      BY <1>4, <3>2
  <2>3. DueOf(row) > now
    <3>1. CASE debate.current = p /\ ~debate.acked
      <4>1. row.acked /\ row.response = now + ResponseTimeout
        BY <1>1, <2>1, <3>1 DEF ReadRow, Acknowledged, Row
      <4> QED
        BY <1>1, <4>1, TimeoutsAssumption DEF DueOf
    <3>2. CASE ~(debate.current = p /\ ~debate.acked)
      BY <2>1, <2>2, <3>2 DEF ReadRow, Acknowledged
    <3> QED
      BY <3>1, <3>2
  <2>4. DueOf(row) # Never
    BY <1>1, <2>3 DEF Never
  <2>5. \/ ~row.acked /\ row.pickup > now
        \/ row.acked /\ row.response > now
    BY <1>1, <2>3 DEF DueOf, Row
  <2>6. ExpireIfDue(row, now) = row
    BY <1>1, <2>5, FreshIsSeen
  <2> QED
    BY <2>3, <2>4, <2>6 DEF ClockRuns
<1> QED
  BY <1>3, <1>4

LEMMA SettledTransfers ==
  ASSUME NEW k, NEW j, SameCall(k, j), NEW d, NEW t, SleepsWell(j, d, t)
  PROVE  SleepsWell(k, d, t)
  BY DEF SameCall, SleepsWell

-----------------------------------------------------------------------------
(* The service: each of its steps.                                         *)

\* What a step owes its waits: the registry stays sound, the sleepers settled,
\* and a timeout that is reported hides nothing.
TellsTheTruth ==
  \A w \in Waiters :
    (waits[w].pc # "idle" /\ waits'[w].outcome = "timed_out") =>
      /\ now >= waits[w].deadline
      /\ ~WaitActionable(Seen', waits[w].role, waits[w].after)

Kept ==
  /\ Sound(refs', waits')
  /\ Settled(waits', debate', now')
  /\ TellsTheTruth

Outcomes == {"actionable", "timed_out", "wait_cancelled", "debate_store_closed",
             "membership_invalid"}

LEMMA EndedIsWaitRow ==
  ASSUME NEW o \in Outcomes
  PROVE  LET k == [NoWait EXCEPT !.outcome = o] IN
         /\ k \in WaitRow /\ ~k.onSignal /\ k.pc = "idle" /\ k.outcome = o
  BY DEF NoWait, WaitRow, Outcomes, Roles, NoConnection

LEMMA ReturnedFacts ==
  ASSUME NEW r, Sound(r.refs, r.waits), NEW w \in Waiters, ~r.waits[w].onSignal,
         NEW o \in Outcomes
  PROVE  LET s == Returned(r, w, o) IN
         /\ Sound(s.refs, s.waits)
         /\ s.waits[w].pc = "idle" /\ s.waits[w].outcome = o
         /\ \A v \in Waiters : v # w => s.waits[v] = r.waits[v]
<1> DEFINE s == Returned(r, w, o)
           k == [NoWait EXCEPT !.outcome = o]
<1>1. s.refs = r.refs /\ s.waits = [r.waits EXCEPT ![w] = k]
  BY DEF Returned
<1>2. k \in WaitRow /\ ~k.onSignal /\ k.pc = "idle" /\ k.outcome = o
  BY EndedIsWaitRow
<1> HIDE DEF s, k
<1>3. Sound(s.refs, s.waits)
  BY <1>1, <1>2, ReplacedFacts
<1>4. s.waits[w] = k /\ \A v \in Waiters : v # w => s.waits[v] = r.waits[v]
  BY <1>1 DEF Sound
<1> QED
  BY <1>2, <1>3, <1>4 DEF s

\* Nobody is told of a change that is none.
LEMMA NotifiedIfFacts ==
  ASSUME NEW r, Sound(r.refs, r.waits), NEW d, NEW e, NEW t,
         \A v \in Waiters : r.waits[v].pc = "asleep" => SleepsWell(r.waits[v], d, t)
  PROVE  LET s == NotifiedIf(e # d, r) IN
         /\ Sound(s.refs, s.waits)
         /\ Settled(s.waits, e, t)
         /\ \A v \in Waiters : /\ Stirred(s.waits[v], r.waits[v])
                               /\ ~r.waits[v].onSignal => ~s.waits[v].onSignal
<1>1. CASE e = d
  BY <1>1 DEF NotifiedIf, Settled, Stirred, SameCall
<1>2. CASE e # d
  <2>1. NotifiedIf(e # d, r) = Notified(r)
    BY <1>2 DEF NotifiedIf
  <2> QED
    BY <2>1, NotifiedFacts DEF Settled
<1> QED
  BY <1>1, <1>2

\* Notify, after any change of the row.
LEMMA NotifyKeeps ==
  ASSUME ServiceInv, Notify
  PROVE  /\ Kept
         /\ \A v \in Waiters : waits'[v].pc # "asleep"
<1>1. Registry.refs = refs /\ Registry.waits = waits
  BY DEF Registry
<1>2. refs' = Notified(Registry).refs /\ waits' = Notified(Registry).waits
  BY DEF Notify, Put
<1>3. /\ Sound(refs', waits')
      /\ \A v \in Waiters : /\ Stirred(waits'[v], waits[v]) /\ waits'[v].pc # "asleep"
  BY <1>1, <1>2, NotifiedFacts DEF ServiceInv
<1>4. \A v \in Waiters : waits[v].pc # "idle" => waits'[v].outcome # "timed_out"
  BY <1>3 DEF ServiceInv, Sound, SoundSlot, Stirred, SameCall
<1> QED
  BY <1>3, <1>4 DEF Kept, Settled, TellsTheTruth

\* A step that leaves the registry alone.
LEMMA QuietKeeps ==
  ASSUME ServiceInv, Quiet, Settled(waits, debate', now')
  PROVE  Kept
<1>1. \A v \in Waiters : waits[v].pc # "idle" => waits'[v].outcome # "timed_out"
  BY DEF ServiceInv, Sound, SoundSlot, Quiet
<1> QED
  BY <1>1 DEF Kept, TellsTheTruth, Quiet, ServiceInv

\* A wait that has looked at the row and found nothing goes to sleep, and
\* sleeps well.
LEMMA GoesToSleep ==
  ASSUME IInv, ClockRuns(debate), NEW r, Sound(r.refs, r.waits), NEW w \in Waiters,
         ~r.waits[w].onSignal, r.waits[w].outcome = "none",
         r.waits[w].conn \in Connections,
         Settled(r.waits, ReadRow(r.waits[w].role), now),
         ~WaitActionable(ReadRow(r.waits[w].role), r.waits[w].role, r.waits[w].after)
  PROVE  LET row == ReadRow(r.waits[w].role)
             s   == Asleep(r, w, row)
         IN  /\ Sound(s.refs, s.waits)
             /\ Settled(s.waits, row, now)
             /\ s.waits[w].outcome = "none"
             /\ \A v \in Waiters : v # w => s.waits[v] = r.waits[v]
<1> DEFINE k   == r.waits[w]
           row == ReadRow(k.role)
           s   == Asleep(r, w, row)
<1>1. k \in WaitRow /\ now \in Nat
  BY DEF Sound, IInv, TypeOK
<1>2. k.role \in Roles /\ k.deadline \in Nat /\ k.after \in Nat
  BY <1>1 DEF WaitRow
<1>3. row \in Row
  BY <1>2, ReadRowFacts
<1>4. WakeAt(row, k.deadline) \in Nat
  BY <1>1, <1>2, <1>3, WakeAtFacts
<1>5. /\ Sound(s.refs, s.waits)
      /\ \A v \in Waiters : v # w => s.waits[v] = r.waits[v]
      /\ s.waits[w].wakeAt = WakeAt(row, k.deadline)
      /\ s.waits[w].role = k.role /\ s.waits[w].after = k.after
      /\ s.waits[w].outcome = "none"
  BY <1>4, AsleepFacts
<1> HIDE DEF s
<1>6. /\ row.sequence <= k.after /\ row.sequence \in Nat
      /\ row.status \in {"waiting", "active"}
      /\ row.status = "active" => row.current # k.role
  BY <1>2, <1>3 DEF WaitActionable, Row
<1>7. row.status = "active" => WakeAt(row, k.deadline) <= DueOf(row) + 1
  <2>1. ClockRuns(row) /\ (row.status = "active" => DueOf(row) > now)
    BY <1>2, ReadRowClock
  <2> QED
    BY <1>1, <1>2, <1>3, <2>1, WakeAtFacts DEF ClockRuns
<1>8. SleepsWell(s.waits[w], row, now)
  BY <1>5, <1>6, <1>7 DEF SleepsWell
<1>9. Settled(s.waits, row, now)
  BY <1>5, <1>8 DEF Settled
<1> QED
  BY <1>5, <1>9 DEF s

\* What a wait does once it has looked: it returns what it found, or sleeps.
LEMMA LooksKeeps ==
  ASSUME ServiceInv, NEW r, Sound(r.refs, r.waits), NEW w \in Waiters,
         ~r.waits[w].onSignal, r.waits[w].outcome = "none",
         r.waits[w].conn \in Connections,
         debate' = ReadRow(r.waits[w].role), now' = now,
         Settled(r.waits, debate', now),
         \A v \in Waiters : v # w => Stirred(r.waits[v], waits[v]),
         \/ waits[w].pc = "idle"
         \/ r.waits[w].role = waits[w].role /\ r.waits[w].after = waits[w].after
              /\ r.waits[w].deadline = waits[w].deadline,
         NEW q, Put(q),
         \/ q = Returned(r, w, "actionable")
         \/ q = Returned(r, w, "wait_cancelled")
         \/ /\ q = Returned(r, w, "timed_out") /\ now >= r.waits[w].deadline
            /\ ~WaitActionable(debate', r.waits[w].role, r.waits[w].after)
         \/ /\ q = Asleep(r, w, debate')
            /\ ~WaitActionable(debate', r.waits[w].role, r.waits[w].after)
  PROVE  Kept
<1> DEFINE k == r.waits[w]
<1>1. refs' = q.refs /\ waits' = q.waits
  BY DEF Put
<1>2. IInv /\ ClockRuns(debate)
  BY DEF ServiceInv
<1>3. k \in WaitRow /\ k.role \in Roles
  BY DEF Sound, WaitRow
<1>4. Seen' = debate'
  BY <1>2, <1>3, ReadRowClock DEF Seen
<1>5. \A v \in Waiters : v # w /\ waits[v].pc # "idle" => r.waits[v].outcome = "none"
  BY DEF ServiceInv, Sound, SoundSlot, Stirred, SameCall
<1>6. ASSUME NEW o \in Outcomes, q = Returned(r, w, o),
             o = "timed_out" => now >= k.deadline /\ ~WaitActionable(debate', k.role, k.after)
      PROVE  Kept
  <2>1. /\ Sound(refs', waits') /\ waits'[w].pc = "idle" /\ waits'[w].outcome = o
        /\ \A v \in Waiters : v # w => waits'[v] = r.waits[v]
    BY <1>1, <1>6, ReturnedFacts
  <2>2. Settled(waits', debate', now')
    BY <2>1 DEF Settled
  <2>3. TellsTheTruth
    <3> SUFFICES ASSUME NEW v \in Waiters, waits[v].pc # "idle",
                        waits'[v].outcome = "timed_out"
                 PROVE  /\ now >= waits[v].deadline
                        /\ ~WaitActionable(debate', waits[v].role, waits[v].after)
      BY <1>4 DEF TellsTheTruth
    <3>1. v = w
      BY <1>5, <2>1
    <3> QED
      BY <1>6, <2>1, <3>1
  <2> QED
    BY <2>1, <2>2, <2>3 DEF Kept
<1>7. CASE q = Asleep(r, w, debate') /\ ~WaitActionable(debate', k.role, k.after)
  <2>1. /\ Sound(refs', waits') /\ Settled(waits', debate', now')
        /\ waits'[w].outcome = "none"
        /\ \A v \in Waiters : v # w => waits'[v] = r.waits[v]
    BY <1>1, <1>2, <1>7, GoesToSleep
  <2>2. TellsTheTruth
    BY <1>5, <2>1 DEF TellsTheTruth
  <2> QED
    BY <2>1, <2>2 DEF Kept
<1> QED
  BY <1>6, <1>7 DEF Outcomes

LEMMA WaitCallKeeps ==
  ASSUME ServiceInv, NEW w \in Waiters, NEW p \in Roles, NEW c \in Connections,
         NEW after \in {0, debate.sequence}, NEW duration \in WaitDurations,
         WaitCall(w, p, c, after, duration)
  PROVE  Kept
<1> DEFINE row  == ReadRow(p)
           call == [NoWait EXCEPT !.role = p, !.conn = c, !.after = after,
                                  !.deadline = now + duration]
           r    == NotifiedIf(row # debate, Registry)
           s    == [r EXCEPT !.waits[w] = call]
           q    == IF WaitActionable(row, p, after)
                   THEN Returned(s, w, "actionable")
                   ELSE Asleep(s, w, row)
<1>1. /\ waits[w].pc = "idle" /\ debate' = row /\ now' = now /\ Put(q)
  BY DEF WaitCall, Read
<1>2. /\ now \in Nat /\ debate \in Row /\ after \in Nat /\ duration \in Nat
      /\ Sound(refs, waits) /\ Settled(waits, debate, now)
  BY WaitsAssumption DEF ServiceInv, IInv, TypeOK, Row
<1>3. /\ call \in WaitRow /\ call.role = p /\ call.conn = c /\ call.after = after
      /\ call.pc = "idle" /\ ~call.onSignal /\ call.outcome = "none"
  <2>1. now + duration \in Nat
    BY <1>2
  <2> QED
    BY <1>2, <2>1 DEF NoWait, WaitRow
<1>4. /\ Sound(r.refs, r.waits) /\ Settled(r.waits, row, now)
      /\ \A v \in Waiters : Stirred(r.waits[v], waits[v])
      /\ ~r.waits[w].onSignal
  <2>1. Registry.refs = refs /\ Registry.waits = waits
    BY DEF Registry
  <2>2. ~waits[w].onSignal
    BY <1>1, <1>2 DEF Sound, SoundSlot
  <2> QED
    BY <1>2, <2>1, <2>2, NotifiedIfFacts DEF Settled
<1>5. s.refs = r.refs /\ s.waits = [r.waits EXCEPT ![w] = call]
  <2>1. r = [refs |-> r.refs, waits |-> r.waits]
    <3>1. r = Registry \/ r = Notified(Registry)
      BY DEF NotifiedIf
    <3>2. Registry = [refs |-> Registry.refs, waits |-> Registry.waits]
      BY DEF Registry
    <3>3. Notified(Registry) = [refs |-> Notified(Registry).refs,
                                waits |-> Notified(Registry).waits]
      BY DEF Notified
    <3> HIDE DEF r
    <3> QED
      BY <3>1, <3>2, <3>3
  <2> HIDE DEF r, call
  <2> QED
    BY <2>1
<1> HIDE DEF s, r, call, row
<1>6. Sound(s.refs, s.waits)
  BY <1>3, <1>4, <1>5, ReplacedFacts
<1>7. s.waits[w] = call /\ \A v \in Waiters : v # w => s.waits[v] = r.waits[v]
  BY <1>4, <1>5 DEF Sound
<1>8. Settled(s.waits, debate', now)
  BY <1>1, <1>3, <1>4, <1>7 DEF Settled
<1> HIDE DEF q
<1>9. \/ q = Returned(s, w, "actionable")
      \/ q = Asleep(s, w, debate') /\ ~WaitActionable(debate', p, after)
  BY <1>1 DEF q
<1> QED
  BY <1>1, <1>3, <1>4, <1>6, <1>7, <1>8, <1>9, LooksKeeps DEF row

LEMMA WaitContinuesKeeps ==
  ASSUME ServiceInv, NEW w \in Waiters, WaitContinues(w)
  PROVE  Kept
<1> DEFINE k   == waits[w]
           row == ReadRow(k.role)
           m   == Cancel(Registry, w)
           r   == NotifiedIf(row # debate, m)
           q   == IF WaitActionable(row, k.role, k.after) THEN Returned(r, w, "actionable")
                  ELSE IF now >= k.deadline THEN Returned(r, w, "timed_out")
                  ELSE IF k.aborted THEN Returned(r, w, "wait_cancelled")
                  ELSE Asleep(r, w, row)
<1>1. k.pc = "awake" /\ debate' = row /\ now' = now /\ Put(q)
  BY DEF WaitContinues, Read
<1>2. Sound(refs, waits) /\ Settled(waits, debate, now)
  BY DEF ServiceInv
<1>3. Registry.refs = refs /\ Registry.waits = waits
  BY DEF Registry
<1>4. /\ Sound(m.refs, m.waits) /\ ~m.waits[w].onSignal
      /\ \A v \in Waiters : SameCall(m.waits[v], waits[v]) /\ m.waits[v].pc = waits[v].pc
  BY <1>1, <1>2, <1>3, CancelFacts
<1> HIDE DEF m
<1>5. \A v \in Waiters : m.waits[v].pc = "asleep" => SleepsWell(m.waits[v], debate, now)
  BY <1>2, <1>4, SettledTransfers DEF Settled
<1>6. /\ Sound(r.refs, r.waits) /\ Settled(r.waits, row, now)
      /\ ~r.waits[w].onSignal
      /\ \A v \in Waiters : Stirred(r.waits[v], m.waits[v])
  <2> HIDE DEF row, k
  <2> QED
    BY <1>4, <1>5, NotifiedIfFacts
<1> HIDE DEF r
<1>7. \A v \in Waiters : Stirred(r.waits[v], waits[v])
  BY <1>4, <1>6 DEF Stirred, SameCall
<1>8. k.outcome = "none" /\ k.conn \in Connections
  BY <1>1, <1>2 DEF Sound, SoundSlot
<1>9. /\ r.waits[w].outcome = "none" /\ r.waits[w].conn \in Connections
      /\ r.waits[w].role = k.role /\ r.waits[w].after = k.after
      /\ r.waits[w].deadline = k.deadline
  BY <1>7, <1>8 DEF Stirred, SameCall
<1> HIDE DEF q, row
<1>10. \/ q = Returned(r, w, "actionable")
       \/ q = Returned(r, w, "wait_cancelled")
       \/ /\ q = Returned(r, w, "timed_out") /\ now >= k.deadline
          /\ ~WaitActionable(debate', k.role, k.after)
       \/ q = Asleep(r, w, debate') /\ ~WaitActionable(debate', k.role, k.after)
  BY <1>1 DEF q
<1> HIDE DEF k
<1> QED
  BY <1>1, <1>6, <1>7, <1>9, <1>10, LooksKeeps DEF row, k

\* Nothing but one slot changes, and that one does not fall asleep.
LEMMA OneSlotKeeps ==
  ASSUME ServiceInv, NEW w \in Waiters, Sound(refs', waits'),
         debate' = debate, now' = now,
         \A v \in Waiters : v # w => Stirred(waits'[v], waits[v]),
         waits'[w].pc # "asleep", waits'[w].outcome # "timed_out"
  PROVE  Kept
<1>1. Settled(waits', debate', now')
  BY SettledTransfers DEF ServiceInv, Settled, Stirred
<1>2. TellsTheTruth
  <2>1. \A v \in Waiters : v # w /\ waits[v].pc # "idle" => waits'[v].outcome = "none"
    BY DEF ServiceInv, Sound, SoundSlot, Stirred, SameCall
  <2> QED
    BY <2>1 DEF TellsTheTruth
<1> QED
  BY <1>1, <1>2 DEF Kept

LEMMA WaitThrowsKeeps ==
  ASSUME ServiceInv, NEW w \in Waiters, WaitThrows(w)
  PROVE  Kept
<1> DEFINE m == Cancel(Registry, w)
<1>1. PICK o \in Outcomes \ {"timed_out"} : Put(Returned(m, w, o))
  BY DEF WaitThrows, Outcomes
<1>2. waits[w].pc \in {"awake", "rejected"} /\ debate' = debate /\ now' = now
  BY DEF WaitThrows
<1>3. /\ Sound(m.refs, m.waits) /\ ~m.waits[w].onSignal
      /\ \A v \in Waiters : SameCall(m.waits[v], waits[v]) /\ m.waits[v].pc = waits[v].pc
  BY <1>2, CancelFacts DEF Registry, ServiceInv
<1> HIDE DEF m
<1>4. /\ Sound(refs', waits') /\ waits'[w].pc = "idle" /\ waits'[w].outcome = o
      /\ \A v \in Waiters : v # w => waits'[v] = m.waits[v]
  BY <1>1, <1>3, ReturnedFacts DEF Put
<1>5. \A v \in Waiters : v # w => Stirred(waits'[v], waits[v])
  BY <1>3, <1>4 DEF Stirred
<1> QED
  BY <1>2, <1>4, <1>5, OneSlotKeeps

LEMMA TimerFiresKeeps ==
  ASSUME ServiceInv, NEW w \in Waiters, TimerFires(w)
  PROVE  Kept
<1> DEFINE k == [waits[w] EXCEPT !.pc = "awake"]
<1>1. /\ waits[w].pc = "asleep" /\ debate' = debate /\ now' = now /\ refs' = refs
      /\ waits' = [waits EXCEPT ![w] = k]
  BY DEF TimerFires
<1>2. /\ waits \in [Waiters -> WaitRow] /\ waits[w] \in WaitRow
      /\ \A v \in Waiters : SoundSlot(waits[v])
  BY DEF ServiceInv, Sound
<1>3. /\ k \in WaitRow /\ k.pc = "awake" /\ k.onSignal = waits[w].onSignal
      /\ k.outcome = waits[w].outcome /\ k.conn = waits[w].conn
  BY <1>2 DEF WaitRow
<1> HIDE DEF k
<1>4. /\ waits' \in [Waiters -> WaitRow] /\ waits'[w] = k
      /\ \A v \in Waiters : v # w => waits'[v] = waits[v]
  BY <1>1, <1>2, <1>3
<1>5. Holders(waits') = Holders(waits)
  BY <1>3, <1>4 DEF Holders
<1>6. SoundSlot(k) /\ k.outcome = "none"
  BY <1>1, <1>2, <1>3 DEF SoundSlot
<1>7. Sound(refs', waits')
  BY <1>1, <1>2, <1>4, <1>5, <1>6 DEF ServiceInv, Sound
<1> QED
  BY <1>1, <1>3, <1>4, <1>6, <1>7, OneSlotKeeps DEF Stirred, SameCall

LEMMA AbortWaitKeeps ==
  ASSUME ServiceInv, NEW w \in Waiters, AbortWait(w)
  PROVE  Kept
<1> DEFINE k == [waits[w] EXCEPT !.aborted = TRUE,
                                 !.pc = IF @ = "asleep" THEN "rejected" ELSE @]
<1>1. /\ waits[w].pc \in {"asleep", "awake"}
      /\ debate' = debate /\ now' = now /\ refs' = refs
      /\ waits' = [waits EXCEPT ![w] = k]
  BY DEF AbortWait
<1>2. /\ waits \in [Waiters -> WaitRow] /\ waits[w] \in WaitRow
      /\ \A v \in Waiters : SoundSlot(waits[v])
  BY DEF ServiceInv, Sound
<1>3. /\ k \in WaitRow /\ k.pc \in {"awake", "rejected"} /\ k.onSignal = waits[w].onSignal
      /\ k.outcome = waits[w].outcome /\ k.conn = waits[w].conn
  BY <1>1, <1>2 DEF WaitRow
<1> HIDE DEF k
<1>4. /\ waits' \in [Waiters -> WaitRow] /\ waits'[w] = k
      /\ \A v \in Waiters : v # w => waits'[v] = waits[v]
  BY <1>1, <1>2, <1>3
<1>5. Holders(waits') = Holders(waits)
  BY <1>3, <1>4 DEF Holders
<1>6. SoundSlot(k) /\ k.outcome = "none"
  BY <1>1, <1>2, <1>3 DEF SoundSlot
<1>7. Sound(refs', waits')
  BY <1>1, <1>2, <1>4, <1>5, <1>6 DEF ServiceInv, Sound
<1> QED
  BY <1>1, <1>3, <1>4, <1>6, <1>7, OneSlotKeeps DEF Stirred, SameCall

\* A call other than wait: it notifies, or it changed nothing a sleeper relies on.
LEMMA ServiceCallKeeps ==
  ASSUME ServiceInv, ServiceCall
  PROVE  Kept
<1>notify. Notify => Kept
  BY NotifyKeeps
<1>seen. ASSUME debate' = Seen, now' = now, Quiet
         PROVE  Kept
  <2>1. Settled(waits, debate', now')
    BY <1>seen, ExpiryKeepsSleep DEF ServiceInv, Sound, Settled
  <2> QED
    BY <1>seen, <2>1, QuietKeeps
<1>create. ASSUME NEW c \in Connections, NEW n \in TurnLimits, NEW f \in Roles,
                  ServiceCreate(c, n, f)
           PROVE  Kept
  <2>1. debate.status = "absent" /\ Quiet
    BY <1>create DEF ServiceCreate, Create
  <2>2. Settled(waits, debate', now')
    BY <2>1 DEF ServiceInv, Settled, SleepsWell
  <2> QED
    BY <2>1, <2>2, QuietKeeps
<1>read. ASSUME NEW p \in Roles, NEW c \in Connections, ServiceRead(p, c)
         PROVE  Kept
  <2>1. debate' = ReadRow(p) /\ now' = now
        /\ Put(NotifiedIf(ReadRow(p) # debate, Registry))
    BY <1>read DEF ServiceRead, Read
  <2>2. CASE ReadRow(p) # debate
    BY <1>notify, <2>1, <2>2 DEF NotifiedIf, Notify
  <2>3. CASE ReadRow(p) = debate
    <3>1. Quiet
      BY <2>1, <2>3 DEF NotifiedIf, Put, Registry, Quiet
    <3> QED
      BY <2>1, <2>3, <3>1, QuietKeeps DEF ServiceInv
  <2> QED
    BY <2>2, <2>3
<1>send. ASSUME NEW p \in Roles, NEW c \in Connections, NEW id \in MessageIds,
                NEW content \in Payloads, NEW expected \in 0..Len(messages),
                ServiceSend(p, c, id, content, expected)
         PROVE  Kept
  BY <1>send, <1>notify, <1>seen DEF ServiceSend, SendReplay
<1>join. ASSUME NEW c \in Connections, ServiceJoin(c) PROVE Kept
  BY <1>join, <1>notify DEF ServiceJoin
<1>stop. ASSUME NEW p \in Roles, NEW c \in Connections, ServiceStop(p, c) PROVE Kept
  BY <1>stop, <1>notify DEF ServiceStop
<1>looks. ASSUME OwnerLooks PROVE Kept
  BY <1>looks, <1>seen DEF OwnerLooks, OwnerRead
<1>owner. ASSUME StopAsOwner \/ ResumeAsOwner \/ DeleteAsOwner PROVE Kept
  BY <1>owner, <1>notify DEF StopAsOwner, ResumeAsOwner, DeleteAsOwner
<1> QED
  BY <1>create, <1>read, <1>send, <1>join, <1>stop, <1>looks, <1>owner DEF ServiceCall

\* What the service does to the store is what the store allows.
LEMMA ServiceStepIsStoreStep ==
  ASSUME ServiceInv, [ServiceNext]_serviceVars
  PROVE  [Next]_storeVars
<1>1. ServiceCall => Next
  BY DEF ServiceCall, ServiceCreate, ServiceJoin, ServiceRead, ServiceSend, ServiceStop,
         OwnerLooks, StopAsOwner, ResumeAsOwner, DeleteAsOwner, Next
<1>2. ASSUME NEW w \in Waiters, NEW p \in Roles, NEW c \in Connections,
             NEW after \in {0, debate.sequence}, NEW duration \in WaitDurations,
             WaitCall(w, p, c, after, duration)
      PROVE  Next
  BY <1>2 DEF WaitCall, Next
<1>3. ASSUME NEW w \in Waiters, TimerFires(w) \/ AbortWait(w) \/ WaitThrows(w)
      PROVE  UNCHANGED storeVars
  BY <1>3 DEF TimerFires, AbortWait, WaitThrows, storeVars
<1>4. ASSUME NEW w \in Waiters, WaitContinues(w)
      PROVE  Next
  <2>1. Read(waits[w].role, waits[w].conn) /\ waits[w].pc = "awake"
    BY <1>4 DEF WaitContinues
  <2>2. waits[w].role \in Roles /\ waits[w].conn \in Connections
    <3>1. waits[w] \in WaitRow /\ SoundSlot(waits[w])
      BY DEF ServiceInv, Sound
    <3> QED
      BY <2>1, <3>1 DEF WaitRow, SoundSlot
  <2> QED
    BY <2>1, <2>2 DEF Next
<1>5. Close \/ Restart => UNCHANGED storeVars
  BY DEF Close, Restart
<1>6. UNCHANGED serviceVars => UNCHANGED storeVars
  BY DEF serviceVars, storeVars
<1>7. Tick => Next
  BY DEF Next
<1> QED
  BY <1>1, <1>2, <1>3, <1>4, <1>5, <1>6, <1>7 DEF ServiceNext

\* An active debate always has a clock running.
LEMMA ClockKeepsRunning ==
  ASSUME IInv, ClockRuns(debate), [Next]_storeVars
  PROVE  ClockRuns(debate')
<1>1. now \in Nat /\ now # 0 /\ debate \in Row
  BY DEF IInv, TypeOK
<1>2. now + PickupTimeout # Never /\ now + PickupTimeout \in Nat
  BY <1>1, TimeoutsAssumption DEF Never
<1>seen. ClockRuns(Seen)
  BY SeenFacts DEF ClockRuns
<1>join. ASSUME NEW c \in Connections, Join(c)
         PROVE  ClockRuns(debate')
  <2>1. ~debate'.acked /\ debate'.pickup = now + PickupTimeout
    BY <1>join, <1>1 DEF Join, Row
  <2> QED
    BY <1>2, <2>1 DEF ClockRuns, DueOf
<1>resume. ASSUME OwnerResume
           PROVE  ClockRuns(debate')
  <2>1. ~debate'.acked /\ debate'.pickup = now + PickupTimeout
    BY <1>resume, SeenFacts DEF OwnerResume, Row
  <2> QED
    BY <1>2, <2>1 DEF ClockRuns, DueOf
<1>send. ASSUME NEW p \in Roles, NEW c \in Connections, NEW id \in MessageIds,
                NEW content \in Payloads, NEW expected \in 0..Len(messages),
                Send(p, c, id, content, expected)
         PROVE  ClockRuns(debate')
  <2> DEFINE isFinal == debate.completedTurns + 1 = debate.maxTurns
             pickup  == IF isFinal THEN Never ELSE now + PickupTimeout
  <2>1. /\ debate'.status = (IF isFinal THEN "completed" ELSE "active")
        /\ ~debate'.acked /\ debate'.pickup = pickup
    BY <1>send, <1>1 DEF Send, Row
  <2> QED
    BY <1>2, <2>1 DEF ClockRuns, DueOf
<1>stopped. ASSUME Exists
            PROVE  ClockRuns(Stopped(Seen))
  BY <1>stopped, StoppedFacts DEF ClockRuns
<1>create. ASSUME NEW c \in Connections, NEW n \in TurnLimits, NEW f \in Roles,
                  Create(c, n, f)
           PROVE  ClockRuns(debate')
  BY <1>create DEF Create, NoDebate, ClockRuns
<1>delete. ASSUME OwnerDelete PROVE ClockRuns(debate')
  BY <1>delete DEF OwnerDelete, NoDebate, ClockRuns
<1>read. ASSUME NEW p \in Roles, NEW c \in Connections, Read(p, c)
         PROVE  ClockRuns(debate')
  BY <1>read, ReadRowClock DEF Read
<1>replay. ASSUME NEW p \in Roles, NEW c \in Connections, NEW id \in MessageIds,
                  NEW content \in Payloads, NEW expected \in 0..Len(messages),
                  SendReplay(p, c, id, content, expected)
           PROVE  ClockRuns(debate')
  BY <1>replay, <1>seen DEF SendReplay
<1>stop. ASSUME NEW p \in Roles, NEW c \in Connections, StopMember(p, c)
         PROVE  ClockRuns(debate')
  BY <1>stop, <1>stopped DEF StopMember, VerifyMembership
<1>owner. ASSUME OwnerRead \/ OwnerStop PROVE ClockRuns(debate')
  BY <1>owner, <1>seen, <1>stopped DEF OwnerRead, OwnerStop
<1>same. ASSUME Tick \/ UNCHANGED storeVars PROVE ClockRuns(debate')
  BY <1>same DEF Tick, storeVars
<1> QED
  BY <1>join, <1>resume, <1>send, <1>create, <1>delete, <1>read, <1>replay, <1>stop,
     <1>owner, <1>same DEF Next

LEMMA InitServiceInv == ServiceInit => ServiceInv
<1> SUFFICES ASSUME ServiceInit PROVE ServiceInv
  OBVIOUS
<1>1. IInv
  BY InitIInv DEF ServiceInit
<1>2. ClockRuns(debate)
  BY DEF ServiceInit, Init, NoDebate, ClockRuns
<1>3. NoWait \in WaitRow /\ NoWait.pc = "idle" /\ ~NoWait.onSignal
  BY DEF NoWait, WaitRow, Roles
<1>4. waits \in [Waiters -> WaitRow] /\ \A w \in Waiters : waits[w] = NoWait
  BY <1>3 DEF ServiceInit
<1>5. Holders(waits) = {}
  BY <1>3, <1>4 DEF Holders
<1>6. Sound(refs, waits)
  BY <1>3, <1>4, <1>5, FS_EmptySet DEF ServiceInit, Sound, SoundSlot
<1>7. Settled(waits, debate, now)
  BY <1>3, <1>4 DEF Settled
<1> QED
  BY <1>1, <1>2, <1>6, <1>7 DEF ServiceInv

LEMMA ServiceStepKeeps ==
  ASSUME ServiceInv, [ServiceNext]_serviceVars
  PROVE  Kept
<1>1. Sound(refs, waits) /\ Settled(waits, debate, now) /\ IInv
  BY DEF ServiceInv
<1>wait. ASSUME NEW w \in Waiters, NEW p \in Roles, NEW c \in Connections,
                NEW after \in {0, debate.sequence}, NEW duration \in WaitDurations,
                WaitCall(w, p, c, after, duration)
         PROVE  Kept
  BY <1>wait, WaitCallKeeps
<1>slot. ASSUME NEW w \in Waiters,
                TimerFires(w) \/ AbortWait(w) \/ WaitThrows(w) \/ WaitContinues(w)
         PROVE  Kept
  BY <1>slot, TimerFiresKeeps, AbortWaitKeeps, WaitThrowsKeeps, WaitContinuesKeeps
<1>close. ASSUME Close PROVE Kept
  BY <1>close, NotifyKeeps DEF Close
<1>restart. ASSUME Restart PROVE Kept
  <2>1. NoWait \in WaitRow /\ NoWait.pc = "idle" /\ ~NoWait.onSignal
        /\ NoWait.outcome = "none"
    BY DEF NoWait, WaitRow, Roles
  <2>2. /\ waits' \in [Waiters -> WaitRow] /\ \A w \in Waiters : waits'[w] = NoWait
        /\ refs' = 0
    BY <1>restart, <2>1 DEF Restart
  <2>3. Holders(waits') = {}
    BY <2>1, <2>2 DEF Holders
  <2>4. Sound(refs', waits')
    BY <2>1, <2>2, <2>3, FS_EmptySet DEF Sound, SoundSlot
  <2> QED
    BY <2>1, <2>2, <2>4 DEF Kept, Settled, TellsTheTruth
<1>tick. ASSUME Tick, UNCHANGED <<closed, refs, waits>> PROVE Kept
  <2>1. now \in Nat /\ now' = now + 1 /\ debate' = debate
    BY <1>1, <1>tick DEF Tick, IInv, TypeOK
  <2>2. \A w \in Waiters : waits[w].wakeAt \in Nat
    BY <1>1 DEF Sound, WaitRow
  <2>3. Settled(waits, debate', now')
    BY <1>1, <2>1, <2>2 DEF Settled, SleepsWell
  <2> QED
    BY <1>tick, <2>3, QuietKeeps DEF Quiet
<1>stutter. ASSUME UNCHANGED serviceVars PROVE Kept
  BY <1>1, <1>stutter, QuietKeeps DEF Quiet, serviceVars
<1> QED
  BY <1>wait, <1>slot, <1>close, <1>restart, <1>tick, <1>stutter, ServiceCallKeeps
     DEF ServiceNext

LEMMA NextServiceInv == ServiceInv /\ [ServiceNext]_serviceVars => ServiceInv'
<1> SUFFICES ASSUME ServiceInv, [ServiceNext]_serviceVars PROVE ServiceInv'
  OBVIOUS
<1>1. [Next]_storeVars /\ Kept
  BY ServiceStepIsStoreStep, ServiceStepKeeps
<1>2. IInv' /\ ClockRuns(debate')
  BY <1>1, NextIInv, ClockKeepsRunning DEF ServiceInv
<1> QED
  BY <1>1, <1>2 DEF Kept, ServiceInv

THEOREM ServiceInvariant == ServiceSpec => []ServiceInv
<1> QED
  BY InitServiceInv, NextServiceInv, PTL DEF ServiceSpec

\* A sleeper that would return were it to look now has its timer at most one
\* unit away.
LEMMA SleepersWakeInTime == ServiceInv => NoLostWakeup
<1> SUFFICES ASSUME ServiceInv, NEW w \in Waiters, waits[w].pc = "asleep",
                    ~Exists \/ WaitActionable(Seen, waits[w].role, waits[w].after)
             PROVE  waits[w].wakeAt <= now + 1
  BY DEF NoLostWakeup
<1>1. IInv /\ SleepsWell(waits[w], debate, now) /\ waits[w] \in WaitRow
  BY DEF ServiceInv, Settled, Sound
<1>2. SleepsWell(waits[w], Seen, now) /\ Seen \in Row
  BY <1>1, ExpiryKeepsSleep, SeenFacts
<1>3. Exists
  BY <1>1 DEF SleepsWell, Exists
<1>4. Seen.sequence \in Nat /\ waits[w].after \in Nat
  BY <1>1, <1>2 DEF Row, WaitRow
<1> QED
  BY <1>2, <1>3, <1>4 DEF SleepsWell, WaitActionable

\* A wait never oversleeps what it waits for, whatever wakes or fails to wake
\* it, however many waits share the signal.
THEOREM WakeupsAreNotLost == ServiceSpec => []NoLostWakeup
<1> QED
  BY ServiceInvariant, SleepersWakeInTime, PTL

\* A reported timeout hides neither a message nor a turn nor an end.
THEOREM TimeoutsAreHonest == ServiceSpec => TimeoutHidesNothing
<1>1. ServiceInv /\ [ServiceNext]_serviceVars => TellsTheTruth
  BY ServiceStepKeeps DEF Kept
<1> QED
  BY <1>1, ServiceInvariant, PTL DEF ServiceSpec, TimeoutHidesNothing, TellsTheTruth

\* The service adds nothing to the store: each of its runs is a run of the
\* store, so that whatever is proved of the store holds behind the service.
THEOREM ServiceImplementsStore == ServiceSpec => Spec
<1>1. ServiceInit => Init
  BY DEF ServiceInit
<1>2. ServiceInv /\ [ServiceNext]_serviceVars => [Next]_storeVars
  BY ServiceStepIsStoreStep
<1> QED
  BY <1>1, <1>2, ServiceInvariant, PTL DEF ServiceSpec, Spec

=============================================================================
