------------------------------ MODULE DebateStore ------------------------------
(***************************************************************************)
(* The durable state machine of one Debate (src/src/debate/store.ts):      *)
(* a creator and a joiner take turns under persisted pickup and response   *)
(* deadlines.  Debates share no row, so one Debate is modelled.            *)
(*                                                                         *)
(* Every store method runs in one BEGIN IMMEDIATE transaction that is      *)
(* rolled back when the method throws (store.ts 608-622): a committed call *)
(* is one action, and a call that throws is no action, so it also undoes   *)
(* the expiry it may have recorded on its way.                             *)
(***************************************************************************)
EXTENDS Integers, Sequences, FiniteSets

CONSTANTS
  Connections,      \* authenticated connections that may call
  TurnLimits,       \* the maxTurns a creator may ask for
  MessageIds,       \* clientMessageId values
  Payloads,         \* message contents (their hash is the content itself)
  PickupTimeout,    \* clock units a turn may stay unread
  ResponseTimeout,  \* clock units a read turn may stay unanswered
  MaxTime           \* bound on the clock

\* MIN_DEBATE_TURNS; the upper limit 64 is a bound nothing relies on.
ASSUME TurnLimitsAssumption == TurnLimits \subseteq Nat /\ \A n \in TurnLimits : n >= 3
ASSUME TimeoutsAssumption ==
  /\ PickupTimeout \in Nat \ {0}
  /\ ResponseTimeout \in Nat \ {0}
  /\ MaxTime \in Nat

Roles == {"creator", "joiner"}   \* a participant is named by its role
NoOne == "nobody"                \* current_participant_id IS NULL
Never == 0                       \* a deadline that IS NULL; the clock starts at 1
NoConnection == "no-connection"

ASSUME ConnectionsAssumption == NoConnection \notin Connections

Statuses == {"absent", "waiting", "active", "paused_timeout", "stopped",
             "completed", "deleted"}
PauseReasons == {"none", "pickup_timeout", "response_timeout"}

VARIABLES
  now,       \* the wall clock the service passes in as nowMs
  debate,    \* the row of table debates
  member,    \* connection_id of each participant row, by role
  messages,  \* the rows of table messages, by sequence
  answers    \* history: the row each committed send returned

storeVars == <<now, debate, member, messages, answers>>

-----------------------------------------------------------------------------
(* The row and its helpers.  A definition whose name starts with X is a    *)
(* faulty variant of the one it precedes; no specification uses it.        *)

NoDebate == [status |-> "absent", sequence |-> 0, completedTurns |-> 0,
             maxTurns |-> 0, finalizer |-> "creator", current |-> NoOne,
             acked |-> FALSE, pickup |-> Never, response |-> Never,
             pauseReason |-> "none"]

PickupDue(d, t) ==
  /\ d.status = "active" /\ ~d.acked
  /\ d.pickup # Never /\ t >= d.pickup

ResponseDue(d, t) ==
  /\ d.status = "active" /\ d.acked
  /\ d.response # Never /\ t >= d.response

\* A turn left past its deadline pauses the debate; the turn stays assigned.
ExpireIfDue(d, t) ==
  IF PickupDue(d, t)
  THEN [d EXCEPT !.status = "paused_timeout", !.pauseReason = "pickup_timeout"]
  ELSE IF ResponseDue(d, t)
  THEN [d EXCEPT !.status = "paused_timeout", !.pauseReason = "response_timeout"]
  ELSE d

\* The row as every method sees it after its own expireIfDue.
Seen == ExpireIfDue(debate, now)

Exists == debate.status \notin {"absent", "deleted"}

VerifyMembership(p, c) == Exists /\ member[p] = c

OtherRole(p) == IF p = "creator" THEN "joiner" ELSE "creator"

XNextParticipant(d, p, completed) == OtherRole(p)

\* The turn before the last hands over to the finalizer, whoever just spoke.
NextParticipant(d, p, completed) ==
  IF completed = d.maxTurns - 1 THEN d.finalizer ELSE OtherRole(p)

XMayWriteAnyone(d, p) == d.status = "active" /\ d.acked /\ d.response # Never

MayWrite(d, p) ==
  /\ d.status = "active" /\ d.current = p
  /\ d.acked /\ d.response # Never

\* The messages that used a clientMessageId.
Recorded(p, id) ==
  {i \in 1..Len(messages) : messages[i].author = p /\ messages[i].id = id}

XAnswerFromRow(i) == debate

\* The row a replayed send answers with, rebuilt from the stored message.
ReplayAnswer(i) ==
  LET m == messages[i] IN
  [debate EXCEPT !.status = IF m.isFinal THEN "completed" ELSE "active",
                 !.sequence = i, !.completedTurns = i,
                 !.current = m.nextCurrent, !.pickup = m.nextPickup,
                 !.acked = FALSE, !.response = Never, !.pauseReason = "none"]

-----------------------------------------------------------------------------
(* The operations.                                                         *)

Init ==
  /\ now = 1
  /\ debate = NoDebate
  /\ member = [p \in Roles |-> NoConnection]
  /\ messages = <<>>
  /\ answers = <<>>

Create(c, n, f) ==
  /\ debate.status = "absent"
  /\ debate' = [NoDebate EXCEPT !.status = "waiting", !.maxTurns = n, !.finalizer = f]
  /\ member' = [member EXCEPT !["creator"] = c]
  /\ UNCHANGED <<now, messages, answers>>

Join(c) ==
  /\ debate.status = "waiting"
  /\ member["creator"] # c
  /\ debate' = [debate EXCEPT !.status = "active", !.current = "creator",
                              !.pickup = now + PickupTimeout, !.acked = FALSE,
                              !.response = Never, !.pauseReason = "none"]
  /\ member' = [member EXCEPT !["joiner"] = c]
  /\ UNCHANGED <<now, messages, answers>>

\* readMember: the holder's first read of its turn starts the response clock.
Acknowledged(d, p) ==
  IF d.status = "active" /\ d.current = p /\ ~d.acked
  THEN [d EXCEPT !.acked = TRUE, !.response = now + ResponseTimeout]
  ELSE d

ReadRow(p) == Acknowledged(Seen, p)

Read(p, c) ==
  /\ VerifyMembership(p, c)
  /\ debate' = ReadRow(p)
  /\ UNCHANGED <<now, member, messages, answers>>

\* A send of a new clientMessageId that commits.
Send(p, c, id, content, expected) ==
  LET completed == debate.completedTurns + 1
      isFinal   == completed = debate.maxTurns
      next      == IF isFinal THEN NoOne ELSE NextParticipant(debate, p, completed)
      pickup    == IF isFinal THEN Never ELSE now + PickupTimeout
  IN
  /\ VerifyMembership(p, c)
  /\ Recorded(p, id) = {}
  /\ MayWrite(Seen, p)
  /\ expected = debate.sequence
  /\ isFinal => p = debate.finalizer
  /\ messages' = Append(messages,
       [author |-> p, id |-> id, content |-> content, isFinal |-> isFinal,
        nextCurrent |-> next, nextPickup |-> pickup])
  /\ debate' = [debate EXCEPT
       !.status = IF isFinal THEN "completed" ELSE "active",
       !.sequence = @ + 1, !.completedTurns = completed,
       !.current = next, !.pickup = pickup,
       !.acked = FALSE, !.response = Never, !.pauseReason = "none"]
  /\ answers' = Append(answers, debate')
  /\ UNCHANGED <<now, member>>

\* A send whose clientMessageId and payload are already stored answers from
\* the message; the expiry it recorded on the way commits with it.
SendReplay(p, c, id, content, expected) ==
  /\ VerifyMembership(p, c)
  /\ \E i \in Recorded(p, id) : messages[i].content = content /\ expected = i - 1
  /\ debate' = Seen
  /\ UNCHANGED <<now, member, messages, answers>>

Stopped(d) ==
  IF d.status = "stopped" THEN d
  ELSE [d EXCEPT !.status = "stopped", !.current = NoOne, !.pickup = Never,
                 !.acked = FALSE, !.response = Never, !.pauseReason = "none"]

StopMember(p, c) ==
  /\ VerifyMembership(p, c)
  /\ Seen.status # "completed"
  /\ debate' = Stopped(Seen)
  /\ UNCHANGED <<now, member, messages, answers>>

\* ownerRead, and ownerList for this debate.
OwnerRead ==
  /\ Exists
  /\ debate' = Seen
  /\ UNCHANGED <<now, member, messages, answers>>

OwnerStop ==
  /\ Exists
  /\ Seen.status # "completed"
  /\ debate' = Stopped(Seen)
  /\ UNCHANGED <<now, member, messages, answers>>

\* Participants and messages cascade from the debate row.
OwnerDelete ==
  /\ Exists
  /\ Seen.status # "active"
  /\ debate' = [NoDebate EXCEPT !.status = "deleted"]
  /\ member' = [p \in Roles |-> NoConnection]
  /\ messages' = <<>>
  /\ answers' = <<>>
  /\ UNCHANGED now

OwnerResume ==
  /\ Exists
  /\ Seen.status = "paused_timeout" /\ Seen.current # NoOne
  /\ debate' = [Seen EXCEPT !.status = "active", !.pickup = now + PickupTimeout,
                            !.acked = FALSE, !.response = Never,
                            !.pauseReason = "none"]
  /\ UNCHANGED <<now, member, messages, answers>>

Tick ==
  /\ now < MaxTime
  /\ now' = now + 1
  /\ UNCHANGED <<debate, member, messages, answers>>

Next ==
  \/ \E c \in Connections, n \in TurnLimits, f \in Roles : Create(c, n, f)
  \/ \E c \in Connections : Join(c)
  \/ \E p \in Roles, c \in Connections :
       \/ Read(p, c)
       \/ \E id \in MessageIds, content \in Payloads, expected \in 0..Len(messages) :
            \/ Send(p, c, id, content, expected)
            \/ SendReplay(p, c, id, content, expected)
       \/ StopMember(p, c)
  \/ OwnerRead
  \/ OwnerStop
  \/ OwnerDelete
  \/ OwnerResume
  \/ Tick

Spec == Init /\ [][Next]_storeVars

-----------------------------------------------------------------------------
(* What must hold of every Debate.                                         *)

Row == [status : Statuses, sequence : Nat, completedTurns : Nat,
        maxTurns : TurnLimits \cup {0}, finalizer : Roles,
        current : Roles \cup {NoOne}, acked : BOOLEAN,
        pickup : Nat, response : Nat, pauseReason : PauseReasons]

MessageRow == [author : Roles, id : MessageIds, content : Payloads,
               isFinal : BOOLEAN, nextCurrent : Roles \cup {NoOne},
               nextPickup : Nat]

\* Every row stays inside the columns' domains.
TypeOK ==
  /\ now \in Nat \ {0}
  /\ debate \in Row
  /\ member \in [Roles -> Connections \cup {NoConnection}]
  /\ messages \in Seq(MessageRow)
  /\ answers \in Seq(Row)

\* Who has to write message i of a debate with limit n and finalizer f: the
\* creator opens, the sides alternate, and the last turn is the finalizer's,
\* even when that gives one participant two turns in a row.
AuthorDue(i, n, f) ==
  IF i = n THEN f ELSE IF i % 2 = 1 THEN "creator" ELSE "joiner"

\* While a debate runs or is paused, its counters count the stored messages
\* and the participant whose turn the row records is the one the transcript
\* calls for: no pause, resume, expiry, retry or replay loses a turn or passes
\* it on (send, store.ts 338-352 and 378-408; ownerResume 510-534).
TurnIsNeverLost ==
  debate.status \in {"active", "paused_timeout"} =>
    /\ debate.sequence = Len(messages)
    /\ debate.completedTurns = Len(messages)
    /\ debate.current = AuthorDue(Len(messages) + 1, debate.maxTurns, debate.finalizer)

\* A send retried at any later moment - after the other side answered, after
\* a pause, a resume or a stop - is answered with the row the original send
\* returned (#snapshotForSendReplay 724-743).
ReplayRepeatsAnswer ==
  /\ Len(answers) = Len(messages)
  /\ \A i \in 1..Len(messages) : ReplayAnswer(i) = answers[i]

\* A message is stored only from the holder of the turn, after it read the
\* turn and before its response deadline, however late the send arrives and
\* whether or not the expiry has been recorded.
SendsAreTimely ==
  [][Len(messages') > Len(messages) =>
       /\ debate.status = "active" /\ debate.acked
       /\ now < debate.response
       /\ messages'[Len(messages')].author = debate.current]_storeVars

\* A participant that has read its turn keeps its response deadline until it
\* sends, the debate pauses or someone ends it: neither reading again nor an
\* owner's action extends or shortens the clock of a live turn.
ResponseClockIsFixed ==
  [][(/\ debate.status = "active" /\ debate.acked /\ now < debate.response
      /\ debate'.status = "active" /\ Len(messages') = Len(messages)) =>
       debate'.acked /\ debate'.response = debate.response]_storeVars

=============================================================================
