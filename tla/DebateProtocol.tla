---------------------------- MODULE DebateProtocol ----------------------------
(***************************************************************************)
(* What a Debate promises, without clocks, rows, retries or connections:   *)
(* two sides speak in a fixed order until the limit is reached; the talk   *)
(* may be put on hold and released without changing whose turn it is; it   *)
(* may be closed early; and it is removed only while nobody is due to      *)
(* speak.                                                                  *)
(***************************************************************************)
EXTENDS Naturals, Sequences

CONSTANT Limits   \* how many turns a debate may be opened for

Sides == {"creator", "joiner"}

VARIABLES phase, transcript, limit, finalizer

protocolVars == <<phase, transcript, limit, finalizer>>

\* Who speaks turn i.
Due(i) ==
  IF i = limit THEN finalizer ELSE IF i % 2 = 1 THEN "creator" ELSE "joiner"

Init ==
  /\ phase = "absent"
  /\ transcript = <<>>
  /\ limit = 0
  /\ finalizer = "creator"

Open(n, f) ==
  /\ phase = "absent"
  /\ phase' = "waiting"
  /\ limit' = n
  /\ finalizer' = f
  /\ UNCHANGED transcript

Meet ==
  /\ phase = "waiting"
  /\ phase' = "active"
  /\ UNCHANGED <<transcript, limit, finalizer>>

Speak ==
  /\ phase = "active"
  /\ transcript' = Append(transcript, Due(Len(transcript) + 1))
  /\ phase' = IF Len(transcript) + 1 = limit THEN "completed" ELSE "active"
  /\ UNCHANGED <<limit, finalizer>>

Hold ==
  /\ phase = "active"
  /\ phase' = "paused_timeout"
  /\ UNCHANGED <<transcript, limit, finalizer>>

Release ==
  /\ phase = "paused_timeout"
  /\ phase' = "active"
  /\ UNCHANGED <<transcript, limit, finalizer>>

Close ==
  /\ phase \in {"waiting", "active", "paused_timeout"}
  /\ phase' = "stopped"
  /\ UNCHANGED <<transcript, limit, finalizer>>

Remove ==
  /\ phase \in {"waiting", "paused_timeout", "stopped", "completed"}
  /\ phase' = "deleted"
  /\ transcript' = <<>>
  /\ limit' = 0
  /\ finalizer' = "creator"

Next ==
  \/ \E n \in Limits, f \in Sides : Open(n, f)
  \/ Meet
  \/ Speak
  \/ Hold
  \/ Release
  \/ Close
  \/ Remove

Spec == Init /\ [][Next]_protocolVars

=============================================================================
