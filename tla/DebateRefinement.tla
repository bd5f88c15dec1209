--------------------------- MODULE DebateRefinement ---------------------------
(***************************************************************************)
(* The store implements DebateProtocol.  The abstract phase is the status  *)
(* the row has once its expiry is recorded, not the status stored: a turn  *)
(* past its deadline is on hold from that instant on, whether or not a     *)
(* transaction has said so yet, so that the expiries the store records     *)
(* lazily, or rolls back with a refused call, cannot be observed.          *)
(***************************************************************************)
EXTENDS DebateStore

Authors == [i \in 1..Len(messages) |-> messages[i].author]

Protocol == INSTANCE DebateProtocol WITH
  Limits <- TurnLimits,
  phase <- Seen.status,
  transcript <- Authors,
  limit <- debate.maxTurns,
  finalizer <- debate.finalizer

\* Every run of the store is a run of the protocol: each committed call is one
\* protocol step or none, and the passing of a deadline is the step Hold.
ImplementsProtocol == Protocol!Spec

=============================================================================
