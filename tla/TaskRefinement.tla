---------------------------- MODULE TaskRefinement ----------------------------
(* The coordination tasks of the runtime implement the board of claims.    *)
EXTENDS TaskRuntime

BoardStatus(state) ==
  CASE state = "available" -> "offered"
    [] state = "claimed" -> "taken"
    [] OTHER -> "closed"

\* A finished task's claimant and rank are bookkeeping the board does not have.
BoardItem(w) ==
  [owner |-> w.creator.client, status |-> BoardStatus(w.state),
   taker |-> w.claimedBy, on |-> w.kept]

Board == INSTANCE ClaimBoard WITH
  People <- Clients, Nobody <- NoClient, open <- accepting,
  board <- [j \in Items |-> BoardItem(work[j])]

\* The claims of clients, in any order with prunings and a shutdown, are those
\* of the board: one claimant at a time, who alone finishes or returns the
\* task; nothing unfinished is ever dropped to make room.
ImplementsClaimBoard == Board!BoardSpec

=============================================================================
