------------------------------ MODULE ClaimBoard ------------------------------
(***************************************************************************)
(* What coordination tasks promise: a board of items that are offered,     *)
(* taken by one client at a time and closed once.  An item leaves the      *)
(* board only after it was closed, and only while the board is open are    *)
(* items offered, taken, returned or finished; withdrawing is always left  *)
(* to the one who offered it.                                              *)
(***************************************************************************)
EXTENDS Naturals, Sequences

CONSTANTS People, Nobody

VARIABLES open, board

boardVars == <<open, board>>

BoardInit == open = TRUE /\ board = <<>>

Discarded(item) == [item EXCEPT !.on = FALSE]

\* Items that were closed may be cleared away whenever somebody offers one.
Cleared(old) ==
  \A j \in 1..Len(board) :
    old[j] = board[j] \/ (board[j].status = "closed" /\ old[j] = Discarded(board[j]))

Offer(p) ==
  /\ open
  /\ \E item \in [owner : {p}, status : {"offered"}, taker : {Nobody}, on : {TRUE}] :
       /\ Len(board') = Len(board) + 1
       /\ board'[Len(board) + 1] = item
  /\ Cleared(board')
  /\ UNCHANGED open

Clear == Len(board') = Len(board) /\ Cleared(board') /\ UNCHANGED open

Take(p, j) ==
  /\ open /\ board[j].status = "offered"
  /\ board' = [board EXCEPT ![j].status = "taken", ![j].taker = p]
  /\ UNCHANGED open

Return(p, j) ==
  /\ open /\ board[j].status = "taken" /\ board[j].taker = p
  /\ board' = [board EXCEPT ![j].status = "offered", ![j].taker = Nobody]
  /\ UNCHANGED open

Finish(p, j) ==
  /\ open /\ board[j].status = "taken" /\ board[j].taker = p
  /\ board' = [board EXCEPT ![j].status = "closed"]
  /\ UNCHANGED open

Withdraw(p, j) ==
  /\ board[j].status # "closed" /\ board[j].owner = p
  /\ board' = [board EXCEPT ![j].status = "closed"]
  /\ UNCHANGED open

Close == open' = FALSE /\ UNCHANGED board

BoardNext ==
  \/ \E p \in People :
       \/ Offer(p)
       \/ \E j \in 1..Len(board) :
            board[j].on /\ (Take(p, j) \/ Return(p, j) \/ Finish(p, j) \/ Withdraw(p, j))
  \/ Clear
  \/ Close

BoardSpec == BoardInit /\ [][BoardNext]_boardVars

=============================================================================
