------------------------------ MODULE ReleasesMC ------------------------------
(* Bounds for TLC: two versions, one without a build commit; two accounts; *)
(* two commands, which may overlap until they have planned.  While they    *)
(* overlap, only they act.                                                 *)
EXTENDS Releases, TLC

CONSTANTS c1, c2, a, b

TwoAccounts ==
  {[account |-> a, text |-> "1"], [account |-> b, text |-> "1"]}

\* One freshly set up, one updated.
TwoProducts ==
  {[version |-> "v1", previous |-> NoVersion], [version |-> "v2", previous |-> "v1"]}

Early == {"install", "staged", "resolve", "activate", "clean", "cleaned", "plan"}

Overlap ==
  (\A c \in Commands : InFlight(c)') =>
    /\ \E c \in Commands : cmd'[c].stage # cmd[c].stage
    /\ \A c \in Commands :
         /\ cmd'[c].stage \in Early
         /\ cmd'[c].kind \in {"update", "repair"}
    /\ cmd'[c1].want = cmd'[c2].want

\* How an ended command ended decides nothing that follows.
Essence ==
  <<installed, staging, host, registered, begun, found,
    [c \in Commands |-> IF InFlight(c) THEN cmd[c] ELSE NoCommand]>>

CommandSymmetry == Permutations({c1, c2}) \cup Permutations({a, b})
=============================================================================
