------------------------------- MODULE DebateMC -------------------------------
(* Bounds for TLC: both limits a short debate can have around the parity of *)
(* the finalizer, and a clock that lets every deadline pass once and be     *)
(* renewed once.                                                            *)
EXTENDS DebateRefinement, TLC

CONSTANTS c1, c2, a, b, d, x

ConnectionSymmetry == Permutations({c1, c2})
=============================================================================
