------------------------------- MODULE CodingMC -------------------------------
(* Bounds for TLC: one client in two tool calls at once, two tokens, one path.    *)
EXTENDS CodingSession, TLC

CONSTANTS c1, t1, t2, s1, s2, f

Symmetry == Permutations({t1, t2}) \cup Permutations({s1, s2})
=============================================================================
