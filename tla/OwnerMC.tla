-------------------------------- MODULE OwnerMC --------------------------------
(* Bounds for TLC: two calls over two providers, which may share a credential, with  *)
(* a fresh reference for each; two requests, a session, a host token beyond the      *)
(* most, a limit of one, a clock that passes every lifetime and is set back once;    *)
(* two processes that start.                                                         *)
EXTENDS OwnerConsole, TLC

CONSTANTS p1, p2, r1, r2, r3, i1, i2, s1, t1, t2, q1, q2, g1, g2, x1, x2

Symmetry == Permutations({p1, p2}) \cup Permutations({r1, r2, r3}) \cup Permutations({i1, i2})
=============================================================================
