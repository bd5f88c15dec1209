------------------------------ MODULE PolicyMC ------------------------------
(* Two requests, so that a lease can outlive another one of its generation,   *)
(* and two mutations, one waiting for the other, with a direct reload, a crash *)
(* and a second start.  No symmetry: the run checks a liveness property.      *)
EXTENDS PolicyStore

CONSTANTS r1, r2, m1, m2, c1, c2

MCRequests == {r1, r2}
MCMutations == {m1, m2}
MCContents == {c1, c2}
MCInitialConfigs == {[f \in Files |-> c1]}
=============================================================================
