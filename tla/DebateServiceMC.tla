---------------------------- MODULE DebateServiceMC ----------------------------
(* Bounds for TLC: two waits at once on a three-turn debate, over a clock    *)
(* long enough for a wait to outlive a deadline.  Liveness rules out a       *)
(* SYMMETRY declaration, so the symmetry of the connections is used by hand: *)
(* c1 creates.  The finalizer makes no difference to a wait and is fixed.    *)
EXTENDS DebateService

CONSTANTS c1, c2, w1, w2, a, x

ByFirstConnection ==
  debate.status = "absent" =>
    member'["creator"] \in {NoConnection, c1} /\ debate'.finalizer = "creator"


=============================================================================
