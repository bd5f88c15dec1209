-------------------------------- MODULE TaskMC --------------------------------
EXTENDS TaskRefinement, TLC

(* Two requests in flight over two running tasks, one after the other in a  *)
(* map of one; one work item more than the map may hold.                          *)
CONSTANTS c1, c2, w1, w2, k1, k2

\* Two clients of one workspace, and one of them in another workspace too.
ThreeActors == {[client |-> c1, workspace |-> w1], [client |-> c2, workspace |-> w1],
                [client |-> c2, workspace |-> w2]}

OneActor == {[client |-> c1, workspace |-> w1]}

CallSymmetry == Permutations({k1, k2})

\* Runner and coordination tasks share only the shutdown: each kind is explored
\* without the other.
OneKind == runner = <<>> \/ work = <<>>
=============================================================================
