------------------------ MODULE TransactionalConfig ------------------------
(***************************************************************************)
(* What the owner is promised about the configuration of the gateway: a    *)
(* change of one file either takes effect, on disk and in the running      *)
(* gateway, or leaves everything as it was.  The owner is told when        *)
(* neither could be achieved (torn).  A crash may leave the file of the    *)
(* change it interrupted in either state.                                  *)
(***************************************************************************)
CONSTANTS Files, Contents, None

VARIABLES stored, undo, live, torn

cvars == <<stored, undo, live, torn>>

Configs == [Files -> Contents]

CInit ==
    /\ stored \in Configs
    /\ undo = None
    /\ live = stored
    /\ torn = FALSE

(* The policy file keeps one generation to go back to. *)
Commit(f, c) ==
    /\ live # None
    /\ stored' = [stored EXCEPT ![f] = c]
    /\ live' = stored'
    /\ undo' = IF f = "policy" THEN stored["policy"] ELSE undo
    /\ torn' = FALSE

Reload ==
    /\ live # None
    /\ live' = stored
    /\ torn' = FALSE
    /\ UNCHANGED <<stored, undo>>

(* What a change of f to c may leave behind when it is not completed. *)
Interrupted(f, c) ==
    /\ stored' \in {stored, [stored EXCEPT ![f] = c]}
    /\ undo' \in {undo, stored["policy"]}

Tear(f, c) ==
    /\ live # None
    /\ Interrupted(f, c)
    /\ live' \in {live, stored, [stored EXCEPT ![f] = c]}
    /\ torn' = TRUE

Crash ==
    /\ live # None
    /\ \E f \in Files, c \in Contents : Interrupted(f, c)
    /\ live' = None
    /\ torn' = FALSE

Boot ==
    /\ live = None
    /\ live' = stored
    /\ UNCHANGED <<stored, undo, torn>>

CNext ==
    \/ \E f \in Files, c \in Contents : Commit(f, c) \/ Tear(f, c)
    \/ Reload
    \/ Crash
    \/ Boot

CSpec == CInit /\ [][CNext]_cvars
=============================================================================
