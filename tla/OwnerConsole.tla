------------------------------ MODULE OwnerConsole ------------------------------
(* The owner's surfaces: who gets in, what the providers' changes do once somebody   *)
(* is in, the start of a gateway that lets the owner in at all, and the record of    *)
(* what is done with its service.                                                   *)
(*                                                                                  *)
(* An admitted request to change a provider reads and writes nothing more of the    *)
(* sessions, a start is over before the first request, and the record is a file of  *)
(* its own: a behaviour is one of the four, and they are not multiplied with each   *)
(* other.                                                                           *)
EXTENDS ProviderSaga, OwnerAccess, OperationLedger

VARIABLE part   \* "access", "start", "providers" or "ledger"

ownerVars == <<sagaVars, accessVars, ledgerVars, part>>

OwnerTypeOK == SagaTypeOK /\ AccessTypeOK /\ LedgerTypeOK

OwnerInit ==
  /\ SagaInit /\ AccessInit /\ LedgerInit
  /\ part \in {"access", "start", "providers", "ledger"}
  /\ part # "access" => door = "console"
  /\ part # "providers" => stored = [p \in Providers |-> Missing]

OwnerNext ==
  \/ part = "access" /\ AccessNext /\ UNCHANGED <<sagaVars, ledgerVars, part>>
  \/ part = "start" /\ StartNext /\ UNCHANGED <<sagaVars, ledgerVars, part>>
  \/ part = "providers" /\ SagaNext /\ UNCHANGED <<accessVars, ledgerVars, part>>
  \/ part = "ledger" /\ LedgerNext /\ UNCHANGED <<sagaVars, accessVars, part>>

OwnerSpec == OwnerInit /\ [][OwnerNext]_ownerVars
=============================================================================
