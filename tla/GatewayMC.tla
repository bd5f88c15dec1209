------------------------------- MODULE GatewayMC -------------------------------
(* Bounds for TLC: two exchanges at once, one OAuth client and a Host Token.  The *)
(* first slot takes the tools that tell the handlers apart, the second one keeps  *)
(* provider calls beside them.                                                    *)
EXTENDS Gateway, TLC

CONSTANTS c1, s1, s2

MCCalls == (s1 :> {"core.exec", "context.bootstrap", "connection.restrict"})
        @@ (s2 :> {"provider"})
=============================================================================
