------------------------------ MODULE ProviderMC ------------------------------
(* Bounds for TLC: three calls, so that one is active, one queued and one    *)
(* overflows the queue.                                                      *)
EXTENDS Provider

CONSTANTS c1, c2, c3
=============================================================================
