---------------------------- MODULE MCHealthWait ----------------------------
(* Small instances of HealthWait. *)
EXTENDS HealthWait

CONSTANTS alice, bob
=============================================================================
