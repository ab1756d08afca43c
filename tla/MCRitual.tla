------------------------------- MODULE MCRitual -------------------------------
(* Small instances of Ritual: one client, two deliveries at a time. *)
EXTENDS Ritual

CONSTANTS d1, d2, c1
=============================================================================
