------------------------------- MODULE MCVigil -------------------------------
(* Constants of Vigil for TLC. *)
EXTENDS Vigil

CONSTANTS o1, o2, o3, t1, t2
=============================================================================
