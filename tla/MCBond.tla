------------------------------- MODULE MCBond -------------------------------
(* The small instance of Bond: three turns for one key, two of them in one process. *)
EXTENDS Bond, TLC

CONSTANTS p1, p2, t1, t2, t3, k1

MCHome  == t1 :> p1 @@ t2 :> p1 @@ t3 :> p2
MCKeyOf == t1 :> k1 @@ t2 :> k1 @@ t3 :> k1
=============================================================================
