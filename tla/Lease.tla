------------------------------- MODULE Lease -------------------------------
(* What a Bond promises to those who use it (domain/ports/bond.go): at most *)
(* one process holds a key, for as long as it renews it and never beyond    *)
(* its ttl, and nobody takes a key that is held.                            *)
EXTENDS Naturals

CONSTANTS Process, Key, TTL

VARIABLES
    holders,  \* holders[k]: the process that holds k, if any
    left      \* left[k]: what is left of its ttl

Free ==
    holders = [k \in Key |-> {}] /\ left = [k \in Key |-> 0]

\* AcquireLock answers true.
Grant(p, k) ==
    /\ holders[k] = {}
    /\ holders' = [holders EXCEPT ![k] = {p}] /\ left' = [left EXCEPT ![k] = TTL]

\* ExtendLock: the holder's own.
Renew(k) ==
    /\ holders[k] # {}
    /\ left' = [left EXCEPT ![k] = TTL] /\ UNCHANGED holders

\* ReleaseLock
Return(k) ==
    holders' = [holders EXCEPT ![k] = {}] /\ left' = [left EXCEPT ![k] = 0]

\* A tick of the clock: what has one tick left is free.
Elapse ==
    /\ left' = [k \in Key |-> IF left[k] > 1 THEN left[k] - 1 ELSE 0]
    /\ holders' = [k \in Key |-> IF left[k] > 1 THEN holders[k] ELSE {}]

Granting ==
    \/ \E k \in Key : Renew(k) \/ Return(k) \/ \E p \in Process : Grant(p, k)
    \/ Elapse

LeaseSpec == Free /\ [][Granting]_<<holders, left>>
=============================================================================
