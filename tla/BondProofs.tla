----------------------------- MODULE BondProofs -----------------------------
(***************************************************************************)
(* Theorems about Bond, for every set of processes, turns and keys and     *)
(* every TTL.                                                              *)
(*                                                                         *)
(* Two invariants carry them.  Attributed says whose turns the values kept *)
(* in Redis and in the maps can be: it is what makes ReleaseLock and       *)
(* ExtendLock, which act by key, harmless across processes.  Leased says   *)
(* that, while no turn outlived its lease, the value in Redis is that of   *)
(* the turn at work and a map holds only turns at work, so that an entry   *)
(* taken out by key is the caller's own.                                   *)
(***************************************************************************)
EXTENDS Bond, TLAPS

USE HomeAssumption, KeyOfAssumption, TTLAssumption, NoneAssumption

Owning(t) == Working(t) \/ pc[t] = "store"

\* Values stay with their key; map entries, and what was read from a map, with their process.
RedisAttributed == \A k \in Key : redis[k].turn # None => KeyOf[redis[k].turn] = k
MapsAttributed ==
    /\ \A p \in Process, k \in Key : entries[p][k].turn # None
         => Home[entries[p][k].turn] = p /\ KeyOf[entries[p][k].turn] = k
    /\ \A t \in Turn : released[t] # None
         => Home[released[t]] = Home[t] /\ KeyOf[released[t]] = KeyOf[t]
    /\ \A t \in Turn : hbEntry[t] # None
         => Home[hbEntry[t]] = Home[t] /\ KeyOf[hbEntry[t]] = KeyOf[t]
Attributed == RedisAttributed /\ MapsAttributed

OwnersHoldRedis == \A t \in Turn : Owning(t) => redis[KeyOf[t]].turn = t
EntriesWork == \A p \in Process, k \in Key :
                 entries[p][k].turn # None => Working(entries[p][k].turn)
ReleasesOwn == \A t \in Turn : pc[t] = "unlock" => released[t] = t

Leased == overrun = {} => OwnersHoldRedis /\ EntriesWork /\ ReleasesOwn

-----------------------------------------------------------------------------
\* Every variable of Bond keeps its type.
THEOREM TypeCorrect == Spec => []TypeOK
<1>1. Init => TypeOK
  BY DEF Init, TypeOK, Slot, Empty
<1>2. TypeOK /\ [Next]_vars => TypeOK'
  <2> SUFFICES ASSUME TypeOK, [Next]_vars PROVE TypeOK'
    OBVIOUS
  <2> USE DEF TypeOK, Slot
  <2>1. ASSUME NEW t \in Turn, Acquire(t) PROVE TypeOK'
    <3>1. CASE Reap(t)
      BY <3>1 DEF Reap, Empty
    <3>2. CASE LockTaken(t)
      BY <3>2 DEF LockTaken
    <3>3. CASE LockFree(t)
      BY <3>3 DEF LockFree, Lease
    <3>4. CASE StoreEntry(t)
      BY <3>4 DEF StoreEntry, Lease
    <3> QED
      BY <2>1, <3>1, <3>2, <3>3, <3>4 DEF Acquire
  <2>2. ASSUME NEW t \in Turn, Release(t) PROVE TypeOK'
    <3>1. CASE ReleaseEntry(t)
      BY <3>1 DEF ReleaseEntry, Entry, Empty
    <3>2. CASE Unlock(t)
      BY <3>2 DEF Unlock, Empty
    <3> QED
      BY <2>2, <3>1, <3>2 DEF Release
  <2>3. ASSUME NEW t \in Turn, Reason(t) PROVE TypeOK'
    BY <2>3 DEF Reason, BeginReasoning, EndReasoning
  <2>4. ASSUME NEW t \in Turn, Heartbeat(t) PROVE TypeOK'
    <3>1. CASE HeartbeatStop(t)
      BY <3>1 DEF HeartbeatStop
    <3>2. CASE ExtendRead(t)
      BY <3>2 DEF ExtendRead, Entry
    <3>3. CASE ExtendTouch(t)
      <4>1. Lease(hbEntry[t]) \in Slot
        BY DEF Lease
      <4>2. redis' \in [Key -> Slot]
        BY <3>3, <4>1 DEF ExtendTouch
      <4> QED
        BY <3>3, <4>2 DEF ExtendTouch
    <3>4. CASE ExtendCommit(t)
      BY <3>4 DEF ExtendCommit, Lease
    <3> QED
      BY <2>4, <3>1, <3>2, <3>3, <3>4 DEF Heartbeat
  <2>5. ASSUME NEW t \in Turn, Fault(t) PROVE TypeOK'
    <3>1. CASE LockError(t)
      BY <3>1 DEF LockError, Lease
    <3>2. CASE ExtendError(t)
      <4>1. Lease(hbEntry[t]) \in Slot
        BY DEF Lease
      <4>2. redis' \in [Key -> Slot]
        BY <3>2, <4>1 DEF ExtendError
      <4> QED
        BY <3>2, <4>2 DEF ExtendError
    <3>3. CASE UnlockError(t)
      BY <3>3 DEF UnlockError
    <3> QED
      BY <2>5, <3>1, <3>2, <3>3 DEF Fault
  <2>6. CASE Tick
    <3>1. \A s \in Slot : Aged(s) \in Slot
      BY DEF Aged
    <3>2. Empty \in Slot
      BY DEF Empty
    <3>3. redis' \in [Key -> Slot]
      BY <2>6, <3>1, <3>2 DEF Tick, Expire
    <3>4. entries' \in [Process -> [Key -> Slot]]
      BY <2>6, <3>1 DEF Tick, Expire
    <3> QED
      BY <2>6, <3>3, <3>4 DEF Tick, Expire
  <2>7. ASSUME NEW p \in Process, Crash(p) PROVE TypeOK'
    BY <2>7 DEF Crash, Empty
  <2>8. CASE UNCHANGED vars
    BY <2>8 DEF vars
  <2> QED
    BY <2>1, <2>2, <2>3, <2>4, <2>5, <2>6, <2>7, <2>8 DEF Next
<1> QED
  BY <1>1, <1>2, PTL DEF Spec

-----------------------------------------------------------------------------
LEMMA AttributedInductive ==
  ASSUME TypeOK, Attributed, [Next]_vars
  PROVE  Attributed'
<1> USE DEF TypeOK, Slot
\* No action gives a key of Redis a value of another key.
<1>1. RedisAttributed'
  <2> USE DEF Attributed, RedisAttributed
  <2>1. ASSUME NEW t \in Turn, LockFree(t) \/ LockError(t) PROVE RedisAttributed'
    <3>1. \A k \in Key : redis'[k].turn = redis[k].turn \/ (k = KeyOf[t] /\ redis'[k].turn = t)
      BY <2>1 DEF LockFree, LockError, Lease
    <3> QED
      BY <3>1
  <2>2. ASSUME NEW t \in Turn, ExtendTouch(t) \/ ExtendError(t) PROVE RedisAttributed'
    <3>1. ASSUME NEW k \in Key PROVE redis'[k].turn = redis[k].turn
      <4>1. CASE UNCHANGED redis
        BY <4>1
      <4>2. CASE /\ redis[KeyOf[t]].turn = hbEntry[t]
                 /\ redis' = [redis EXCEPT ![KeyOf[t]] = Lease(hbEntry[t])]
        <5>1. redis'[k] = IF k = KeyOf[t] THEN Lease(hbEntry[t]) ELSE redis[k]
          BY <4>2
        <5>2. Lease(hbEntry[t]).turn = hbEntry[t]
          BY DEF Lease
        <5> QED
          BY <4>2, <5>1, <5>2
      <4> QED
        BY <2>2, <4>1, <4>2 DEF ExtendTouch, ExtendError
    <3> QED
      BY <3>1
  <2>3. ASSUME NEW t \in Turn, Unlock(t) PROVE RedisAttributed'
    BY <2>3 DEF Unlock, Empty
  <2>4. CASE Tick
    BY <2>4 DEF Tick, Expire, Aged, Empty
  <2>5. CASE UNCHANGED redis
    BY <2>5
  <2>6. \/ \E t \in Turn : \/ LockFree(t) \/ LockError(t)
                           \/ ExtendTouch(t) \/ ExtendError(t) \/ Unlock(t)
        \/ Tick
        \/ UNCHANGED redis
    BY DEF Next, vars, Acquire, Release, Reason, Heartbeat, Fault, Reap, LockTaken, StoreEntry,
           BeginReasoning, EndReasoning, HeartbeatStop, ExtendRead, ExtendCommit,
           ReleaseEntry, UnlockError, Crash
  <2> QED
    BY <2>1, <2>2, <2>3, <2>4, <2>5, <2>6
\* What a turn stores in, or takes from, its map is a turn of its process and key.
<1>2. MapsAttributed'
  <2> USE DEF Attributed, MapsAttributed
  <2>1. ASSUME NEW t \in Turn, Reap(t) PROVE MapsAttributed'
    BY <2>1 DEF Reap, Empty
  <2>2. ASSUME NEW t \in Turn, StoreEntry(t) PROVE MapsAttributed'
    BY <2>2 DEF StoreEntry, Lease
  <2>3. ASSUME NEW t \in Turn, ExtendRead(t) PROVE MapsAttributed'
    BY <2>3 DEF ExtendRead, Entry
  <2>4. ASSUME NEW t \in Turn, ExtendCommit(t) PROVE MapsAttributed'
    BY <2>4 DEF ExtendCommit, Entry, Lease
  <2>5. ASSUME NEW t \in Turn, ReleaseEntry(t) PROVE MapsAttributed'
    BY <2>5 DEF ReleaseEntry, Entry, Empty
  <2>6. CASE Tick
    <3>1. \A p \in Process, k \in Key : entries'[p][k].turn = entries[p][k].turn
      BY <2>6 DEF Tick, Expire, Aged
    <3> QED
      BY <2>6, <3>1 DEF Tick, Expire
  <2>7. ASSUME NEW p \in Process, Crash(p) PROVE MapsAttributed'
    <3>1. \A q \in Process, k \in Key :
            entries'[q][k].turn # None => entries'[q][k].turn = entries[q][k].turn
      BY <2>7 DEF Crash, Empty
    <3> QED
      BY <2>7, <3>1 DEF Crash
  <2>8. CASE /\ UNCHANGED entries
             /\ \A t \in Turn : /\ released'[t] \in {released[t], None}
                               /\ hbEntry'[t] \in {hbEntry[t], None}
    BY <2>8
  <2>9. ASSUME NEW t \in Turn, \/ ExtendTouch(t) \/ ExtendError(t) \/ Unlock(t) \/ UnlockError(t)
        PROVE  /\ UNCHANGED entries
               /\ \A u \in Turn : /\ released'[u] \in {released[u], None}
                                 /\ hbEntry'[u] \in {hbEntry[u], None}
    BY <2>9 DEF ExtendTouch, ExtendError, Unlock, UnlockError
  <2>10. \/ \E t \in Turn : \/ Reap(t) \/ StoreEntry(t) \/ ExtendRead(t)
                            \/ ExtendCommit(t) \/ ReleaseEntry(t)
                            \/ ExtendTouch(t) \/ ExtendError(t) \/ Unlock(t) \/ UnlockError(t)
         \/ Tick
         \/ \E p \in Process : Crash(p)
         \/ UNCHANGED <<entries, released, hbEntry>>
    BY DEF Next, vars, Acquire, Release, Reason, Heartbeat, Fault, LockTaken, LockFree,
           LockError, BeginReasoning, EndReasoning, HeartbeatStop
  <2> QED
    BY <2>1, <2>2, <2>3, <2>4, <2>5, <2>6, <2>7, <2>8, <2>9, <2>10
<1> QED
  BY <1>1, <1>2 DEF Attributed

LEMMA AttributedInvariant == Spec => []Attributed
<1>1. Init => Attributed
  BY DEF Init, Attributed, RedisAttributed, MapsAttributed, Empty
<1> QED
  BY <1>1, AttributedInductive, TypeCorrect, PTL DEF Spec

\* Even with leases overrun, ReleaseLock deletes no lock of another process.
THEOREM UnlocksOwn == Spec => UnlocksOwnProcess
<1>1. TypeOK /\ Attributed /\ [Next]_vars =>
        [\A t \in Turn : pc[t] = "unlock" /\ redis'[KeyOf[t]] # redis[KeyOf[t]]
                            /\ pc'[t] = "done" /\ redis[KeyOf[t]].turn # None
            => Home[redis[KeyOf[t]].turn] = Home[t]]_<<pc, redis>>
  <2> SUFFICES ASSUME TypeOK, Attributed, [Next]_vars,
                      NEW t \in Turn, pc[t] = "unlock", pc'[t] = "done",
                      redis'[KeyOf[t]] # redis[KeyOf[t]], redis[KeyOf[t]].turn # None
               PROVE  Home[redis[KeyOf[t]].turn] = Home[t]
    OBVIOUS
  <2> USE DEF TypeOK
  <2>1. Unlock(t)
    BY DEF Next, vars, Acquire, Release, Reason, Heartbeat, Fault, Reap, LockTaken, LockFree,
           LockError, StoreEntry, BeginReasoning, EndReasoning, HeartbeatStop, ExtendRead,
           ExtendTouch, ExtendError, ExtendCommit, ReleaseEntry, Unlock, UnlockError, Tick, Expire, Crash
  <2>2. redis[KeyOf[t]].turn = released[t]
    BY <2>1 DEF Unlock
  <2> QED
    BY <2>2 DEF Attributed, MapsAttributed
<1> QED
  BY <1>1, TypeCorrect, AttributedInvariant, PTL DEF Spec, UnlocksOwnProcess

\* A heartbeat that reached Redis read an entry first.
TouchesEntry == \A t \in Turn : hb[t] = "touch" => hbEntry[t] # None

LEMMA TouchesEntryInvariant == Spec => []TouchesEntry
<1>1. Init => TouchesEntry
  BY DEF Init, TouchesEntry
<1>2. TypeOK /\ TouchesEntry /\ [Next]_vars => TouchesEntry'
  <2> SUFFICES ASSUME TypeOK, TouchesEntry, [Next]_vars PROVE TouchesEntry'
    OBVIOUS
  <2> USE DEF TouchesEntry, TypeOK
  <2>1. ASSUME NEW t \in Turn, Acquire(t) \/ Release(t) \/ LockError(t) \/ UnlockError(t)
        PROVE  TouchesEntry'
    BY <2>1 DEF Acquire, Release, Reap, LockTaken, LockFree, StoreEntry, ReleaseEntry, Unlock,
                LockError, UnlockError
  <2>2. ASSUME NEW t \in Turn, Reason(t) \/ HeartbeatStop(t) PROVE TouchesEntry'
    BY <2>2 DEF Reason, BeginReasoning, EndReasoning, HeartbeatStop
  <2>3. ASSUME NEW t \in Turn, ExtendRead(t) PROVE TouchesEntry'
    BY <2>3 DEF ExtendRead
  <2>4. ASSUME NEW t \in Turn, ExtendTouch(t) \/ ExtendError(t) \/ ExtendCommit(t)
        PROVE  TouchesEntry'
    BY <2>4 DEF ExtendTouch, ExtendError, ExtendCommit
  <2>5. CASE Tick
    BY <2>5 DEF Tick
  <2>6. ASSUME NEW p \in Process, Crash(p) PROVE TouchesEntry'
    BY <2>6 DEF Crash
  <2>7. CASE UNCHANGED vars
    BY <2>7 DEF vars
  <2> QED
    BY <2>1, <2>2, <2>3, <2>4, <2>5, <2>6, <2>7 DEF Next, Heartbeat, Fault
<1> QED
  BY <1>1, <1>2, TypeCorrect, PTL DEF Spec

\* Even with leases overrun, ExtendLock renews no lock of another process.
THEOREM RenewsOwn == Spec => RenewsOwnProcess
<1>1. TypeOK /\ Attributed /\ TouchesEntry /\ [Next]_vars =>
        [\A k \in Key : redis'[k].turn = redis[k].turn /\ redis'[k].ttl > redis[k].ttl
            => \E t \in Turn : /\ hb[t] = "touch" /\ KeyOf[t] = k
                               /\ Home[redis[k].turn] = Home[t]]_redis
  <2> SUFFICES ASSUME TypeOK, Attributed, TouchesEntry, [Next]_vars,
                      NEW k \in Key, redis'[k].turn = redis[k].turn,
                      redis'[k].ttl > redis[k].ttl
               PROVE  \E t \in Turn : /\ hb[t] = "touch" /\ KeyOf[t] = k
                                      /\ Home[redis[k].turn] = Home[t]
    OBVIOUS
  <2> USE DEF TypeOK, Slot
  <2>1. PICK t \in Turn : ExtendTouch(t) \/ ExtendError(t)
    <3>1. ASSUME NEW u \in Turn, LockFree(u) \/ LockError(u), redis' # redis PROVE FALSE
      <4>1. redis[KeyOf[u]].turn = None /\ redis' = [redis EXCEPT ![KeyOf[u]] = Lease(u)]
        BY <3>1 DEF LockFree, LockError
      <4>2. redis'[k] = IF k = KeyOf[u] THEN Lease(u) ELSE redis[k]
        BY <4>1
      <4>3. Lease(u).turn # None
        BY DEF Lease
      <4> QED
        BY <4>1, <4>2, <4>3
    <3>2. ASSUME NEW u \in Turn, Unlock(u) PROVE FALSE
      <4>1. redis'[k] \in {redis[k], Empty}
        BY <3>2 DEF Unlock
      <4> QED
        BY <4>1 DEF Empty
    <3>3. ASSUME Tick PROVE FALSE
      <4>1. redis'[k] \in {Aged(redis[k]), Empty}
        BY <3>3 DEF Tick, Expire
      <4> QED
        BY <4>1 DEF Aged, Empty
    <3>4. redis' # redis
      OBVIOUS
    <3> QED
      BY <3>1, <3>2, <3>3, <3>4
      DEF Next, vars, Acquire, Release, Reason, Heartbeat, Fault, Reap, LockTaken, StoreEntry,
          BeginReasoning, EndReasoning, HeartbeatStop, ExtendRead, ExtendCommit,
          ReleaseEntry, UnlockError, Crash
  <2>2. hb[t] = "touch" /\ KeyOf[t] = k /\ redis[k].turn = hbEntry[t]
    <3>1. /\ hb[t] = "touch"
          /\ \/ UNCHANGED redis
             \/ /\ redis[KeyOf[t]].turn = hbEntry[t]
                /\ redis' = [redis EXCEPT ![KeyOf[t]] = Lease(hbEntry[t])]
      <4>1. CASE ExtendTouch(t)
        BY <4>1 DEF ExtendTouch
      <4>2. CASE ExtendError(t)
        BY <4>2 DEF ExtendError
      <4> QED
        BY <2>1, <4>1, <4>2
    <3>2. redis' = [redis EXCEPT ![KeyOf[t]] = Lease(hbEntry[t])] /\ redis[KeyOf[t]].turn = hbEntry[t]
      BY <3>1
    <3>3. KeyOf[t] = k
      BY <3>2
    <3> QED
      BY <3>1, <3>2, <3>3
  <2>3. Home[redis[k].turn] = Home[t]
    BY <2>2 DEF TouchesEntry, Attributed, MapsAttributed
  <2> QED
    BY <2>2, <2>3
<1> QED
  BY <1>1, TypeCorrect, AttributedInvariant, TouchesEntryInvariant, PTL DEF Spec, RenewsOwnProcess

\* Even with leases overrun, what acts by key acts for its own process.
THEOREM ActsForOwn == Spec => ActsForOwnProcess
  BY UnlocksOwn, RenewsOwn DEF ActsForOwnProcess

-----------------------------------------------------------------------------
(* The promise of the lock *)

Holders(r) == [k \in Key |-> IF r[k].turn = None THEN {} ELSE {Home[r[k].turn]}]
Left(r) == [k \in Key |-> r[k].ttl]

\* Every step grants, renews, returns or ages a lease, or leaves the keys alone.
LEMMA StepKeepsPromise ==
  ASSUME TypeOK, TouchesEntry, [Next]_vars
  PROVE  [Promise!Granting]_<<Holders(redis), Left(redis)>>
<1> USE DEF TypeOK, Slot
<1> DEFINE Stutters == UNCHANGED <<Holders(redis), Left(redis)>>
<1>0. ASSUME UNCHANGED redis PROVE Stutters
  BY <1>0 DEF Holders, Left
\* The three ways in which a step of Bond changes the value of one key.
<1>1. ASSUME NEW t \in Turn, redis[KeyOf[t]].turn = None,
             redis' = [redis EXCEPT ![KeyOf[t]] = Lease(t)]
      PROVE  Promise!Granting
  <2>1. Promise!Grant(Home[t], KeyOf[t])
    BY <1>1 DEF Promise!Grant, Lease
  <2> QED
    BY <2>1 DEF Promise!Granting
<1>2. ASSUME NEW t \in Turn, hb[t] = "touch", redis[KeyOf[t]].turn = hbEntry[t],
             redis' = [redis EXCEPT ![KeyOf[t]] = Lease(hbEntry[t])]
      PROVE  Promise!Granting
  <2>1. hbEntry[t] # None
    BY <1>2 DEF TouchesEntry
  <2>2. Promise!Renew(KeyOf[t])
    BY <1>2, <2>1 DEF Promise!Renew, Lease
  <2> QED
    BY <2>2 DEF Promise!Granting
<1>3. ASSUME NEW t \in Turn, redis' = [redis EXCEPT ![KeyOf[t]] = Empty]
      PROVE  Promise!Granting
  <2>1. Promise!Return(KeyOf[t])
    BY <1>3 DEF Promise!Return, Empty
  <2> QED
    BY <2>1 DEF Promise!Granting
<1>4. ASSUME NEW t \in Turn, Acquire(t) \/ Fault(t) PROVE Stutters \/ Promise!Granting
  BY <1>4, <1>0, <1>1, <1>2
  DEF Acquire, Fault, Reap, LockTaken, LockFree, StoreEntry, LockError, ExtendError, UnlockError
<1>5. ASSUME NEW t \in Turn, Release(t) PROVE Stutters \/ Promise!Granting
  BY <1>5, <1>0, <1>3 DEF Release, ReleaseEntry, Unlock
<1>6. ASSUME NEW t \in Turn, Reason(t) PROVE Stutters
  BY <1>6, <1>0 DEF Reason, BeginReasoning, EndReasoning
<1>7. ASSUME NEW t \in Turn, Heartbeat(t) PROVE Stutters \/ Promise!Granting
  BY <1>7, <1>0, <1>2 DEF Heartbeat, HeartbeatStop, ExtendRead, ExtendTouch, ExtendCommit
<1>8. CASE Tick
  <2>1. redis' = [k \in Key |-> Expire(redis[k])]
    BY <1>8 DEF Tick
  <2>2. \A k \in Key : redis[k].ttl \in 0..TTL /\ redis[k].ttl \in Nat
    OBVIOUS
  <2>3. ASSUME NEW k \in Key
        PROVE  IF redis[k].ttl > 1
               THEN redis'[k].turn = redis[k].turn /\ redis'[k].ttl = redis[k].ttl - 1
               ELSE redis'[k].turn = None /\ redis'[k].ttl = 0
    BY <2>1, <2>2 DEF Expire, Aged, Empty
  <2>4. Left(redis)' = [k \in Key |-> IF Left(redis)[k] > 1 THEN Left(redis)[k] - 1 ELSE 0]
    BY <2>3 DEF Left
  <2>5. Holders(redis)' = [k \in Key |-> IF Left(redis)[k] > 1 THEN Holders(redis)[k] ELSE {}]
    BY <2>3 DEF Left, Holders
  <2>6. Promise!Elapse
    BY <2>4, <2>5 DEF Promise!Elapse, Left, Holders
  <2> QED
    BY <2>6 DEF Promise!Granting
<1>9. ASSUME NEW p \in Process, Crash(p) PROVE Stutters
  BY <1>9, <1>0 DEF Crash
<1>10. CASE UNCHANGED vars
  BY <1>10, <1>0 DEF vars
<1> QED
  BY <1>4, <1>5, <1>6, <1>7, <1>8, <1>9, <1>10 DEF Next

\* BondManager implements the abstract lease, whatever crashes, is lost or comes late.
THEOREM PromiseKept == Spec => KeepsPromise
<1>1. Init => Promise!Free
  BY DEF Init, Promise!Free, Empty
<1>2. TypeOK /\ TouchesEntry /\ [Next]_vars => [Promise!Granting]_<<Holders(redis), Left(redis)>>
  BY StepKeepsPromise
<1> QED
  BY <1>1, <1>2, TypeCorrect, TouchesEntryInvariant, PTL
  DEF Spec, KeepsPromise, Promise!LeaseSpec, Holders, Left

-----------------------------------------------------------------------------
(* While no turn outlived its lease *)

LEMMA LeasedInductive ==
  ASSUME TypeOK, Attributed, Leased, [Next]_vars
  PROVE  Leased'
<1> SUFFICES ASSUME overrun' = {}
             PROVE  OwnersHoldRedis' /\ EntriesWork' /\ ReleasesOwn'
  BY DEF Leased
<1> USE DEF TypeOK, Slot
<1>1. overrun = {}
  BY DEF Next, vars, Acquire, Release, Reason, Heartbeat, Fault, Reap, LockTaken, LockFree,
         LockError, StoreEntry, BeginReasoning, EndReasoning, HeartbeatStop, ExtendRead,
         ExtendTouch, ExtendError, ExtendCommit, ReleaseEntry, Unlock, UnlockError, Tick, Expire, Crash
<1>2. OwnersHoldRedis /\ EntriesWork /\ ReleasesOwn
  BY <1>1 DEF Leased
<1> USE DEF OwnersHoldRedis, EntriesWork, ReleasesOwn, Owning, Working
<1>3. ASSUME NEW t \in Turn, Reap(t) PROVE OwnersHoldRedis' /\ EntriesWork' /\ ReleasesOwn'
  <2>1. \A p \in Process, k \in Key :
          entries'[p][k].turn # None => entries'[p][k].turn = entries[p][k].turn
    BY <1>3 DEF Reap, Empty
  <2> QED
    BY <1>2, <1>3, <2>1 DEF Reap
<1>4. ASSUME NEW t \in Turn, LockTaken(t) PROVE OwnersHoldRedis' /\ EntriesWork' /\ ReleasesOwn'
  BY <1>2, <1>4 DEF LockTaken
<1>5. ASSUME NEW t \in Turn, LockFree(t) PROVE OwnersHoldRedis' /\ EntriesWork' /\ ReleasesOwn'
  BY <1>2, <1>5 DEF LockFree, Lease
<1>6. ASSUME NEW t \in Turn, LockError(t) PROVE OwnersHoldRedis' /\ EntriesWork' /\ ReleasesOwn'
  <2>1. \/ UNCHANGED redis
        \/ redis[KeyOf[t]].turn = None /\ redis' = [redis EXCEPT ![KeyOf[t]] = Lease(t)]
    BY <1>6 DEF LockError
  <2>2. UNCHANGED <<entries, released>> /\ pc[t] = "lock" /\ pc' = [pc EXCEPT ![t] = "done"]
    BY <1>6 DEF LockError
  <2>3. OwnersHoldRedis'
    <3>1. CASE UNCHANGED redis
      BY <1>2, <2>2, <3>1
    <3>2. CASE redis[KeyOf[t]].turn = None /\ redis' = [redis EXCEPT ![KeyOf[t]] = Lease(t)]
      BY <1>2, <2>2, <3>2
    <3> QED
      BY <2>1, <3>1, <3>2
  <2>4. EntriesWork' /\ ReleasesOwn'
    BY <1>2, <2>2
  <2> QED
    BY <2>3, <2>4
<1>7. ASSUME NEW t \in Turn, StoreEntry(t) PROVE OwnersHoldRedis' /\ EntriesWork' /\ ReleasesOwn'
  <2>1. \A p \in Process, k \in Key : entries'[p][k].turn \in {entries[p][k].turn, t}
    BY <1>7 DEF StoreEntry, Lease
  <2> QED
    BY <1>2, <1>7, <2>1 DEF StoreEntry
<1>8. ASSUME NEW t \in Turn, Reason(t) PROVE OwnersHoldRedis' /\ EntriesWork' /\ ReleasesOwn'
  <2>1. UNCHANGED <<redis, entries, released>>
    BY <1>8 DEF Reason, BeginReasoning, EndReasoning
  <2>2. /\ pc[t] \in {"held", "reasoning"}
        /\ \E s \in {"reasoning", "finishing"} : pc' = [pc EXCEPT ![t] = s]
    BY <1>8 DEF Reason, BeginReasoning, EndReasoning
  <2> QED
    BY <1>2, <2>1, <2>2
<1>9. ASSUME NEW t \in Turn, HeartbeatStop(t) \/ ExtendRead(t) \/ UnlockError(t)
      PROVE  OwnersHoldRedis' /\ EntriesWork' /\ ReleasesOwn'
  <2>1. /\ UNCHANGED <<redis, entries>>
        /\ released' \in {released, [released EXCEPT ![t] = None]}
    BY <1>9 DEF HeartbeatStop, ExtendRead, UnlockError
  <2>2. \/ UNCHANGED <<pc, released>>
        \/ pc[t] = "unlock" /\ pc' = [pc EXCEPT ![t] = "done"]
    BY <1>9 DEF HeartbeatStop, ExtendRead, UnlockError
  <2>3. CASE UNCHANGED <<pc, released>>
    BY <1>2, <2>1, <2>3
  <2>4. CASE pc[t] = "unlock" /\ pc' = [pc EXCEPT ![t] = "done"]
    BY <1>2, <2>1, <2>4
  <2> QED
    BY <2>2, <2>3, <2>4
\* A renewal writes the value that is there.
<1>10. ASSUME NEW t \in Turn, ExtendTouch(t) \/ ExtendError(t)
       PROVE  OwnersHoldRedis' /\ EntriesWork' /\ ReleasesOwn'
  <2>1. \A k \in Key : redis'[k].turn = redis[k].turn
    <3>1. CASE UNCHANGED redis
      BY <3>1
    <3>2. CASE /\ redis[KeyOf[t]].turn = hbEntry[t]
               /\ redis' = [redis EXCEPT ![KeyOf[t]] = Lease(hbEntry[t])]
      <4>1. \A k \in Key : redis'[k] = IF k = KeyOf[t] THEN Lease(hbEntry[t]) ELSE redis[k]
        BY <3>2
      <4>2. Lease(hbEntry[t]).turn = hbEntry[t]
        BY DEF Lease
      <4> QED
        BY <3>2, <4>1, <4>2
    <3> QED
      BY <1>10, <3>1, <3>2 DEF ExtendTouch, ExtendError
  <2>2. UNCHANGED <<entries, pc, released>>
    BY <1>10 DEF ExtendTouch, ExtendError
  <2> QED
    BY <1>2, <2>1, <2>2
<1>11. ASSUME NEW t \in Turn, ExtendCommit(t)
       PROVE  OwnersHoldRedis' /\ EntriesWork' /\ ReleasesOwn'
  <2>1. \A p \in Process, k \in Key : entries'[p][k].turn = entries[p][k].turn
    BY <1>11 DEF ExtendCommit, Entry, Lease
  <2> QED
    BY <1>2, <1>11, <2>1 DEF ExtendCommit
\* The entry of the caller's key is a turn at work on that key: the caller itself.
<1>12. ASSUME NEW t \in Turn, ReleaseEntry(t)
       PROVE  OwnersHoldRedis' /\ EntriesWork' /\ ReleasesOwn'
  <2>1. Entry(t).turn \in {t, None}
    BY <1>2, <1>12 DEF ReleaseEntry, Entry, Attributed, MapsAttributed
  <2>2. OwnersHoldRedis'
    BY <1>2, <1>12 DEF ReleaseEntry
  <2>3. EntriesWork'
    <3> SUFFICES ASSUME NEW p \in Process, NEW k \in Key, entries'[p][k].turn # None
                 PROVE  pc'[entries'[p][k].turn] \in {"held", "reasoning", "finishing"}
      OBVIOUS
    <3>1. entries'[p][k] = entries[p][k] /\ ~(p = Home[t] /\ k = KeyOf[t])
      BY <1>12 DEF ReleaseEntry, Empty
    <3>2. entries[p][k].turn # t
      BY <3>1 DEF Attributed, MapsAttributed
    <3> QED
      BY <1>2, <1>12, <3>1, <3>2 DEF ReleaseEntry
  <2>4. ReleasesOwn'
    BY <1>2, <1>12, <2>1 DEF ReleaseEntry
  <2> QED
    BY <2>2, <2>3, <2>4
<1>13. ASSUME NEW t \in Turn, Unlock(t) PROVE OwnersHoldRedis' /\ EntriesWork' /\ ReleasesOwn'
  <2>1. released[t] = t
    BY <1>2, <1>13 DEF Unlock
  <2> QED
    BY <1>2, <1>13, <2>1 DEF Unlock
\* A lease that ends under a turn at work would put that turn in overrun.
<1>14. ASSUME Tick PROVE OwnersHoldRedis' /\ EntriesWork' /\ ReleasesOwn'
  <2>1. \A p \in Process, k \in Key : entries'[p][k].turn = entries[p][k].turn
    BY <1>14 DEF Tick, Expire, Aged
  <2>2. ASSUME NEW t \in Turn, Owning(t)' PROVE redis'[KeyOf[t]].turn = t
    <3>1. redis[KeyOf[t]].turn = t
      BY <1>2, <1>14, <2>2 DEF Tick, Expire
    <3>2. ~(redis[KeyOf[t]].ttl <= 1)
      BY <1>14, <2>2, <3>1 DEF Tick, Expire
    <3> QED
      BY <1>14, <3>1, <3>2 DEF Tick, Expire, Aged
  <2>3. UNCHANGED <<pc, released>>
    BY <1>14 DEF Tick, Expire
  <2>4. EntriesWork' /\ ReleasesOwn'
    BY <1>2, <2>1, <2>3
  <2> QED
    BY <2>2, <2>4
\* Only the entries of the dead process name its turns.
<1>15. ASSUME NEW p \in Process, Crash(p) PROVE OwnersHoldRedis' /\ EntriesWork' /\ ReleasesOwn'
  <2>1. ASSUME NEW q \in Process, NEW k \in Key, entries'[q][k].turn # None
        PROVE  entries'[q][k].turn = entries[q][k].turn /\ Home[entries[q][k].turn] # p
    BY <1>15, <2>1 DEF Crash, Empty, Attributed, MapsAttributed
  <2>2. \A t \in Turn : Home[t] # p => pc'[t] = pc[t]
    BY <1>15 DEF Crash
  <2>3. \A t \in Turn : pc'[t] \in {pc[t], "done"}
    BY <1>15 DEF Crash
  <2>4. UNCHANGED redis /\ \A t \in Turn : Home[t] # p => released'[t] = released[t]
    BY <1>15 DEF Crash
  <2>5. \A t \in Turn : Home[t] = p => pc'[t] \in {"new", "done"}
    BY <1>15 DEF Crash
  <2> QED
    BY <1>2, <2>1, <2>2, <2>3, <2>4, <2>5
<1>16. CASE UNCHANGED vars
  BY <1>2, <1>16 DEF vars
<1> QED
  BY <1>3, <1>4, <1>5, <1>6, <1>7, <1>8, <1>9, <1>10, <1>11, <1>12, <1>13, <1>14, <1>15, <1>16
  DEF Next, Acquire, Release, Heartbeat, Fault

\* Two turns work on one key at once only after some turn outlived its lease.
THEOREM Mutex == Spec => []MutexWhileLeased
<1>1. Init => Leased
  BY DEF Init, Leased, OwnersHoldRedis, EntriesWork, ReleasesOwn, Owning, Working, Empty
<1>2. TypeOK /\ Leased => MutexWhileLeased
  BY DEF Leased, OwnersHoldRedis, Owning, MutexWhileLeased
<1> QED
  BY <1>1, <1>2, LeasedInductive, AttributedInvariant, TypeCorrect, PTL DEF Spec

-----------------------------------------------------------------------------
(* When a process never runs two turns of one key *)

OnePerProcess == \A t, u \in Turn : Home[t] = Home[u] /\ KeyOf[t] = KeyOf[u] => t = u

LeasedOwners == \A t \in Turn \ overrun : Owning(t) => redis[KeyOf[t]].turn = t

LEMMA LeasedOwnersInductive ==
  ASSUME OnePerProcess, TypeOK, Attributed, LeasedOwners, [Next]_vars
  PROVE  LeasedOwners'
<1> USE DEF TypeOK, Slot, LeasedOwners, Owning, Working
<1>1. ASSUME NEW t \in Turn, LockFree(t) PROVE LeasedOwners'
  BY <1>1 DEF LockFree, Lease
<1>2. ASSUME NEW t \in Turn, LockError(t) PROVE LeasedOwners'
  <2>1. UNCHANGED overrun /\ pc[t] = "lock" /\ pc' = [pc EXCEPT ![t] = "done"]
    BY <1>2 DEF LockError
  <2>2. CASE UNCHANGED redis
    BY <2>1, <2>2
  <2>3. CASE redis[KeyOf[t]].turn = None /\ redis' = [redis EXCEPT ![KeyOf[t]] = Lease(t)]
    BY <2>1, <2>3
  <2> QED
    BY <1>2, <2>2, <2>3 DEF LockError
<1>3. ASSUME NEW t \in Turn, ExtendTouch(t) \/ ExtendError(t) PROVE LeasedOwners'
  <2>1. UNCHANGED <<pc, overrun>>
    BY <1>3 DEF ExtendTouch, ExtendError
  <2>2. CASE UNCHANGED redis
    BY <2>1, <2>2
  <2>3. CASE /\ redis[KeyOf[t]].turn = hbEntry[t]
             /\ redis' = [redis EXCEPT ![KeyOf[t]] = Lease(hbEntry[t])]
    <3>1. \A k \in Key : redis'[k].turn = redis[k].turn
      <4>1. \A k \in Key : redis'[k] = IF k = KeyOf[t] THEN Lease(hbEntry[t]) ELSE redis[k]
        BY <2>3
      <4>2. Lease(hbEntry[t]).turn = hbEntry[t]
        BY DEF Lease
      <4> QED
        BY <2>3, <4>1, <4>2
    <3> QED
      BY <2>1, <3>1
  <2> QED
    BY <1>3, <2>2, <2>3 DEF ExtendTouch, ExtendError
\* What t releases can only be its own lock.
<1>4. ASSUME NEW t \in Turn, Unlock(t) PROVE LeasedOwners'
  <2>1. released[t] \in {t, None}
    BY DEF Attributed, MapsAttributed, OnePerProcess
  <2> QED
    BY <1>4, <2>1 DEF Unlock
<1>5. ASSUME Tick PROVE LeasedOwners'
  <2> SUFFICES ASSUME NEW t \in Turn, t \notin overrun', Owning(t)'
               PROVE  redis'[KeyOf[t]].turn = t
    OBVIOUS
  <2>1. redis[KeyOf[t]].turn = t
    BY <1>5 DEF Tick, Expire
  <2>2. ~(redis[KeyOf[t]].ttl <= 1)
    BY <1>5, <2>1 DEF Tick, Expire
  <2> QED
    BY <1>5, <2>1, <2>2 DEF Tick, Expire, Aged
\* Every other step leaves Redis alone and makes no turn an owner.
<1>6. ASSUME UNCHANGED <<redis, overrun>>, \A t \in Turn : Owning(t)' => Owning(t)
      PROVE  LeasedOwners'
  BY <1>6
<1>7. ASSUME NEW t \in Turn, Reap(t) \/ LockTaken(t) \/ StoreEntry(t) PROVE LeasedOwners'
  BY <1>6, <1>7 DEF Reap, LockTaken, StoreEntry
<1>8. ASSUME NEW t \in Turn, Reason(t) PROVE LeasedOwners'
  BY <1>6, <1>8 DEF Reason, BeginReasoning, EndReasoning
<1>9. ASSUME NEW t \in Turn, HeartbeatStop(t) \/ ExtendRead(t) \/ ExtendCommit(t)
      PROVE  LeasedOwners'
  BY <1>6, <1>9 DEF HeartbeatStop, ExtendRead, ExtendCommit
<1>10. ASSUME NEW t \in Turn, ReleaseEntry(t) \/ UnlockError(t) PROVE LeasedOwners'
  BY <1>6, <1>10 DEF ReleaseEntry, UnlockError
<1>11. ASSUME NEW p \in Process, Crash(p) PROVE LeasedOwners'
  BY <1>6, <1>11 DEF Crash
<1>12. CASE UNCHANGED vars
  BY <1>6, <1>12 DEF vars
<1> QED
  BY <1>1, <1>2, <1>3, <1>4, <1>5, <1>7, <1>8, <1>9, <1>10, <1>11, <1>12
  DEF Next, Acquire, Release, Heartbeat, Fault

\* If no process runs two turns of one key, one late turn never costs the turns within
\* their lease their exclusion: ReleaseLock finds no entry of another turn.
THEOREM ApartExclude == OnePerProcess => (Spec => []LeasedTurnsExclude)
<1> SUFFICES ASSUME OnePerProcess PROVE Spec => []LeasedTurnsExclude
  OBVIOUS
<1>1. Init => LeasedOwners
  BY DEF Init, LeasedOwners, Owning, Working
<1>2. TypeOK /\ LeasedOwners => LeasedTurnsExclude
  BY DEF LeasedOwners, Owning, LeasedTurnsExclude
<1>3. TypeOK /\ Attributed /\ LeasedOwners /\ [Next]_vars => LeasedOwners'
  BY LeasedOwnersInductive
<1> QED
  BY <1>1, <1>2, <1>3, AttributedInvariant, TypeCorrect, PTL DEF Spec
=============================================================================
