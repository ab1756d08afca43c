-------------------------------- MODULE Bond --------------------------------
(***************************************************************************)
(* The distributed lock of redis/bond.go.  Every process runs one          *)
(* BondManager: a map from lock key to the mutex this process acquired     *)
(* last, over one Redis key per lock key.  The methods take only the key:  *)
(* ReleaseLock and ExtendLock act for whatever mutex the map holds.        *)
(* A turn is one pass of a Pulse through the pipeline; its lock value is   *)
(* random, hence unique, and stands here as the turn itself.               *)
(***************************************************************************)
EXTENDS Naturals

CONSTANTS
    Process,    \* engine processes sharing one Redis
    Turn,       \* pipeline passes; each acquires one lock once
    Key,        \* lock keys "memory:<MemoryKey>"
    Home,       \* the process a turn runs in
    KeyOf,      \* the lock key a turn needs
    Notifying,  \* turns of notifier Spirits: no reasoning, no heartbeat
    TTL,        \* LockTTL in clock ticks
    None        \* no turn: key absent in Redis, no entry in the map

ASSUME HomeAssumption  == Home \in [Turn -> Process]
ASSUME KeyOfAssumption == KeyOf \in [Turn -> Key]
ASSUME NotifyingAssumption == Notifying \subseteq Turn
ASSUME TTLAssumption   == TTL \in Nat \ {0}
ASSUME NoneAssumption  == None \notin Turn

VARIABLES
    redis,      \* redis[k]: the value of the lock key and its remaining ttl
    entries,    \* entries[p][k]: mutex and expiresAt kept by process p
    pc,         \* where the turn is
    hb,         \* the heartbeat goroutine of the turn
    hbEntry,    \* the entry ExtendLock read under mu
    released,   \* the entry ReleaseLock took out of the map
    overrun     \* history: turns that outlived their lease while working

vars == <<redis, entries, pc, hb, hbEntry, released, overrun>>

Slot == [turn : Turn \cup {None}, ttl : 0..TTL]
Empty == [turn |-> None, ttl |-> 0]
Lease(t) == [turn |-> t, ttl |-> TTL]

TypeOK ==
    /\ redis \in [Key -> Slot]
    /\ entries \in [Process -> [Key -> Slot]]
    /\ pc \in [Turn -> {"new", "lock", "store", "held", "reasoning", "finishing",
                        "unlock", "done"}]
    /\ hb \in [Turn -> {"off", "on", "touch", "commit"}]
    /\ hbEntry \in [Turn -> Turn \cup {None}]
    /\ released \in [Turn -> Turn \cup {None}]
    /\ overrun \subseteq Turn

Init ==
    /\ redis = [k \in Key |-> Empty]
    /\ entries = [p \in Process |-> [k \in Key |-> Empty]]
    /\ pc = [t \in Turn |-> "new"]
    /\ hb = [t \in Turn |-> "off"]
    /\ hbEntry = [t \in Turn |-> None]
    /\ released = [t \in Turn |-> None]
    /\ overrun = {}

Entry(t) == entries[Home[t]][KeyOf[t]]

\* The turn believes it owns the session.
Working(t) == pc[t] \in {"held", "reasoning", "finishing"}

-----------------------------------------------------------------------------
(* AcquireLock *)

\* reapExpired, under mu: every entry of this process whose local deadline passed.
Reap(t) ==
    /\ pc[t] = "new"
    /\ pc' = [pc EXCEPT ![t] = "lock"]
    /\ entries' = [entries EXCEPT ![Home[t]] =
                     [k \in Key |-> IF @[k].ttl = 0 THEN Empty ELSE @[k]]]
    /\ UNCHANGED <<redis, hb, hbEntry, released, overrun>>

\* SET NX with one try: contention is (false, nil), the turn ends as ErrMemoryBusy.
LockTaken(t) ==
    /\ pc[t] = "lock"
    /\ redis[KeyOf[t]].turn # None
    /\ pc' = [pc EXCEPT ![t] = "done"]
    /\ UNCHANGED <<redis, entries, hb, hbEntry, released, overrun>>

\* Faulty: SET without NX.
LockFreeOverwriting(t) ==
    /\ pc[t] = "lock"
    /\ redis' = [redis EXCEPT ![KeyOf[t]] = Lease(t)]
    /\ pc' = [pc EXCEPT ![t] = "store"]
    /\ UNCHANGED <<entries, hb, hbEntry, released, overrun>>

LockFree(t) ==
    /\ pc[t] = "lock"
    /\ redis[KeyOf[t]].turn = None
    /\ redis' = [redis EXCEPT ![KeyOf[t]] = Lease(t)]
    /\ pc' = [pc EXCEPT ![t] = "store"]
    /\ UNCHANGED <<entries, hb, hbEntry, released, overrun>>

\* Redis unreachable: an error reply, with the key set or not.
LockError(t) ==
    /\ pc[t] = "lock"
    /\ \/ UNCHANGED redis
       \/ /\ redis[KeyOf[t]].turn = None
          /\ redis' = [redis EXCEPT ![KeyOf[t]] = Lease(t)]
    /\ pc' = [pc EXCEPT ![t] = "done"]
    /\ UNCHANGED <<entries, hb, hbEntry, released, overrun>>

\* The map entry, written under mu after the Redis reply.
StoreEntry(t) ==
    /\ pc[t] = "store"
    /\ entries' = [entries EXCEPT ![Home[t]][KeyOf[t]] = Lease(t)]
    /\ pc' = [pc EXCEPT ![t] = "held"]
    /\ UNCHANGED <<redis, hb, hbEntry, released, overrun>>

-----------------------------------------------------------------------------
(* ReasoningStep: the heartbeat goroutine lives from here to close(done) *)

BeginReasoning(t) ==
    /\ pc[t] = "held" /\ t \notin Notifying
    /\ pc' = [pc EXCEPT ![t] = "reasoning"]
    /\ hb' = [hb EXCEPT ![t] = "on"]
    /\ UNCHANGED <<redis, entries, hbEntry, released, overrun>>

EndReasoning(t) ==
    /\ pc[t] = "reasoning"
    /\ pc' = [pc EXCEPT ![t] = "finishing"]
    /\ UNCHANGED <<redis, entries, hb, hbEntry, released, overrun>>

\* The goroutine sees the closed channel; a tick may have been served first.
HeartbeatStop(t) ==
    /\ hb[t] = "on"
    /\ pc[t] # "reasoning"
    /\ hb' = [hb EXCEPT ![t] = "off"]
    /\ UNCHANGED <<redis, entries, pc, hbEntry, released, overrun>>

(* ExtendLock *)

\* The entry is read under mu; ErrBondLockNotFound when there is none.
ExtendRead(t) ==
    /\ hb[t] = "on"
    /\ Entry(t).turn # None
    /\ hbEntry' = [hbEntry EXCEPT ![t] = Entry(t).turn]
    /\ hb' = [hb EXCEPT ![t] = "touch"]
    /\ UNCHANGED <<redis, entries, pc, released, overrun>>

\* Faulty: EXPIRE without comparing the value.
ExtendTouchBlind(t) ==
    /\ hb[t] = "touch"
    /\ redis' = [redis EXCEPT ![KeyOf[t]].ttl = IF @ = 0 THEN 0 ELSE TTL]
    /\ hb' = [hb EXCEPT ![t] = "commit"]
    /\ UNCHANGED <<entries, pc, hbEntry, released, overrun>>

\* The touch script renews the ttl only if the stored value is the key's value.
ExtendTouch(t) ==
    /\ hb[t] = "touch"
    /\ IF redis[KeyOf[t]].turn = hbEntry[t]
       THEN /\ redis' = [redis EXCEPT ![KeyOf[t]] = Lease(hbEntry[t])]
            /\ hb' = [hb EXCEPT ![t] = "commit"]
            /\ UNCHANGED hbEntry
       ELSE /\ hb' = [hb EXCEPT ![t] = "on"]
            /\ hbEntry' = [hbEntry EXCEPT ![t] = None]
            /\ UNCHANGED redis
    /\ UNCHANGED <<entries, pc, released, overrun>>

\* An error reply: the local entry is left alone whether or not the key was touched.
ExtendError(t) ==
    /\ hb[t] = "touch"
    /\ \/ UNCHANGED redis
       \/ /\ redis[KeyOf[t]].turn = hbEntry[t]
          /\ redis' = [redis EXCEPT ![KeyOf[t]] = Lease(hbEntry[t])]
    /\ hb' = [hb EXCEPT ![t] = "on"]
    /\ hbEntry' = [hbEntry EXCEPT ![t] = None]
    /\ UNCHANGED <<entries, pc, released, overrun>>

\* The entry is updated only if it is still the one that was extended.
ExtendCommit(t) ==
    /\ hb[t] = "commit"
    /\ entries' = IF Entry(t).turn = hbEntry[t]
                  THEN [entries EXCEPT ![Home[t]][KeyOf[t]] = Lease(hbEntry[t])]
                  ELSE entries
    /\ hb' = [hb EXCEPT ![t] = "on"]
    /\ hbEntry' = [hbEntry EXCEPT ![t] = None]
    /\ UNCHANGED <<redis, pc, released, overrun>>

-----------------------------------------------------------------------------
(* ReleaseLock *)

\* Look up and delete the entry OF THE KEY, under mu; nothing to do without one.
ReleaseEntry(t) ==
    /\ pc[t] \in {"held", "finishing"}
    /\ released' = [released EXCEPT ![t] = Entry(t).turn]
    /\ entries' = [entries EXCEPT ![Home[t]][KeyOf[t]] = Empty]
    /\ pc' = [pc EXCEPT ![t] = IF Entry(t).turn = None THEN "done" ELSE "unlock"]
    /\ UNCHANGED <<redis, hb, hbEntry, overrun>>

\* Faulty: DEL without comparing the value.
UnlockBlind(t) ==
    /\ pc[t] = "unlock"
    /\ redis' = [redis EXCEPT ![KeyOf[t]] = Empty]
    /\ pc' = [pc EXCEPT ![t] = "done"]
    /\ released' = [released EXCEPT ![t] = None]
    /\ UNCHANGED <<entries, hb, hbEntry, overrun>>

\* The unlock script deletes the key only if its value is the mutex's value.
Unlock(t) ==
    /\ pc[t] = "unlock"
    /\ redis' = IF redis[KeyOf[t]].turn = released[t]
                THEN [redis EXCEPT ![KeyOf[t]] = Empty]
                ELSE redis
    /\ pc' = [pc EXCEPT ![t] = "done"]
    /\ released' = [released EXCEPT ![t] = None]
    /\ UNCHANGED <<entries, hb, hbEntry, overrun>>

\* Redis unreachable: the error is logged, the key waits for its ttl.
UnlockError(t) ==
    /\ pc[t] = "unlock"
    /\ pc' = [pc EXCEPT ![t] = "done"]
    /\ released' = [released EXCEPT ![t] = None]
    /\ UNCHANGED <<redis, entries, hb, hbEntry, overrun>>

-----------------------------------------------------------------------------
(* The environment *)

\* Faulty: the remaining time of an expired entry goes below zero.
AgedPastZero(slot) == [turn |-> slot.turn, ttl |-> slot.ttl - 1]
Aged(slot) == [turn |-> slot.turn, ttl |-> IF slot.ttl > 0 THEN slot.ttl - 1 ELSE 0]

\* Faulty: a lock key set without a ttl.
ExpireNever(slot) == Aged(slot)
Expire(slot) == IF slot.ttl <= 1 THEN Empty ELSE Aged(slot)

\* One tick of the clock.  Redis drops a key whose ttl is over; a local entry
\* stays in the map, expired, until the next reap.
Tick ==
    /\ \/ \E k \in Key : redis[k].ttl > 0
       \/ \E p \in Process, k \in Key : entries[p][k].ttl > 0
    /\ redis' = [k \in Key |-> Expire(redis[k])]
    /\ entries' = [p \in Process |-> [k \in Key |-> Aged(entries[p][k])]]
    /\ overrun' = overrun \cup
         {t \in Turn : /\ Working(t) \/ pc[t] = "store"
                       /\ redis[KeyOf[t]].turn = t
                       /\ redis[KeyOf[t]].ttl <= 1}
    /\ UNCHANGED <<pc, hb, hbEntry, released>>

\* A process dies: its map and its turns are gone, its Redis keys are not.
Crash(p) ==
    /\ \E t \in Turn : Home[t] = p /\ pc[t] \notin {"new", "done"}
    /\ entries' = [entries EXCEPT ![p] = [k \in Key |-> Empty]]
    /\ pc' = [t \in Turn |-> IF Home[t] = p /\ pc[t] # "new" THEN "done" ELSE pc[t]]
    /\ hb' = [t \in Turn |-> IF Home[t] = p THEN "off" ELSE hb[t]]
    /\ hbEntry' = [t \in Turn |-> IF Home[t] = p THEN None ELSE hbEntry[t]]
    /\ released' = [t \in Turn |-> IF Home[t] = p THEN None ELSE released[t]]
    /\ UNCHANGED <<redis, overrun>>

-----------------------------------------------------------------------------
Acquire(t)   == Reap(t) \/ LockTaken(t) \/ LockFree(t) \/ StoreEntry(t)
Release(t)   == ReleaseEntry(t) \/ Unlock(t)
Reason(t)    == BeginReasoning(t) \/ EndReasoning(t)
Heartbeat(t) == HeartbeatStop(t) \/ ExtendRead(t) \/ ExtendTouch(t) \/ ExtendCommit(t)
Fault(t)     == LockError(t) \/ ExtendError(t) \/ UnlockError(t)

Next ==
    \/ \E t \in Turn : Acquire(t) \/ Release(t) \/ Reason(t) \/ Heartbeat(t) \/ Fault(t)
    \/ Tick
    \/ \E p \in Process : Crash(p)

Spec == Init /\ [][Next]_vars

(***************************************************************************)
(* Fairness: the clock runs; a goroutine with work to do is scheduled; the *)
(* heartbeat stops after close(done) because a tick is served at most once *)
(* every TTL/3 while the closed channel is always ready.  Nothing is       *)
(* assumed of how often the heartbeat renews.                              *)
(***************************************************************************)
FairSpec ==
    /\ Spec
    /\ WF_vars(Tick)
    /\ \A t \in Turn : /\ WF_vars(Acquire(t) \/ Release(t) \/ EndReasoning(t))
                       /\ SF_vars(HeartbeatStop(t))
                       /\ WF_vars(ExtendTouch(t) \/ ExtendCommit(t))
-----------------------------------------------------------------------------
(* Properties *)

\* Two turns work on one key at once only after some turn outlived its lease
\* (AcquireLock's NX, the value checks of unlock and touch, the entry check of ExtendLock).
MutexWhileLeased ==
    overrun = {} =>
      \A t, u \in Turn : t # u /\ KeyOf[t] = KeyOf[u] => ~(Working(t) /\ Working(u))

\* Even with leases overrun, a process never deletes a lock that another process
\* acquired: ReleaseLock unlocks by value, and only values of its own turns are in its map.
UnlocksOwnProcess ==
    [][\A t \in Turn : pc[t] = "unlock" /\ redis'[KeyOf[t]] # redis[KeyOf[t]]
                         /\ pc'[t] = "done" /\ redis[KeyOf[t]].turn # None
         => Home[redis[KeyOf[t]].turn] = Home[t]]_<<pc, redis>>

\* A renewal never revives or takes over a lock another process owns: a heartbeat
\* raises the ttl of a key only for a value of its own process (the touch script).
RenewsOwnProcess ==
    [][\A k \in Key : redis'[k].turn = redis[k].turn /\ redis'[k].ttl > redis[k].ttl
         => \E t \in Turn : /\ hb[t] = "touch" /\ KeyOf[t] = k
                            /\ Home[redis[k].turn] = Home[t]]_redis

\* Both: what acts by key acts for its own process (ReleaseLock, ExtendLock).
ActsForOwnProcess == UnlocksOwnProcess /\ RenewsOwnProcess

\* Redis as the promise of the lock sees it: the process of the value, and the ttl.
Promise == INSTANCE Lease WITH
    holders <- [k \in Key |-> IF redis[k].turn = None THEN {} ELSE {Home[redis[k].turn]}],
    left <- [k \in Key |-> redis[k].ttl]

\* Whatever processes crash, replies get lost and turns outlive their leases, BondManager keeps
\* the promise of ports/bond.go: a key changes hands only when it is free, and a lease is
\* prolonged only while it lasts (SetNX, the touch and unlock scripts compare the value).
KeepsPromise == Promise!LeaseSpec

\* After a crash, a lost reply or a failed unlock the key comes free by its ttl:
\* no lock is held forever (SetNX with expiry in AcquireLock).
EveryLockIsFreed == \A k \in Key : []<>(redis[k].turn = None)

\* "Only one pipeline execution runs per MemoryKey at a time", of the turns whose own
\* lease is not over: one late turn does not cost the others their exclusion.  It
\* holds when a process runs one turn per key, and fails when ReleaseLock, which
\* acts by key, removes the entry of a newer turn of the same process.
LeasedTurnsExclude ==
    \A t, u \in Turn \ overrun :
      t # u /\ KeyOf[t] = KeyOf[u] => ~(Working(t) /\ Working(u))
=============================================================================
