---------------------------- MODULE WeaveProofs ----------------------------
(***************************************************************************)
(* Theorems about Weave, for every set of Pulses, deliveries and sessions, *)
(* every rekeying by the Scouts, and any number of faults.                 *)
(***************************************************************************)
EXTENDS Weave, TLAPS

USE PulseOfAssumption, KeyOfAssumption, RekeyOfAssumption, SpiritRekeyOfAssumption,
    FlagsAssumption, FaultsAssumption, NoneAssumption

\* Which sessions are guarded does not change.
LEMMA GuardedStays == Guarded' = Guarded
  BY DEF Guarded, Unguarded

USE GuardedStays

\* One step of one attempt, or an event of the environment.
Expiry(k) == LockExpire(k) \/ MemoryExpire(k) \/ InboxExpire(k)

LEMMA NextSteps ==
  ASSUME [Next]_vars
  PROVE  \/ \E a \in Attempt : Step(a) \/ Failure(a)
         \/ \E k \in Key : Expiry(k)
         \/ UNCHANGED vars
  BY DEF Next, Expiry
-----------------------------------------------------------------------------
(* Types, one group of variables at a time *)

\* A session that the drain of the inbox adds a user turn to was loaded.
Loaded == \A a \in Attempt : pc[a] \in {"pop", "clear"} => session[a] \in SUBSET Pulse

LEMMA SessionLoads ==
  ASSUME TypeOK, NEW a \in Attempt, SessionSetup(a) \/ SessionReadError(a)
  PROVE  \E m \in SUBSET Pulse : /\ session' = [session EXCEPT ![a] = m]
                                 /\ memory' = [memory EXCEPT ![key[a]] = m]
<1> USE DEF TypeOK, StoresTyped, LocalsTyped
<1>1. CASE SessionSetup(a)
  <2> DEFINE loaded == IF memory[key[a]] = None THEN echo[key[a]] ELSE memory[key[a]]
  <2>1. loaded \in SUBSET Pulse
    OBVIOUS
  <2> QED
    BY <1>1, <2>1 DEF SessionSetup
<1>2. CASE SessionReadError(a)
  <2>1. echo[key[a]] \in SUBSET Pulse /\ {} \in SUBSET Pulse
    OBVIOUS
  <2> QED
    BY <1>2, <2>1 DEF SessionReadError
<1> QED
  BY <1>1, <1>2

\* The Spirit's Scouts choose among sessions there are.
LEMMA MoveChanges ==
  ASSUME TypeOK, NEW a \in Attempt, SelectSpirit(a)
  PROVE  /\ \E k \in Key : key' \in {key, [key EXCEPT ![a] = k]}
         /\ pc'[a] \in {"release", "reason", "session"}
         /\ pc'[a] # "release" => key'[a] \in SpiritRekeyOf[PulseOf[a]]
<1>1. PulseOf[a] \in Pulse /\ SpiritRekeyOf[PulseOf[a]] \subseteq Key
  OBVIOUS
<1>2. key[a] \in Key /\ key \in [Attempt -> Key]
  BY DEF TypeOK, LocalsTyped
<1> QED
  BY <1>1, <1>2 DEF SelectSpirit, GoTo, Abort, TypeOK, ControlTyped

LEMMA StoresStep ==
  ASSUME TypeOK, NEW a \in Attempt, Step(a) \/ Failure(a)
  PROVE  StoresTyped'
<1> USE DEF TypeOK, StoresTyped, ControlTyped, LocalsTyped, LockKey
<1>1. CASE RateLimit(a) \/ VigilCheck(a) \/ SelectSpirit(a) \/ PopRange(a) \/ Reason(a)
             \/ ReasonUnconfirmed(a) \/ DeliverResponse(a) \/ DeliverNothing(a) \/ IdempotencyError(a) \/ PushError(a)
             \/ SessionInitError(a) \/ SaveError(a) \/ AppendError(a) \/ DeliverError(a)
  <2>1. UNCHANGED stores
    BY <1>1 DEF RateLimit, VigilCheck, SelectSpirit, PopRange, Reason, ReasonUnconfirmed,
        DeliverResponse, DeliverNothing, IdempotencyError, PushError, SessionInitError, SaveError, AppendError,
        DeliverError, stores
  <2> QED
    BY <2>1 DEF stores
<1>2. CASE IdempotencyCheck(a)
  BY <1>2 DEF IdempotencyCheck
<1>3. CASE PushInbox(a)
  BY <1>3 DEF PushInbox
<1>4. CASE AcquireLock(a) \/ AcquireError(a)
  <2>1. /\ \/ lock' = lock
           \/ lock' = [lock EXCEPT ![LockKey(a)] = a]
           \/ lock' = [lock EXCEPT ![LockKey(a)] = Orphan]
        /\ UNCHANGED <<inbox, seen, memory, echo>>
    BY <1>4 DEF AcquireLock, AcquireError
  <2>2. LockKey(a) \in Key
    OBVIOUS
  <2> HIDE DEF LockKey
  <2>3. lock' \in [Key -> Attempt \cup {None, Orphan}]
    BY <2>1, <2>2
  <2> QED
    BY <2>1, <2>3
<1>5. CASE LinkScout(a) \/ LinkScoutError(a)
  <2> DEFINE new == RekeyOf[PulseOf[a]]
  <2>1. /\ \/ lock' = lock
           \/ lock' = [lock EXCEPT ![new] = a]
           \/ lock' = [lock EXCEPT ![new] = Orphan]
        /\ UNCHANGED <<inbox, seen, memory, echo>>
    BY <1>5 DEF LinkScout, LinkScoutError
  <2>2. new \in Key
    OBVIOUS
  <2> HIDE DEF new
  <2>3. lock' \in [Key -> Attempt \cup {None, Orphan}]
    BY <2>1, <2>2
  <2> QED
    BY <2>1, <2>3
<1>6. CASE SessionSetup(a) \/ SessionReadError(a)
  <2>1. PICK m \in SUBSET Pulse : memory' = [memory EXCEPT ![key[a]] = m]
    BY <1>6, SessionLoads
  <2>2. UNCHANGED <<lock, inbox, seen, echo>>
    BY <1>6 DEF SessionSetup, SessionReadError
  <2> QED
    BY <2>1, <2>2
<1>7. CASE PopDel(a) \/ PopError(a)
  <2>1. /\ inbox' = inbox \/ inbox' = [inbox EXCEPT ![key[a]] = << >>]
        /\ UNCHANGED <<lock, seen, memory, echo>>
    BY <1>7 DEF PopDel, PopError
  <2>2. << >> \in Seq(Pulse) /\ key[a] \in Key
    OBVIOUS
  <2>3. inbox' \in [Key -> Seq(Pulse)]
    BY <2>1, <2>2
  <2> QED
    BY <2>1, <2>3
<1>8. CASE SaveMemory(a)
  BY <1>8 DEF SaveMemory
<1>9. CASE AppendEcho(a)
  BY <1>9 DEF AppendEcho
<1>10. CASE ReleaseLock(a) \/ ReleaseAdditional(a) \/ ReleaseError(a)
  BY <1>10 DEF ReleaseLock, ReleaseAdditional, ReleaseError
<1>11. CASE Crash(a)
  BY <1>11 DEF Crash
<1> QED
  BY <1>1, <1>2, <1>3, <1>4, <1>5, <1>6, <1>7, <1>8, <1>9, <1>10, <1>11 DEF Step, Failure

LEMMA ControlStep ==
  ASSUME TypeOK, NEW a \in Attempt, Step(a) \/ Failure(a)
  PROVE  ControlTyped'
<1> USE DEF TypeOK, ControlTyped, Result, GoTo, Reject, Abort
<1>1. CASE Step(a)
  <2>1. CASE IdempotencyCheck(a) \/ RateLimit(a) \/ PushInbox(a) \/ AcquireLock(a)
    BY <2>1 DEF IdempotencyCheck, RateLimit, PushInbox, AcquireLock
  <2>2. CASE VigilCheck(a) \/ LinkScout(a) \/ SelectSpirit(a) \/ SessionSetup(a)
    BY <2>2 DEF VigilCheck, LinkScout, SelectSpirit, SessionSetup
  <2>3. CASE PopRange(a) \/ PopDel(a) \/ Reason(a) \/ SaveMemory(a) \/ AppendEcho(a)
    BY <2>3 DEF PopRange, PopDel, Reason, SaveMemory, AppendEcho
  <2>4. CASE DeliverResponse(a) \/ DeliverNothing(a) \/ ReleaseLock(a) \/ ReleaseAdditional(a)
    BY <2>4 DEF DeliverResponse, DeliverNothing, ReleaseLock, ReleaseAdditional
  <2> QED
    BY <1>1, <2>1, <2>2, <2>3, <2>4 DEF Step
<1>2. CASE Failure(a)
  <2>1. CASE IdempotencyError(a) \/ PushError(a) \/ AcquireError(a) \/ LinkScoutError(a)
    BY <2>1 DEF IdempotencyError, PushError, AcquireError, LinkScoutError
  <2>2. CASE SessionReadError(a) \/ SessionInitError(a) \/ PopError(a) \/ SaveError(a)
             \/ ReasonUnconfirmed(a)
    BY <2>2 DEF SessionReadError, SessionInitError, PopError, SaveError, ReasonUnconfirmed
  <2>3. CASE AppendError(a) \/ DeliverError(a) \/ ReleaseError(a) \/ Crash(a)
    BY <2>3 DEF AppendError, DeliverError, ReleaseError, Crash
  <2> QED
    BY <1>2, <2>1, <2>2, <2>3 DEF Failure
<1> QED
  BY <1>1, <1>2

LEMMA LocalsStep ==
  ASSUME TypeOK, Loaded, NEW a \in Attempt, Step(a) \/ Failure(a)
  PROVE  LocalsTyped'
<1> USE DEF TypeOK, StoresTyped, LocalsTyped, LockKey
<1>1. CASE IdempotencyCheck(a) \/ RateLimit(a) \/ PushInbox(a) \/ AcquireLock(a) \/ VigilCheck(a)
             \/ SaveMemory(a) \/ AppendEcho(a) \/ DeliverNothing(a)
             \/ ReleaseLock(a) \/ ReleaseAdditional(a)
  <2>1. UNCHANGED locals
    BY <1>1 DEF IdempotencyCheck, RateLimit, PushInbox, AcquireLock, VigilCheck,
        SaveMemory, AppendEcho, DeliverNothing, ReleaseLock, ReleaseAdditional
  <2> QED
    BY <2>1 DEF locals
<1>2. CASE IdempotencyError(a) \/ PushError(a) \/ AcquireError(a) \/ SessionInitError(a)
             \/ SaveError(a) \/ AppendError(a) \/ DeliverError(a) \/ ReleaseError(a) \/ Crash(a)
  <2>1. UNCHANGED locals
    BY <1>2 DEF IdempotencyError, PushError, AcquireError, SessionInitError, SaveError,
        AppendError, DeliverError, ReleaseError, Crash
  <2> QED
    BY <2>1 DEF locals
<1>3. CASE LinkScout(a) \/ LinkScoutError(a)
  BY <1>3 DEF LinkScout, LinkScoutError
<1>8. CASE SelectSpirit(a)
  <2>1. \E k \in Key : key' \in {key, [key EXCEPT ![a] = k]}
    BY <1>8, MoveChanges
  <2>2. UNCHANGED <<input, popped, session, extra, delivered>>
    BY <1>8 DEF SelectSpirit
  <2> QED
    BY <2>1, <2>2
<1>4. CASE SessionSetup(a) \/ SessionReadError(a)
  <2>1. PICK m \in SUBSET Pulse : session' = [session EXCEPT ![a] = m]
    BY <1>4, SessionLoads
  <2>2. UNCHANGED <<key, input, popped, extra, delivered>>
    BY <1>4 DEF SessionSetup, SessionReadError
  <2> QED
    BY <2>1, <2>2
<1>5. CASE PopRange(a) \/ PopError(a)
  <2>1. session[a] \cup input[a] \in SUBSET Pulse
    BY <1>5 DEF PopRange, PopError, Loaded
  <2>2. /\ session' = session \/ session' = [session EXCEPT ![a] = session[a] \cup input[a]]
        /\ \/ popped' = popped
           \/ popped' = [popped EXCEPT ![a] = inbox[key[a]]]
           \/ popped' = [popped EXCEPT ![a] = << >>]
        /\ UNCHANGED <<key, input, extra, delivered>>
    BY <1>5 DEF PopRange, PopError
  <2>3. session' \in [Attempt -> (SUBSET Pulse) \cup {None}]
    BY <2>1, <2>2
  <2>4. inbox[key[a]] \in Seq(Pulse) /\ << >> \in Seq(Pulse)
    OBVIOUS
  <2>5. popped' \in [Attempt -> Seq(Pulse)]
    BY <2>2, <2>4
  <2> QED
    BY <2>2, <2>3, <2>5
<1>6. CASE PopDel(a)
  <2> DEFINE turn == IF Len(popped[a]) > 1 THEN Messages(popped[a]) ELSE input[a]
  <2>1. turn \in SUBSET Pulse
    BY DEF Messages
  <2>2. session[a] \cup turn \in SUBSET Pulse
    BY <1>6, <2>1 DEF PopDel, Loaded
  <2>3. /\ session' = [session EXCEPT ![a] = @ \cup turn]
        /\ input' = [input EXCEPT ![a] = turn]
        /\ popped' = [popped EXCEPT ![a] = << >>]
        /\ UNCHANGED <<key, extra, delivered>>
    BY <1>6 DEF PopDel
  <2> HIDE DEF turn
  <2> QED
    BY <2>1, <2>2, <2>3
<1>7. CASE Reason(a) \/ ReasonUnconfirmed(a) \/ DeliverResponse(a)
  BY <1>7 DEF Reason, ReasonUnconfirmed, DeliverResponse
<1> QED
  BY <1>1, <1>2, <1>3, <1>4, <1>5, <1>6, <1>7, <1>8 DEF Step, Failure

LEMMA HistoryStep ==
  ASSUME TypeOK, NEW a \in Attempt, Step(a) \/ Failure(a)
  PROVE  HistoryTyped'
<1> USE DEF TypeOK, LocalsTyped, HistoryTyped
<1>1. CASE IdempotencyCheck(a) \/ RateLimit(a) \/ PushInbox(a) \/ AcquireLock(a) \/ VigilCheck(a)
             \/ LinkScout(a) \/ SelectSpirit(a) \/ SessionSetup(a) \/ PopRange(a) \/ PopDel(a)
             \/ AppendEcho(a) \/ DeliverNothing(a) \/ ReleaseLock(a) \/ ReleaseAdditional(a)
  <2>1. UNCHANGED history
    BY <1>1 DEF IdempotencyCheck, RateLimit, PushInbox, AcquireLock, VigilCheck, LinkScout,
        SelectSpirit, SessionSetup, PopRange, PopDel, AppendEcho, DeliverNothing, ReleaseLock,
        ReleaseAdditional
  <2> QED
    BY <2>1 DEF history
<1>2. CASE PushError(a) \/ AcquireError(a) \/ LinkScoutError(a) \/ SessionInitError(a)
             \/ PopError(a) \/ SaveError(a) \/ ReleaseError(a)
  <2>1. UNCHANGED history
    BY <1>2 DEF PushError, AcquireError, LinkScoutError, SessionInitError, PopError, SaveError,
        ReleaseError
  <2> QED
    BY <2>1 DEF history
<1>3. CASE Reason(a) \/ DeliverResponse(a) \/ DeliverError(a)
  <2>1. /\ replies' \in {replies, [replies EXCEPT ![PulseOf[a]] = @ + 1]}
        /\ carried' \in {carried, carried \cup input[a]}
        /\ UNCHANGED <<saved, unechoed, failedOpen, unconfirmed, amnesia>>
    BY <1>3 DEF Reason, DeliverResponse, DeliverError
  <2>2. PulseOf[a] \in Pulse /\ input[a] \subseteq Pulse
    OBVIOUS
  <2>3. replies' \in [Pulse -> Nat]
    <3>1. [replies EXCEPT ![PulseOf[a]] = @ + 1] \in [Pulse -> Nat]
      BY <2>2
    <3> QED
      BY <2>1, <3>1
  <2>4. carried' \subseteq Pulse
    BY <2>1, <2>2
  <2> QED
    BY <2>1, <2>3, <2>4
<1>6. CASE ReasonUnconfirmed(a)
  <2>1. /\ \E n \in {1, 2} : replies' = [replies EXCEPT ![PulseOf[a]] = @ + n]
        /\ carried' = carried \cup input[a] /\ unconfirmed' = unconfirmed \cup {PulseOf[a]}
        /\ UNCHANGED <<saved, unechoed, failedOpen, amnesia>>
    BY <1>6 DEF ReasonUnconfirmed
  <2>2. PulseOf[a] \in Pulse /\ input[a] \subseteq Pulse
    OBVIOUS
  <2>3. replies' \in [Pulse -> Nat]
    BY <2>1, <2>2
  <2> QED
    BY <2>1, <2>2, <2>3
<1>4. CASE IdempotencyError(a) \/ SessionReadError(a)
  BY <1>4 DEF IdempotencyError, SessionReadError
<1>5. CASE SaveMemory(a) \/ AppendError(a) \/ Crash(a)
  <2>1. /\ saved' = saved \/ saved' = [saved EXCEPT ![key[a]] = @ \cup input[a]]
        /\ \/ unechoed' = unechoed
           \/ unechoed' = [unechoed EXCEPT ![key[a]] = @ \cup input[a]]
        /\ UNCHANGED <<carried, replies, failedOpen, unconfirmed, amnesia>>
    BY <1>5 DEF SaveMemory, AppendError, Crash
  <2>2. /\ saved[key[a]] \cup input[a] \in SUBSET Pulse
        /\ unechoed[key[a]] \cup input[a] \in SUBSET Pulse
    OBVIOUS
  <2>3. saved' \in [Key -> SUBSET Pulse]
    BY <2>1, <2>2
  <2>4. unechoed' \in [Key -> SUBSET Pulse]
    BY <2>1, <2>2
  <2> QED
    BY <2>1, <2>3, <2>4
<1> QED
  BY <1>1, <1>2, <1>3, <1>4, <1>5, <1>6 DEF Step, Failure

\* A step of one attempt leaves the ProcessingState of every other one alone.
LEMMA Others ==
  ASSUME TypeOK, NEW a \in Attempt, Step(a) \/ Failure(a), NEW b \in Attempt, b # a
  PROVE  /\ pc'[b] = pc[b] /\ result'[b] = result[b]
         /\ key'[b] = key[b] /\ extra'[b] = extra[b]
         /\ session'[b] = session[b] /\ delivered'[b] = delivered[b]
         /\ input'[b] = input[b]
<1> USE DEF TypeOK, ControlTyped, LocalsTyped, locals, GoTo, Reject, Abort
<1>1. CASE Step(a)
  <2>1. CASE IdempotencyCheck(a) \/ RateLimit(a) \/ PushInbox(a) \/ AcquireLock(a)
    BY <2>1 DEF IdempotencyCheck, RateLimit, PushInbox, AcquireLock
  <2>2. CASE VigilCheck(a) \/ LinkScout(a) \/ SelectSpirit(a) \/ SessionSetup(a)
    BY <2>2 DEF VigilCheck, LinkScout, SelectSpirit, SessionSetup
  <2>3. CASE PopRange(a) \/ PopDel(a) \/ Reason(a) \/ SaveMemory(a) \/ AppendEcho(a)
    BY <2>3 DEF PopRange, PopDel, Reason, SaveMemory, AppendEcho
  <2>4. CASE DeliverResponse(a) \/ DeliverNothing(a) \/ ReleaseLock(a) \/ ReleaseAdditional(a)
    BY <2>4 DEF DeliverResponse, DeliverNothing, ReleaseLock, ReleaseAdditional
  <2> QED
    BY <1>1, <2>1, <2>2, <2>3, <2>4 DEF Step
<1>2. CASE Failure(a)
  <2>1. CASE IdempotencyError(a) \/ PushError(a) \/ AcquireError(a) \/ LinkScoutError(a)
    BY <2>1 DEF IdempotencyError, PushError, AcquireError, LinkScoutError
  <2>2. CASE SessionReadError(a) \/ SessionInitError(a) \/ PopError(a) \/ SaveError(a)
             \/ ReasonUnconfirmed(a)
    BY <2>2 DEF SessionReadError, SessionInitError, PopError, SaveError, ReasonUnconfirmed
  <2>3. CASE AppendError(a) \/ DeliverError(a) \/ ReleaseError(a) \/ Crash(a)
    BY <2>3 DEF AppendError, DeliverError, ReleaseError, Crash
  <2> QED
    BY <1>2, <2>1, <2>2, <2>3 DEF Failure
<1> QED
  BY <1>1, <1>2

LEMMA LoadedStep ==
  ASSUME TypeOK, Loaded, NEW a \in Attempt, Step(a) \/ Failure(a)
  PROVE  Loaded'
<1> USE DEF TypeOK, ControlTyped, LocalsTyped, Loaded, GoTo, Reject, Abort
<1>1. CASE SessionSetup(a) \/ SessionReadError(a)
  <2>1. PICK m \in SUBSET Pulse : session' = [session EXCEPT ![a] = m]
    BY <1>1, SessionLoads
  <2> QED
    BY <2>1, Others
<1>2. CASE PopRange(a)
  BY <1>2 DEF PopRange
<1>3. ASSUME pc'[a] \notin {"pop", "clear"} PROVE Loaded'
  <2>1. \A b \in Attempt \ {a} : pc'[b] = pc[b] /\ session'[b] = session[b]
    BY Others
  <2> QED
    BY <1>3, <2>1
<1>4. CASE IdempotencyCheck(a) \/ RateLimit(a) \/ PushInbox(a) \/ AcquireLock(a) \/ VigilCheck(a)
             \/ LinkScout(a) \/ SelectSpirit(a) \/ PopDel(a)
  BY <1>3, <1>4 DEF IdempotencyCheck, RateLimit, PushInbox, AcquireLock, VigilCheck, LinkScout,
      SelectSpirit, PopDel
<1>5. CASE Reason(a) \/ ReasonUnconfirmed(a) \/ SaveMemory(a) \/ AppendEcho(a)
             \/ DeliverResponse(a) \/ DeliverNothing(a) \/ ReleaseLock(a) \/ ReleaseAdditional(a)
  BY <1>3, <1>5 DEF Reason, ReasonUnconfirmed, SaveMemory, AppendEcho, DeliverResponse, DeliverNothing, ReleaseLock,
      ReleaseAdditional
<1>6. CASE IdempotencyError(a) \/ PushError(a) \/ AcquireError(a) \/ LinkScoutError(a)
             \/ SessionInitError(a) \/ PopError(a) \/ SaveError(a)
  BY <1>3, <1>6 DEF IdempotencyError, PushError, AcquireError, LinkScoutError, SessionInitError,
      PopError, SaveError
<1>7. CASE AppendError(a) \/ DeliverError(a) \/ ReleaseError(a) \/ Crash(a)
  BY <1>3, <1>7 DEF AppendError, DeliverError, ReleaseError, Crash
<1> QED
  BY <1>1, <1>2, <1>4, <1>5, <1>6, <1>7 DEF Step, Failure

LEMMA TypeInvariant == Spec => [](TypeOK /\ Loaded)
<1>1. Init => TypeOK /\ Loaded
  BY DEF Init, TypeOK, StoresTyped, ControlTyped, LocalsTyped, HistoryTyped, Result, Loaded
<1>2. TypeOK /\ Loaded /\ [Next]_vars => (TypeOK /\ Loaded)'
  <2> SUFFICES ASSUME TypeOK, Loaded, [Next]_vars PROVE TypeOK' /\ Loaded'
    OBVIOUS
  <2>0. faults' \in 0..MaxFaults
    BY DEF Next, vars, TypeOK
  <2>1. ASSUME NEW a \in Attempt, Step(a) \/ Failure(a) PROVE TypeOK' /\ Loaded'
    BY <2>0, <2>1, StoresStep, ControlStep, LocalsStep, HistoryStep, LoadedStep DEF TypeOK
  <2>2. ASSUME NEW k \in Key, Expiry(k) PROVE TypeOK' /\ Loaded'
    <3>1. StoresTyped'
      <4> USE DEF TypeOK, StoresTyped
      <4>1. CASE LockExpire(k)
        BY <4>1 DEF LockExpire
      <4>2. CASE MemoryExpire(k)
        BY <4>2 DEF MemoryExpire
      <4>3. CASE InboxExpire(k)
        <5>1. << >> \in Seq(Pulse)
          OBVIOUS
        <5> QED
          BY <4>3, <5>1 DEF InboxExpire
      <4> QED
        BY <2>2, <4>1, <4>2, <4>3 DEF Expiry
    <3>2. UNCHANGED <<state, history>>
      BY <2>2 DEF Expiry, LockExpire, MemoryExpire, InboxExpire
    <3> QED
      BY <2>0, <3>1, <3>2
      DEF TypeOK, ControlTyped, LocalsTyped, HistoryTyped, Loaded, state, locals, history
  <2>3. CASE UNCHANGED vars
    BY <2>3 DEF vars, stores, state, locals, history, TypeOK, StoresTyped, ControlTyped,
        LocalsTyped, HistoryTyped, Loaded
  <2> QED
    BY <2>1, <2>2, <2>3, NextSteps
<1> QED
  BY <1>1, <1>2, PTL DEF Spec

\* Every variable of Weave keeps its type: the inbox stays a list of Pulses, a session
\* and a memory stay sets of them or None.
THEOREM TypeCorrect == Spec => []TypeOK
  BY TypeInvariant, PTL
-----------------------------------------------------------------------------
(* Locks *)

Located == {"spirit", "session", "pop", "clear", "reason", "save", "append", "deliver"}
Locked == {"vigil", "scout", "release"} \cup Located
Loading == {"pop", "clear", "reason", "save", "append", "deliver", "release", "release_extra",
            "done"}

ExtraKey(a) == RekeyOf[PulseOf[a]]

\* What an attempt has: the lock it came for, and the one of the session the Link's Scouts
\* chose.
Has(a) ==
    /\ pc[a] \in Locked => lock[LockKey(a)] = a
    /\ extra[a] => pc[a] \in Located \cup {"release", "release_extra", "done"}
    /\ extra[a] => ExtraKey(a) # LockKey(a)
    /\ extra[a] /\ pc[a] # "done" => lock[ExtraKey(a)] = a
    /\ pc[a] = "release_extra" => extra[a]
\* Where it works: on the session of one of the two, or where the Spirit's Scouts moved it.
Place(a) ==
    /\ pc[a] \in Located /\ ~extra[a] => ExtraKey(a) = LockKey(a)
    /\ pc[a] \in Located /\ key[a] \in Guarded => key[a] \in {LockKey(a), ExtraKey(a)}
    /\ session[a] # None => pc[a] \in Loading
\* It has no other lock.
HasOnly(a) ==
    \A k \in Key : lock[k] = a =>
      \/ pc[a] \in Locked /\ k = LockKey(a)
      \/ extra[a] /\ pc[a] # "done" /\ k = ExtraKey(a)

Owner(a) == Has(a) /\ Place(a) /\ HasOnly(a)
Owners == \A a \in Attempt : Owner(a)

\* A lock is taken when it is free, and given back by the attempt that has it.
LEMMA LockChanges ==
  ASSUME TypeOK, Owners, NEW a \in Attempt, Step(a) \/ Failure(a), NEW k \in Key
  PROVE  \/ lock'[k] = lock[k]
         \/ lock[k] = None /\ lock'[k] \in {a, Orphan}
         \/ lock[k] = a /\ lock'[k] \in {None, Orphan}
<1> USE DEF TypeOK, StoresTyped, ControlTyped, LocalsTyped, stores
<1>0. Has(a)
  BY DEF Owners, Owner
<1>1. CASE IdempotencyCheck(a) \/ RateLimit(a) \/ PushInbox(a) \/ VigilCheck(a) \/ SelectSpirit(a)
             \/ SessionSetup(a) \/ PopRange(a) \/ PopDel(a)
  BY <1>1 DEF IdempotencyCheck, RateLimit, PushInbox, VigilCheck, SelectSpirit, SessionSetup,
      PopRange, PopDel
<1>2. CASE Reason(a) \/ ReasonUnconfirmed(a) \/ SaveMemory(a) \/ AppendEcho(a)
             \/ DeliverResponse(a) \/ DeliverNothing(a)
  BY <1>2 DEF Reason, ReasonUnconfirmed, SaveMemory, AppendEcho, DeliverResponse, DeliverNothing
<1>3. CASE IdempotencyError(a) \/ PushError(a) \/ SessionReadError(a) \/ SessionInitError(a)
             \/ PopError(a) \/ SaveError(a) \/ AppendError(a) \/ DeliverError(a)
  BY <1>3 DEF IdempotencyError, PushError, SessionReadError, SessionInitError, PopError,
      SaveError, AppendError, DeliverError
<1>4. CASE AcquireLock(a) \/ AcquireError(a)
  BY <1>4 DEF AcquireLock, AcquireError, LockKey
<1>5. CASE LinkScout(a) \/ LinkScoutError(a)
  BY <1>5 DEF LinkScout, LinkScoutError
<1>6. CASE ReleaseLock(a) \/ ReleaseAdditional(a) \/ ReleaseError(a)
  BY <1>0, <1>6 DEF ReleaseLock, ReleaseAdditional, ReleaseError, Has, Locked, LockKey,
      ExtraKey
<1>7. CASE Crash(a)
  BY <1>7 DEF Crash
<1> QED
  BY <1>1, <1>2, <1>3, <1>4, <1>5, <1>6, <1>7 DEF Step, Failure

\* What the other attempts have is not touched.
LEMMA OthersOwn ==
  ASSUME TypeOK, Owners, NEW a \in Attempt, Step(a) \/ Failure(a), NEW b \in Attempt, b # a
  PROVE  Owner(b)'
<1>1. Owner(b) /\ LockKey(b) \in Key /\ ExtraKey(b) \in Key
  BY DEF Owners, LockKey, ExtraKey
<1>2. /\ pc'[b] = pc[b] /\ key'[b] = key[b] /\ extra'[b] = extra[b] /\ session'[b] = session[b]
  BY Others
<1>3. \A k \in Key : lock[k] = b <=> lock'[k] = b
  BY LockChanges
<1>4. Has(b)'
  BY <1>1, <1>2, <1>3 DEF Owner, Has, LockKey, ExtraKey
<1>5. Place(b)'
  BY <1>1, <1>2 DEF Owner, Place, LockKey, ExtraKey
<1>6. HasOnly(b)'
  BY <1>1, <1>2, <1>3 DEF Owner, HasOnly, LockKey, ExtraKey
<1> QED
  BY <1>4, <1>5, <1>6 DEF Owner

LEMMA OwnStep ==
  ASSUME TypeOK, Owners, NEW a \in Attempt, Step(a) \/ Failure(a)
  PROVE  Owner(a)'
<1> USE DEF TypeOK, StoresTyped, ControlTyped, LocalsTyped, stores, locals, GoTo, Reject, Abort
<1>0. Owner(a) /\ LockKey(a) \in Key /\ key[a] \in Key /\ ExtraKey(a) \in Key
  BY DEF Owners, LockKey, ExtraKey
<1> USE DEF Owner, Has, Place, HasOnly, Locked, Located, Loading, ExtraKey
<1>1. CASE IdempotencyCheck(a) \/ RateLimit(a) \/ PushInbox(a) \/ IdempotencyError(a)
             \/ PushError(a)
  BY <1>0, <1>1 DEF IdempotencyCheck, RateLimit, PushInbox, IdempotencyError, PushError
<1>2. CASE AcquireLock(a) \/ AcquireError(a)
  BY <1>0, <1>2 DEF AcquireLock, AcquireError
<1>3. CASE VigilCheck(a)
  BY <1>0, <1>3 DEF VigilCheck
<1>13. CASE SelectSpirit(a)
  <2>1. key'[a] \in SpiritRekeyOf[PulseOf[a]] /\ key'[a] \in Guarded
          => key'[a] \in {LockKey(a), ExtraKey(a)}
    BY DEF Guarded, Unguarded, LockKey
  <2>2. UNCHANGED <<lock, extra, session>> /\ pc[a] = "spirit"
    BY <1>13 DEF SelectSpirit
  <2> QED
    BY <1>0, <1>13, <2>1, <2>2, MoveChanges DEF LockKey
<1>4. CASE LinkScout(a)
  BY <1>0, <1>4 DEF LinkScout
<1>5. CASE LinkScoutError(a)
  BY <1>0, <1>5 DEF LinkScoutError
<1>6. CASE SessionSetup(a) \/ SessionReadError(a) \/ SessionInitError(a)
  BY <1>0, <1>6 DEF SessionSetup, SessionReadError, SessionInitError
<1>7. CASE PopRange(a) \/ PopDel(a) \/ PopError(a)
  <2>1. /\ UNCHANGED <<lock, key, extra, result>> /\ pc[a] \in {"pop", "clear"}
        /\ pc' = [pc EXCEPT ![a] = "clear"] \/ pc' = [pc EXCEPT ![a] = "reason"]
    BY <1>7 DEF PopRange, PopDel, PopError
  <2> QED
    BY <1>0, <2>1 DEF LockKey
<1>8. CASE Reason(a) \/ ReasonUnconfirmed(a) \/ SaveMemory(a) \/ SaveError(a) \/ AppendEcho(a)
             \/ AppendError(a)
  BY <1>0, <1>8 DEF Reason, ReasonUnconfirmed, SaveMemory, SaveError, AppendEcho, AppendError
<1>9. CASE DeliverResponse(a) \/ DeliverNothing(a) \/ DeliverError(a)
  BY <1>0, <1>9 DEF DeliverResponse, DeliverNothing, DeliverError
<1>10. CASE ReleaseLock(a) \/ ReleaseAdditional(a)
  <2>1. CASE ReleaseLock(a) /\ extra[a]
    <3>1. /\ UNCHANGED <<key, extra, session>> /\ pc[a] = "release"
          /\ pc' = [pc EXCEPT ![a] = "release_extra"]
          /\ lock' = [lock EXCEPT ![LockKey(a)] = None]
      BY <2>1 DEF ReleaseLock
    <3>2. Has(a)'
      BY <1>0, <3>1, <2>1 DEF LockKey
    <3>3. Place(a)'
      BY <1>0, <3>1 DEF LockKey
    <3>4. HasOnly(a)'
      BY <1>0, <3>1, <2>1, NoneAssumption DEF LockKey
    <3> QED
      BY <3>2, <3>3, <3>4
  <2>2. CASE ReleaseLock(a) /\ ~extra[a]
    BY <1>0, <2>2 DEF ReleaseLock, LockKey
  <2>3. CASE ReleaseAdditional(a)
    BY <1>0, <2>3 DEF ReleaseAdditional, LockKey
  <2> QED
    BY <1>10, <2>1, <2>2, <2>3
<1>11. CASE ReleaseError(a)
  BY <1>0, <1>11 DEF ReleaseError
<1>12. CASE Crash(a)
  BY <1>0, <1>12 DEF Crash
<1> QED
  BY <1>1, <1>2, <1>3, <1>4, <1>5, <1>6, <1>7, <1>8, <1>9, <1>10, <1>11, <1>12, <1>13
  DEF Step, Failure

LEMMA OwnersInvariant == Spec => []Owners
<1>1. Init => Owners
  BY DEF Init, Owners, Owner, Has, Place, HasOnly, Locked, Located, Loading, LockKey,
      ExtraKey
<1>2. TypeOK /\ Owners /\ [Next]_vars => Owners'
  <2> SUFFICES ASSUME TypeOK, Owners, [Next]_vars PROVE Owners'
    OBVIOUS
  <2>1. ASSUME NEW a \in Attempt, Step(a) \/ Failure(a) PROVE Owners'
    BY <2>1, OthersOwn, OwnStep DEF Owners
  <2>2. ASSUME NEW k \in Key, Expiry(k) PROVE Owners'
    <3>1. UNCHANGED state
      BY <2>2 DEF Expiry, LockExpire, MemoryExpire, InboxExpire
    <3>2. \A j \in Key, a \in Attempt : lock'[j] = a <=> lock[j] = a
      BY <2>2 DEF Expiry, LockExpire, MemoryExpire, InboxExpire, TypeOK, StoresTyped
    <3>3. \A a \in Attempt : LockKey(a) \in Key /\ ExtraKey(a) \in Key
      BY DEF LockKey, ExtraKey
    <3> QED
      BY <3>1, <3>2, <3>3 DEF Owners, Owner, Has, Place, HasOnly, LockKey, ExtraKey, state, locals
  <2>3. CASE UNCHANGED vars
    BY <2>3 DEF vars, stores, state, locals, Owners, Owner, Has, Place, HasOnly, LockKey,
        ExtraKey
  <2> QED
    BY <2>1, <2>2, <2>3, NextSteps
<1> QED
  BY <1>1, <1>2, TypeCorrect, PTL DEF Spec

\* Wherever the Link's Scouts move it, a turn that loaded a session owns the lock of that very
\* session, unless the Scouts of a Spirit move a turn there, which they do without a lock.
THEOREM SessionsGuarded == Spec => []SessionGuarded
<1>1. TypeOK /\ Owners => SessionGuarded
  <2> SUFFICES ASSUME TypeOK, Owners, NEW a \in Attempt, session[a] # None, key[a] \in Guarded,
                      pc[a] \notin {"release", "release_extra", "done"}
               PROVE  lock[key[a]] = a
    BY DEF SessionGuarded
  <2>1. pc[a] \in Located /\ Has(a) /\ Place(a)
    BY DEF Owners, Owner, Place, Loading, Located
  <2> QED
    BY <2>1 DEF Has, Place, Locked, Located
<1> QED
  BY <1>1, TypeCorrect, OwnersInvariant, PTL

\* On every path to its end an attempt gives back both locks.
THEOREM AllLocksReturned == Spec => []LocksReturned
<1>1. Owners => LocksReturned
  BY DEF Owners, Owner, HasOnly, Locked, Located, LocksReturned
<1> QED
  BY <1>1, OwnersInvariant, PTL
-----------------------------------------------------------------------------
(* The conversation *)

\* A saved message is in the echoes, or will never be, or the turn that saved it is about to
\* append it.
Echoed ==
    \A k \in Key : \A m \in saved[k] :
      \/ m \in echo[k] \cup unechoed[k]
      \/ \E b \in Attempt : pc[b] = "append" /\ key[b] = k /\ m \in input[b]
\* A memory was rebuilt from all the echoes there were, or saved by a turn that had loaded it.
Remembered ==
    \A k \in Guarded \ amnesia :
      memory[k] # None => saved[k] \subseteq memory[k] \cup unechoed[k]
\* Nobody saved anything in a session since the turn that works on it loaded it.
Based(a) ==
    pc[a] \in {"pop", "clear", "reason", "save"} /\ session[a] # None
      /\ key[a] \in Guarded \ amnesia
      => saved[key[a]] \subseteq session[a] \cup unechoed[key[a]]
\* The user turn is part of the session that is saved.
Including(a) ==
    pc[a] \in {"reason", "save"} /\ session[a] # None => input[a] \subseteq session[a]

Conversation == Echoed /\ Remembered /\ \A a \in Attempt : Based(a) /\ Including(a)

\* Two turns that work on a guarded session are one.
LEMMA WorksAlone ==
  ASSUME TypeOK, Owners, NEW a \in Attempt, NEW b \in Attempt,
         pc[a] \in Located, pc[b] \in Located, key[a] = key[b], key[a] \in Guarded
  PROVE  a = b
<1>1. lock[key[a]] = a
  BY DEF Owners, Owner, Has, Place, Locked, Located
<1>2. lock[key[b]] = b
  BY DEF Owners, Owner, Has, Place, Locked, Located
<1> QED
  BY <1>1, <1>2

\* A step that saves nothing and appends nothing.
Keeps(a) ==
    /\ UNCHANGED <<memory, echo, saved, unechoed, amnesia>>
    /\ pc[a] # "append" /\ pc'[a] # "append"
    /\ Based(a)' /\ Including(a)'

LEMMA KeepsSteps ==
  ASSUME TypeOK, Loaded, Owners, Conversation, NEW a \in Attempt, Step(a) \/ Failure(a)
  PROVE  \/ SessionSetup(a) \/ SessionReadError(a) \/ SaveMemory(a) \/ AppendEcho(a)
         \/ AppendError(a) \/ Crash(a)
         \/ Keeps(a)
<1> USE DEF TypeOK, StoresTyped, ControlTyped, LocalsTyped, HistoryTyped, stores, locals, history,
      GoTo, Reject, Abort, Keeps, Based, Including
<1>0. Based(a) /\ Including(a) /\ Place(a)
  BY DEF Conversation, Owners, Owner
<1>1. CASE IdempotencyCheck(a) \/ IdempotencyError(a) \/ RateLimit(a) \/ PushInbox(a)
             \/ PushError(a)
  BY <1>1 DEF IdempotencyCheck, IdempotencyError, RateLimit, PushInbox, PushError
<1>2. CASE AcquireLock(a) \/ AcquireError(a) \/ VigilCheck(a) \/ LinkScout(a)
             \/ LinkScoutError(a) \/ SessionInitError(a)
  BY <1>2 DEF AcquireLock, AcquireError, VigilCheck, LinkScout, LinkScoutError, SessionInitError
<1>3. CASE SelectSpirit(a)
  BY <1>0, <1>3 DEF SelectSpirit, Place, Loading
<1>4. CASE PopRange(a)
  <2>1. CASE HasInbox
    BY <1>0, <1>4, <2>1 DEF PopRange
  <2>2. CASE ~HasInbox
    <3>1. session[a] \in SUBSET Pulse /\ session[a] # None
      BY <1>4, MemoryAssumption DEF PopRange, Loaded
    <3>2. /\ session'[a] = session[a] \cup input[a] /\ input'[a] = input[a]
          /\ pc[a] = "pop" /\ pc'[a] = "reason"
          /\ UNCHANGED <<memory, echo, key, saved, unechoed, amnesia>>
      BY <1>4, <2>2 DEF PopRange
    <3> QED
      BY <1>0, <3>1, <3>2
  <2> QED
    BY <2>1, <2>2
<1>5. CASE PopDel(a)
  <2> DEFINE turn == IF Len(popped[a]) > 1 THEN Messages(popped[a]) ELSE input[a]
  <2>1. /\ session'[a] = session[a] \cup turn /\ input'[a] = turn /\ session[a] # None
        /\ pc[a] = "clear" /\ pc'[a] = "reason"
        /\ UNCHANGED <<memory, echo, key, saved, unechoed, amnesia>>
    <3>1. session[a] \in SUBSET Pulse
      BY <1>5 DEF PopDel, Loaded
    <3> QED
      BY <1>5, <3>1, MemoryAssumption DEF PopDel
  <2> HIDE DEF turn
  <2> QED
    BY <1>0, <2>1
<1>6. CASE PopError(a)
  <2>1. /\ session'[a] = session[a] \cup input[a] /\ input'[a] = input[a] /\ session[a] # None
        /\ pc[a] = "clear" /\ pc'[a] = "reason"
        /\ UNCHANGED <<memory, echo, key, saved, unechoed, amnesia>>
    <3>1. session[a] \in SUBSET Pulse
      BY <1>6 DEF PopError, Loaded
    <3> QED
      BY <1>6, <3>1, MemoryAssumption DEF PopError
  <2> QED
    BY <1>0, <2>1
<1>7. CASE Reason(a) \/ ReasonUnconfirmed(a)
  BY <1>0, <1>7 DEF Reason, ReasonUnconfirmed
<1>8. CASE SaveError(a) \/ DeliverResponse(a) \/ DeliverNothing(a) \/ DeliverError(a)
  <2>1. /\ pc[a] \in {"save", "deliver"} /\ pc'[a] = "release"
        /\ UNCHANGED <<memory, echo, saved, unechoed, amnesia>>
    BY <1>8 DEF SaveError, DeliverResponse, DeliverNothing, DeliverError
  <2> QED
    BY <2>1
<1>9. CASE ReleaseLock(a) \/ ReleaseAdditional(a) \/ ReleaseError(a)
  <2>1. /\ pc[a] \in {"release", "release_extra"} /\ pc'[a] \in {"release_extra", "done"}
        /\ UNCHANGED <<memory, echo, saved, unechoed, amnesia>>
    BY <1>9 DEF ReleaseLock, ReleaseAdditional, ReleaseError
  <2> QED
    BY <2>1
<1> QED
  BY <1>1, <1>2, <1>3, <1>4, <1>5, <1>6, <1>7, <1>8, <1>9 DEF Step, Failure

LEMMA ConversationStep ==
  ASSUME TypeOK, Loaded, Owners, Conversation, NEW a \in Attempt, Step(a) \/ Failure(a)
  PROVE  Conversation'
<1>0. /\ Echoed /\ Remembered /\ \A b \in Attempt : Based(b) /\ Including(b)
      /\ key[a] \in Key /\ input[a] \in SUBSET Pulse /\ session[a] \in (SUBSET Pulse) \cup {None}
      /\ saved \in [Key -> SUBSET Pulse] /\ unechoed \in [Key -> SUBSET Pulse]
      /\ echo \in [Key -> SUBSET Pulse] /\ memory \in [Key -> (SUBSET Pulse) \cup {None}]
      /\ pc \in [Attempt -> {"new", "limit", "push", "lock", "vigil", "scout", "spirit",
                             "session", "pop", "clear", "reason", "save", "append", "deliver",
                             "release", "release_extra", "done"}]
  BY DEF Conversation, TypeOK, StoresTyped, ControlTyped, LocalsTyped, HistoryTyped
<1>1. ASSUME NEW b \in Attempt, b # a
      PROVE  /\ pc'[b] = pc[b] /\ key'[b] = key[b] /\ session'[b] = session[b]
             /\ input'[b] = input[b]
  BY <1>1, Others
<1>2. ASSUME NEW b \in Attempt, b # a
      PROVE  Including(b)'
  BY <1>0, <1>1, <1>2 DEF Including
\* What is saved by another turn is saved in another session.
<1>3. ASSUME NEW b \in Attempt, b # a, amnesia \subseteq amnesia',
             \A k \in Key : unechoed[k] \subseteq unechoed'[k],
             \A k \in Key : saved'[k] # saved[k] => k = key[a] /\ pc[a] = "save"
      PROVE  Based(b)'
  <2>1. pc[a] = "save" /\ pc[b] \in {"pop", "clear", "reason", "save"} 
          /\ key[b] \in Guarded => key[b] # key[a]
    BY <1>3, WorksAlone DEF Located
  <2>2. key[b] \in Key
    BY DEF TypeOK, LocalsTyped
  <2> QED
    BY <1>0, <1>1, <1>3, <2>1, <2>2 DEF Based
<1>4. CASE Keeps(a)
  <2>1. Echoed'
    <3>1. ASSUME NEW b \in Attempt, pc[b] = "append"
          PROVE  pc'[b] = "append" /\ key'[b] = key[b] /\ input'[b] = input[b]
      BY <1>1, <1>4, <3>1 DEF Keeps
    <3>2. UNCHANGED <<echo, saved, unechoed>>
      BY <1>4 DEF Keeps
    <3>3. ASSUME NEW k \in Key, NEW m \in saved[k]
          PROVE  \/ m \in echo[k] \cup unechoed[k]
                 \/ \E b \in Attempt : pc'[b] = "append" /\ key'[b] = k /\ m \in input'[b]
      BY <1>0, <3>1, <3>3 DEF Echoed
    <3> QED
      BY <3>2, <3>3 DEF Echoed
  <2>2. Remembered'
    BY <1>0, <1>4 DEF Keeps, Remembered
  <2>3. \A b \in Attempt : Based(b)' /\ Including(b)'
    BY <1>2, <1>3, <1>4 DEF Keeps
  <2> QED
    BY <2>1, <2>2, <2>3 DEF Conversation
<1>5. CASE SessionSetup(a)
  <2> DEFINE loaded == IF memory[key[a]] = None THEN echo[key[a]] ELSE memory[key[a]]
  <2>1. /\ session' = [session EXCEPT ![a] = loaded]
        /\ memory' = [memory EXCEPT ![key[a]] = loaded]
        /\ pc[a] = "session" /\ pc' = [pc EXCEPT ![a] = "pop"]
        /\ UNCHANGED <<echo, key, input, saved, unechoed, amnesia>>
    BY <1>5 DEF SessionSetup, GoTo, history
  <2>2. \A b \in Attempt : pc[b] = "append" /\ key[b] \in Guarded => key[b] # key[a]
    BY <2>1, WorksAlone DEF Located
  <2>3. key[a] \in Guarded \ amnesia => saved[key[a]] \subseteq loaded \cup unechoed[key[a]]
    BY <1>0, <2>2 DEF Echoed, Remembered
  <2> HIDE DEF loaded
  <2>4. session'[a] = loaded /\ memory'[key[a]] = loaded /\ pc'[a] = "pop"
    BY <1>0, <2>1 DEF TypeOK, LocalsTyped
  <2>5. Echoed'
    BY <1>0, <2>1, <1>1 DEF Echoed
  <2>6. Remembered'
    BY <1>0, <2>1, <2>3, <2>4 DEF Remembered
  <2>7. Based(a)' /\ Including(a)'
    BY <2>1, <2>3, <2>4 DEF Based, Including
  <2>8. \A b \in Attempt : Based(b)' /\ Including(b)'
    BY <1>2, <1>3, <2>1, <2>7
  <2> QED
    BY <2>5, <2>6, <2>8 DEF Conversation
<1>6. CASE SessionReadError(a)
  <2>1. PICK m \in SUBSET Pulse : /\ session' = [session EXCEPT ![a] = m]
                                 /\ memory' = [memory EXCEPT ![key[a]] = m]
    BY <1>6, SessionLoads
  <2>2. /\ amnesia' = amnesia \cup {key[a]}
        /\ pc[a] = "session" /\ pc' = [pc EXCEPT ![a] = "pop"]
        /\ UNCHANGED <<echo, key, input, saved, unechoed>>
    BY <1>6 DEF SessionReadError, GoTo
  <2>3. Echoed'
    BY <1>0, <2>2, <1>1 DEF Echoed
  <2>4. Remembered'
    BY <1>0, <2>1, <2>2 DEF Remembered
  <2>5. Based(a)' /\ Including(a)'
    BY <1>0, <2>2 DEF Based, Including
  <2>6. \A b \in Attempt : Based(b)' /\ Including(b)'
    BY <1>2, <1>3, <2>2, <2>5
  <2> QED
    BY <2>3, <2>4, <2>6 DEF Conversation
<1>7. CASE SaveMemory(a)
  <2>1. CASE session[a] = None
    <3>1. /\ UNCHANGED <<memory, echo, saved, unechoed, amnesia>>
          /\ pc[a] = "save" /\ pc'[a] = "deliver"
      BY <1>0, <1>7, <2>1 DEF SaveMemory, GoTo
    <3>2. Keeps(a)
      BY <3>1 DEF Keeps, Based, Including
    <3> QED
      BY <1>4, <3>2
  <2>2. CASE session[a] # None
    <3>1. /\ memory' = [memory EXCEPT ![key[a]] = session[a]]
          /\ saved' = [saved EXCEPT ![key[a]] = @ \cup input[a]]
          /\ pc[a] = "save" /\ pc' = [pc EXCEPT ![a] = "append"]
          /\ UNCHANGED <<echo, key, input, session, unechoed, amnesia>>
      BY <1>7, <2>2 DEF SaveMemory, GoTo, locals
    <3>2. input[a] \subseteq session[a]
      BY <1>0, <2>2, <3>1 DEF Including
    <3>3. key[a] \in Guarded \ amnesia => saved[key[a]] \subseteq session[a] \cup unechoed[key[a]]
      BY <1>0, <2>2, <3>1 DEF Based
    <3>4. /\ saved'[key[a]] = saved[key[a]] \cup input[a] /\ memory'[key[a]] = session[a]
          /\ \A k \in Key \ {key[a]} : saved'[k] = saved[k] /\ memory'[k] = memory[k]
          /\ pc'[a] = "append"
      BY <1>0, <3>1
    <3>5. Echoed'
      <4> SUFFICES ASSUME NEW k \in Key, NEW m \in saved'[k]
                   PROVE  \/ m \in (echo[k] \cup unechoed[k])'
                          \/ \E b \in Attempt : (pc[b] = "append" /\ key[b] = k /\ m \in input[b])'
        BY DEF Echoed
      <4>1. CASE m \in saved[k]
        <5>1. CASE m \in echo[k] \cup unechoed[k]
          BY <3>1, <5>1
        <5>2. CASE \E b \in Attempt : pc[b] = "append" /\ key[b] = k /\ m \in input[b]
          BY <1>1, <3>1, <5>2
        <5> QED
          BY <1>0, <4>1, <5>1, <5>2 DEF Echoed
      <4>2. CASE k = key[a] /\ m \in input[a]
        BY <3>1, <3>4, <4>2
      <4> QED
        BY <3>4, <4>1, <4>2
    <3>6. Remembered'
      BY <1>0, <3>1, <3>2, <3>3, <3>4 DEF Remembered
    <3>7. Based(a)' /\ Including(a)'
      BY <3>4 DEF Based, Including
    <3>8. \A b \in Attempt : Based(b)' /\ Including(b)'
      BY <1>2, <1>3, <3>1, <3>4, <3>7
    <3> QED
      BY <3>5, <3>6, <3>8 DEF Conversation
  <2> QED
    BY <2>1, <2>2
<1>8. CASE AppendEcho(a) \/ AppendError(a) \/ Crash(a)
  \* What the turn was about to append is now in the echoes, or counted as lost.
  <2>1. /\ UNCHANGED <<memory, key, input, session, saved, amnesia>>
        /\ \A k \in Key : echo[k] \subseteq echo'[k] /\ unechoed[k] \subseteq unechoed'[k]
        /\ pc[a] = "append" => input[a] \subseteq echo'[key[a]] \cup unechoed'[key[a]]
        /\ pc'[a] \in {"deliver", "done"}
    <3> USE DEF GoTo, Reject, stores, locals, history
    <3>1. CASE AppendEcho(a)
      BY <1>0, <3>1 DEF AppendEcho
    <3>2. CASE AppendError(a)
      BY <1>0, <3>2 DEF AppendError
    <3>3. CASE Crash(a)
      BY <1>0, <3>3 DEF Crash
    <3> QED
      BY <1>8, <3>1, <3>2, <3>3
  <2>2. Echoed'
    <3> SUFFICES ASSUME NEW k \in Key, NEW m \in saved[k]
                 PROVE  \/ m \in (echo[k] \cup unechoed[k])'
                        \/ \E b \in Attempt : (pc[b] = "append" /\ key[b] = k /\ m \in input[b])'
      BY <2>1 DEF Echoed
    <3>1. CASE m \in echo[k] \cup unechoed[k]
      BY <2>1, <3>1
    <3>2. ASSUME NEW b \in Attempt, pc[b] = "append", key[b] = k, m \in input[b]
          PROVE  \/ m \in (echo[k] \cup unechoed[k])'
                 \/ \E c \in Attempt : (pc[c] = "append" /\ key[c] = k /\ m \in input[c])'
      BY <1>1, <2>1, <3>2
    <3> QED
      BY <1>0, <3>1, <3>2 DEF Echoed
  <2>3. Remembered'
    <3>1. ASSUME NEW k \in Guarded \ amnesia, memory[k] # None
          PROVE  saved[k] \subseteq memory[k] \cup unechoed'[k]
      BY <1>0, <2>1, <3>1 DEF Remembered, Guarded
    <3> QED
      BY <2>1, <3>1 DEF Remembered
  <2>4. Based(a)' /\ Including(a)'
    BY <2>1 DEF Based, Including
  <2>5. \A b \in Attempt : Based(b)' /\ Including(b)'
    BY <1>2, <1>3, <2>1, <2>4
  <2> QED
    BY <2>2, <2>3, <2>5 DEF Conversation
<1> QED
  BY <1>4, <1>5, <1>6, <1>7, <1>8, KeepsSteps

LEMMA ConversationInvariant == Spec => []Conversation
<1>1. Init => Conversation
  BY DEF Init, Conversation, Echoed, Remembered, Based, Including
<1>2. TypeOK /\ Loaded /\ Owners /\ Conversation /\ [Next]_vars => Conversation'
  <2> SUFFICES ASSUME TypeOK, Loaded, Owners, Conversation, [Next]_vars PROVE Conversation'
    OBVIOUS
  <2>1. ASSUME NEW a \in Attempt, Step(a) \/ Failure(a) PROVE Conversation'
    BY <2>1, ConversationStep
  \* A memory may be gone, and comes back from the echoes.
  <2>2. ASSUME NEW k \in Key, Expiry(k) PROVE Conversation'
    <3>1. UNCHANGED <<pc, key, input, session, echo, saved, unechoed, amnesia>>
      BY <2>2 DEF Expiry, LockExpire, MemoryExpire, InboxExpire, state, locals, history
    <3>2. \A j \in Key : memory'[j] \in {memory[j], None}
      BY <2>2 DEF Expiry, LockExpire, MemoryExpire, InboxExpire, TypeOK, StoresTyped
    <3>3. Echoed' /\ Remembered'
      BY <3>1, <3>2 DEF Conversation, Echoed, Remembered, Guarded
    <3>4. \A a \in Attempt : Based(a)' /\ Including(a)'
      BY <3>1 DEF Conversation, Based, Including
    <3> QED
      BY <3>3, <3>4 DEF Conversation
  <2>3. CASE UNCHANGED vars
    BY <2>3 DEF vars, stores, state, locals, history, Conversation, Echoed, Remembered, Based,
        Including
  <2> QED
    BY <2>1, <2>2, <2>3, NextSteps
<1> QED
  BY <1>1, <1>2, TypeInvariant, OwnersInvariant, PTL DEF Spec

\* Whatever order the turns of any number of sessions come in, wherever they fail and whenever
\* a memory expires: what a turn saved is recalled (SessionSetup, Persistence).
THEOREM SavedIsRecalled == Spec => []ConversationKept
<1>1. Conversation => ConversationKept
  <2> SUFFICES ASSUME Conversation, NEW k \in Guarded \ amnesia, NEW m \in saved[k]
               PROVE  m \in Recall(k) \cup unechoed[k] \cup Pending(k)
    BY DEF ConversationKept
  <2>1. ASSUME NEW b \in Attempt, pc[b] = "append", key[b] = k, m \in input[b]
        PROVE  m \in Pending(k)
    BY <2>1 DEF Pending
  <2> QED
    BY <2>1 DEF Conversation, Echoed, Remembered, Recall, Guarded
<1> QED
  BY <1>1, ConversationInvariant, PTL
-----------------------------------------------------------------------------
(* Replies *)

\* The attempt was let through by the idempotency check.
Entered(a) == pc[a] # "new" /\ result[a] # "duplicate"
\* It may still answer and has not.
Unanswered(a) ==
    \/ pc[a] \in {"limit", "push", "lock", "vigil", "scout", "spirit", "session", "pop",
                  "clear", "reason"}
    \/ pc[a] \in {"save", "append", "deliver"} /\ ~delivered[a]

Recorded == \A a \in Attempt : Entered(a) => PulseOf[a] \in seen \cup failedOpen
Alone ==
    \A a, b \in Attempt :
      Entered(a) /\ Entered(b) /\ PulseOf[a] = PulseOf[b] /\ PulseOf[a] \notin failedOpen
        => a = b
Unsent ==
    /\ \A p \in Pulse : p \notin seen \cup failedOpen => replies[p] = 0
    /\ \A a \in Attempt : Unanswered(a) /\ PulseOf[a] \notin failedOpen \cup unconfirmed
                           => replies[PulseOf[a]] = 0
AtMostOne == \A p \in Pulse \ (failedOpen \cup unconfirmed) : replies[p] <= 1
DuplicatesEnd == \A a \in Attempt : result[a] = "duplicate" => pc[a] = "done"

Answers == Recorded /\ Alone /\ Unsent /\ AtMostOne /\ DuplicatesEnd

\* A step that is neither the check nor an answer.
Quiet(a) ==
    /\ UNCHANGED <<seen, failedOpen, unconfirmed, replies>>
    /\ pc[a] # "new" /\ pc'[a] # "new"
    /\ result[a] = "duplicate" => pc[a] = "done"
    /\ result'[a] = "duplicate" => pc[a] = "done"
    /\ pc[a] # "done"
    /\ Unanswered(a)' => Unanswered(a)

LEMMA QuietSteps ==
  ASSUME TypeOK, DuplicatesEnd, NEW a \in Attempt, Step(a) \/ Failure(a)
  PROVE  \/ IdempotencyCheck(a) \/ IdempotencyError(a)
         \/ Reason(a) \/ ReasonUnconfirmed(a) \/ DeliverResponse(a) \/ DeliverError(a)
         \/ Quiet(a)
<1> USE DEF TypeOK, ControlTyped, LocalsTyped, stores, locals, history, GoTo, Reject, Abort,
      DuplicatesEnd
<1>1. CASE RateLimit(a) \/ PushInbox(a) \/ PushError(a) \/ AcquireLock(a) \/ AcquireError(a)
  BY <1>1 DEF RateLimit, PushInbox, PushError, AcquireLock, AcquireError, Quiet, Unanswered
<1>2. CASE VigilCheck(a) \/ SelectSpirit(a) \/ LinkScout(a) \/ LinkScoutError(a)
  BY <1>2 DEF VigilCheck, SelectSpirit, LinkScout, LinkScoutError, Quiet, Unanswered
<1>3. CASE SessionSetup(a) \/ SessionReadError(a) \/ SessionInitError(a)
  BY <1>3 DEF SessionSetup, SessionReadError, SessionInitError, Quiet, Unanswered
<1>4. CASE PopRange(a) \/ PopDel(a) \/ PopError(a)
  BY <1>4 DEF PopRange, PopDel, PopError, Quiet, Unanswered
<1>5. CASE SaveMemory(a) \/ SaveError(a) \/ AppendEcho(a) \/ AppendError(a)
  BY <1>5 DEF SaveMemory, SaveError, AppendEcho, AppendError, Quiet, Unanswered
<1>6. CASE DeliverNothing(a) \/ ReleaseLock(a) \/ ReleaseAdditional(a) \/ ReleaseError(a)
  BY <1>6 DEF DeliverNothing, ReleaseLock, ReleaseAdditional, ReleaseError, Quiet, Unanswered
<1>7. CASE Crash(a)
  BY <1>7 DEF Crash, Quiet, Unanswered
<1> QED
  BY <1>1, <1>2, <1>3, <1>4, <1>5, <1>6, <1>7 DEF Step, Failure

LEMMA AnswersStep ==
  ASSUME HasIdempotency, TypeOK, Answers, NEW a \in Attempt, Step(a) \/ Failure(a)
  PROVE  Answers'
<1>0. /\ Recorded /\ Alone /\ Unsent /\ AtMostOne /\ DuplicatesEnd
      /\ PulseOf[a] \in Pulse /\ replies \in [Pulse -> Nat]
      /\ \A b \in Attempt : PulseOf[b] \in Pulse
  BY DEF Answers, TypeOK, HistoryTyped
<1>1. ASSUME NEW b \in Attempt, b # a
      PROVE  /\ Entered(b)' <=> Entered(b)
             /\ Unanswered(b)' <=> Unanswered(b)
             /\ pc'[b] = pc[b] /\ result'[b] = result[b]
  BY <1>1, Others DEF Entered, Unanswered
<1> USE DEF TypeOK, ControlTyped, LocalsTyped, HistoryTyped, stores, locals, history, GoTo,
      Reject, Abort
<1>2. CASE IdempotencyCheck(a)
  <2>1. /\ seen' = seen \cup {PulseOf[a]} /\ UNCHANGED <<failedOpen, unconfirmed, replies>>
        /\ pc[a] = "new"
        /\ \/ PulseOf[a] \in seen /\ pc'[a] = "done" /\ result'[a] = "duplicate"
           \/ PulseOf[a] \notin seen /\ pc'[a] = "limit" /\ result'[a] = result[a]
    BY <1>2 DEF IdempotencyCheck
  <2>2. Recorded' /\ AtMostOne' /\ DuplicatesEnd'
    BY <1>0, <1>1, <2>1 DEF Recorded, AtMostOne, DuplicatesEnd, Entered
  <2>3. Alone'
    <3>1. \A b \in Attempt \ {a} : Entered(b)' /\ Entered(a)' /\ PulseOf[b] = PulseOf[a]
                                   => PulseOf[a] \in failedOpen
      BY <1>0, <1>1, <2>1 DEF Recorded, Entered
    <3> QED
      BY <1>0, <1>1, <2>1, <3>1 DEF Alone
  <2>4. Unsent'
    BY <1>0, <1>1, <2>1 DEF Unsent, Unanswered
  <2> QED
    BY <2>2, <2>3, <2>4 DEF Answers
<1>3. CASE IdempotencyError(a)
  <2>1. /\ failedOpen' = failedOpen \cup {PulseOf[a]} /\ UNCHANGED <<seen, unconfirmed, replies>>
        /\ pc[a] = "new" /\ pc'[a] = "limit" /\ result'[a] = result[a]
    BY <1>3 DEF IdempotencyError
  <2>2. Recorded' /\ AtMostOne' /\ DuplicatesEnd'
    BY <1>0, <1>1, <2>1 DEF Recorded, AtMostOne, DuplicatesEnd, Entered
  <2>3. Alone'
    BY <1>0, <1>1, <2>1 DEF Alone, Entered
  <2>4. Unsent'
    BY <1>0, <1>1, <2>1 DEF Unsent, Unanswered
  <2> QED
    BY <2>2, <2>3, <2>4 DEF Answers
<1>4. CASE Reason(a) \/ DeliverResponse(a) \/ DeliverError(a)
  <2>1. /\ UNCHANGED <<seen, failedOpen, unconfirmed>>
        /\ pc[a] \in {"reason", "deliver"} /\ pc'[a] \in {"save", "release"}
        /\ result'[a] # "duplicate" \/ result'[a] = result[a]
    BY <1>4 DEF Reason, DeliverResponse, DeliverError
  <2>2. \/ replies' = replies /\ (Unanswered(a)' => Unanswered(a))
        \/ /\ Unanswered(a) /\ ~Unanswered(a)'
           /\ replies' = [replies EXCEPT ![PulseOf[a]] = @ + 1]
    BY <1>0, <1>4 DEF Reason, DeliverResponse, DeliverError, Unanswered
  <2>3. Entered(a) /\ (PulseOf[a] \in seen \cup failedOpen)
    BY <1>0, <2>1 DEF DuplicatesEnd, Recorded, Entered
  <2>4. Recorded' /\ Alone' /\ DuplicatesEnd'
    BY <1>0, <1>1, <2>1, <2>3 DEF Recorded, Alone, DuplicatesEnd, Entered
  <2>5. \A b \in Attempt : Unanswered(b) => Entered(b)
    BY <1>0 DEF Unanswered, Entered, DuplicatesEnd
  <2>6. Unsent' /\ AtMostOne'
    <3>1. CASE replies' = replies /\ (Unanswered(a)' => Unanswered(a))
      BY <1>0, <1>1, <2>1, <3>1 DEF Unsent, AtMostOne
    <3>2. CASE /\ Unanswered(a) /\ ~Unanswered(a)'
               /\ replies' = [replies EXCEPT ![PulseOf[a]] = @ + 1]
      <4> DEFINE p == PulseOf[a]
      <4>1. replies'[p] = replies[p] + 1 /\ \A q \in Pulse \ {p} : replies'[q] = replies[q]
        BY <1>0, <3>2
      <4>2. p \notin failedOpen \cup unconfirmed => replies[p] = 0
        BY <1>0, <3>2 DEF Unsent
      <4>3. AtMostOne'
        <5>1. ASSUME NEW q \in Pulse, q \notin failedOpen \cup unconfirmed
              PROVE  replies'[q] <= 1
          <6>1. replies[q] <= 1
            BY <1>0, <5>1 DEF AtMostOne
          <6>2. CASE q = p
            BY <4>1, <4>2, <5>1, <6>2
          <6>3. CASE q # p
            BY <4>1, <6>1, <6>3
          <6> QED
            BY <6>2, <6>3
        <5> QED
          BY <2>1, <5>1 DEF AtMostOne
      <4>4. \A b \in Attempt \ {a} : Unanswered(b) /\ PulseOf[b] = p => p \in failedOpen
        BY <1>0, <2>3, <2>5 DEF Alone
      <4>5. Unsent'
        BY <1>0, <1>1, <2>1, <2>3, <3>2, <4>1, <4>4 DEF Unsent
      <4> QED
        BY <4>3, <4>5
    <3> QED
      BY <2>2, <3>1, <3>2
  <2> QED
    BY <2>4, <2>6 DEF Answers
\* What is answered twice is not claimed, and nobody else is at work on it.
<1>6. CASE ReasonUnconfirmed(a)
  <2>1. /\ UNCHANGED <<seen, failedOpen>> /\ unconfirmed' = unconfirmed \cup {PulseOf[a]}
        /\ pc[a] = "reason" /\ pc'[a] \in {"save", "release"}
        /\ result'[a] # "duplicate" \/ result'[a] = result[a]
        /\ \A p \in Pulse \ {PulseOf[a]} : replies'[p] = replies[p]
    BY <1>0, <1>6 DEF ReasonUnconfirmed
  <2>2. Entered(a) /\ (PulseOf[a] \in seen \cup failedOpen)
    BY <1>0, <2>1 DEF DuplicatesEnd, Recorded, Entered
  <2>3. Recorded' /\ Alone' /\ DuplicatesEnd'
    BY <1>0, <1>1, <2>1, <2>2 DEF Recorded, Alone, DuplicatesEnd, Entered
  <2>4. Unsent' /\ AtMostOne'
    BY <1>0, <1>1, <2>1, <2>2 DEF Unsent, AtMostOne
  <2> QED
    BY <2>3, <2>4 DEF Answers
<1>5. CASE Quiet(a)
  <2>1. Recorded' /\ Alone' /\ DuplicatesEnd'
    BY <1>0, <1>1, <1>5 DEF Quiet, Recorded, Alone, DuplicatesEnd, Entered
  <2>2. Unsent' /\ AtMostOne'
    BY <1>0, <1>1, <1>5 DEF Quiet, Unsent, AtMostOne
  <2> QED
    BY <2>1, <2>2 DEF Answers
<1> QED
  BY <1>0, <1>2, <1>3, <1>4, <1>5, <1>6, QuietSteps

LEMMA AnswersInvariant ==
  ASSUME HasIdempotency
  PROVE  Spec => []Answers
<1>1. Init => Answers
  BY DEF Init, Answers, Recorded, Alone, Unsent, AtMostOne, DuplicatesEnd, Entered, Unanswered
<1>2. TypeOK /\ Answers /\ [Next]_vars => Answers'
  <2> SUFFICES ASSUME TypeOK, Answers, [Next]_vars PROVE Answers'
    OBVIOUS
  <2>1. ASSUME NEW a \in Attempt, Step(a) \/ Failure(a) PROVE Answers'
    BY <2>1, AnswersStep
  <2>2. ASSUME NEW k \in Key, Expiry(k) PROVE Answers'
    BY <2>2 DEF Expiry, LockExpire, MemoryExpire, InboxExpire, state, locals, history, Answers,
        Recorded, Alone, Unsent, AtMostOne, DuplicatesEnd, Entered, Unanswered
  <2>3. CASE UNCHANGED vars
    BY <2>3 DEF vars, stores, state, locals, history, Answers, Recorded, Alone, Unsent,
        AtMostOne, DuplicatesEnd, Entered, Unanswered
  <2> QED
    BY <2>1, <2>2, <2>3, NextSteps
<1> QED
  BY <1>1, <1>2, TypeCorrect, PTL DEF Spec

\* However often a Pulse is delivered and wherever its attempts fail, the user is sent at
\* most one answer to it, unless the idempotency store failed open or an Action that sent the
\* answer was reported as failed.
THEOREM AtMostOneReply == Spec => []OneReply
<1>1. Answers => OneReply
  BY DEF Answers, AtMostOne, OneReply
<1>2. CASE HasIdempotency
  BY <1>1, <1>2, AnswersInvariant, PTL
<1>3. CASE ~HasIdempotency
  <2>1. OneReply
    BY <1>3 DEF OneReply
  <2> QED
    BY <2>1, PTL
<1> QED
  BY <1>2, <1>3
-----------------------------------------------------------------------------
(* The turns of a session, one after the other *)

\* What a turn saves has all that is there.
Drafted(a) ==
    Working(a) /\ key[a] \in Guarded /\ memory[key[a]] # None
      => memory[key[a]] \subseteq session[a]
AllDrafted == \A a \in Attempt : Drafted(a)

\* What a step of a turn does to the session it works on.
Begins(a) == SessionSetup(a) \/ SessionReadError(a)
Adds(a) ==
    /\ UNCHANGED <<memory, amnesia>> /\ Working(a) /\ Working(a)'
    /\ key'[a] = key[a] /\ session[a] \subseteq session'[a] /\ session'[a] \in SUBSET Pulse
Commits(a) == SaveMemory(a) /\ session[a] # None
Ends(a) == UNCHANGED <<memory, amnesia>> /\ Working(a) /\ ~Working(a)'
Rests(a) ==
    /\ UNCHANGED <<memory, amnesia>> /\ (Working(a)' <=> Working(a))
    /\ Working(a) => key'[a] = key[a] /\ session'[a] = session[a]

LEMMA StepWorks ==
  ASSUME TypeOK, Loaded, Owners, NEW a \in Attempt, Step(a) \/ Failure(a)
  PROVE  Begins(a) \/ Adds(a) \/ Commits(a) \/ Ends(a) \/ Rests(a)
<1> USE DEF TypeOK, StoresTyped, ControlTyped, LocalsTyped, stores, locals, history, GoTo, Reject,
      Abort, Working
<1>0. session[a] # None => pc[a] \in Loading
  BY DEF Owners, Owner, Place
<1>1. CASE IdempotencyCheck(a) \/ IdempotencyError(a) \/ RateLimit(a) \/ PushInbox(a)
             \/ PushError(a)
  BY <1>0, <1>1 DEF IdempotencyCheck, IdempotencyError, RateLimit, PushInbox, PushError, Rests, Loading
<1>2. CASE AcquireLock(a) \/ AcquireError(a) \/ VigilCheck(a) \/ LinkScout(a)
             \/ LinkScoutError(a) \/ SelectSpirit(a) \/ SessionInitError(a)
  BY <1>0, <1>2 DEF AcquireLock, AcquireError, VigilCheck, LinkScout, LinkScoutError, SelectSpirit,
      SessionInitError, Rests, Loading
<1>3. CASE SessionSetup(a) \/ SessionReadError(a)
  BY <1>3 DEF Begins
<1>4. CASE PopRange(a) /\ HasInbox
  BY <1>4 DEF PopRange, Rests
<1>5. ASSUME NEW turn \in SUBSET Pulse, pc[a] \in {"pop", "clear"}, pc'[a] = "reason",
             session' = [session EXCEPT ![a] = @ \cup turn], UNCHANGED <<memory, amnesia, key>>
      PROVE  Adds(a)
  <2>1. session[a] \in SUBSET Pulse
    BY <1>5 DEF Loaded
  <2>2. session'[a] = session[a] \cup turn /\ session'[a] \in SUBSET Pulse
    BY <1>5, <2>1
  <2> QED
    BY <1>5, <2>1, <2>2, MemoryAssumption DEF Adds
<1>6. CASE (PopRange(a) /\ ~HasInbox) \/ PopError(a)
  <2>1. input[a] \in SUBSET Pulse
    OBVIOUS
  <2>2. /\ pc[a] \in {"pop", "clear"} /\ pc'[a] = "reason"
        /\ session' = [session EXCEPT ![a] = @ \cup input[a]] /\ UNCHANGED <<memory, amnesia, key>>
    BY <1>6 DEF PopRange, PopError
  <2> QED
    BY <1>5, <2>1, <2>2
<1>7. CASE PopDel(a)
  <2> DEFINE turn == IF Len(popped[a]) > 1 THEN Messages(popped[a]) ELSE input[a]
  <2>1. turn \in SUBSET Pulse
    BY DEF Messages
  <2>2. /\ pc[a] = "clear" /\ pc'[a] = "reason"
        /\ session' = [session EXCEPT ![a] = @ \cup turn] /\ UNCHANGED <<memory, amnesia, key>>
    BY <1>7 DEF PopDel
  <2> HIDE DEF turn
  <2> QED
    BY <1>5, <2>1, <2>2
<1>8. CASE Reason(a) \/ ReasonUnconfirmed(a) \/ SaveError(a) \/ AppendEcho(a) \/ AppendError(a)
  BY <1>8 DEF Reason, ReasonUnconfirmed, SaveError, AppendEcho, AppendError, Rests, Ends
<1>9. CASE SaveMemory(a)
  BY <1>9 DEF SaveMemory, Commits, Rests
<1>10. CASE DeliverResponse(a) \/ DeliverNothing(a) \/ DeliverError(a)
  BY <1>10 DEF DeliverResponse, DeliverNothing, DeliverError, Ends, Rests
<1>11. CASE ReleaseLock(a) \/ ReleaseAdditional(a) \/ ReleaseError(a)
  <2>1. /\ pc[a] \in {"release", "release_extra"} /\ pc'[a] \in {"release_extra", "done"}
        /\ UNCHANGED <<memory, amnesia>>
    BY <1>11 DEF ReleaseLock, ReleaseAdditional, ReleaseError
  <2> QED
    BY <2>1 DEF Rests
<1>12. CASE Crash(a)
  <2>1. pc'[a] = "done" /\ UNCHANGED <<memory, amnesia>>
    BY <1>12 DEF Crash
  <2> QED
    BY <2>1 DEF Rests, Ends
<1> QED
  BY <1>1, <1>2, <1>3, <1>4, <1>6, <1>7, <1>8, <1>9, <1>10, <1>11, <1>12 DEF Step, Failure

\* Who works has the session to itself.
LEMMA WorkIs ==
  ASSUME TypeOK, Owners, NEW a \in Attempt, key[a] \in Guarded
  PROVE  /\ key[a] \in Key
         /\ Working(a) => pc[a] \in Located /\ Work[key[a]] = {<<a, session[a]>>}
                          /\ session[a] \in SUBSET Pulse
         /\ pc[a] = "session" => Work[key[a]] = {} /\ ~Working(a)
<1> DEFINE W(k) == {<<c, session[c]>> : c \in {b \in Attempt : Working(b) /\ key[b] = k}}
<1>1. key[a] \in Key /\ session[a] \in (SUBSET Pulse) \cup {None} /\ Work[key[a]] = W(key[a])
  BY DEF TypeOK, LocalsTyped, Work
<1>2. \A b \in Attempt : Working(b) => pc[b] \in Located /\ pc[b] # "session"
  BY DEF Working, Owners, Owner, Place, Loading, Located
<1>3. \A x : x \in W(key[a]) <=> \E c \in Attempt : Working(c) /\ key[c] = key[a] /\ x = <<c, session[c]>>
  OBVIOUS
<1> HIDE DEF W
<1>4. ASSUME Working(a)
      PROVE  W(key[a]) = {<<a, session[a]>>}
  <2>1. \A c \in Attempt : Working(c) /\ key[c] = key[a] => c = a
    BY <1>2, <1>4, WorksAlone
  <2>2. \A x : x \in W(key[a]) <=> x = <<a, session[a]>>
    BY <1>3, <1>4, <2>1
  <2> QED
    BY <2>2, Zenon
<1>5. ASSUME pc[a] = "session"
      PROVE  W(key[a]) = {}
  <2>1. \A c \in Attempt : ~(Working(c) /\ key[c] = key[a])
    BY <1>2, <1>5, WorksAlone DEF Located
  <2> QED
    BY <1>3, <2>1
<1>6. Working(a) => session[a] \in SUBSET Pulse
  BY <1>1 DEF Working
<1> QED
  BY <1>1, <1>2, <1>4, <1>5, <1>6

\* The sessions after a step of one turn.
LEMMA WorkNext ==
  ASSUME TypeOK, Owners, NEW a \in Attempt, Step(a) \/ Failure(a), NEW k \in Guarded
  PROVE  \A x : x \in Work'[k] <=>
            \/ x \in Work[k] /\ x[1] # a
            \/ Working(a)' /\ key'[a] = k /\ x = <<a, session'[a]>>
<1>1. \A b \in Attempt : b # a => /\ (Working(b)' <=> Working(b)) /\ key'[b] = key[b]
                                  /\ session'[b] = session[b]
  BY Others DEF Working
<1>2. \A x : x \in Work[k] <=> \E c \in Attempt : Working(c) /\ key[c] = k /\ x = <<c, session[c]>>
  BY DEF Work
<1>3. \A x : x \in Work'[k] <=>
         \E c \in Attempt : Working(c)' /\ key'[c] = k /\ x = <<c, session'[c]>>
  BY DEF Work
<1> QED
  BY <1>1, <1>2, <1>3

LEMMA WorkMoves ==
  ASSUME TypeOK, Owners, NEW a \in Attempt, Step(a) \/ Failure(a), key[a] \in Guarded
  PROVE  /\ (Working(a) \/ pc[a] = "session") /\ Working(a)' /\ key'[a] = key[a]
              => Work' = [Work EXCEPT ![key[a]] = {<<a, session'[a]>>}]
         /\ Working(a) /\ ~Working(a)' => Work' = [Work EXCEPT ![key[a]] = {}]
         /\ \A k \in Guarded : \A v \in Work[k] : v[1] = a => Working(a)
<1>1. \A k \in Guarded : \A x : x \in Work[k] /\ x[1] = a => Working(a) /\ k = key[a]
  BY DEF Work
<1>2. key[a] \in Key /\ (Working(a) => Work[key[a]] = {<<a, session[a]>>})
      /\ (pc[a] = "session" => Work[key[a]] = {})
  BY WorkIs
<1>3. \A k \in Guarded : \A x : x \in Work'[k] <=>
         \/ x \in Work[k] /\ x[1] # a
         \/ Working(a)' /\ key'[a] = k /\ x = <<a, session'[a]>>
  BY WorkNext
<1>4. Work = [k \in Guarded |-> Work[k]] /\ Work' = [k \in Guarded |-> Work'[k]]
  BY DEF Work
<1>5. ASSUME Working(a) \/ pc[a] = "session", Working(a)', key'[a] = key[a]
      PROVE  Work' = [Work EXCEPT ![key[a]] = {<<a, session'[a]>>}]
  <2>1. \A x : x \in Work'[key[a]] <=> x = <<a, session'[a]>>
    BY <1>2, <1>3, <1>5
  <2>2. Work'[key[a]] = {<<a, session'[a]>>}
    BY <2>1, Zenon
  <2>3. \A k \in Guarded \ {key[a]} : \A x : x \in Work'[k] <=> x \in Work[k]
    BY <1>1, <1>3, <1>5
  <2>4. \A k \in Guarded \ {key[a]} : Work'[k] = Work[k]
    BY <2>3, Zenon
  <2> QED
    BY <1>2, <1>4, <2>2, <2>4
<1>6. ASSUME Working(a), ~Working(a)'
      PROVE  Work' = [Work EXCEPT ![key[a]] = {}]
  <2>1. \A x : x \notin Work'[key[a]]
    BY <1>2, <1>3, <1>6
  <2>2. Work'[key[a]] = {}
    BY <2>1, Zenon
  <2>3. \A k \in Guarded \ {key[a]} : \A x : x \in Work'[k] <=> x \in Work[k]
    BY <1>1, <1>3, <1>6
  <2>4. \A k \in Guarded \ {key[a]} : Work'[k] = Work[k]
    BY <2>3, Zenon
  <2> QED
    BY <1>2, <1>4, <2>2, <2>4
<1> QED
  BY <1>1, <1>5, <1>6

\* A turn that rests, or works where nothing is guarded, leaves all sessions as they are.
LEMMA WorkStays ==
  ASSUME TypeOK, Owners, NEW a \in Attempt, Step(a) \/ Failure(a),
         Rests(a) \/ (key[a] \notin Guarded /\ (Working(a)' => key'[a] = key[a]))
  PROVE  Work' = Work
<1>1. \A k \in Guarded : \A x : x \in Work[k] /\ x[1] = a
                               => Working(a) /\ k = key[a] /\ x = <<a, session[a]>>
  BY DEF Work
<1>2. ASSUME NEW k \in Guarded
      PROVE  Work'[k] = Work[k]
  <2>1. \A x : x \in Work'[k] <=>
           \/ x \in Work[k] /\ x[1] # a
           \/ Working(a)' /\ key'[a] = k /\ x = <<a, session'[a]>>
    BY WorkNext
  <2>2. Working(a) /\ key[a] = k => <<a, session[a]>> \in Work[k]
    BY DEF Work
  <2>3. \A x : x \in Work'[k] <=> x \in Work[k]
    BY <1>1, <2>1, <2>2 DEF Rests
  <2> QED
    BY <2>3, Zenon
<1>3. Work = [k \in Guarded |-> Work[k]] /\ Work' = [k \in Guarded |-> Work'[k]]
  BY DEF Work
<1> QED
  BY <1>2, <1>3

LEMMA BeginsFacts ==
  ASSUME TypeOK, Owners, NEW a \in Attempt, Begins(a)
  PROVE  /\ session'[a] \in SUBSET Pulse /\ key'[a] = key[a] /\ key[a] \in Key
         /\ memory' = [memory EXCEPT ![key[a]] = session'[a]]
         /\ pc[a] = "session" /\ Working(a)'
<1>1. PICK m \in SUBSET Pulse : session' = [session EXCEPT ![a] = m]
                                /\ memory' = [memory EXCEPT ![key[a]] = m]
  BY SessionLoads DEF Begins
<1>2. pc[a] = "session" /\ pc'[a] = "pop" /\ key' = key
  BY DEF Begins, SessionSetup, SessionReadError, GoTo, TypeOK, ControlTyped
<1>3. m # None /\ session'[a] = m
  BY <1>1, MemoryAssumption DEF TypeOK, LocalsTyped
<1> QED
  BY <1>1, <1>2, <1>3 DEF TypeOK, LocalsTyped, Working

LEMMA CommitsFacts ==
  ASSUME TypeOK, Owners, NEW a \in Attempt, Commits(a)
  PROVE  /\ session'[a] = session[a] /\ key'[a] = key[a] /\ key[a] \in Key
         /\ memory' = [memory EXCEPT ![key[a]] = session[a]] /\ amnesia' = amnesia
         /\ Working(a) /\ Working(a)' /\ pc[a] = "save"
  BY DEF Commits, SaveMemory, locals, GoTo, TypeOK, LocalsTyped, ControlTyped, Working

LEMMA DraftedStep ==
  ASSUME TypeOK, Loaded, Owners, AllDrafted, NEW a \in Attempt, Step(a) \/ Failure(a)
  PROVE  AllDrafted'
<1>1. ASSUME NEW b \in Attempt, b # a
      PROVE  /\ Working(b)' <=> Working(b)
             /\ key'[b] = key[b] /\ session'[b] = session[b] /\ Drafted(b) /\ key[b] \in Key
  BY <1>1, Others DEF Working, AllDrafted, TypeOK, LocalsTyped
<1>2. CASE UNCHANGED memory /\ Drafted(a)'
  BY <1>1, <1>2 DEF AllDrafted, Drafted
<1>3. ASSUME memory' = [memory EXCEPT ![key[a]] = session'[a]], key'[a] = key[a],
             key[a] \in Key, pc[a] \in Located
      PROVE  AllDrafted'
  <2>1. \A b \in Attempt : b # a /\ Working(b) /\ key[b] \in Guarded => key[b] # key[a]
    BY <1>3, WorkIs, WorksAlone
  <2>2. \A b \in Attempt : b # a => Drafted(b)'
    BY <1>1, <1>3, <2>1 DEF Drafted, TypeOK, StoresTyped
  <2>3. Drafted(a)'
    BY <1>3 DEF Drafted, TypeOK, StoresTyped
  <2> QED
    BY <2>2, <2>3 DEF AllDrafted
<1>4. CASE Begins(a)
  BY <1>3, <1>4, BeginsFacts DEF Located
<1>5. CASE Adds(a)
  BY <1>2, <1>5 DEF Adds, AllDrafted, Drafted
<1>6. CASE Commits(a)
  BY <1>3, <1>6, CommitsFacts DEF Located
<1>7. CASE Ends(a) \/ Rests(a)
  BY <1>2, <1>7 DEF Ends, Rests, AllDrafted, Drafted
<1> QED
  BY <1>4, <1>5, <1>6, <1>7, StepWorks

LEMMA DraftedInvariant == Spec => []AllDrafted
<1>1. Init => AllDrafted
  BY DEF Init, AllDrafted, Drafted, Working
<1>2. TypeOK /\ Loaded /\ Owners /\ AllDrafted /\ [Next]_vars => AllDrafted'
  <2> SUFFICES ASSUME TypeOK, Loaded, Owners, AllDrafted, [Next]_vars PROVE AllDrafted'
    OBVIOUS
  <2>1. ASSUME NEW a \in Attempt, Step(a) \/ Failure(a) PROVE AllDrafted'
    BY <2>1, DraftedStep
  <2>2. ASSUME NEW k \in Key, Expiry(k) PROVE AllDrafted'
    <3>1. UNCHANGED state /\ \A j \in Key : memory'[j] \in {memory[j], None}
      BY <2>2 DEF Expiry, LockExpire, MemoryExpire, InboxExpire, TypeOK, StoresTyped
    <3>2. \A b \in Attempt : key[b] \in Key
      BY DEF TypeOK, LocalsTyped
    <3> QED
      BY <3>1, <3>2 DEF state, locals, AllDrafted, Drafted, Working
  <2>3. CASE UNCHANGED vars
    BY <2>3 DEF vars, stores, state, locals, AllDrafted, Drafted, Working
  <2> QED
    BY <2>1, <2>2, <2>3, NextSteps
<1> QED
  BY <1>1, <1>2, TypeInvariant, OwnersInvariant, PTL DEF Spec

\* What Weave shows of the sessions it guards.
Remembering == [k \in Guarded |-> memory[k]]
View == <<Remembering, Work, amnesia \cap Guarded>>

\* A step of a turn of a guarded session is one of the session it works on.
LEMMA StepIsSerial ==
  ASSUME TypeOK, Loaded, Owners, AllDrafted, NEW a \in Attempt, Step(a) \/ Failure(a),
         key[a] \in Guarded
  PROVE  Serial!Conversing \/ UNCHANGED View
<1> DEFINE s == key[a]
           w == <<a, session[a]>>
           v == <<a, session'[a]>>
<1>0. s \in Guarded /\ w[1] = a /\ w[2] = session[a] /\ v[1] = a /\ v[2] = session'[a]
  BY WorkIs
<1>1. Working(a) => w \in Work[s] /\ session[a] \in SUBSET Pulse
  BY WorkIs
<1>2. Work'[s] = {v} \/ Work' # [Work EXCEPT ![s] = {v}]
  BY <1>0 DEF Work
<1> HIDE DEF w, v, s
<1>10. ASSUME NEW m, memory' = [memory EXCEPT ![s] = m]
       PROVE  Remembering' = [Remembering EXCEPT ![s] = m]
  BY <1>0, <1>10 DEF Remembering, Guarded, TypeOK, StoresTyped
<1>11. Remembering[s] = memory[s]
  BY <1>0 DEF Remembering
<1>12. UNCHANGED memory => UNCHANGED Remembering
  BY DEF Remembering
<1>3. CASE Begins(a)
  <2>1. v \in Attempt \X SUBSET Pulse /\ Remembering' = [Remembering EXCEPT ![s] = v[2]]
    BY <1>0, <1>3, <1>10, BeginsFacts DEF s, v
  <2>2. Work' = [Work EXCEPT ![s] = {v}] /\ v \in Work'[s]
    BY <1>2, <1>3, BeginsFacts, WorkMoves DEF s, v
  <2>3. Work[s] = {} /\ \A k \in Guarded : \A x \in Work[k] : x[1] # v[1]
    BY <1>0, <1>3, BeginsFacts, WorkMoves, WorkIs DEF s
  <2>4. Serial!Open(s, v)
    BY <2>1, <2>2, <2>3 DEF Serial!Open, Remembering
  <2>7. Serial!Start(s, v) \/ Serial!Misread(s, v) => Serial!Conversing
    <3>1. s \in Guarded /\ Work[s] = {} /\ v \in Work'[s]
      BY <1>0, <2>2, <2>3
    <3> QED
      BY <3>1 DEF Serial!Conversing, Serial!Start, Serial!Misread, Serial!Open
  <2>5. CASE SessionSetup(a)
    <3>1. memory[s] \in {v[2], None} /\ UNCHANGED amnesia
      <4>1. /\ session' = [session EXCEPT ![a] = IF memory[key[a]] = None THEN echo[key[a]]
                                                 ELSE memory[key[a]]]
            /\ UNCHANGED amnesia
        BY <2>5 DEF SessionSetup, history
      <4> QED
        BY <1>0, <4>1 DEF s, v, TypeOK, LocalsTyped
    <3>2. Serial!Start(s, v)
      BY <1>11, <2>4, <3>1 DEF Serial!Start, Remembering
    <3> QED
      BY <1>0, <2>7, <3>2
  <2>6. CASE SessionReadError(a)
    <3>1. (amnesia \cap Guarded)' = (amnesia \cap Guarded) \cup {s}
      BY <1>0, <2>6 DEF SessionReadError, s, Guarded
    <3>2. Serial!Misread(s, v)
      BY <2>4, <3>1 DEF Serial!Misread
    <3> QED
      BY <1>0, <2>7, <3>2
  <2> QED
    BY <1>3, <2>5, <2>6 DEF Begins
<1>4. CASE Adds(a)
  <2>1. Work' = [Work EXCEPT ![s] = {v}] /\ v \in Work'[s] /\ w \in Work[s]
    BY <1>1, <1>2, <1>4, WorkMoves DEF Adds, s, v
  <2>2. Serial!Add(s, w, v)
    BY <1>0, <1>4, <1>12, <2>1 DEF Adds, Serial!Add, Remembering
  <2> QED
    BY <1>0, <2>1, <2>2 DEF Serial!Conversing
<1>5. CASE Commits(a)
  <2>1. Work' = Work
    <3>1. Work' = [Work EXCEPT ![s] = {v}] /\ Work[s] = {w} /\ v = w
      BY <1>5, CommitsFacts, WorkMoves, WorkIs DEF s, v, w
    <3> QED
      BY <3>1 DEF Work
  <2>2. Remembering[s] = None \/ Remembering[s] \subseteq w[2]
    BY <1>0, <1>5, <1>11, CommitsFacts DEF AllDrafted, Drafted, s
  <2>3. Remembering' = [Remembering EXCEPT ![s] = w[2]]
    BY <1>0, <1>5, <1>10, CommitsFacts DEF s
  <2>4. Serial!Commit(s, w)
    BY <1>5, <2>1, <2>2, <2>3, CommitsFacts DEF Serial!Commit, Remembering
  <2>5. s \in Guarded /\ w \in Work[s]
    BY <1>0, <1>1, <1>5, CommitsFacts
  <2> QED
    BY <2>4, <2>5 DEF Serial!Conversing, Serial!Commit
<1>6. CASE Ends(a)
  <2>1. Serial!Close(s)
    BY <1>6, <1>12, WorkMoves DEF Ends, Serial!Close, s, Remembering
  <2> QED
    BY <1>0, <2>1 DEF Serial!Conversing
<1>7. CASE Rests(a)
  BY <1>7, <1>12, WorkStays DEF Rests, View
<1> QED
  BY <1>3, <1>4, <1>5, <1>6, <1>7, StepWorks

\* A step of a turn that works where nothing is guarded is none of a guarded session.
LEMMA StepElsewhere ==
  ASSUME TypeOK, Loaded, Owners, NEW a \in Attempt, Step(a) \/ Failure(a),
         key[a] \notin Guarded
  PROVE  UNCHANGED View
<1>1. Working(a)' => key'[a] = key[a] \/ Rests(a)
  BY StepWorks, BeginsFacts, CommitsFacts DEF Adds, Ends
<1>2. Work' = Work
  BY <1>1, WorkStays
<1>3. \A k \in Guarded : memory'[k] = memory[k]
  <2>1. CASE Begins(a)
    BY <2>1, BeginsFacts DEF TypeOK, StoresTyped, Guarded
  <2>2. CASE Commits(a)
    BY <2>2, CommitsFacts DEF TypeOK, StoresTyped, Guarded
  <2> QED
    BY <2>1, <2>2, StepWorks DEF Adds, Ends, Rests
<1>4. amnesia' \cap Guarded = amnesia \cap Guarded
  <2>1. CASE Begins(a)
    BY <2>1 DEF Begins, SessionSetup, SessionReadError, history
  <2>2. CASE Commits(a)
    BY <2>2, CommitsFacts
  <2> QED
    BY <2>1, <2>2, StepWorks DEF Adds, Ends, Rests
<1>5. Remembering' = Remembering
  BY <1>3 DEF Remembering
<1> QED
  BY <1>2, <1>4, <1>5 DEF View

LEMMA NextIsSerial ==
  ASSUME TypeOK, Loaded, Owners, AllDrafted, [Next]_vars
  PROVE  [Serial!Conversing]_View
<1>1. ASSUME NEW a \in Attempt, Step(a) \/ Failure(a)
      PROVE  [Serial!Conversing]_View
  BY <1>1, StepIsSerial, StepElsewhere
<1>2. ASSUME NEW k \in Key, Expiry(k)
      PROVE  [Serial!Conversing]_View
  <2>1. Work' = Work /\ UNCHANGED amnesia
    BY <1>2 DEF Expiry, LockExpire, MemoryExpire, InboxExpire, state, locals, history, Work, Working
  <2>2. CASE UNCHANGED memory
    BY <2>1, <2>2 DEF View, Remembering
  <2>3. CASE MemoryExpire(k)
    <3>1. memory' = [memory EXCEPT ![k] = None]
      BY <2>3 DEF MemoryExpire
    <3>2. CASE k \in Guarded
      <4>1. Remembering' = [Remembering EXCEPT ![k] = None]
        BY <3>1, <3>2 DEF Remembering, Guarded, TypeOK, StoresTyped
      <4>2. Serial!Forget(k)
        BY <2>1, <4>1 DEF Serial!Forget, Remembering
      <4> QED
        BY <3>2, <4>2 DEF Serial!Conversing
    <3>3. CASE k \notin Guarded
      <4>1. Remembering' = Remembering
        BY <3>1, <3>3 DEF Remembering, Guarded, TypeOK, StoresTyped
      <4> QED
        BY <2>1, <4>1 DEF View
    <3> QED
      BY <3>2, <3>3
  <2> QED
    BY <1>2, <2>2, <2>3 DEF Expiry, LockExpire, InboxExpire
<1>3. CASE UNCHANGED vars
  BY <1>3 DEF vars, stores, state, locals, history, Work, Working, View, Remembering
<1> QED
  BY <1>1, <1>2, <1>3, NextSteps

\* Weave implements Sessions, wherever the Link's Scouts move a turn, whatever fails and
\* whenever a memory expires: the turns of a session run one after the other, each on what the
\* last one left, as long as no Scouts of a Spirit move a turn there.
THEOREM SessionsSerial == Spec => SessionsAreSerial
<1>1. Init => Serial!Empty
  BY DEF Init, Serial!Empty, Work, Working, Guarded
<1>2. [Serial!Conversing]_View => [Serial!Conversing]_<<[k \in Guarded |-> memory[k]], Work,
                                                        amnesia \cap Guarded>>
  BY DEF View, Remembering
<1> QED
  BY <1>1, <1>2, NextIsSerial, TypeInvariant, OwnersInvariant, DraftedInvariant, PTL
  DEF Spec, SessionsAreSerial, Serial!SessionsSpec
=============================================================================
