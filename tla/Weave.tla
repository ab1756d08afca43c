-------------------------------- MODULE Weave --------------------------------
(***************************************************************************)
(* The processing pipeline of the Weave (engine.go, pipeline_step_*.go):   *)
(* what several deliveries of several Pulses do to the session lock, the   *)
(* Inbox, the idempotency store, the session memory and the Echo store.    *)
(*                                                                         *)
(* The lock is what module Bond promises while every lease is renewed in   *)
(* time: SET NX, freed by its holder, or by its ttl once nobody can.       *)
(* A message stands for its Pulse; a user turn, a memory and an echo log   *)
(* are sets of them, so trimming and summarising are not represented.      *)
(***************************************************************************)
EXTENDS Naturals, Sequences, FiniteSets

CONSTANTS
    Pulse,          \* incoming events, each with one user message
    Attempt,        \* deliveries to ProcessEventByKey; a Pulse may be delivered again
    Key,            \* memory keys
    PulseOf,        \* the Pulse of an attempt
    KeyOf,          \* the MemoryKey a Pulse arrives with
    RekeyOf,        \* its MemoryKey after the Link's Scouts
    SpiritRekeyOf,  \* what the Spirit's Scouts may make of it
    Stateless,      \* Pulses answered by Spirits with no session and no coalescing
    HasInbox,       \* a MessageInbox is configured
    HasIdempotency, \* an IdempotencyStore is configured
    PopIsAtomic,    \* Redis ran LRANGE and DEL of one pipeline back to back
    MaxFaults,      \* bound on infrastructure errors, expiries and crashes in a behaviour
    None,           \* no holder, no memory, no session
    Orphan          \* a lock value that nobody will release

ASSUME PulseOfAssumption  == PulseOf \in [Attempt -> Pulse]
ASSUME KeyOfAssumption    == KeyOf \in [Pulse -> Key]
ASSUME RekeyOfAssumption  == RekeyOf \in [Pulse -> Key]
ASSUME SpiritRekeyOfAssumption == SpiritRekeyOf \in [Pulse -> (SUBSET Key) \ {{}}]
ASSUME StatelessAssumption == Stateless \subseteq Pulse
ASSUME FlagsAssumption    == {HasInbox, HasIdempotency, PopIsAtomic} \subseteq BOOLEAN
ASSUME FaultsAssumption   == MaxFaults \in Nat
ASSUME NoneAssumption     == None \notin Attempt /\ Orphan \notin Attempt /\ None # Orphan
ASSUME MemoryAssumption   == \A S \in SUBSET Pulse : S # None

VARIABLES
    \* shared stores
    lock,       \* lock[k]: value of the key "memory:<k>"
    inbox,      \* inbox[k]: the Redis list
    seen,       \* idempotency keys recorded
    memory,     \* memory[k]: the saved session, or None
    echo,       \* echo[k]: the Echo store
    \* ProcessingState of each attempt
    pc,
    key,        \* state.Event.MemoryKey
    input,      \* state.Event.UserMessage
    popped,     \* what LRANGE returned
    session,    \* state.Session
    extra,      \* state.AdditionalLocks holds the lock of RekeyOf
    delivered,  \* state.ResponseDelivered
    result,     \* how the attempt ended
    \* history
    carried,    \* messages that were part of a turn given to the Spirit
    replies,    \* replies[p]: messages sent to the user by attempts of p
    saved,      \* saved[k]: messages in a session saved by a turn
    unechoed,   \* unechoed[k]: messages whose Echo was not appended
    failedOpen, \* Pulses the idempotency store failed for
    unconfirmed, \* Pulses an Action sent an answer to and was reported as failed
    amnesia,    \* keys whose memory was rebuilt while the stores were failing
    faults      \* what MaxFaults leaves

stores  == <<lock, inbox, seen, memory, echo>>
locals  == <<key, input, popped, session, extra, delivered>>
state   == <<pc, result, locals>>
history == <<carried, replies, saved, unechoed, failedOpen, unconfirmed, amnesia>>
vars    == <<stores, state, history, faults>>

\* "retriable" is LOCK_ACQUISITION_FAILED, MEMORY_OPERATION_FAILED, REASONING_FAILED and
\* TIMEOUT_EXCEEDED, "permanent" every other error without a result of its own.
Result == {"none", "success", "duplicate", "rate_limited", "busy", "held", "permanent",
           "retriable", "crashed"}

StoresTyped ==
    /\ lock \in [Key -> Attempt \cup {None, Orphan}]
    /\ inbox \in [Key -> Seq(Pulse)]
    /\ seen \subseteq Pulse
    /\ memory \in [Key -> (SUBSET Pulse) \cup {None}]
    /\ echo \in [Key -> SUBSET Pulse]
ControlTyped ==
    /\ pc \in [Attempt -> {"new", "limit", "push", "lock", "vigil", "scout", "spirit",
                           "session", "pop", "clear", "reason", "save", "append", "deliver",
                           "release", "release_extra", "done"}]
    /\ result \in [Attempt -> Result]
LocalsTyped ==
    /\ key \in [Attempt -> Key]
    /\ input \in [Attempt -> SUBSET Pulse]
    /\ popped \in [Attempt -> Seq(Pulse)]
    /\ session \in [Attempt -> (SUBSET Pulse) \cup {None}]
    /\ extra \in [Attempt -> BOOLEAN]
    /\ delivered \in [Attempt -> BOOLEAN]
HistoryTyped ==
    /\ carried \subseteq Pulse
    /\ replies \in [Pulse -> Nat]
    /\ saved \in [Key -> SUBSET Pulse]
    /\ unechoed \in [Key -> SUBSET Pulse]
    /\ failedOpen \subseteq Pulse
    /\ unconfirmed \subseteq Pulse
    /\ amnesia \subseteq Key
TypeOK ==
    /\ StoresTyped
    /\ ControlTyped
    /\ LocalsTyped
    /\ HistoryTyped
    /\ faults \in 0..MaxFaults

Init ==
    /\ lock = [k \in Key |-> None]
    /\ inbox = [k \in Key |-> << >>]
    /\ seen = {}
    /\ memory = [k \in Key |-> None]
    /\ echo = [k \in Key |-> {}]
    /\ pc = [a \in Attempt |-> "new"]
    /\ key = [a \in Attempt |-> KeyOf[PulseOf[a]]]
    /\ input = [a \in Attempt |-> {PulseOf[a]}]
    /\ popped = [a \in Attempt |-> << >>]
    /\ session = [a \in Attempt |-> None]
    /\ extra = [a \in Attempt |-> FALSE]
    /\ delivered = [a \in Attempt |-> FALSE]
    /\ result = [a \in Attempt |-> "none"]
    /\ carried = {}
    /\ replies = [p \in Pulse |-> 0]
    /\ saved = [k \in Key |-> {}]
    /\ unechoed = [k \in Key |-> {}]
    /\ failedOpen = {}
    /\ unconfirmed = {}
    /\ amnesia = {}
    /\ faults = MaxFaults

LockKey(a) == KeyOf[PulseOf[a]]
Messages(list) == {list[i] : i \in DOMAIN list}

GoTo(a, step) == pc' = [pc EXCEPT ![a] = step] /\ UNCHANGED result
\* The attempt ends before it owns the lock.
Reject(a, r) == pc' = [pc EXCEPT ![a] = "done"] /\ result' = [result EXCEPT ![a] = r]
\* A step after the lock fails: the rest is skipped, runProcessingPipeline releases.
Abort(a, r) == pc' = [pc EXCEPT ![a] = "release"] /\ result' = [result EXCEPT ![a] = r]

-----------------------------------------------------------------------------
(* Before the lock *)

\* Faulty: the key is looked up and not recorded.
IdempotencyCheckReadOnly(a) ==
    /\ pc[a] = "new"
    /\ IF PulseOf[a] \in seen THEN Reject(a, "duplicate") ELSE GoTo(a, "limit")
    /\ UNCHANGED <<stores, locals, history>>

\* Seen is SETNX: it records the key and says whether it was there.
IdempotencyCheck(a) ==
    /\ pc[a] = "new"
    /\ IF HasIdempotency
       THEN /\ seen' = seen \cup {PulseOf[a]}
            /\ IF PulseOf[a] \in seen THEN Reject(a, "duplicate") ELSE GoTo(a, "limit")
       ELSE GoTo(a, "limit") /\ UNCHANGED seen
    /\ UNCHANGED <<lock, inbox, memory, echo, locals, history>>

\* A failing store lets the Pulse through unrecorded.
IdempotencyError(a) ==
    /\ pc[a] = "new" /\ HasIdempotency
    /\ failedOpen' = failedOpen \cup {PulseOf[a]}
    /\ GoTo(a, "limit")
    /\ UNCHANGED <<stores, locals, carried, replies, saved, unechoed, unconfirmed,
                   amnesia>>

RateLimit(a) ==
    /\ pc[a] = "limit"
    /\ GoTo(a, "push") \/ Reject(a, "rate_limited")
    /\ UNCHANGED <<stores, locals, history>>

\* LockAcquisition, first half: the message goes to the inbox.
PushInbox(a) ==
    /\ pc[a] = "push"
    /\ PopIsAtomic => \A b \in Attempt : ~(pc[b] = "clear" /\ key[b] = key[a])
    /\ inbox' = IF HasInbox THEN [inbox EXCEPT ![key[a]] = Append(@, PulseOf[a])] ELSE inbox
    /\ GoTo(a, "lock")
    /\ UNCHANGED <<lock, seen, memory, echo, locals, history>>

\* A failed push is logged and forgotten.
PushError(a) ==
    /\ pc[a] = "push" /\ HasInbox
    /\ GoTo(a, "lock")
    /\ UNCHANGED <<stores, locals, history>>

\* Faulty: the reply of SET NX is not looked at.
AcquireLockUnchecked(a) ==
    /\ pc[a] = "lock"
    /\ lock' = [lock EXCEPT ![LockKey(a)] = a]
    /\ GoTo(a, "vigil")
    /\ UNCHANGED <<inbox, seen, memory, echo, locals, history>>

\* LockAcquisition, second half: one try, and the turn is busy if the lock is taken.
AcquireLock(a) ==
    /\ pc[a] = "lock"
    /\ IF lock[LockKey(a)] = None
       THEN lock' = [lock EXCEPT ![LockKey(a)] = a] /\ GoTo(a, "vigil")
       ELSE Reject(a, "busy") /\ UNCHANGED lock
    /\ UNCHANGED <<inbox, seen, memory, echo, locals, history>>

\* An error, the key set or not.
AcquireError(a) ==
    /\ pc[a] = "lock"
    /\ \/ UNCHANGED lock
       \/ lock[LockKey(a)] = None /\ lock' = [lock EXCEPT ![LockKey(a)] = Orphan]
    /\ Reject(a, "retriable")
    /\ UNCHANGED <<inbox, seen, memory, echo, locals, history>>

-----------------------------------------------------------------------------
(* Under the lock: what decides whether, where and how the turn runs *)

\* A Vigil seat blocks the turn; a failing store does not.
VigilCheck(a) ==
    /\ pc[a] = "vigil"
    /\ GoTo(a, "scout") \/ Abort(a, "held")
    /\ UNCHANGED <<stores, locals, history>>

\* Faulty: the session the Scouts chose is not locked.
LinkScoutUnlocked(a) ==
    /\ pc[a] = "scout"
    /\ key' = [key EXCEPT ![a] = RekeyOf[PulseOf[a]]]
    /\ GoTo(a, "spirit")
    /\ UNCHANGED <<stores, input, popped, session, extra, delivered, history>>

\* Faulty: it waits for the lock of that session.
LinkScoutWaiting(a) ==
    LET new == RekeyOf[PulseOf[a]] IN
    /\ pc[a] = "scout"
    /\ new # LockKey(a) => lock[new] = None
    /\ lock' = [lock EXCEPT ![new] = a]
    /\ extra' = [extra EXCEPT ![a] = new # LockKey(a)]
    /\ key' = [key EXCEPT ![a] = new]
    /\ GoTo(a, "spirit")
    /\ UNCHANGED <<inbox, seen, memory, echo, input, popped, session, delivered, history>>

\* LinkScout: when the Scouts changed the memory key, the new session is locked too,
\* with one try; failing that is an error, and the turn ends.
LinkScout(a) ==
    LET new == RekeyOf[PulseOf[a]] IN
    /\ pc[a] = "scout"
    /\ key' = [key EXCEPT ![a] = new]
    /\ IF new = LockKey(a)
       THEN GoTo(a, "spirit") /\ UNCHANGED <<lock, extra>>
       ELSE IF lock[new] = None
       THEN /\ lock' = [lock EXCEPT ![new] = a]
            /\ extra' = [extra EXCEPT ![a] = TRUE]
            /\ GoTo(a, "spirit")
       ELSE Abort(a, "retriable") /\ UNCHANGED <<lock, extra>>
    /\ UNCHANGED <<inbox, seen, memory, echo, input, popped, session, delivered, history>>

\* The Link names a Scout that is not registered; or the lock of the new session is an
\* error, with its key set or not.
LinkScoutError(a) ==
    LET new == RekeyOf[PulseOf[a]] IN
    /\ pc[a] = "scout"
    /\ \/ Abort(a, "permanent") /\ UNCHANGED <<lock, key>>
       \/ /\ new # LockKey(a)
          /\ key' = [key EXCEPT ![a] = new]
          /\ \/ UNCHANGED lock
             \/ lock[new] = None /\ lock' = [lock EXCEPT ![new] = Orphan]
          /\ Abort(a, "retriable")
    /\ UNCHANGED <<inbox, seen, memory, echo, input, popped, session, extra, delivered,
                   history>>

\* Filter, SpiritSelection, SpiritLoad and the steps up to SessionSetup; a step that
\* ran out of its time fails as retriable, whatever its error.  The Spirit's Scouts may
\* change the memory key once more, and nothing is locked for it.
SelectSpirit(a) ==
    /\ pc[a] = "spirit"
    /\ \/ Abort(a, "permanent") /\ UNCHANGED key
       \/ Abort(a, "retriable") /\ UNCHANGED key
       \/ /\ \E k \in SpiritRekeyOf[PulseOf[a]] : key' = [key EXCEPT ![a] = k]
          /\ GoTo(a, IF PulseOf[a] \in Stateless THEN "reason" ELSE "session")
    /\ UNCHANGED <<stores, input, popped, session, extra, delivered, history>>

\* SessionSetup: the saved memory, or one rebuilt from the echoes and saved at once.
SessionSetup(a) ==
    LET loaded == IF memory[key[a]] = None THEN echo[key[a]] ELSE memory[key[a]] IN
    /\ pc[a] = "session"
    /\ session' = [session EXCEPT ![a] = loaded]
    /\ memory' = [memory EXCEPT ![key[a]] = loaded]
    /\ GoTo(a, "pop")
    /\ UNCHANGED <<lock, inbox, seen, echo, key, input, popped, extra, delivered, history>>

\* Any read error counts as a miss, and a failing Echo store rebuilds an empty session.
SessionReadError(a) ==
    /\ pc[a] = "session"
    /\ \E rebuilt \in {echo[key[a]], {}} :
          /\ session' = [session EXCEPT ![a] = rebuilt]
          /\ memory' = [memory EXCEPT ![key[a]] = rebuilt]
    /\ amnesia' = amnesia \cup {key[a]}
    /\ GoTo(a, "pop")
    /\ UNCHANGED <<lock, inbox, seen, echo, key, input, popped, extra, delivered,
                   carried, replies, saved, unechoed, failedOpen, unconfirmed>>

\* Saving the rebuilt session failed.
SessionInitError(a) ==
    /\ pc[a] = "session"
    /\ Abort(a, "retriable")
    /\ UNCHANGED <<stores, locals, history>>

-----------------------------------------------------------------------------
(* MessageCoalescing: PopAll is an LRANGE and a DEL pipelined without MULTI; *)
(* then UpdateMemory appends the user turn to the session of this attempt.   *)

PopRange(a) ==
    /\ pc[a] = "pop"
    /\ IF HasInbox
       THEN /\ popped' = [popped EXCEPT ![a] = inbox[key[a]]]
            /\ GoTo(a, "clear")
            /\ UNCHANGED session
       ELSE /\ session' = [session EXCEPT ![a] = @ \cup input[a]]
            /\ GoTo(a, "reason")
            /\ UNCHANGED popped
    /\ UNCHANGED <<stores, key, input, extra, delivered, history>>

\* Faulty: a drained list that is nil in place of empty.
PopDelNil(a) ==
    /\ pc[a] = "clear"
    /\ inbox' = [inbox EXCEPT ![key[a]] = None]
    /\ popped' = [popped EXCEPT ![a] = << >>]
    /\ GoTo(a, "reason")
    /\ UNCHANGED <<lock, seen, memory, echo, key, input, session, extra, delivered, history>>

\* More than one message: they become the user turn.  Otherwise the turn keeps its own.
PopDel(a) ==
    LET turn == IF Len(popped[a]) > 1 THEN Messages(popped[a]) ELSE input[a] IN
    /\ pc[a] = "clear"
    /\ inbox' = [inbox EXCEPT ![key[a]] = << >>]
    /\ popped' = [popped EXCEPT ![a] = << >>]
    /\ input' = [input EXCEPT ![a] = turn]
    /\ session' = [session EXCEPT ![a] = @ \cup turn]
    /\ GoTo(a, "reason")
    /\ UNCHANGED <<lock, seen, memory, echo, key, extra, delivered, history>>

\* On an error the turn keeps its own message, the list deleted or not.
PopError(a) ==
    /\ pc[a] = "clear"
    /\ inbox' \in {inbox, [inbox EXCEPT ![key[a]] = << >>]}
    /\ popped' = [popped EXCEPT ![a] = << >>]
    /\ session' = [session EXCEPT ![a] = @ \cup input[a]]
    /\ GoTo(a, "reason")
    /\ UNCHANGED <<lock, seen, memory, echo, key, input, extra, delivered, history>>

-----------------------------------------------------------------------------
(* Reasoning and what follows *)

\* An Action of category response delivery may have answered the user, whether or not
\* the loop then fails.  An answer counts once, in however many messages the loop sends it.
Reason(a) ==
    /\ pc[a] = "reason"
    /\ carried' = carried \cup input[a]
    /\ \/ UNCHANGED <<delivered, replies>>
       \/ /\ delivered' = [delivered EXCEPT ![a] = TRUE]
          /\ replies' = [replies EXCEPT ![PulseOf[a]] = @ + 1]
    /\ GoTo(a, "save") \/ Abort(a, "retriable")
    /\ UNCHANGED <<stores, key, input, popped, session, extra, saved, unechoed, failedOpen,
                   unconfirmed, amnesia>>

\* Such an Action sent its message and failed: ResponseDelivered stays false and the Voice
\* answers too, unless the Action was retried, or called again, with success.
ReasonUnconfirmed(a) ==
    /\ pc[a] = "reason"
    /\ carried' = carried \cup input[a]
    /\ \/ replies' = [replies EXCEPT ![PulseOf[a]] = @ + 1] /\ UNCHANGED delivered
       \/ /\ replies' = [replies EXCEPT ![PulseOf[a]] = @ + 2]
          /\ delivered' = [delivered EXCEPT ![a] = TRUE]
    /\ unconfirmed' = unconfirmed \cup {PulseOf[a]}
    /\ GoTo(a, "save") \/ Abort(a, "retriable")
    /\ UNCHANGED <<stores, key, input, popped, session, extra, saved, unechoed, failedOpen,
                   amnesia>>

\* Persistence, first half: SET of the whole session, if there is one.
SaveMemory(a) ==
    /\ pc[a] = "save"
    /\ IF session[a] = None
       THEN GoTo(a, "deliver") /\ UNCHANGED <<memory, saved>>
       ELSE /\ memory' = [memory EXCEPT ![key[a]] = session[a]]
            /\ saved' = [saved EXCEPT ![key[a]] = @ \cup input[a]]
            /\ GoTo(a, "append")
    /\ UNCHANGED <<lock, inbox, seen, echo, locals, carried, replies, unechoed, failedOpen,
                   unconfirmed, amnesia>>

SaveError(a) ==
    /\ pc[a] = "save" /\ session[a] # None
    /\ Abort(a, "permanent") \/ Abort(a, "retriable")
    /\ UNCHANGED <<stores, locals, history>>

\* Persistence, second half: the echoes are appended on a best-effort basis.
AppendEcho(a) ==
    /\ pc[a] = "append"
    /\ echo' = [echo EXCEPT ![key[a]] = @ \cup input[a]]
    /\ GoTo(a, "deliver")
    /\ UNCHANGED <<lock, inbox, seen, memory, locals, history>>

AppendError(a) ==
    /\ pc[a] = "append"
    /\ unechoed' = [unechoed EXCEPT ![key[a]] = @ \cup input[a]]
    /\ GoTo(a, "deliver")
    /\ UNCHANGED <<stores, locals, carried, replies, saved, failedOpen, unconfirmed,
                   amnesia>>

\* ResponseDelivery: the Voice sends the answer unless an Action did.
DeliverResponse(a) ==
    /\ pc[a] = "deliver"
    /\ delivered' = [delivered EXCEPT ![a] = TRUE]
    /\ replies' = [replies EXCEPT ![PulseOf[a]] = IF delivered[a] THEN @ ELSE @ + 1]
    /\ Abort(a, "success")
    /\ UNCHANGED <<stores, key, input, popped, session, extra, carried, saved, unechoed,
                   failedOpen, unconfirmed, amnesia>>

\* No Voice, a Voice that does not respond by itself, or no response.
DeliverNothing(a) ==
    /\ pc[a] = "deliver" /\ ~delivered[a]
    /\ Abort(a, "success")
    /\ UNCHANGED <<stores, locals, history>>

\* A send error is logged and the turn is a success all the same; the user may have got it.
DeliverError(a) ==
    /\ pc[a] = "deliver" /\ ~delivered[a]
    /\ replies' \in {replies, [replies EXCEPT ![PulseOf[a]] = @ + 1]}
    /\ Abort(a, "success")
    /\ UNCHANGED <<stores, locals, carried, saved, unechoed, failedOpen, unconfirmed,
                   amnesia>>

-----------------------------------------------------------------------------
(* LockRelease, run on success and on error *)

\* Faulty: the additional locks are forgotten.
ReleaseLockOnly(a) ==
    /\ pc[a] = "release"
    /\ lock' = [lock EXCEPT ![LockKey(a)] = None]
    /\ GoTo(a, "done")
    /\ UNCHANGED <<inbox, seen, memory, echo, locals, history>>

ReleaseLock(a) ==
    /\ pc[a] = "release"
    /\ lock' = [lock EXCEPT ![LockKey(a)] = None]
    /\ GoTo(a, IF extra[a] THEN "release_extra" ELSE "done")
    /\ UNCHANGED <<inbox, seen, memory, echo, locals, history>>

ReleaseAdditional(a) ==
    /\ pc[a] = "release_extra"
    /\ lock' = [lock EXCEPT ![RekeyOf[PulseOf[a]]] = None]
    /\ GoTo(a, "done")
    /\ UNCHANGED <<inbox, seen, memory, echo, locals, history>>

\* The unlock failed and is not tried again: the BondManager has forgotten the mutex.
ReleaseError(a) ==
    /\ \/ /\ pc[a] = "release"
          /\ lock' = [lock EXCEPT ![LockKey(a)] = Orphan]
          /\ GoTo(a, IF extra[a] THEN "release_extra" ELSE "done")
       \/ /\ pc[a] = "release_extra"
          /\ lock' = [lock EXCEPT ![RekeyOf[PulseOf[a]]] = Orphan]
          /\ GoTo(a, "done")
    /\ UNCHANGED <<inbox, seen, memory, echo, locals, history>>

-----------------------------------------------------------------------------
(* The environment *)

\* The process of the attempt dies.
Crash(a) ==
    /\ pc[a] \notin {"new", "done"}
    /\ lock' = [k \in Key |-> IF lock[k] = a THEN Orphan ELSE lock[k]]
    /\ unechoed' = IF pc[a] = "append"
                   THEN [unechoed EXCEPT ![key[a]] = @ \cup input[a]] ELSE unechoed
    /\ Reject(a, "crashed")
    /\ UNCHANGED <<inbox, seen, memory, echo, locals, carried, replies, saved, failedOpen,
                   unconfirmed, amnesia>>

\* LockTTL ends a lock that nobody renews or releases.
LockExpire(k) ==
    /\ lock[k] = Orphan
    /\ lock' = [lock EXCEPT ![k] = None]
    /\ UNCHANGED <<inbox, seen, memory, echo, state, history>>

\* The ttl of a session in Redis, and the sliding ttl of an inbox list.
MemoryExpire(k) ==
    /\ memory[k] # None
    /\ memory' = [memory EXCEPT ![k] = None]
    /\ UNCHANGED <<lock, inbox, seen, echo, state, history>>

InboxExpire(k) ==
    /\ inbox[k] # << >>
    /\ inbox' = [inbox EXCEPT ![k] = << >>]
    /\ UNCHANGED <<lock, seen, memory, echo, state, history>>

-----------------------------------------------------------------------------
Step(a) ==
    \/ IdempotencyCheck(a) \/ RateLimit(a) \/ PushInbox(a) \/ AcquireLock(a)
    \/ VigilCheck(a) \/ LinkScout(a) \/ SelectSpirit(a) \/ SessionSetup(a)
    \/ PopRange(a) \/ PopDel(a) \/ Reason(a) \/ SaveMemory(a) \/ AppendEcho(a)
    \/ DeliverResponse(a) \/ DeliverNothing(a) \/ ReleaseLock(a) \/ ReleaseAdditional(a)

Failure(a) ==
    \/ IdempotencyError(a) \/ PushError(a) \/ AcquireError(a) \/ LinkScoutError(a)
    \/ SessionReadError(a) \/ SessionInitError(a) \/ PopError(a) \/ ReasonUnconfirmed(a)
    \/ SaveError(a) \/ AppendError(a) \/ DeliverError(a) \/ ReleaseError(a) \/ Crash(a)

Next ==
    \/ (\E a \in Attempt : Step(a)) /\ UNCHANGED faults
    \/ (\E k \in Key : LockExpire(k)) /\ UNCHANGED faults
    \/ /\ faults > 0 /\ faults' = faults - 1
       /\ \/ \E a \in Attempt : Failure(a)
          \/ \E k \in Key : MemoryExpire(k) \/ InboxExpire(k)

Spec == Init /\ [][Next]_vars

\* A goroutine that runs the pipeline is scheduled until it ends; Redis honours a ttl.
FairSpec ==
    /\ Spec
    /\ \A a \in Attempt : WF_vars(Step(a) /\ UNCHANGED faults)
    /\ \A k \in Key : WF_vars(LockExpire(k) /\ UNCHANGED faults)
-----------------------------------------------------------------------------
(* Properties *)

\* Sessions that a Spirit's Scouts move some turn into, with no lock of theirs: what is said
\* of sessions below leaves them out.
Unguarded == UNION {SpiritRekeyOf[p] \ {KeyOf[p], RekeyOf[p]} : p \in Pulse}
Guarded == Key \ Unguarded

\* A turn that loaded a session owns the lock of that very session until it releases:
\* LinkScout locks the new key, and nothing releases before Persistence.
SessionGuarded ==
    \A a \in Attempt :
      session[a] # None /\ pc[a] \notin {"release", "release_extra", "done"}
        /\ key[a] \in Guarded => lock[key[a]] = a

\* The turns that work on a session, each with the session it will save.
Working(a) == session[a] # None /\ pc[a] \notin {"release", "release_extra", "done"}
Work ==
    [k \in Guarded |-> {<<a, session[a]>> : a \in {b \in Attempt : Working(b) /\ key[b] = k}}]

Serial == INSTANCE Sessions WITH
    Session <- Guarded, Turn <- Attempt, Message <- Pulse, Gone <- None,
    memory <- [k \in Guarded |-> memory[k]], work <- Work, misread <- amnesia \cap Guarded

\* "The Bond ensures that for a given MemoryKey, only one Pulse processes at a time": wherever
\* the Link's Scouts move it, from SessionSetup to LockRelease a turn is the only one of its
\* session, has what the last one left, and Persistence replaces nothing that it has not
\* loaded.  It does not hold of a session the Scouts of a Spirit move a turn into.
SessionsAreSerial == Serial!SessionsSpec

Pending(k) == UNION {input[a] : a \in {b \in Attempt : pc[b] = "append" /\ key[b] = k}}
Recall(k) == IF memory[k] = None THEN echo[k] ELSE memory[k]

\* No turn overwrites what another turn of the session remembered: a saved message is
\* in the memory, or in the echoes a new memory is rebuilt from, unless its echo was not
\* appended or the stores failed while a session was loaded.
ConversationKept ==
    \A k \in Guarded \ amnesia : saved[k] \subseteq Recall(k) \cup unechoed[k] \cup Pending(k)

\* An attempt that ended owns no lock, on every error path and with an additional lock.
LocksReturned == \A k \in Key : lock[k] \in Attempt => pc[lock[k]] # "done"

\* A Pulse with an idempotency key is answered at most once, whatever is redelivered and
\* wherever a process crashed, unless the store failed open for it or an Action that sent
\* the answer was reported as failed.
OneReply ==
    HasIdempotency => \A p \in Pulse \ (failedOpen \cup unconfirmed) : replies[p] <= 1

\* Every delivery ends: two sessions locked in opposite orders do not block each other,
\* because a lock is tried once.
EveryAttemptEnds == \A a \in Attempt : pc[a] # "new" ~> pc[a] = "done"

\* "Messages accumulate in the inbox and are coalesced into a single user turn at the
\* start of the next cycle, preventing message loss": a message turned away as busy is in
\* the inbox, on its way out of it, or part of a turn.
BusyIsCoalesced ==
    \A a \in Attempt : result[a] = "busy" =>
      \/ PulseOf[a] \in Messages(inbox[LockKey(a)]) \cup carried
      \/ \E b \in Attempt : pc[b] \notin {"done", "release", "release_extra"}
                              /\ PulseOf[a] \in Messages(popped[b]) \cup input[b]

\* "true = task delivery should retry": a delivery is dropped as a duplicate only while
\* another one of the Pulse is in progress, or after one that answered the user or ended
\* in a way that asks for no retry.
RetryIsProcessed ==
    [][\A b \in Attempt : result[b] = "none" /\ result'[b] = "duplicate"
         => \E a \in Attempt \ {b} :
              /\ PulseOf[a] = PulseOf[b]
              /\ \/ pc[a] \notin {"new", "done"}
                 \/ pc[a] = "done" /\ (delivered[a] \/ result[a] # "retriable")]_result
=============================================================================
