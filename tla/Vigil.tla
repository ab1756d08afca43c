-------------------------------- MODULE Vigil --------------------------------
(***************************************************************************)
(* The Vigil seat of one session: operators take, keep and release it over *)
(* REST (vigil_handler.go), every turn checks it (VigilCheckStep), and a   *)
(* turn of low confidence raises it for a human (vigilHandoffSink).        *)
(* The seat is one Redis key with a ttl and the value "<operator>:<unix>", *)
(* which Get splits at the FIRST colon: what it does with an id that has   *)
(* a colon of its own, such as "system:auto-handoff", is modelled.         *)
(* Turns of a session run one at a time, under the lock of module Bond.    *)
(***************************************************************************)
EXTENDS Naturals

CONSTANTS
    Operator,   \* operator ids of the consoles
    Turn,       \* turns of the session, each run once
    AutoHandoff, \* handoffOperatorID, "system:auto-handoff"
    WithColon,  \* ids with a colon
    TTL,        \* InactivityTimeout in clock ticks
    MaxFaults,  \* bound on Redis errors in a behaviour
    None        \* no seat

ASSUME AutoAssumption   == AutoHandoff \notin Operator /\ AutoHandoff \in WithColon
ASSUME ColonAssumption  == WithColon \subseteq Operator \cup {AutoHandoff}
ASSUME TTLAssumption    == TTL \in Nat \ {0}
ASSUME FaultsAssumption == MaxFaults \in Nat
ASSUME NoneAssumption   == None \notin Operator \cup Turn \cup {AutoHandoff}
ASSUME ActorAssumption  == Operator \cap Turn = {}

VARIABLES
    seat,       \* the Redis key: who it names, and its remaining ttl
    at,         \* where the request of an operator is
    told,       \* operators whose last takeSeat was answered 200, not released by them
    pc,         \* where a turn is
    reply,      \* what the Voice sent to the user for the turn
    \* history
    ended,      \* actors that saw, or took, a seat which has ended since
    held,       \* turns that began while the key was there, and read it without a fault
    silenced,   \* those that began while an operator knew it had the seat
    unread,     \* those let through because the read of the seat failed
    faults      \* what MaxFaults leaves

turns   == <<pc, reply, held, silenced, unread>>
vars    == <<seat, at, told, turns, ended, faults>>
Holder  == Operator \cup {AutoHandoff}

Free == [holder |-> None, ttl |-> 0]
Seated(h) == [holder |-> h, ttl |-> TTL]

TypeOK ==
    /\ seat \in {Free} \cup [holder : Holder, ttl : 1..TTL]
    /\ at \in [Operator -> {"idle", "get", "refresh"}]
    /\ told \subseteq Operator
    /\ pc \in [Turn -> {"new", "reason", "raise", "raise_set", "answer", "hold", "done"}]
    /\ reply \in [Turn -> {"none", "answer", "hold"}]
    /\ ended \subseteq Operator \cup Turn
    /\ held \subseteq Turn
    /\ silenced \subseteq Turn
    /\ unread \subseteq Turn
    /\ faults \in 0..MaxFaults

Init ==
    /\ seat = Free
    /\ at = [o \in Operator |-> "idle"]
    /\ told = {}
    /\ pc = [t \in Turn |-> "new"]
    /\ reply = [t \in Turn |-> "none"]
    /\ ended = {}
    /\ held = {}
    /\ silenced = {}
    /\ unread = {}
    /\ faults = MaxFaults

Taken == seat.holder # None
\* Get returns a Vigil; with a key that it cannot parse it is an error.
Readable == Taken /\ seat.holder \notin WithColon

Spend == faults > 0 /\ faults' = faults - 1
\* The seat that was there is gone, for everybody who relied on it.
EndSeat == seat' = Free /\ ended' = Operator \cup Turn

-----------------------------------------------------------------------------
(* The operators: takeSeat is Acquire and then Get *)

\* Faulty: SET without NX.
AcquireOverwriting(o) ==
    /\ at[o] = "idle"
    /\ seat' = Seated(o)
    /\ ended' = ended \ {o}
    /\ at' = [at EXCEPT ![o] = "get"]
    /\ told' = told \ {o}
    /\ UNCHANGED <<turns, faults>>

\* SET NX; a seat that is taken, also by handoffOperatorID, is 409.
Acquire(o) ==
    /\ at[o] = "idle" /\ ~Taken
    /\ seat' = Seated(o)
    /\ ended' = ended \ {o}
    /\ at' = [at EXCEPT ![o] = "get"]
    /\ told' = told \ {o}
    /\ UNCHANGED <<turns, faults>>

\* An error reply, and the seat taken all the same: 500.
AcquireError(o) ==
    /\ at[o] = "idle" /\ ~Taken /\ Spend
    /\ seat' = Seated(o)
    /\ UNCHANGED <<at, told, turns, ended>>

\* 200 with whatever seat is there by now; no seat is a nil dereference, and an error of
\* Get is 500, each with the seat left as it is.
GetSeat(o) ==
    /\ at[o] = "get"
    /\ at' = [at EXCEPT ![o] = "idle"]
    /\ \/ told' = (IF Readable THEN told \cup {o} ELSE told) /\ UNCHANGED faults
       \/ UNCHANGED told /\ Spend
    /\ UNCHANGED <<seat, turns, ended>>

\* DEL, whoever asks and whoever holds the seat.
ReleaseSeat(o) ==
    /\ at[o] = "idle"
    /\ IF Taken THEN EndSeat ELSE UNCHANGED <<seat, ended>>
    /\ told' = told \ {o}
    /\ UNCHANGED <<at, turns, faults>>

\* sendMessage: the echo is appended, whoever holds the seat ...
SendMessage(o) ==
    /\ at[o] = "idle"
    /\ at' = [at EXCEPT ![o] = "refresh"]
    /\ UNCHANGED <<seat, told, turns, ended, faults>>

\* Faulty: the time is added to what is left.
RefreshAdding(o) ==
    /\ at[o] = "refresh"
    /\ seat' = IF Taken THEN [seat EXCEPT !.ttl = @ + TTL] ELSE seat
    /\ at' = [at EXCEPT ![o] = "idle"]
    /\ UNCHANGED <<told, turns, ended, faults>>

\* ... and EXPIRE slides the ttl of the key there is; its error is dropped.
Refresh(o) ==
    /\ at[o] = "refresh"
    /\ \/ seat' = (IF Taken THEN Seated(seat.holder) ELSE seat) /\ UNCHANGED faults
       \/ UNCHANGED seat /\ Spend
    /\ at' = [at EXCEPT ![o] = "idle"]
    /\ UNCHANGED <<told, turns, ended>>

-----------------------------------------------------------------------------
(* The turns *)

GoTo(t, step) == pc' = [pc EXCEPT ![t] = step]
Idle == \A t \in Turn : pc[t] \in {"new", "done"}

\* The turn begins while an operator knows that it has the seat.
MeetOperator(t) == silenced' = IF told \ ended # {} THEN silenced \cup {t} ELSE silenced

\* Faulty: only a seat that an automatic handoff raised blocks the turn.
VigilCheckAutoOnly(t) ==
    /\ pc[t] = "new" /\ Idle
    /\ GoTo(t, IF seat.holder = AutoHandoff THEN "done" ELSE "reason")
    /\ held' = IF Taken THEN held \cup {t} ELSE held
    /\ MeetOperator(t)
    /\ UNCHANGED <<seat, at, told, reply, unread, ended, faults>>

\* A Vigil ends the turn as SESSION_HELD; none, or a value that does not parse, does not.
VigilCheck(t) ==
    /\ pc[t] = "new" /\ Idle
    /\ GoTo(t, IF Readable THEN "done" ELSE "reason")
    /\ held' = IF Taken THEN held \cup {t} ELSE held
    /\ MeetOperator(t)
    /\ UNCHANGED <<seat, at, told, reply, unread, ended, faults>>

\* Fail-open: the turn goes on, whoever has the seat.
VigilCheckError(t) ==
    /\ pc[t] = "new" /\ Idle /\ Spend
    /\ GoTo(t, "reason")
    /\ MeetOperator(t)
    /\ unread' = unread \cup {t}
    /\ UNCHANGED <<seat, at, told, reply, held, ended>>

\* maybeHandoff: a confidence below the policy's raises a takeover; a turn may also fail.
Reason(t) ==
    /\ pc[t] = "reason"
    /\ \E step \in {"answer", "raise", "done"} : GoTo(t, step)
    /\ UNCHANGED <<seat, at, told, reply, held, silenced, unread, ended, faults>>

\* RaiseTakeover's Get: a seat is there already, and an error counts as none.
RaiseTakeover(t) ==
    /\ pc[t] = "raise"
    /\ \/ GoTo(t, IF Readable THEN "hold" ELSE "raise_set") /\ UNCHANGED faults
       \/ GoTo(t, "raise_set") /\ Spend
    /\ ended' = ended \ {t}
    /\ UNCHANGED <<seat, at, told, reply, held, silenced, unread>>

\* Faulty: the error of Acquire is dropped.
AcquireAutoUnchecked(t) ==
    /\ pc[t] = "raise_set"
    /\ \/ /\ seat' = IF Taken THEN seat ELSE Seated(AutoHandoff)
          /\ UNCHANGED faults
       \/ UNCHANGED seat /\ Spend
    /\ GoTo(t, "hold")
    /\ ended' = ended \ {t}
    /\ UNCHANGED <<at, told, reply, held, silenced, unread>>

\* Its Acquire: a seat that is taken, or an error, lets the answer of the model through.
AcquireAuto(t) ==
    /\ pc[t] = "raise_set"
    /\ \/ /\ seat' = IF Taken THEN seat ELSE Seated(AutoHandoff)
          /\ GoTo(t, IF Taken THEN "answer" ELSE "hold")
          /\ UNCHANGED faults
       \/ /\ seat' \in {seat} \cup (IF Taken THEN {} ELSE {Seated(AutoHandoff)})
          /\ GoTo(t, "answer")
          /\ Spend
    /\ ended' = ended \ {t}
    /\ UNCHANGED <<at, told, reply, held, silenced, unread>>

\* The answer, or the holding message, is sent or is lost; nothing looks at the seat again.
Deliver(t) ==
    /\ pc[t] \in {"answer", "hold"}
    /\ reply' \in {reply, [reply EXCEPT ![t] = pc[t]]}
    /\ GoTo(t, "done")
    /\ UNCHANGED <<seat, at, told, held, silenced, unread, ended, faults>>

\* The clock; Redis drops the key when its ttl is over.
Tick ==
    /\ Taken
    /\ IF seat.ttl = 1 THEN EndSeat
       ELSE seat' = [seat EXCEPT !.ttl = @ - 1] /\ UNCHANGED ended
    /\ UNCHANGED <<at, told, turns, faults>>

-----------------------------------------------------------------------------
Next ==
    \/ \E o \in Operator : Acquire(o) \/ AcquireError(o) \/ GetSeat(o) \/ ReleaseSeat(o)
                             \/ SendMessage(o) \/ Refresh(o)
    \/ \E t \in Turn : VigilCheck(t) \/ VigilCheckError(t) \/ Reason(t) \/ RaiseTakeover(t)
                         \/ AcquireAuto(t) \/ Deliver(t)
    \/ Tick

Spec == Init /\ [][Next]_vars
-----------------------------------------------------------------------------
(* Properties *)

\* An operator that was answered 200 has the seat until one ends, by release or ttl: no
\* other operator, no automatic handoff and no late Refresh takes it over meanwhile.
SeatIsTheirs == \A o \in told \ ended : seat.holder = o

\* "A member of our team will follow up": a turn holds the user off only for a seat that
\* is there, raised by it or found, until one ends (RaiseTakeover and its errors).
HoldingIsBacked ==
    \A t \in Turn \ ended : pc[t] = "hold" \/ reply[t] = "hold" => Taken

\* From the moment an operator knows that it has the seat, a turn that begins says nothing to
\* the user, whatever is sent, refreshed or expires later, unless its own check could not read
\* the seat: VigilCheckStep lets that turn through (fail-open), and nothing looks again.
TakeoverSilences == \A t \in silenced : reply[t] # "none" => t \in unread

\* "When a Vigil seat exists for a MemoryKey, ProcessEventByKey returns ErrSessionHeld - the
\* AI is blocked": also when the seat was raised by an automatic handoff.
SeatBlocksSpirit == \A t \in held : reply[t] = "none"
=============================================================================
