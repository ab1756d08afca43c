----------------------------- MODULE VigilProofs -----------------------------
(***************************************************************************)
(* Theorems about Vigil, for every set of operators and turns, any choice  *)
(* of ids with a colon, every ttl and every bound on the errors.           *)
(*                                                                         *)
(* The seat changes hands only through a free one, and a seat that ends    *)
(* puts every actor in "ended".  What an operator was told is therefore    *)
(* carried by what it holds between Acquire and Get (Claims), and a turn   *)
(* that an operator silenced, and whose check did not fail, has gone       *)
(* straight from the check to its end (Silent), because the seat it met    *)
(* names an id that Get can read.                                          *)
(***************************************************************************)
EXTENDS Vigil, TLAPS

USE AutoAssumption, ColonAssumption, TTLAssumption, FaultsAssumption, NoneAssumption,
    ActorAssumption

Claims ==
    \A o \in Operator \ ended :
      /\ at[o] = "get" => seat.holder = o
      /\ o \in told => seat.holder = o /\ o \notin WithColon
Silent ==
    /\ \A t \in silenced \ unread : pc[t] = "done" /\ reply[t] = "none"
    /\ \A t \in Turn : pc[t] # "done" => reply[t] = "none"

Ask(o) == Acquire(o) \/ AcquireError(o) \/ GetSeat(o) \/ ReleaseSeat(o) \/ SendMessage(o)
            \/ Refresh(o)
Run(t) == VigilCheck(t) \/ VigilCheckError(t) \/ Reason(t) \/ RaiseTakeover(t)
            \/ AcquireAuto(t) \/ Deliver(t)

LEMMA NextSteps ==
  ASSUME [Next]_vars
  PROVE  \/ \E o \in Operator : Ask(o)
         \/ \E t \in Turn : Run(t)
         \/ Tick
         \/ UNCHANGED vars
  BY DEF Next, Ask, Run
-----------------------------------------------------------------------------
\* Every variable of Vigil keeps its type; the ttl never leaves 0..TTL.
THEOREM TypeCorrect == Spec => []TypeOK
<1> USE DEF TypeOK, Holder, Free, Seated, Taken, Spend, EndSeat, turns
<1>1. Init => TypeOK
  BY DEF Init
<1>2. TypeOK /\ [Next]_vars => TypeOK'
  <2> SUFFICES ASSUME TypeOK, [Next]_vars PROVE TypeOK'
    OBVIOUS
  <2>1. ASSUME NEW o \in Operator, Ask(o) PROVE TypeOK'
    <3>1. CASE Acquire(o)
      BY <3>1 DEF Acquire
    <3>2. CASE AcquireError(o)
      BY <3>2 DEF AcquireError
    <3>3. CASE GetSeat(o)
      BY <3>3 DEF GetSeat, Readable
    <3>4. CASE ReleaseSeat(o)
      BY <3>4 DEF ReleaseSeat
    <3>5. CASE SendMessage(o)
      BY <3>5 DEF SendMessage
    <3>6. CASE Refresh(o)
      BY <3>6 DEF Refresh
    <3> QED
      BY <2>1, <3>1, <3>2, <3>3, <3>4, <3>5, <3>6 DEF Ask
  <2>2. ASSUME NEW t \in Turn, Run(t) PROVE TypeOK'
    <3>1. CASE VigilCheck(t)
      BY <3>1 DEF VigilCheck, MeetOperator, GoTo
    <3>2. CASE VigilCheckError(t)
      BY <3>2 DEF VigilCheckError, MeetOperator, GoTo
    <3>3. CASE Reason(t)
      BY <3>3 DEF Reason, GoTo
    <3>4. CASE RaiseTakeover(t)
      BY <3>4 DEF RaiseTakeover, GoTo
    <3>5. CASE AcquireAuto(t)
      BY <3>5 DEF AcquireAuto, GoTo
    <3>6. CASE Deliver(t)
      BY <3>6 DEF Deliver, GoTo
    <3> QED
      BY <2>2, <3>1, <3>2, <3>3, <3>4, <3>5, <3>6 DEF Run
  <2>3. CASE Tick
    BY <2>3 DEF Tick
  <2>4. CASE UNCHANGED vars
    BY <2>4 DEF vars
  <2> QED
    BY <2>1, <2>2, <2>3, <2>4, NextSteps
<1> QED
  BY <1>1, <1>2, PTL DEF Spec

-----------------------------------------------------------------------------
\* What operators were told, and which turns they silenced.
LEMMA ClaimsInductive ==
  ASSUME TypeOK, Claims, [Next]_vars
  PROVE  Claims'
<1> USE DEF TypeOK, Holder, Free, Seated, Taken, EndSeat, turns, Claims
<1>1. ASSUME NEW o \in Operator, Ask(o) PROVE Claims'
  <2>1. CASE Acquire(o)
    BY <2>1 DEF Acquire
  <2>2. CASE AcquireError(o)
    BY <2>2 DEF AcquireError
  <2>3. CASE GetSeat(o)
    BY <2>3 DEF GetSeat, Readable
  <2>4. CASE ReleaseSeat(o)
    BY <2>4 DEF ReleaseSeat
  <2>5. CASE SendMessage(o)
    BY <2>5 DEF SendMessage
  <2>6. CASE Refresh(o)
    BY <2>6 DEF Refresh
  <2> QED
    BY <1>1, <2>1, <2>2, <2>3, <2>4, <2>5, <2>6 DEF Ask
<1>2. ASSUME NEW t \in Turn, Run(t) PROVE Claims'
  <2>1. CASE AcquireAuto(t)
    BY <1>2, <2>1 DEF AcquireAuto
  <2>2. CASE ~AcquireAuto(t)
    BY <1>2, <2>2 DEF Run, VigilCheck, VigilCheckError, Reason, RaiseTakeover, Deliver
  <2> QED
    BY <2>1, <2>2
<1>3. CASE Tick
  BY <1>3 DEF Tick
<1>4. CASE UNCHANGED vars
  BY <1>4 DEF vars
<1> QED
  BY <1>1, <1>2, <1>3, <1>4, NextSteps

LEMMA ClaimsInvariant == Spec => []Claims
<1>1. Init => Claims
  BY DEF Init, Claims
<1> QED
  BY <1>1, ClaimsInductive, TypeCorrect, PTL DEF Spec

\* An operator that was answered 200 keeps the seat until one ends: SET NX gives it to
\* nobody else, and the EXPIRE of a late Refresh does not change whom it names.
THEOREM SeatKept == Spec => []SeatIsTheirs
<1>1. TypeOK /\ Claims => SeatIsTheirs
  BY DEF TypeOK, Claims, SeatIsTheirs
<1> QED
  BY <1>1, ClaimsInvariant, TypeCorrect, PTL

-----------------------------------------------------------------------------
LEMMA SilentInductive ==
  ASSUME TypeOK, Claims, Silent, [Next]_vars
  PROVE  Silent'
<1> USE DEF TypeOK, turns, Silent
<1>1. ASSUME NEW o \in Operator, Ask(o) PROVE Silent'
  BY <1>1 DEF Ask, Acquire, AcquireError, GetSeat, ReleaseSeat, SendMessage, Refresh
<1>2. ASSUME NEW t \in Turn, Run(t) PROVE Silent'
  <2> USE DEF GoTo
  <2>1. CASE VigilCheck(t)
    <3>1. told \ ended # {} => Readable
      BY DEF Claims, Readable, Taken
    <3>2. silenced' # silenced => pc'[t] = "done"
      BY <2>1, <3>1 DEF VigilCheck, MeetOperator
    <3>3. silenced' \subseteq silenced \cup {t}
      BY <2>1 DEF VigilCheck, MeetOperator
    <3> QED
      BY <2>1, <3>2, <3>3 DEF VigilCheck
  \* The turn whose check failed joins both sets.
  <2>2. CASE VigilCheckError(t)
    <3>1. /\ silenced' \subseteq silenced \cup {t}
          /\ unread' = unread \cup {t}
      BY <2>2 DEF VigilCheckError, MeetOperator
    <3> QED
      BY <2>2, <3>1 DEF VigilCheckError
  <2>3. CASE ~VigilCheck(t) /\ ~VigilCheckError(t)
    BY <1>2, <2>3 DEF Run, Reason, RaiseTakeover, AcquireAuto, Deliver
  <2> QED
    BY <2>1, <2>2, <2>3
<1>3. CASE Tick
  BY <1>3 DEF Tick
<1>4. CASE UNCHANGED vars
  BY <1>4 DEF vars
<1> QED
  BY <1>1, <1>2, <1>3, <1>4, NextSteps

LEMMA SilentInvariant == Spec => []Silent
<1>1. Init => Silent
  BY DEF Init, Silent
<1> QED
  BY <1>1, SilentInductive, ClaimsInvariant, TypeCorrect, PTL DEF Spec

\* A turn that begins once an operator knows of its seat says nothing to the user, unless its
\* own check of the seat failed: the one hole is the fail-open branch of VigilCheckStep.
THEOREM TakeoverIsSilent == Spec => []TakeoverSilences
<1>1. Silent => TakeoverSilences
  BY DEF Silent, TakeoverSilences
<1> QED
  BY <1>1, SilentInvariant, PTL

-----------------------------------------------------------------------------
\* A user that was held off was held off for a seat that is there until one ends.
THEOREM HoldingBacked == Spec => []HoldingIsBacked
<1>1. Init => HoldingIsBacked
  BY DEF Init, HoldingIsBacked
<1>2. TypeOK /\ Silent /\ HoldingIsBacked /\ [Next]_vars => HoldingIsBacked'
  <2> SUFFICES ASSUME TypeOK, Silent, HoldingIsBacked, [Next]_vars PROVE HoldingIsBacked'
    OBVIOUS
  <2> USE DEF TypeOK, Holder, Free, Seated, Taken, EndSeat, turns, HoldingIsBacked
  <2>1. ASSUME NEW o \in Operator, Ask(o) PROVE HoldingIsBacked'
    <3>1. CASE Acquire(o) \/ AcquireError(o) \/ GetSeat(o)
      BY <3>1 DEF Acquire, AcquireError, GetSeat
    <3>2. CASE ReleaseSeat(o) \/ SendMessage(o) \/ Refresh(o)
      BY <3>2 DEF ReleaseSeat, SendMessage, Refresh
    <3> QED
      BY <2>1, <3>1, <3>2 DEF Ask
  <2>2. ASSUME NEW t \in Turn, Run(t) PROVE HoldingIsBacked'
    <3> USE DEF GoTo
    <3>1. CASE RaiseTakeover(t)
      <4>1. pc'[t] = "hold" => Taken
        BY <3>1 DEF RaiseTakeover, Readable
      <4>2. \A u \in Turn \ {t} : pc'[u] = pc[u] /\ (u \in ended' <=> u \in ended)
        BY <3>1 DEF RaiseTakeover
      <4>3. reply[t] = "hold" => Taken
        BY <3>1 DEF RaiseTakeover, Silent
      <4> QED
        BY <3>1, <4>1, <4>2, <4>3 DEF RaiseTakeover
    <3>2. CASE AcquireAuto(t)
      <4>1. reply[t] # "hold"
        BY <3>2 DEF AcquireAuto, Silent
      <4>2. pc'[t] = "hold" => Taken'
        BY <3>2 DEF AcquireAuto
      <4>3. Taken => Taken'
        BY <3>2 DEF AcquireAuto
      <4>4. \A u \in Turn \ {t} : pc'[u] = pc[u] /\ (u \in ended' <=> u \in ended)
        BY <3>2 DEF AcquireAuto
      <4> QED
        BY <3>2, <4>1, <4>2, <4>3, <4>4 DEF AcquireAuto
    <3>3. CASE VigilCheck(t) \/ VigilCheckError(t) \/ Reason(t)
      <4>1. /\ UNCHANGED <<seat, ended, reply>>
            /\ \A u \in Turn : pc'[u] = "hold" => pc[u] = "hold"
        BY <3>3 DEF VigilCheck, VigilCheckError, Reason
      <4> QED
        BY <4>1
    <3>4. CASE Deliver(t)
      BY <3>4 DEF Deliver
    <3> QED
      BY <2>2, <3>1, <3>2, <3>3, <3>4 DEF Run
  <2>3. CASE Tick
    BY <2>3 DEF Tick
  <2>4. CASE UNCHANGED vars
    BY <2>4 DEF vars
  <2> QED
    BY <2>1, <2>2, <2>3, <2>4, NextSteps
<1> QED
  BY <1>1, <1>2, SilentInvariant, TypeCorrect, PTL DEF Spec
=============================================================================
