----------------------------- MODULE Delegation -----------------------------
(* Summon and Handoff: the Spirits that work on one turn of a session, as a *)
(* tree of nested reasonings, and the pin that makes a Spirit own the       *)
(* session.  A summon calls and returns; a handoff transfers and continues. *)
EXTENDS Naturals, Sequences, FiniteSets

CONSTANTS
    Spirit,       \* the Spirits of the catalog
    NoSpirit,     \* no Spirit
    SubSpirits,   \* [Spirit -> SUBSET Spirit]: whom an orchestrator may summon
    Targets,      \* [Spirit -> SUBSET Spirit]: whom a Spirit may hand off to
    Routes,       \* [Spirit -> SUBSET Spirit]: what its LogicRouter may choose
    MaxDepth,     \* [Spirit -> Nat]
    MaxHandoffs,  \* [Spirit -> Nat]
    Parallel,     \* the orchestrators with ParallelSummon
    Selectable,   \* what selectSpirit may return
    MaxFrames,    \* bound: reasonings of one turn
    MaxTurns      \* bound: turns

ASSUME LimitsAssumption == {MaxDepth, MaxHandoffs} \subseteq [Spirit -> Nat]

VARIABLES
    pin,      \* HandoffStore: the active Spirit of the session, if any
    catalog,   \* the Spirits FindActiveByName finds
    frames,   \* the reasonings of the running turn, in the order they began
    before,   \* the pin this turn began with
    inDoubt,  \* a write of the pin failed during this turn
    begun     \* turns begun

delegationVars == <<pin, catalog, frames, before, inDoubt, begun>>

\* ReasoningRequest: a Spirit, its Pulse's two counters, and how it was called.
Frame == [spirit : Spirit, parent : 0..MaxFrames, by : {"turn", "summon", "handoff"},
          depth : 0..MaxFrames, handoffs : 0..MaxFrames,
          state : {"open", "ok", "error"}, author : Spirit \cup {NoSpirit}]

Root(s) == [spirit |-> s, parent |-> 0, by |-> "turn", depth |-> 0, handoffs |-> 0,
            state |-> "open", author |-> NoSpirit]

DelegationInit ==
    /\ pin = NoSpirit /\ catalog = Spirit /\ frames = << >>
    /\ before = NoSpirit /\ inDoubt = FALSE /\ begun = 0

Children(f) == {c \in DOMAIN frames : frames[c].parent = f}

\* Execute of the target returned its answer: the caller's turn is settled.
HandedOff(f) == {c \in Children(f) : frames[c].by = "handoff" /\ frames[c].state = "ok"}

\* The Spirit is asked again: no call of it is running, and it did not hand off.
Reasoning(f) ==
    /\ f \in DOMAIN frames /\ frames[f].state = "open"
    /\ \A c \in Children(f) : frames[c].state # "open"
    /\ HandedOff(f) = {}

\* After a summon failed the next response is offered no Action (a critical infrastructure error).
MayCall(f) ==
    Reasoning(f) /\ \A c \in Children(f) : frames[c].by = "summon" => frames[c].state = "ok"

Live == frames # << >>

Close(f, state, author) == frames' = [frames EXCEPT ![f].state = state, ![f].author = author]

-----------------------------------------------------------------------------
(* The turn *)

\* SpiritSelection: the pin if there is one, else selectSpirit; a failing store falls
\* back to selectSpirit.  SpiritLoad fails on a Spirit that is not active, pinned or not.
\* OrchestratorRouting may put the LogicRouter's choice in its place.
BeginTurn ==
    /\ ~Live /\ begun < MaxTurns
    /\ \E s \in IF pin = NoSpirit THEN Selectable ELSE Selectable \cup {pin} :
          /\ s \in catalog
          /\ \E led \in {s} \cup (Routes[s] \cap catalog) : frames' = <<Root(led)>>
    /\ begun' = begun + 1
    /\ before' = pin
    /\ inDoubt' = FALSE
    /\ UNCHANGED <<pin, catalog>>

\* The response of the turn, or its error, leaves the pipeline.
EndTurn ==
    /\ Live /\ frames[1].state # "open"
    /\ frames' = << >>
    /\ UNCHANGED <<pin, catalog, before, inDoubt, begun>>

-----------------------------------------------------------------------------
(* Summon *)

\* Faulty: the child's Pulse keeps the depth of its parent's.
TaskPulseLevel(f, s) == [Root(s) EXCEPT !.parent = f, !.by = "summon", !.depth = frames[f].depth]

\* SummonService.buildChildPulse: one level deeper, and no HandoffCount.
TaskPulse(f, s) ==
    [Root(s) EXCEPT !.parent = f, !.by = "summon", !.depth = frames[f].depth + 1]

\* validateSummon, and the sub-Spirit is found.
MaySummon(f, s) ==
    /\ s \in SubSpirits[frames[f].spirit]
    /\ frames[f].depth < MaxDepth[frames[f].spirit]
    /\ s \in catalog

\* executeAllActions: the summons of one response, at once if the orchestrator says so, else one
\* after another, those behind one that failed included.
\* The refused ones are answered with an error, which changes nothing here.
Summon(f) ==
    /\ MayCall(f) \/ (Reasoning(f) /\ frames[f].spirit \notin Parallel)
    /\ \E tasks \in [1..2 -> Spirit] \cup [1..1 -> Spirit] :
          /\ Len(tasks) = 2 => frames[f].spirit \in Parallel
          /\ Len(frames) + Len(tasks) <= MaxFrames
          /\ \A i \in DOMAIN tasks : MaySummon(f, tasks[i])
          /\ frames' = frames \o [i \in DOMAIN tasks |-> TaskPulse(f, tasks[i])]
    /\ UNCHANGED <<pin, catalog, before, inDoubt, begun>>

-----------------------------------------------------------------------------
(* Handoff *)

\* HandoffService.buildChildPulse: one handoff more, and no OrchestrationDepth.
PeerPulse(f, s) ==
    [Root(s) EXCEPT !.parent = f, !.by = "handoff", !.handoffs = frames[f].handoffs + 1]

\* validateHandoff, and the target is found.
MayHandOff(f, s) ==
    /\ s \in Targets[frames[f].spirit]
    /\ frames[f].handoffs < MaxHandoffs[frames[f].spirit]
    /\ s \in catalog

\* The target is pinned, then it reasons; MemoryKey, hence the pin, is that of the session
\* for a sub-task as well.
HandOff(f) ==
    /\ MayCall(f) /\ Len(frames) < MaxFrames
    /\ \E s \in Spirit :
          /\ MayHandOff(f, s)
          /\ pin' = s
          /\ frames' = Append(frames, PeerPulse(f, s))
    /\ UNCHANGED <<catalog, before, inDoubt, begun>>

\* SetActiveSpirit fails, the pin written or not: the current Spirit continues.
HandOffError(f) ==
    /\ MayCall(f)
    /\ \E s \in Spirit : MayHandOff(f, s) /\ pin' \in {pin, s}
    /\ inDoubt' = TRUE
    /\ UNCHANGED <<catalog, frames, before, begun>>

-----------------------------------------------------------------------------
(* How a reasoning ends *)

\* A final answer of its own, or an error of the Oracle.
Answered(f) ==
    /\ Reasoning(f)
    /\ Close(f, "ok", frames[f].spirit) \/ Close(f, "error", NoSpirit)
    /\ UNCHANGED <<pin, catalog, before, inDoubt, begun>>

\* Faulty: a caller pins the target whose answer it returns.
ReturnPinning(f) ==
    \E c \in HandedOff(f) :
       /\ frames[f].state = "open"
       /\ Close(f, "ok", frames[c].author)
       /\ pin' = frames[c].spirit
       /\ UNCHANGED <<catalog, before, inDoubt, begun>>

\* executeHandoff: the target's answer is the answer of the Spirit that handed off.  A
\* failed target, like a summoned one, leaves its caller reasoning.
Return(f) ==
    \E c \in HandedOff(f) :
       /\ frames[f].state = "open"
       /\ Close(f, "ok", frames[c].author)
       /\ UNCHANGED <<pin, catalog, before, inDoubt, begun>>

\* The pin's ttl ran out (a Redis store with one).
PinExpires ==
    /\ pin # NoSpirit /\ pin' = NoSpirit
    /\ UNCHANGED <<catalog, frames, before, inDoubt, begun>>

\* An operator deactivates or deletes a Spirit; its pins stay.
Deactivate ==
    /\ \E s \in catalog : catalog' = catalog \ {s}
    /\ UNCHANGED <<pin, frames, before, inDoubt, begun>>

DelegationNext ==
    \/ BeginTurn \/ EndTurn \/ PinExpires \/ Deactivate
    \/ \E f \in 1..MaxFrames :
          Summon(f) \/ HandOff(f) \/ HandOffError(f) \/ Answered(f) \/ Return(f)

DelegationSpec == DelegationInit /\ [][DelegationNext]_delegationVars

-----------------------------------------------------------------------------
(* Properties *)

DelegationTypeOK ==
    /\ {pin, before} \subseteq Spirit \cup {NoSpirit}
    /\ catalog \subseteq Spirit
    /\ Len(frames) <= MaxFrames /\ \A f \in DOMAIN frames : frames[f] \in Frame
    /\ inDoubt \in BOOLEAN /\ begun \in 0..MaxTurns

\* Calls of one kind, each made by the one before, that led to the reasoning f.
Chain(calls, f) ==
    /\ f \in calls
    /\ \A c \in calls : /\ frames[c].by = frames[f].by
                        /\ c # f => \E d \in calls : frames[d].parent = c

\* No chain of summons is longer than the MaxDepth, no relay of handoffs longer than the
\* MaxHandoffs, of the Spirit that made the last call of it (summon_service.go, validateSummon;
\* handoff_service.go, validateHandoff).  Each child Pulse drops the other counter, so this
\* holds of each kind alone: a chain that alternates has no bound.
ChainsBounded ==
    \A f \in DOMAIN frames : frames[f].parent # 0 =>
       LET caller == frames[frames[f].parent].spirit IN
       \A calls \in SUBSET DOMAIN frames : Chain(calls, f) =>
          Cardinality(calls) <= IF frames[f].by = "summon" THEN MaxDepth[caller]
                                                           ELSE MaxHandoffs[caller]

Transfers == {f \in DOMAIN frames : frames[f].by = "handoff"}
\* The handoff of a Spirit that was summoned.
OfSubTask(f) == frames[frames[f].parent].by = "summon"

\* The Spirit that answered the user is the one the next turn goes to: after a relay
\* A -> B -> C it is C, whatever order the calls return in, unless a target failed, a write of
\* the pin did, or a sub-task handed off (HandoffService.Handoff pins before it reasons).
\* Without a handoff the pin is the one the turn began with.
AuthorOwnsSession ==
    Live /\ frames[1].state = "ok" /\ ~inDoubt =>
       IF \A f \in Transfers : frames[f].state = "ok" /\ ~OfSubTask(f)
       THEN pin \in {NoSpirit, IF Transfers = {} THEN before ELSE frames[1].author}
       ELSE pin \in {NoSpirit, frames[1].author} \cup {frames[f].spirit : f \in Transfers}
=============================================================================
