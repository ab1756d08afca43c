------------------------------ MODULE Reasoning ------------------------------
(***************************************************************************)
(* One turn of a Spirit (reasoning_loop.go, reasoning_service.go), from    *)
(* its first delivery to its last: the Oracle asks for Actions until it    *)
(* answers, the answer passes the quality gates, and on a durable turn a   *)
(* checkpoint after every iteration lets the next delivery resume.         *)
(*                                                                         *)
(* A call is its signature (name and arguments). A text is left out, and   *)
(* so is its length: the working context is a sequence of messages, each   *)
(* with who it is from, the iteration that appended it and the calls it    *)
(* makes or answers.                                                       *)
(***************************************************************************)
EXTENDS Integers, Sequences, FiniteSets, SequencesExt

CONSTANTS
    Signature,     \* calls the model may make
    Handoff,       \* the signature of handoff_spirit
    PlanOpen,      \* update_plan that leaves items open
    PlanDone,      \* update_plan that leaves none
    Subject,       \* Subject[s]: the topic that update_subject call s sets
    Delivery,      \* calls of VoiceDelivery Actions
    Critical,      \* calls whose failure is critical
    Unregistered,  \* calls of Actions the registry does not have
    Topic,         \* subject keys
    HomeTopic,     \* the topic SessionSetup loads
    Echoes,        \* Echoes[t]: messages of the clean conversation of a topic
    Policy,        \* configurations of a Spirit, and whether the Pulse has a UserMessage
    MaxIterations, \* iterations of a turn
    MaxActions,    \* maxActionsPerCycle
    MaxTries,      \* MaxAttempts of ActionRetryConfig
    MaxAttempts,   \* bound on deliveries of the Pulse
    MaxTrouble     \* bound on crashes, time-outs and failing stores and models

ASSUME SubjectAssumption  == /\ DOMAIN Subject \subseteq Signature
                             /\ \A s \in DOMAIN Subject : Subject[s] \in Topic
ASSUME TopicAssumption    == HomeTopic \in Topic /\ Echoes \in [Topic -> Nat]
ASSUME BuiltInAssumption  == {Handoff, PlanOpen, PlanDone} \subseteq Signature
ASSUME CallsAssumption    == Delivery \cup Critical \cup Unregistered \subseteq Signature
ASSUME PolicyAssumption   == \A p \in Policy : /\ p.requests \subseteq Seq(Signature)
                                               /\ {p.keep, p.window} \subseteq Nat
                                               /\ p.message \in BOOLEAN
ASSUME BoundsAssumption   == /\ {MaxIterations, MaxTries, MaxAttempts} \subseteq Nat \ {0}
                             /\ {MaxActions, MaxTrouble} \subseteq Nat

VARIABLES
    policy,     \* the Spirit's configuration, and whether the Pulse has a message
    stage,         \* where the delivery is
    turn,       \* turnState
    batch,      \* the calls of the response being processed
    results,    \* what became of each
    tries,      \* times each was executed
    cancelled,  \* the context of the step is done
    checkpoint, \* what the CheckpointStore has: at most one snapshot
    outcome,    \* how the last delivery ended
    \* history
    banked,     \* calls that a saved checkpoint says succeeded or are banned
    attempts,   \* what MaxAttempts leaves
    trouble     \* what MaxTrouble leaves

calling == <<batch, results, tries>>
reasoningVars == <<policy, stage, turn, calling, cancelled, checkpoint, outcome, banked,
                   attempts, trouble>>

Message == [from : {"history", "user", "assistant", "tool", "ledger", "nudge", "review",
                    "cite"},
            iter : 0..MaxIterations, calls : Seq(Signature)]
Note(from, iter) == [from |-> from, iter |-> iter, calls |-> << >>]

\* The clean conversation of a topic.
History(t) == [i \in 1..Echoes[t] |-> Note("history", 0)]

\* initializeWorkingContext: the message of the user follows the conversation. A webhook or an
\* automated Pulse may have none: conversationOffset is then where the context ends.
Opening == IF policy.message THEN <<Note("user", 0)>> ELSE << >>

NewTurn == [
    iterationsUsed |-> 0, context |-> History(HomeTopic) \o Opening,
    activeTopic |-> HomeTopic, conversationOffset |-> Echoes[HomeTopic], banned |-> {},
    infraTerminal |-> FALSE, totalActionCalls |-> 0, boundaries |-> << >>,
    topicSwitched |-> FALSE, reflectionRounds |-> 0, groundingRevised |-> FALSE,
    planNudged |-> FALSE, criticalErrors |-> 0, planOpen |-> FALSE, delivered |-> FALSE,
    memo |-> {},
    \* not in the snapshot: the stall tracker, and the session SessionSetup loads
    seen |-> {}, streak |-> 0, session |-> HomeTopic]
Turns == [
    iterationsUsed : 0..MaxIterations, context : Seq(Message),
    activeTopic : Topic, conversationOffset : Nat, banned : SUBSET Signature,
    infraTerminal : BOOLEAN, totalActionCalls : 0..MaxActions, boundaries : Seq(Nat),
    topicSwitched : BOOLEAN, reflectionRounds : Nat, groundingRevised : BOOLEAN,
    planNudged : BOOLEAN, criticalErrors : Nat, planOpen : BOOLEAN, delivered : BOOLEAN,
    memo : SUBSET Signature, seen : SUBSET Signature, streak : Nat, session : Topic]

\* Faulty: the snapshot leaves the memo of executed calls out.
SnapshotNoMemo(t) == [t EXCEPT !.memo = NewTurn.memo, !.seen = NewTurn.seen,
                               !.streak = NewTurn.streak, !.session = NewTurn.session]

\* What the snapshot leaves out starts afresh in the turn that resumes from it.
Snapshot(t) == [t EXCEPT !.seen = NewTurn.seen, !.streak = NewTurn.streak,
                         !.session = NewTurn.session]

Outcome == {"none", "crashed", "lost", "error", "exhausted", "answer", "structured",
            "holding", "blocked", "stalled", "synthesis", "handoff"}
Result  == {"pending", "skipped", "ok", "business", "infra", "unknown"}

ReasoningTypeOK ==
    /\ policy \in Policy
    /\ stage \in {"idle", "oracle", "execute", "handoff", "answer", "save", "exhausted",
               "delete", "done"}
    /\ turn \in Turns
    /\ batch \in Seq(Signature)
    /\ results \in [DOMAIN batch -> Result]
    /\ tries \in [DOMAIN batch -> 1..MaxTries]
    /\ Cardinality(checkpoint) <= 1
    /\ \A snap \in checkpoint : snap \in Turns
    /\ outcome.kind \in Outcome
    /\ banked \subseteq Signature
    /\ cancelled \in BOOLEAN
    /\ attempts \in 0..MaxAttempts /\ trouble \in 0..MaxTrouble

NoCall == batch' = << >> /\ results' = << >> /\ tries' = << >>

ReasoningInit ==
    /\ policy \in Policy
    /\ stage = "idle"
    /\ turn = NewTurn
    /\ batch = << >> /\ results = << >> /\ tries = << >>
    /\ cancelled = FALSE
    /\ checkpoint = {}
    /\ outcome = [kind |-> "none", delivered |-> FALSE]
    /\ banked = {}
    /\ attempts = MaxAttempts /\ trouble = MaxTrouble

Ended(kind, delivered) == outcome' = [kind |-> kind, delivered |-> delivered]
\* ExecuteStream sends its last event or sees that the context is done: executeStreaming then
\* has no result and no error.
Dropped == policy.stream /\ cancelled /\ Ended("lost", FALSE)
Faulty   == trouble > 0 /\ trouble' = trouble - 1
Faultless == UNCHANGED trouble

\* The delivery returns an error, which is retriable: the checkpoint is kept.
Fail(delivered) ==
    /\ stage' = "idle"
    /\ Ended("error", delivered) \/ Dropped
    /\ turn' = NewTurn
    /\ NoCall

-----------------------------------------------------------------------------
(* Deliveries *)

\* What newTurnState and resumeFromCheckpoint start from; loading fails open.
Resumed == IF policy.durable /\ checkpoint # {} THEN checkpoint ELSE {NewTurn}

\* A delivery of the Pulse: the first, one after an error or a crash, or one after a later
\* step of the pipeline failed, when the reasoning of the previous one had completed.
DeliverPulse ==
    /\ stage \in {"idle", "done"} /\ attempts > 0
    /\ attempts' = attempts - 1
    /\ \/ turn' \in Resumed /\ Faultless /\ UNCHANGED banked
       \/ policy.durable /\ checkpoint # {}
          /\ turn' = NewTurn /\ Faulty /\ banked' = {}
    /\ stage' = IF turn'.iterationsUsed < MaxIterations THEN "oracle" ELSE "exhausted"
    /\ cancelled' = FALSE
    /\ Ended("none", FALSE)
    /\ UNCHANGED <<policy, calling, checkpoint>>

Running == stage \notin {"idle", "done"}

\* The process dies. What was not checkpointed is gone.
Crash ==
    /\ Running /\ Faulty
    /\ stage' = "idle" /\ turn' = NewTurn /\ NoCall
    /\ Ended("crashed", FALSE)
    /\ UNCHANGED <<policy, cancelled, checkpoint, banked, attempts>>

\* The step times out or its caller goes away.
Cancel ==
    /\ Running /\ ~cancelled /\ Faulty
    /\ cancelled' = TRUE
    /\ UNCHANGED <<policy, stage, turn, calling, checkpoint, outcome, banked, attempts>>

-----------------------------------------------------------------------------
(* An iteration *)

Replied(calls) == [turn EXCEPT
    !.iterationsUsed = @ + 1,
    !.context = Append(@, [from |-> "assistant", iter |-> turn.iterationsUsed + 1,
                           calls |-> calls])]

\* A cancelled context ends the loop at once, or in the call of the model.
OracleFails ==
    /\ stage = "oracle"
    /\ IF cancelled THEN Faultless ELSE Faulty
    /\ Fail(turn.delivered)
    /\ UNCHANGED <<policy, cancelled, checkpoint, banked, attempts>>

\* No calls: a stop reason of "tool calls" goes on, any other ends the loop.
OracleAnswers ==
    /\ stage = "oracle" /\ ~cancelled
    /\ turn' = Replied(<< >>)
    /\ stage' \in {"answer", "save"}
    /\ UNCHANGED <<policy, calling, cancelled, checkpoint, outcome, banked, attempts,
                   trouble>>

\* processActionCalls runs a call again neither when its signature is banned nor, on a
\* durable turn, when it is memoized. update_plan is applied in the process.
Skips(s) == s \in turn.banned \cup turn.memo
PlanCalls(calls) == SelectSeq(calls, LAMBDA s : s \in {PlanOpen, PlanDone} /\ ~Skips(s))
OracleCalls(calls) ==
    /\ stage = "oracle" /\ ~cancelled /\ ~turn.infraTerminal
    /\ IF Handoff \in ToSet(calls)
       THEN /\ stage' = "handoff" /\ turn' = Replied(calls)
            /\ batch' = calls
            /\ results' = [i \in DOMAIN calls |-> "skipped"]
            /\ tries' = [i \in DOMAIN calls |-> 1]
            /\ UNCHANGED outcome
       ELSE IF turn.totalActionCalls + Len(calls) > MaxActions
       THEN Fail(turn.delivered)
       ELSE /\ stage' = "execute"
            /\ turn' = [Replied(calls) EXCEPT
                   !.totalActionCalls = @ + Len(calls),
                   !.planOpen = IF PlanCalls(calls) = << >> THEN @
                                ELSE Last(PlanCalls(calls)) = PlanOpen]
            /\ batch' = calls
            /\ results' = [i \in DOMAIN calls |->
                   IF Skips(calls[i]) THEN "skipped"
                   ELSE IF calls[i] \in {PlanOpen, PlanDone} THEN "ok" ELSE "pending"]
            /\ tries' = [i \in DOMAIN calls |-> 1]
            /\ UNCHANGED outcome
    /\ UNCHANGED <<policy, cancelled, checkpoint, banked, attempts, trouble>>

\* executeOne: an infrastructure error is retried, unless the context is done or the
\* attempts are used up; a business error is not, nor one of Validate.
Outcomes(s) == IF s \in Unregistered THEN {"unknown"} ELSE {"ok", "business", "infra"}
ExecuteCall(i) ==
    /\ stage = "execute" /\ i \in DOMAIN batch /\ results[i] = "pending"
    /\ policy.parallel \/ \A j \in 1..(i - 1) : results[j] # "pending"
    /\ \/ tries[i] < MaxTries /\ ~cancelled /\ batch[i] \notin Unregistered
          /\ tries' = [tries EXCEPT ![i] = @ + 1]
          /\ UNCHANGED <<results, turn>>
       \/ \E r \in Outcomes(batch[i]) :
          /\ r = "infra" => tries[i] = MaxTries \/ cancelled
          /\ results' = [results EXCEPT ![i] = r]
          /\ turn' = IF r = "ok" /\ batch[i] \in DOMAIN Subject
                     THEN [turn EXCEPT !.session = Subject[batch[i]]] ELSE turn
          /\ UNCHANGED tries
    /\ UNCHANGED <<policy, stage, batch, cancelled, checkpoint, outcome, banked, attempts, trouble>>

-----------------------------------------------------------------------------
(* The results of an iteration, all of it in memory *)

Where(R) == {i \in DOMAIN batch : results[i] \in R}
Calls(I) == {batch[i] : i \in I}
Memoized == {i \in Where({"skipped"}) : batch[i] \in turn.memo}

\* A critical infrastructure failure of a Spirit that is not conversational ends the turn:
\* the results after it are not looked at.
HardStops == IF policy.enforce THEN {}
             ELSE {i \in Where({"infra"}) : batch[i] \in Critical}
SettleHardStop ==
    /\ stage = "execute" /\ Where({"pending"}) = {} /\ HardStops # {}
    /\ LET seen == Memoized \cup {i \in Where({"ok"}) : i < Min(HardStops)}
       IN  Fail(turn.delivered \/ Calls(seen) \cap Delivery # {})
    /\ UNCHANGED <<policy, cancelled, checkpoint, banked, attempts, trouble>>

\* The messages of skipped calls come first, then the results in the order of the calls.
Before(i, j) == IF (results[i] = "skipped") = (results[j] = "skipped") THEN i < j
                ELSE results[i] = "skipped"
Rank(i) == 1 + Cardinality({j \in DOMAIN batch : Before(j, i)})
ResultOrder == [n \in DOMAIN batch |-> CHOOSE i \in DOMAIN batch : Rank(i) = n]
\* Faulty: a call that is not executed gets no message.
ToolMessagesOfExecuted ==
    LET executed == SelectSeq(ResultOrder, LAMBDA i : results[i] # "skipped")
    IN  [j \in DOMAIN executed |->
            [from |-> "tool", iter |-> turn.iterationsUsed, calls |-> <<batch[executed[j]]>>]]

ToolMessages == [j \in DOMAIN batch |->
    [from |-> "tool", iter |-> turn.iterationsUsed, calls |-> <<batch[ResultOrder[j]]>>]]

\* processActionCalls; a durable turn memoizes what succeeded.
Processed ==
    LET refused == {i \in Where({"business"}) : batch[i] \in Critical}
        down    == {i \in Where({"infra"}) : batch[i] \in Critical}
    IN  [turn EXCEPT
            !.context = @ \o ToolMessages,
            !.memo = IF policy.durable THEN @ \cup Calls(Where({"ok"})) ELSE @,
            !.banned = @ \cup Calls(refused),
            !.infraTerminal = @ \/ down # {},
            !.criticalErrors = IF refused \cup down = {} THEN @ ELSE @ + 1,
            !.delivered = @ \/ Calls(Memoized \cup Where({"ok"})) \cap Delivery # {}]

\* Faulty: the offset stays where the history of the old topic ended.
SwitchedInPlace(t, rebuilt) ==
    IF t.session = t.activeTopic THEN t
    ELSE [t EXCEPT
            !.activeTopic = t.session,
            !.topicSwitched = TRUE,
            !.context = IF rebuilt
                        THEN History(t.session) \o SubSeq(@, t.conversationOffset + 1, Len(@))
                        ELSE @]

\* handleTopicSwitch: the history of the new topic, then the messages of this cycle.
Switched(t, rebuilt) ==
    IF t.session = t.activeTopic THEN t
    ELSE [t EXCEPT
            !.activeTopic = t.session,
            !.topicSwitched = TRUE,
            !.context = IF rebuilt
                        THEN History(t.session) \o SubSeq(@, t.conversationOffset + 1, Len(@))
                        ELSE @,
            !.conversationOffset = IF rebuilt THEN Echoes[t.session] ELSE @]

\* stallTracker.observe
Observed(t) ==
    LET progressed == ~(ToSet(batch) \subseteq t.seen)
    IN  IF policy.window = 0 THEN t
        ELSE [t EXCEPT !.seen = @ \cup ToSet(batch),
                       !.streak = IF progressed THEN 0 ELSE @ + 1]
Stalled(t) == policy.window > 0 /\ t.streak >= policy.window

\* maybeCompress: everything between the pinned history and a boundary becomes one ledger.
Compressed(t, summarized) ==
    LET bounds == Append(t.boundaries, Len(t.context))
        recentStart == bounds[Len(bounds) - policy.keep + 1]
        context == SubSeq(t.context, 1, t.conversationOffset)
                   \o <<Note("ledger", t.iterationsUsed)>>
                   \o SubSeq(t.context, recentStart + 1, Len(t.context))
    IN  IF policy.keep = 0 \/ t.topicSwitched THEN t
        ELSE IF \/ ~summarized \/ Len(t.context) <= policy.limit
                \/ Len(bounds) <= policy.keep \/ recentStart <= t.conversationOffset
        THEN [t EXCEPT !.boundaries = bounds]
        ELSE [t EXCEPT !.context = context, !.boundaries = <<Len(context)>>]

\* executeIterationActions, after the calls: the topic, the stall tracker, compression.
Settle ==
    /\ stage = "execute" /\ Where({"pending"}) = {} /\ HardStops = {}
    /\ \E rebuilt \in BOOLEAN, summarized \in BOOLEAN :
        LET observed == Observed(Switched(Processed, rebuilt))
        IN  /\ IF rebuilt /\ summarized THEN Faultless ELSE Faulty
            /\ IF Stalled(observed)
               THEN turn' = observed /\ stage' = "delete" /\ Ended("stalled", observed.delivered)
               ELSE /\ turn' = Compressed(observed, summarized)
                    /\ stage' = "save"
                    /\ UNCHANGED outcome
    /\ NoCall
    /\ UNCHANGED <<policy, cancelled, checkpoint, banked, attempts>>

\* handoff_spirit: the peer answers the turn, or its error answers that one call and the
\* Spirit goes on.
SettleHandoff ==
    /\ stage = "handoff"
    /\ \/ /\ stage' = "delete"
          /\ Ended("handoff", turn.delivered)
          /\ UNCHANGED turn
       \/ /\ stage' = "save"
          /\ turn' = [turn EXCEPT !.context = Append(@,
                 [from |-> "tool", iter |-> turn.iterationsUsed, calls |-> <<Handoff>>])]
          /\ UNCHANGED outcome
    /\ NoCall
    /\ UNCHANGED <<policy, cancelled, checkpoint, banked, attempts, trouble>>

-----------------------------------------------------------------------------
(* The gates of an answer, which an answer already delivered skips *)

Gated == stage = "answer" /\ ~turn.delivered
MustNudge == policy.plan /\ turn.planOpen /\ ~turn.planNudged
MayReview == turn.reflectionRounds < policy.rounds
\* Send the turn back for another iteration, with a message.
SendBack(from, t) ==
    /\ turn' = [t EXCEPT !.context = Append(@, Note(from, t.iterationsUsed))]
    /\ stage' = "save"
    /\ UNCHANGED <<policy, calling, cancelled, checkpoint, outcome, banked, attempts,
                   trouble>>

NudgePlan ==
    /\ Gated /\ MustNudge
    /\ SendBack("nudge", [turn EXCEPT !.planNudged = TRUE])
\* A critique that fails, or cannot be read, passes the draft.
Review ==
    /\ Gated /\ ~MustNudge /\ MayReview
    /\ SendBack("review", [turn EXCEPT !.reflectionRounds = @ + 1])
ReviseCitations ==
    /\ Gated /\ ~MustNudge
    /\ policy.grounding = "revise" /\ ~turn.groundingRevised
    /\ SendBack("cite", [turn EXCEPT !.groundingRevised = TRUE])

\* scoreConfidence: 2 is high, 1 medium, 0 low.
Confidence(cited, hedged) ==
    LET score == (IF cited THEN 1 ELSE 0) - (IF hedged THEN 1 ELSE 0) - turn.criticalErrors
                 - (IF policy.rounds > 0 /\ ~MayReview THEN 2 ELSE 0)
    IN  IF score >= 0 THEN 2 ELSE IF score = -1 THEN 1 ELSE 0

\* The answer, or what the block of grounding or the raised seat puts in its place.
Conclude(cited, hedged) ==
    /\ stage = "answer" /\ (Gated => ~MustNudge)
    /\ Gated /\ policy.grounding = "revise" => cited \/ turn.groundingRevised
    /\ LET doubtful == /\ Gated /\ policy.minConfidence > 0
                       /\ Confidence(cited /\ policy.grounding # "off", hedged)
                          < policy.minConfidence
           final == IF Gated /\ policy.format THEN "structured" ELSE "answer"
       IN  IF Gated /\ policy.grounding = "block" /\ ~cited
           THEN Ended("blocked", FALSE) /\ Faultless
           ELSE IF doubtful
           THEN \/ Ended("holding", FALSE) /\ Faultless
                \/ Ended(final, FALSE) /\ Faulty      \* RaiseTakeover failed
           ELSE Ended(final, turn.delivered) /\ Faultless
    /\ stage' = "delete"
    /\ UNCHANGED <<policy, turn, calling, cancelled, checkpoint, banked, attempts>>

-----------------------------------------------------------------------------
(* After an iteration, and after the last *)

\* Faulty: one iteration too many.
SaveCheckpointOneMore ==
    /\ stage = "save"
    /\ IF policy.durable THEN checkpoint' = {Snapshot(turn)} ELSE UNCHANGED checkpoint
    /\ stage' = IF turn.iterationsUsed <= MaxIterations THEN "oracle" ELSE "exhausted"
    /\ UNCHANGED <<policy, turn, calling, cancelled, outcome, banked, attempts, trouble>>

\* saveCheckpoint: best effort.
SaveCheckpoint ==
    /\ stage = "save"
    /\ \/ /\ policy.durable /\ Faultless
          /\ checkpoint' = {Snapshot(turn)}
          /\ banked' = turn.memo \cup turn.banned
       \/ /\ IF policy.durable THEN Faulty ELSE Faultless
          /\ UNCHANGED <<checkpoint, banked>>
    /\ stage' = IF turn.iterationsUsed < MaxIterations THEN "oracle" ELSE "exhausted"
    /\ UNCHANGED <<policy, turn, calling, cancelled, outcome, attempts>>

\* handleMaxIterations
Exhaust ==
    /\ stage = "exhausted"
    /\ Ended(IF policy.window > 0 THEN "synthesis" ELSE "exhausted", turn.delivered)
    /\ stage' = "delete"
    /\ UNCHANGED <<policy, turn, calling, cancelled, checkpoint, banked, attempts, trouble>>

\* The turn is over: deleteCheckpoint, best effort, and the result goes to the pipeline.
Finish ==
    /\ stage = "delete"
    /\ \/ checkpoint' = {} /\ banked' = {} /\ Faultless
       \/ policy.durable /\ Faulty /\ UNCHANGED <<checkpoint, banked>>
    /\ UNCHANGED outcome \/ Dropped
    /\ stage' = "done" /\ turn' = NewTurn
    /\ UNCHANGED <<policy, calling, cancelled, attempts>>

Iterate ==
    \/ OracleFails \/ OracleAnswers
    \/ \E calls \in policy.requests : OracleCalls(calls)
    \/ \E i \in DOMAIN batch : ExecuteCall(i)
    \/ SettleHardStop \/ Settle \/ SettleHandoff
Answer ==
    \/ NudgePlan \/ Review \/ ReviseCitations
    \/ \E cited \in BOOLEAN, hedged \in BOOLEAN : Conclude(cited, hedged)
ReasoningNext ==
    \/ DeliverPulse \/ Iterate \/ Answer \/ SaveCheckpoint \/ Exhaust \/ Finish
    \/ Crash \/ Cancel

ReasoningSpec == ReasoningInit /\ [][ReasoningNext]_reasoningVars

-----------------------------------------------------------------------------
(* Properties *)

Count(S(_), seq) == Cardinality({i \in DOMAIN seq : S(seq[i])})
ToolMessage(m) == m.from = "tool" /\ m.calls # <<Handoff>>

\* Whenever the model is called, every Action call it made in the context is followed by its
\* results, all of them: through skipped calls, compression, topic switches and resumes.
\* (A handoff that fails answers its own call only: its siblings stay open.)
CallsAnswered ==
    stage = "oracle" =>
        \A i \in DOMAIN turn.context :
            LET calls == turn.context[i].calls
                after == SubSeq(turn.context, i + 1, Min({i + Len(calls), Len(turn.context)}))
            IN  turn.context[i].from = "assistant" /\ Handoff \notin ToSet(calls) =>
                    \A s \in ToSet(calls) :
                        Count(LAMBDA m : m.from = "tool" /\ m.calls = <<s>>, after)
                        = Count(LAMBDA c : c = s, calls)

\* A call that a saved checkpoint records as done, or as banned, is not executed again by a
\* delivery that resumes the turn: a message is not sent twice, a charge not made twice.
NothingRepeated == stage = "execute" => Calls(Where({"pending"})) \cap banked = {}

\* The results a turn has collected, over all its deliveries, stay within the action budget.
BudgetHolds == policy.keep = 0 => Count(ToolMessage, turn.context) <= MaxActions

\* A delivery that resumes a turn whose checkpoint records a message sent to the user by an
\* Action knows it, so that ResponseDelivery does not send a second answer.
NoSecondAnswer ==
    Running /\ (banked \cap Delivery) \ turn.banned # {} => turn.delivered

\* Resuming a turn is going on with it, not doing it again: over any number of crashes and
\* resumes it repeats no call, gets no new budget and sends no second answer.
ResumeGoesOn == NothingRepeated /\ BudgetHolds /\ NoSecondAnswer

\* The messages of the latest count iterations are in the context.
KeepsLast(count) ==
    stage \in {"save", "oracle"} =>
        \A n \in (turn.iterationsUsed - count + 1)..turn.iterationsUsed :
            n > 0 => \E i \in DOMAIN turn.context :
                turn.context[i].from = "assistant" /\ turn.context[i].iter = n

\* Compression keeps the most recent KeepRecent iterations verbatim, as the comment of
\* maybeCompress and docs/reasoning.md say. It does not: the boundary that maybeCompress counts
\* back from is the end of the current iteration, so that one less is kept.
RecentKept == KeepsLast(policy.keep)

\* The conversation before the turn is what compression and topic switches leave whole:
\* conversationOffset is where it ends, and what follows it is the message of the user, if the
\* Pulse has one, until a ledger takes its place.
ConversationPinned ==
    Running =>
        /\ turn.conversationOffset <= Len(turn.context)
        /\ \A i \in DOMAIN turn.context :
               turn.context[i].from = "history" <=> i <= turn.conversationOffset
        /\ IF policy.message
           THEN /\ turn.conversationOffset # Len(turn.context)
                /\ turn.context[turn.conversationOffset + 1].from \in {"user", "ledger"}
           ELSE \A i \in DOMAIN turn.context : turn.context[i].from # "user"
=============================================================================
