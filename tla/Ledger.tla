------------------------------- MODULE Ledger -------------------------------
(* The second half of the pipeline as the budget of one Spirit sees it:     *)
(* turns look at the month's usage, think, answer, and add what they spent, *)
(* several at once in one process; and how each turn is reported.           *)
EXTENDS Naturals, FiniteSets

CONSTANTS
    SpiritTurn,  \* turns of the Spirit under way at once, in one process
    SpiritKind,  \* what the Spirit may be: of "agent", "template", "llm" (a notifier's modes)
    OnExceed,    \* what its budget may say: of "block", "downgrade", "alert"
    Limit,       \* MonthlyTokenLimit
    MaxTokens,   \* tokens one turn may spend
    LastMonth,   \* bound: months
    MaxPulses    \* bound: turns begun

\* A limit that is not positive is no budget.
ASSUME BudgetAssumption == /\ IsFiniteSet(SpiritTurn) /\ MaxTokens \in Nat
                           /\ {Limit, LastMonth} \subseteq Nat \ {0}

VARIABLES
    budget,     \* the Spirit and its budget
    month,      \* the month
    usage,      \* [month -> tokens recorded]
    processing, \* [SpiritTurn -> its ProcessingState]
    unchecked,  \* [month -> tokens recorded by turns that could not read the budget]
    pulses      \* turns begun

ledgerVars == <<budget, month, usage, processing, unchecked, pulses>>

Months == 1..LastMonth
NoTurn == [at |-> "idle", skipped |-> FALSE, result |-> FALSE, tokens |-> 0, blind |-> FALSE]
EndedTurn(s, how) == [NoTurn EXCEPT !.at = how, !.skipped = s.skipped]

LedgerInit ==
    /\ budget \in [kind : SpiritKind, onExceed : OnExceed] /\ month = 1 /\ pulses = 0
    /\ usage = [m \in Months |-> 0] /\ unchecked = [m \in Months |-> 0]
    /\ processing = [t \in SpiritTurn |-> NoTurn]

Notifier == budget.kind # "agent"
Becomes(t, s, next) == processing' = [processing EXCEPT ![t] = [s EXCEPT !.at = next]]

-----------------------------------------------------------------------------
(* Steps: the states they may leave a ProcessingState in *)

\* Only a budget that blocks skips the turn; the others warn, or choose a cheaper model.
CostEnforcement(s, used) ==
    IF used >= Limit /\ budget.onExceed = "block" THEN [s EXCEPT !.skipped = TRUE] ELSE s

\* The conditions of a notifier hold, or it is skipped.
ConditionEvaluation(s) == IF Notifier THEN {s, [s EXCEPT !.skipped = TRUE]} ELSE {s}

Spent(s) == {[s EXCEPT !.result = TRUE, !.tokens = n] : n \in 1..MaxTokens}

\* Faulty: Skipped is not looked at.
ReasoningUnskipped(s) == IF Notifier THEN {s} ELSE Spent(s)

\* A notifier or a skipped turn has no result.
ReasoningStep(s) == IF s.skipped \/ Notifier THEN {s} ELSE Spent(s)

\* Nor has a notifier with a template, or one whose voice or oracle fails; one without anything
\* to say is skipped.
Notification(s) ==
    IF s.skipped \/ ~Notifier THEN {s}
    ELSE LET told == IF budget.kind = "llm" THEN Spent(s) \cup {s} ELSE {s}
         IN told \cup {[r EXCEPT !.skipped = TRUE] : r \in told}

-----------------------------------------------------------------------------
(* Turns *)

\* The turn reaches CostEnforcement: GetBudget and GetMonthUsage, an error of either means no
\* enforcement.  ConditionEvaluation follows.
Enforce(t) ==
    /\ processing[t].at \in {"idle", "error", "reported", "panic"}
    /\ pulses < MaxPulses /\ pulses' = pulses + 1
    /\ \E s \in {CostEnforcement(NoTurn, usage[month]), [NoTurn EXCEPT !.blind = TRUE]} :
          \E r \in ConditionEvaluation(s) : Becomes(t, r, "enforced")
    /\ UNCHANGED <<budget, month, usage, unchecked>>

\* The long steps, to the delivery.
Deliberate(t) ==
    /\ processing[t].at = "enforced"
    /\ \E s \in UNION {Notification(r) : r \in ReasoningStep(processing[t])} : Becomes(t, s, "answered")
    /\ UNCHANGED <<budget, month, usage, unchecked, pulses>>

\* A failed Reasoning or Persistence ends the turn, and what it spent is in no ledger.
FailTurn(t) ==
    /\ processing[t].at = "enforced" /\ ~Notifier
    /\ processing' = [processing EXCEPT ![t] = EndedTurn(@, "error")]
    /\ UNCHANGED <<budget, month, usage, unchecked, pulses>>

\* $inc of the month that it is now.
IncrementUsage(m, n) == [usage EXCEPT ![m] = @ + n]

\* LedgerUpdate; its error is logged.
LedgerUpdate(t) ==
    /\ processing[t].at = "answered" /\ Becomes(t, processing[t], "recorded")
    /\ \/ /\ processing[t].result
          /\ usage' = IncrementUsage(month, processing[t].tokens)
          /\ unchecked' = IF processing[t].blind
                          THEN [unchecked EXCEPT ![month] = @ + processing[t].tokens]
                          ELSE unchecked
       \/ UNCHANGED <<usage, unchecked>>
    /\ UNCHANGED <<budget, month, pulses>>

\* The last log line of runProcessingPipeline reads IterationsUsed of the result: without one it
\* panics, nothing recovers, and the other turns of the process end with it.
Assemble(t) ==
    /\ processing[t].at = "recorded"
    /\ IF processing[t].result
       THEN processing' = [processing EXCEPT ![t] = EndedTurn(@, "reported")]
       ELSE processing' = [u \in SpiritTurn |->
                IF processing[u].at \in {"enforced", "answered", "recorded"}
                THEN EndedTurn(processing[u], "panic") ELSE processing[u]]
    /\ UNCHANGED <<budget, month, usage, unchecked, pulses>>

NextMonth ==
    /\ month < LastMonth /\ month' = month + 1
    /\ UNCHANGED <<budget, usage, processing, unchecked, pulses>>

LedgerNext ==
    \/ \E t \in SpiritTurn :
          Enforce(t) \/ Deliberate(t) \/ FailTurn(t) \/ LedgerUpdate(t) \/ Assemble(t)
    \/ NextMonth

LedgerSpec == LedgerInit /\ [][LedgerNext]_ledgerVars

-----------------------------------------------------------------------------
(* Properties *)

LedgerTypeOK ==
    /\ budget \in [kind : SpiritKind, onExceed : OnExceed] /\ month \in Months /\ pulses \in 0..MaxPulses
    /\ \A m \in Months : usage[m] \in 0..MaxPulses * MaxTokens /\ unchecked[m] \in 0..usage[m]
    /\ \A t \in SpiritTurn :
          /\ processing[t].at \in {"idle", "enforced", "answered", "recorded",
                             "error", "reported", "panic"}
          /\ processing[t].tokens \in 0..MaxTokens /\ processing[t].skipped \in BOOLEAN

\* A budget that blocks is overrun by no more than the turns that were under way when it was
\* reached may still spend: turns see the usage of those that have ended, never of those that
\* run beside them or across the end of the month (CostEnforcementStep, LedgerUpdateStep).  Not
\* counted are turns that could not read the budget.
OverrunIsBounded ==
    budget.onExceed = "block" =>
        \A m \in Months : usage[m] < Limit + Cardinality(SpiritTurn) * MaxTokens + unchecked[m]

\* A turn that was skipped is reported as skipped, not failed: "the pipeline continues — the
\* Pulse is audited as "skipped", not failed" (pipeline_step_condition.go).
SkippedIsReported ==
    \A t \in SpiritTurn : processing[t].skipped => processing[t].at # "panic"
=============================================================================
