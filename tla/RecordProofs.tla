---------------------------- MODULE RecordProofs ----------------------------
(* What the records that several actors write without a transaction come to: *)
(* approvals, versions of Spirits, the usage of a budget, the facts about a  *)
(* user, the Links that instances cache and the chunks of the Lores, each of *)
(* any number of actors; and the options of a builder, in any order.         *)
EXTENDS Rite, SpiritVersions, Ledger, Imprint, LinkCache, Assembly, Lore, FiniteSetTheorems,
        SequenceTheorems, TLAPS

-----------------------------------------------------------------------------
(* Rites: one request of an operator, from what it found to what it tells. *)

Backed ==
    /\ request \in [Desk -> {"idle", "found", "decided", "over"}]
    /\ verdict \in [Desk -> Decided]
    /\ answered \in [Desk -> {"nothing", "not_found", "error", "ok"}]
    /\ heard \in Seq(Decided)
    \* A request that has set the status, and whatever came of it, leaves a decided Rite.
    /\ \A d \in Desk : request[d] = "decided" \/ answered[d] = "ok" => rite \in Decided
    /\ heard # << >> => rite \in Decided
    \* What is not absent was filed, so that RequestRite does not overwrite a decision.
    /\ \A d \in Desk : request[d] = "found" => rite # "absent"

\* The invariant holds at first, and through every call of a handler (rite_handler.go, decide).
LEMMA RiteInitBacked == RiteInit => Backed
  BY DEF RiteInit, Backed, Decided

LEMMA RiteStepBacked == Backed /\ [RiteNext]_riteVars => Backed'
<1> SUFFICES ASSUME Backed, [RiteNext]_riteVars PROVE Backed'
  OBVIOUS
<1> USE DEF Backed, Decided
<1>1. CASE RequestRite
  BY <1>1 DEF RequestRite
<1>2. CASE OtherTurns
  BY <1>2 DEF OtherTurns
<1>3. ASSUME NEW d \in Desk, FindRite(d) PROVE Backed'
  BY <1>3 DEF FindRite, Step, Tell
<1>4. ASSUME NEW d \in Desk, Decide(d) PROVE Backed'
  BY <1>4 DEF Decide, Step, Tell
<1>5. ASSUME NEW d \in Desk, Resume(d) PROVE Backed'
  <2>1. rite' = rite /\ rite \in Decided
    BY <1>5 DEF Resume
  <2>2. heard' \in Seq(Decided)
    BY <1>5 DEF Resume
  <2> QED
    BY <1>5, <2>1, <2>2 DEF Resume, Step, Tell
<1>6. ASSUME NEW d \in Desk, LoseRequest(d) PROVE Backed'
  BY <1>6 DEF LoseRequest, Step
<1>7. CASE UNCHANGED riteVars
  BY <1>7 DEF riteVars
<1> QED
  BY <1>1, <1>2, <1>3, <1>4, <1>5, <1>6, <1>7 DEF RiteNext

\* However many operators decide a Rite, in whatever order their reads, writes, failures and
\* resume Pulses come, no session resumes on one that is pending and nobody is told "ok" for
\* one (mongo/rite_repository.go, Decide; fiber/rite_handler.go, decide).
THEOREM ResumesAreDecided == RiteSpec => []ResumedIsDecided
<1>1. Backed => ResumedIsDecided
  BY DEF Backed, ResumedIsDecided
<1> QED
  BY <1>1, RiteInitBacked, RiteStepBacked, PTL DEF RiteSpec

-----------------------------------------------------------------------------
(* Versions: the unique index on the version, and the history of the name,   *)
(* stand in for the transaction that Update does not have.                   *)

\* While nothing crossed: one active document, and none between the halves of an Update.
Exclusive ==
    "crossed" \notin lapses =>
        /\ \A d1, d2 \in active : d1 = d2
        /\ \A e \in Editor : step[e] = "insert next" => active = {}

Versioned ==
    /\ step \in [Editor -> Steps]
    /\ active \subseteq docs
    \* A second Create is refused: version 1 is there as soon as anything is.
    /\ docs # {} => \E d \in docs : d.version = 1
    /\ \A e \in Editor : step[e] \in {"deactivate", "insert next"} => docs # {}

History == Versioned /\ Exclusive

LEMMA VersionsInitHistory == VersionsInit => History
  BY DEF VersionsInit, History, Versioned, Exclusive, Steps

LEMMA VersionsStepHistory == History /\ [VersionsNext]_spiritVars => History'
<1> SUFFICES ASSUME History, [VersionsNext]_spiritVars PROVE History'
  OBVIOUS
<1> USE DEF History, Versioned, Exclusive, Steps, Goto, Begin
<1>1. ASSUME NEW e \in Editor, CreateFind(e) PROVE History'
  BY <1>1 DEF CreateFind
<1>2. ASSUME NEW e \in Editor, CreateInsert(e) PROVE History'
  <2>1. CASE \E d \in docs : d.version = 1
    BY <1>2, <2>1 DEF CreateInsert, Insert
  <2>2. CASE docs = {}
    <3> DEFINE d == [version |-> 1, by |-> calls]
    <3>1. docs' = {d} /\ active' = {d} /\ d.version = 1 /\ Enter(e)
          /\ step' = [step EXCEPT ![e] = "idle"]
      BY <1>2, <2>2 DEF CreateInsert, Insert
    <3> HIDE DEF d
    <3>2. Versioned'
      BY <3>1
    <3>3. \A f \in Editor : step[f] # "insert next"
      BY <2>2
    <3>4. Exclusive'
      BY <3>1, <3>3
    <3> QED
      BY <3>2, <3>4
  <2> QED
    BY <2>1, <2>2
<1>3. ASSUME NEW e \in Editor, FindActive(e) PROVE History'
  BY <1>3 DEF FindActive
<1>4. ASSUME NEW e \in Editor, UpdateDeactivate(e) PROVE History'
  BY <1>4 DEF UpdateDeactivate
<1>5. ASSUME NEW e \in Editor, UpdateInsert(e) PROVE History'
  <2>1. CASE \E d \in docs : d.version = current[e] + 1
    BY <1>5, <2>1 DEF UpdateInsert, Insert
  <2>2. CASE ~ \E d \in docs : d.version = current[e] + 1
    <3>1. active' = active \cup {[version |-> current[e] + 1, by |-> calls]}
          /\ docs' = docs \cup {[version |-> current[e] + 1, by |-> calls]} /\ Enter(e)
          /\ step[e] = "insert next" /\ step' = [step EXCEPT ![e] = "idle"]
      BY <1>5, <2>2 DEF UpdateInsert, Insert
    <3>2. Versioned'
      BY <3>1
    <3>3. Exclusive'
      BY <3>1 DEF Enter
    <3> QED
      BY <3>2, <3>3
  <2> QED
    BY <2>1, <2>2
<1>6. ASSUME NEW e \in Editor, DeleteApply(e) PROVE History'
  BY <1>6 DEF DeleteApply
<1>7. ASSUME NEW e \in Editor, Activate(e) PROVE History'
  BY <1>7 DEF Activate, Enter
<1>8. ASSUME NEW e \in Editor, BreakOff(e) PROVE History'
  BY <1>8 DEF BreakOff
<1>9. CASE UNCHANGED spiritVars
  BY <1>9 DEF spiritVars
<1> QED
  BY <1>1, <1>2, <1>3, <1>4, <1>5, <1>6, <1>7, <1>8, <1>9 DEF VersionsNext

\* With any number of editors at once, a Spirit has two active versions only after one became
\* active between the two halves of another call's Update (mongo/spirit_repository.go, Update).
THEOREM OneVersionAnswers == VersionsSpec => []OneActiveVersion
<1>1. History => OneActiveVersion
  <2> SUFFICES ASSUME History, "crossed" \notin lapses PROVE Cardinality(active) <= 1
    BY DEF OneActiveVersion
  <2>1. CASE active = {}
    BY <2>1, FS_EmptySet
  <2>2. CASE active # {}
    <3>1. PICK d \in active : active = {d}
      BY <2>2 DEF History, Exclusive
    <3> QED
      BY <3>1, FS_Singleton
  <2> QED
    BY <2>1, <2>2
<1> QED
  BY <1>1, VersionsInitHistory, VersionsStepHistory, PTL DEF VersionsSpec

-----------------------------------------------------------------------------
(* Ledger: what the turns under way may still add to what is recorded. *)

\* A turn that saw the usage below the limit and has not recorded its tokens yet.
Spending == {t \in SpiritTurn :
    /\ ~processing[t].blind
    /\ \/ processing[t].at = "enforced" /\ ~processing[t].skipped
       \/ processing[t].at = "answered" /\ processing[t].result}

ProcessingState == [at : {"idle", "enforced", "answered", "recorded", "error", "reported", "panic"},
                    skipped : BOOLEAN, result : BOOLEAN, tokens : 0..MaxTokens, blind : BOOLEAN]
Counted ==
    /\ month \in Months /\ usage \in [Months -> Nat] /\ unchecked \in [Months -> Nat]
    /\ processing \in [SpiritTurn -> ProcessingState]
    /\ \A t \in SpiritTurn : processing[t].at = "enforced" => ~processing[t].result

\* What the turns under way may still add is theirs within the allowance of all turns; the
\* months before are closed, those to come untouched.
Allowance == Limit + Cardinality(SpiritTurn) * MaxTokens
Budgeted ==
    /\ Counted
    /\ \A m \in Months : m > month => usage[m] = 0
    /\ budget.onExceed = "block" =>
          /\ usage[month] + Cardinality(Spending) * MaxTokens < Allowance + unchecked[month]
          /\ \A m \in Months : m < month => usage[m] < Allowance + unchecked[m]

LEMMA SpendingIsFinite ==
  ASSUME NEW S \in SUBSET SpiritTurn
  PROVE  /\ IsFiniteSet(S) /\ Cardinality(S) \in Nat
         /\ Cardinality(S) <= Cardinality(SpiritTurn) /\ Cardinality(SpiritTurn) \in Nat
  BY BudgetAssumption, FS_Subset, FS_CardinalityType

\* Fewer turns may spend less.
LEMMA LessIsSpent ==
  ASSUME NEW S \in SUBSET SpiritTurn, NEW T \in SUBSET S
  PROVE  Cardinality(T) * MaxTokens <= Cardinality(S) * MaxTokens
         /\ Cardinality(S) * MaxTokens \in Nat /\ Cardinality(T) * MaxTokens \in Nat
<1>1. /\ Cardinality(S) \in Nat /\ Cardinality(T) \in Nat /\ Cardinality(T) <= Cardinality(S)
      /\ MaxTokens \in Nat
  BY SpendingIsFinite, FS_Subset, BudgetAssumption
<1>2. \A a, b, c \in Nat : a <= b => a * c <= b * c /\ a * c \in Nat /\ b * c \in Nat
  OBVIOUS
<1> QED
  BY <1>1, <1>2

LEMMA OneLess ==
  ASSUME NEW S \in SUBSET SpiritTurn, NEW t \in S
  PROVE  Cardinality(S \ {t}) * MaxTokens + MaxTokens = Cardinality(S) * MaxTokens
<1>1. Cardinality(S) \in Nat /\ Cardinality(S \ {t}) \in Nat /\ MaxTokens \in Nat
      /\ Cardinality(S) = Cardinality(S \ {t}) + 1
  BY SpendingIsFinite, FS_RemoveElement, BudgetAssumption
<1>2. \A a, c \in Nat : a * c + c = (a + 1) * c
  OBVIOUS
<1> QED
  BY <1>1, <1>2

LEMMA LedgerBounds ==
  /\ NoTurn \in ProcessingState /\ MaxTokens \in Nat /\ Limit \in Nat /\ Limit > 0
  /\ LastMonth \in Nat /\ 1 \in Months /\ Months \subseteq Nat
<1>1. MaxTokens \in Nat /\ Limit \in Nat \ {0} /\ LastMonth \in Nat \ {0}
  BY BudgetAssumption
<1>2. 0 \in 0..MaxTokens /\ 1 \in 1..LastMonth /\ 1..LastMonth \subseteq Nat
  BY <1>1
<1> QED
  BY <1>1, <1>2 DEF NoTurn, ProcessingState, Months

LEMMA BudgetStarts == LedgerInit => Budgeted
<1> SUFFICES ASSUME LedgerInit PROVE Budgeted
  OBVIOUS
<1>1. Counted
  BY LedgerBounds DEF LedgerInit, Counted, NoTurn
<1>2. Spending = {}
  BY DEF LedgerInit, Spending, NoTurn
<1>3. Cardinality(SpiritTurn) * MaxTokens \in Nat
  BY LessIsSpent
<1>4. /\ usage[month] = 0 /\ unchecked[month] = 0 /\ \A m \in Months : ~(m < month)
      /\ \A m \in Months : usage[m] = 0
  BY BudgetAssumption DEF LedgerInit, Months
<1>5. Cardinality(Spending) * MaxTokens = 0
  BY <1>2, FS_EmptySet, BudgetAssumption
<1> QED
  BY <1>1, <1>3, <1>4, <1>5, BudgetAssumption DEF Budgeted, Allowance

\* What a step leaves of a turn.
LEMMA NotSpending ==
  ASSUME Counted, UNCHANGED <<usage, unchecked, month, budget>>, Budgeted, Counted',
         Spending' \subseteq Spending
  PROVE  Budgeted'
<1>1. Cardinality(Spending') * MaxTokens <= Cardinality(Spending) * MaxTokens
      /\ Cardinality(Spending) * MaxTokens \in Nat /\ Cardinality(Spending') * MaxTokens \in Nat
  BY LessIsSpent DEF Spending
<1>2. usage[month] \in Nat /\ unchecked[month] \in Nat /\ Allowance \in Nat
  BY LessIsSpent, BudgetAssumption DEF Counted, Allowance
<1> DEFINE a == Cardinality(Spending) * MaxTokens
           b == Cardinality(Spending') * MaxTokens
<1>3. a \in Nat /\ b \in Nat /\ b <= a
  BY <1>1
<1> HIDE DEF a, b
<1>4. usage[month] + a < Allowance + unchecked[month] => usage[month] + b < Allowance + unchecked[month]
  BY <1>2, <1>3
<1>5. UNCHANGED Allowance
  BY DEF Allowance
<1> QED
  BY <1>4, <1>5 DEF Budgeted, a, b

\* What the steps up to the conditions, and those up to the delivery, make of a turn.
LEMMA EnforcedIs ==
  ASSUME NEW t \in SpiritTurn, Counted, Enforce(t)
  PROVE  \E s \in ProcessingState :
            /\ processing' = [processing EXCEPT ![t] = s] /\ s.at = "enforced" /\ ~s.result
            /\ budget.onExceed = "block" /\ ~s.blind /\ ~s.skipped => usage[month] < Limit
<1>0. PICK r \in {CostEnforcement(NoTurn, usage[month]), [NoTurn EXCEPT !.blind = TRUE]} :
         \E u \in ConditionEvaluation(r) : Becomes(t, u, "enforced")
  BY DEF Enforce
<1>1. PICK u \in ConditionEvaluation(r) : Becomes(t, u, "enforced")
  BY <1>0
<1>2. /\ r \in ProcessingState /\ ~r.result
      /\ budget.onExceed = "block" /\ ~r.blind /\ ~r.skipped => ~(usage[month] >= Limit)
  <2>1. NoTurn \in ProcessingState /\ ~NoTurn.result /\ ~NoTurn.blind
    BY LedgerBounds DEF NoTurn
  <2>2. CASE r = [NoTurn EXCEPT !.blind = TRUE]
    BY <2>1, <2>2 DEF ProcessingState
  <2>3. CASE r = CostEnforcement(NoTurn, usage[month])
    BY <2>1, <2>3 DEF ProcessingState, CostEnforcement
  <2> QED
    BY <1>0, <2>2, <2>3
<1>3. u = r \/ u = [r EXCEPT !.skipped = TRUE]
  BY <1>1 DEF ConditionEvaluation
<1> DEFINE s == [u EXCEPT !.at = "enforced"]
<1>4. s \in ProcessingState /\ s.at = "enforced" /\ ~s.result /\ (~s.skipped => ~r.skipped)
      /\ (~s.blind => ~r.blind)
  BY <1>2, <1>3 DEF ProcessingState
<1>5. usage[month] \in Nat /\ Limit \in Nat
  BY BudgetAssumption DEF Counted
<1>6. processing' = [processing EXCEPT ![t] = s]
  BY <1>1 DEF Becomes
<1>7. budget.onExceed = "block" /\ ~s.blind /\ ~s.skipped => usage[month] < Limit
  BY <1>2, <1>4, <1>5
<1> HIDE DEF s
<1> QED
  BY <1>4, <1>6, <1>7

LEMMA AnsweredIs ==
  ASSUME NEW t \in SpiritTurn, Counted, Deliberate(t)
  PROVE  \E s \in ProcessingState :
            /\ processing' = [processing EXCEPT ![t] = s] /\ s.at = "answered"
            /\ s.blind = processing[t].blind
            /\ s.result => ~processing[t].skipped
<1>1. PICK u \in UNION {Notification(r) : r \in ReasoningStep(processing[t])} :
         Becomes(t, u, "answered")
  BY DEF Deliberate
<1>2. PICK r \in ReasoningStep(processing[t]) : u \in Notification(r)
  BY <1>1
<1>3. processing[t] \in ProcessingState /\ ~processing[t].result
  BY DEF Deliberate, Counted
<1>4. ASSUME NEW p \in ProcessingState, NEW q \in Spent(p)
      PROVE  q \in ProcessingState /\ q.blind = p.blind /\ q.skipped = p.skipped
  <2>1. PICK n \in 1..MaxTokens : q = [p EXCEPT !.result = TRUE, !.tokens = n]
    BY <1>4 DEF Spent
  <2>2. n \in 0..MaxTokens
    BY <2>1, LedgerBounds
  <2> QED
    BY <1>4, <2>1, <2>2 DEF ProcessingState
<1>5. /\ r \in ProcessingState /\ r.blind = processing[t].blind
      /\ r.skipped = processing[t].skipped /\ (r.result => ~processing[t].skipped)
  BY <1>2, <1>3, <1>4 DEF ReasoningStep
<1>6. u \in ProcessingState /\ u.blind = r.blind /\ (u.result => ~r.skipped)
  <2>1. ASSUME NEW q \in Spent(r) \cup {r}
        PROVE  LET v == [q EXCEPT !.skipped = TRUE]
               IN  /\ v \in ProcessingState /\ v.blind = r.blind
                   /\ q \in ProcessingState /\ q.blind = r.blind
    BY <1>4, <1>5, <2>1 DEF ProcessingState
  <2> QED
    BY <1>2, <1>5, <2>1 DEF Notification
<1> DEFINE s == [u EXCEPT !.at = "answered"]
<1>7. s \in ProcessingState /\ s.at = "answered" /\ s.blind = u.blind /\ s.result = u.result
  BY <1>6 DEF ProcessingState
<1>8. processing' = [processing EXCEPT ![t] = s]
  BY <1>1 DEF Becomes
<1> HIDE DEF s
<1> QED
  BY <1>5, <1>6, <1>7, <1>8

LEMMA CountedStep == Counted /\ [LedgerNext]_ledgerVars => Counted'
<1> SUFFICES ASSUME Counted, [LedgerNext]_ledgerVars PROVE Counted'
  OBVIOUS
<1>1. ASSUME NEW t \in SpiritTurn, Enforce(t) PROVE Counted'
  BY <1>1, EnforcedIs DEF Enforce, Counted
<1>2. ASSUME NEW t \in SpiritTurn, Deliberate(t) PROVE Counted'
  BY <1>2, AnsweredIs DEF Deliberate, Counted
<1>8. ASSUME NEW s \in ProcessingState, NEW how \in {"error", "reported", "panic"}
      PROVE  EndedTurn(s, how) \in ProcessingState /\ EndedTurn(s, how).at = how
  <2>1. EndedTurn(s, how) = [NoTurn EXCEPT !.at = how, !.skipped = s.skipped]
    BY DEF EndedTurn
  <2>2. NoTurn \in ProcessingState /\ s.skipped \in BOOLEAN
    BY LedgerBounds DEF ProcessingState
  <2> QED
    BY <2>1, <2>2 DEF ProcessingState
<1>3. ASSUME NEW t \in SpiritTurn, FailTurn(t) PROVE Counted'
  BY <1>3, <1>8 DEF FailTurn, Counted
<1>4. ASSUME NEW t \in SpiritTurn, LedgerUpdate(t) PROVE Counted'
  <2> DEFINE s == [processing[t] EXCEPT !.at = "recorded"]
  <2>1. s \in ProcessingState /\ s.at = "recorded" /\ processing[t].tokens \in Nat
    BY BudgetAssumption DEF Counted, ProcessingState
  <2>2. processing' = [processing EXCEPT ![t] = s]
    BY <1>4 DEF LedgerUpdate, Becomes
  <2> HIDE DEF s
  <2>3. usage' \in [Months -> Nat] /\ unchecked' \in [Months -> Nat]
    BY <1>4, <2>1 DEF LedgerUpdate, IncrementUsage, Counted
  <2> QED
    BY <1>4, <2>1, <2>2, <2>3 DEF LedgerUpdate, Counted
<1>5. ASSUME NEW t \in SpiritTurn, Assemble(t) PROVE Counted'
  <2>1. \A u \in SpiritTurn : processing[u] \in ProcessingState
    BY DEF Counted
  <2>2. CASE processing' = [processing EXCEPT ![t] = EndedTurn(@, "reported")]
    BY <1>5, <1>8, <2>1, <2>2 DEF Assemble, Counted
  <2>3. CASE processing' = [u \in SpiritTurn |->
                IF processing[u].at \in {"enforced", "answered", "recorded"}
                THEN EndedTurn(processing[u], "panic") ELSE processing[u]]
    BY <1>5, <1>8, <2>1, <2>3 DEF Assemble, Counted
  <2> QED
    BY <1>5, <2>2, <2>3 DEF Assemble
<1>6. CASE NextMonth
  BY <1>6, BudgetAssumption DEF NextMonth, Counted, Months
<1>7. CASE UNCHANGED ledgerVars
  BY <1>7 DEF ledgerVars, Counted
<1> QED
  BY <1>1, <1>2, <1>3, <1>4, <1>5, <1>6, <1>7 DEF LedgerNext

LEMMA BudgetStep == Budgeted /\ [LedgerNext]_ledgerVars => Budgeted'
<1> SUFFICES ASSUME Budgeted, [LedgerNext]_ledgerVars PROVE Budgeted'
  OBVIOUS
<1>20. Counted /\ Counted'
  BY CountedStep DEF Budgeted
<1>21. Spending \subseteq SpiritTurn /\ Spending' \subseteq SpiritTurn
  BY DEF Spending
<1>1. ASSUME NEW t \in SpiritTurn, Enforce(t) PROVE Budgeted'
  <2>1. PICK s \in ProcessingState :
            /\ processing' = [processing EXCEPT ![t] = s] /\ s.at = "enforced" /\ ~s.result
            /\ budget.onExceed = "block" /\ ~s.blind /\ ~s.skipped => usage[month] < Limit
    BY <1>1, <1>20, EnforcedIs
  <2>2. UNCHANGED <<usage, unchecked, month, budget>>
    BY <1>1 DEF Enforce
  <2>3. CASE s.blind \/ s.skipped
    <3>1. Spending' \subseteq Spending
      BY <1>20, <2>1, <2>3 DEF Spending, Counted
    <3> QED
      BY <1>20, <2>2, <3>1, NotSpending
  <2>4. CASE budget.onExceed # "block"
    BY <1>20, <2>2, <2>4 DEF Budgeted
  <2>5. CASE budget.onExceed = "block" /\ usage[month] < Limit
    <3> DEFINE a == Cardinality(Spending') * MaxTokens
               b == Cardinality(SpiritTurn) * MaxTokens
    <3>1. a \in Nat /\ b \in Nat /\ a <= b
      BY <1>21, LessIsSpent
    <3>2. usage[month] \in Nat /\ unchecked[month] \in Nat /\ Limit \in Nat
      BY <1>20, BudgetAssumption DEF Counted
    <3> HIDE DEF a, b
    <3>3. usage[month] + a < Limit + b + unchecked[month]
      BY <2>5, <3>1, <3>2
    <3> QED
      BY <1>20, <2>2, <2>5, <3>3 DEF Budgeted, Allowance, a, b
  <2> QED
    BY <2>1, <2>3, <2>4, <2>5
<1>2. ASSUME NEW t \in SpiritTurn, Deliberate(t) PROVE Budgeted'
  <2>1. Spending' \subseteq Spending
    BY <1>2, <1>20, AnsweredIs DEF Spending, Counted, Deliberate
  <2> QED
    BY <1>2, <1>20, <2>1, NotSpending DEF Deliberate
<1>8. \A s, how : EndedTurn(s, how).at = how
  BY DEF EndedTurn, NoTurn
<1>3. ASSUME NEW t \in SpiritTurn, FailTurn(t) PROVE Budgeted'
  <2>1. Spending' \subseteq Spending
    BY <1>3, <1>8, <1>20 DEF FailTurn, Spending, Counted
  <2> QED
    BY <1>3, <1>20, <2>1, NotSpending DEF FailTurn
<1>4. ASSUME NEW t \in SpiritTurn, LedgerUpdate(t) PROVE Budgeted'
  <2>1. /\ processing[t] \in ProcessingState /\ processing[t].at = "answered"
        /\ processing'[t].at = "recorded" /\ UNCHANGED <<budget, month>>
        /\ \A u \in SpiritTurn \ {t} : processing'[u] = processing[u]
    BY <1>4, <1>20 DEF LedgerUpdate, Becomes, Counted
  <2>2. Spending' = Spending \ {t}
    BY <2>1 DEF Spending
  <2>3. CASE UNCHANGED <<usage, unchecked>>
    BY <1>20, <2>1, <2>2, <2>3, NotSpending
  <2>4. CASE /\ processing[t].result
             /\ usage' = IncrementUsage(month, processing[t].tokens)
             /\ unchecked' = IF processing[t].blind
                             THEN [unchecked EXCEPT ![month] = @ + processing[t].tokens]
                             ELSE unchecked
    <3> DEFINE n == processing[t].tokens
               a == Cardinality(Spending) * MaxTokens
               b == Cardinality(Spending') * MaxTokens
    <3>1. n \in Nat /\ n <= MaxTokens /\ MaxTokens \in Nat
      BY <2>1, BudgetAssumption DEF ProcessingState
    <3>2. a \in Nat /\ b \in Nat /\ b <= a
      BY <1>21, <2>2, LessIsSpent
    <3>3. ~processing[t].blind => b + MaxTokens = a
      <4>1. ~processing[t].blind => t \in Spending
        BY <2>1, <2>4 DEF Spending
      <4> QED
        BY <1>21, <2>2, <4>1, OneLess
    <3>4. month \in Months /\ usage[month] \in Nat /\ unchecked[month] \in Nat
          /\ month \in Int /\ Allowance \in Nat
      BY <1>20, LessIsSpent, LedgerBounds DEF Counted, Allowance
    <3> HIDE DEF n, a, b
    <3>5. /\ usage'[month] = usage[month] + n
          /\ \A m \in Months : m # month => usage'[m] = usage[m] /\ unchecked'[m] = unchecked[m]
          /\ unchecked'[month] = unchecked[month] + (IF processing[t].blind THEN n ELSE 0)
      BY <1>20, <2>4, <3>1, <3>4 DEF IncrementUsage, Counted, n
    <3>6. usage[month] + a < Allowance + unchecked[month]
          => usage'[month] + b < Allowance + unchecked'[month]
      BY <3>1, <3>2, <3>3, <3>4, <3>5
    <3>7. UNCHANGED Allowance
      BY DEF Allowance
    <3>8. \A m \in Months : (m > month => m # month) /\ (m < month => m # month)
      BY <3>4 DEF Months
    <3> QED
      BY <1>20, <2>1, <3>5, <3>6, <3>7, <3>8 DEF Budgeted, a, b
  <2> QED
    BY <1>4, <2>3, <2>4 DEF LedgerUpdate
<1>5. ASSUME NEW t \in SpiritTurn, Assemble(t) PROVE Budgeted'
  <2>1. Spending' \subseteq Spending
    BY <1>5, <1>8, <1>20 DEF Assemble, Spending, Counted
  <2> QED
    BY <1>5, <1>20, <2>1, NotSpending DEF Assemble
<1>6. CASE NextMonth
  <2>1. /\ month' = month + 1 /\ UNCHANGED <<budget, usage, unchecked, processing>>
        /\ month \in Nat /\ month' \in Months /\ Months \subseteq Nat
    BY <1>6, <1>20, BudgetAssumption DEF NextMonth, Counted, Months
  <2>2. usage[month'] = 0 /\ \A m \in Months : m > month' => usage[m] = 0
    BY <2>1 DEF Budgeted
  <2> DEFINE a == Cardinality(Spending) * MaxTokens
             b == Cardinality(SpiritTurn) * MaxTokens
  <2>3. /\ a \in Nat /\ b \in Nat /\ a <= b /\ Limit \in Nat \ {0} /\ unchecked[month'] \in Nat
        /\ usage[month] \in Nat /\ unchecked[month] \in Nat
    BY <1>20, <1>21, <2>1, LessIsSpent, BudgetAssumption DEF Counted
  <2>4. Spending' = Spending /\ Allowance' = Allowance /\ Allowance = Limit + b
    BY <2>1 DEF Spending, Allowance
  <2> HIDE DEF a, b
  <2>5. 0 + a < Limit + b + unchecked[month']
    BY <2>3
  <2>6. budget.onExceed = "block" => usage[month] < Allowance + unchecked[month]
    <3>1. budget.onExceed = "block" => usage[month] + a < Allowance + unchecked[month]
      BY DEF Budgeted, a
    <3> QED
      BY <2>3, <2>4, <3>1
  <2>7. \A m \in Months : m < month' => m < month \/ m = month
    BY <2>1
  <2>8. budget.onExceed = "block" => \A m \in Months : m < month' => usage[m] < Allowance + unchecked[m]
    BY <2>6, <2>7 DEF Budgeted
  <2> QED
    BY <1>20, <2>1, <2>2, <2>4, <2>5, <2>8 DEF Budgeted, a
<1>7. CASE UNCHANGED ledgerVars
  <2>1. Spending' = Spending
    BY <1>7 DEF ledgerVars, Spending
  <2> QED
    BY <1>7, <1>20, <2>1, NotSpending DEF ledgerVars
<1> QED
  BY <1>1, <1>2, <1>3, <1>4, <1>5, <1>6, <1>7 DEF LedgerNext

\* With any number of turns at once, in any months: a budget that blocks is overrun by no more
\* than what the turns that were let through when the usage was below it may spend
\* (pipeline_step_cost.go, CostEnforcementStep and LedgerUpdateStep).
THEOREM OverrunStaysBounded == LedgerSpec => []OverrunIsBounded
<1>1. Budgeted => OverrunIsBounded
  <2> SUFFICES ASSUME Budgeted, budget.onExceed = "block", NEW m \in Months
               PROVE  usage[m] < Allowance + unchecked[m]
    BY DEF OverrunIsBounded, Allowance
  <2> DEFINE a == Cardinality(Spending) * MaxTokens
             b == Cardinality(SpiritTurn) * MaxTokens
  <2>1. /\ a \in Nat /\ b \in Nat /\ Limit \in Nat \ {0} /\ Allowance = Limit + b
        /\ usage[m] \in Nat /\ unchecked[m] \in Nat /\ m \in Int /\ month \in Int
    BY LessIsSpent, BudgetAssumption DEF Spending, Allowance, Budgeted, Counted, Months
  <2>2. CASE m < month
    BY <2>2 DEF Budgeted
  <2>3. CASE m = month
    <3>1. usage[m] + a < Allowance + unchecked[m]
      BY <2>3 DEF Budgeted
    <3> HIDE DEF a, b
    <3> QED
      BY <2>1, <3>1
  <2>4. CASE m > month
    <3>1. usage[m] = 0
      BY <2>4 DEF Budgeted
    <3> HIDE DEF a, b
    <3> QED
      BY <2>1, <3>1
  <2> QED
    BY <2>1, <2>2, <2>3, <2>4
<1> QED
  BY <1>1, BudgetStarts, BudgetStep, PTL DEF LedgerSpec

-----------------------------------------------------------------------------
(* Imprints: what makes a pruned fact old, and a saved one new. *)

Saving == [id : Nat, fact : Fact, sure : BOOLEAN]
ExtractionState == [at : {"idle", "read", "save", "prune"}, lines : Seq(Fact),
                    existing : SUBSET Fact, victims : SUBSET Saving, unsure : SUBSET Fact]

Newer(i) == {j \in saved \ {i} : j.id > i.id}
Superseded(i) == Cardinality(Newer(i)) >= MaxImprints

Archived ==
    /\ saved \in SUBSET Saving /\ IsFiniteSet(saved) /\ imprints \subseteq saved
    /\ \A i \in saved : i.id <= Cardinality(saved)
    /\ extraction \in [Extraction -> ExtractionState]
\* Whatever is still to be pruned, or was, has enough newer ones.
Pruned ==
    /\ \A x \in Extraction : \A i \in extraction[x].victims : i \in saved /\ Superseded(i)
    /\ \A i \in saved \ (imprints \cup forgotten) : Superseded(i)
\* An extraction that saves knows of every fact, or that it does not.
Aware ==
    \A x \in Extraction : extraction[x].at = "save" =>
        \A i \in imprints : i.fact \in extraction[x].existing \cup extraction[x].unsure
Once == \A i, j \in imprints : i.id < j.id /\ i.fact = j.fact => ~j.sure

Remembered == Archived /\ Pruned /\ Aware /\ Once

LEMMA ImprintStarts == ImprintInit => Remembered
<1> SUFFICES ASSUME ImprintInit PROVE Remembered
  OBVIOUS
<1>1. NoExtraction \in ExtractionState
  BY DEF NoExtraction, ExtractionState
<1>2. Archived
  BY <1>1, FS_EmptySet DEF ImprintInit, Archived
<1> QED
  BY <1>2 DEF ImprintInit, Remembered, Pruned, Aware, Once, NoExtraction

\* What is superseded stays so while more is saved.
LEMMA SupersededStays ==
  ASSUME IsFiniteSet(saved'), saved \subseteq saved', NEW i, Superseded(i)
  PROVE  Superseded(i)'
<1>1. Newer(i) \subseteq Newer(i)' /\ Newer(i)' \subseteq saved'
  BY DEF Newer
<1>2. IsFiniteSet(Newer(i)') /\ IsFiniteSet(Newer(i))
      /\ Cardinality(Newer(i)) <= Cardinality(Newer(i)')
      /\ Cardinality(Newer(i)) \in Nat /\ Cardinality(Newer(i)') \in Nat
  BY <1>1, FS_Subset, FS_CardinalityType
<1> QED
  BY <1>2, ImprintAssumption DEF Superseded

\* The oldest have MaxImprints newer ones, and so have they among all that was saved.
LEMMA OldestAreSuperseded ==
  ASSUME Archived, NEW i \in Oldest(imprints)
  PROVE  i \in saved /\ Superseded(i)
<1> DEFINE newer == {j \in imprints : j.id > i.id}
<1>1. i \in imprints /\ i \in Saving /\ Cardinality(newer) >= MaxImprints
  BY DEF Oldest, Archived
<1>2. newer \subseteq Newer(i) /\ Newer(i) \subseteq saved
  BY <1>1 DEF Newer, Archived, Saving
<1> HIDE DEF newer
<1>3. Cardinality(newer) <= Cardinality(Newer(i))
      /\ Cardinality(newer) \in Nat /\ Cardinality(Newer(i)) \in Nat
  BY <1>2, FS_Subset, FS_CardinalityType DEF Archived
<1> QED
  BY <1>1, <1>3, ImprintAssumption DEF Superseded, Archived

\* One goes on alone, and nothing is saved.
LEMMA GoesAlone ==
  ASSUME Remembered, NEW x \in Extraction, NEW r \in ExtractionState, Go(x, r),
         UNCHANGED <<saved, forgotten>>, imprints' \subseteq imprints,
         \A i \in imprints \ imprints' : Superseded(i),
         \A i \in r.victims : i \in saved /\ Superseded(i),
         r.at = "save" => \A i \in imprints : i.fact \in r.existing \cup r.unsure
  PROVE  Remembered'
<1>1. /\ extraction' \in [Extraction -> ExtractionState] /\ extraction'[x] = r
      /\ \A y \in Extraction \ {x} : extraction'[y] = extraction[y]
  BY DEF Go, Remembered, Archived
<1>2. \A i : Superseded(i)' <=> Superseded(i)
  BY DEF Superseded, Newer
<1>3. Archived'
  BY <1>1 DEF Remembered, Archived
<1>4. Pruned'
  BY <1>1, <1>2 DEF Remembered, Pruned
<1>5. Aware'
  BY <1>1 DEF Remembered, Aware
<1> QED
  BY <1>3, <1>4, <1>5 DEF Remembered, Once

\* A fact is saved, and everybody that is saving is told.
LEMMA InsertsOne ==
  ASSUME Remembered, NEW fact \in Fact, NEW sure \in BOOLEAN, InsertOne(fact, sure),
         NEW states \in [Extraction -> ExtractionState], UNCHANGED forgotten,
         extraction' = Unsure(fact, states),
         \A x \in Extraction : states[x].at = extraction[x].at
                               /\ states[x].existing = extraction[x].existing
                               /\ states[x].unsure = extraction[x].unsure
                               /\ states[x].victims = extraction[x].victims,
         sure => \A i \in imprints : i.fact # fact
  PROVE  Remembered'
<1> DEFINE n == Cardinality(saved)
           i == [id |-> n + 1, fact |-> fact, sure |-> sure]
<1>1. imprints' = imprints \cup {i} /\ saved' = saved \cup {i}
  BY DEF InsertOne
<1>2. n \in Nat /\ IsFiniteSet(saved) /\ saved \subseteq Saving /\ imprints \subseteq saved
      /\ \A j \in saved : j.id \in Nat /\ j.id <= n
  BY FS_CardinalityType DEF Remembered, Archived, Saving
<1>3. i \in Saving /\ i.id = n + 1 /\ i.fact = fact /\ i.sure = sure
  BY <1>2 DEF Saving
<1> HIDE DEF i
<1>4. i \notin saved
  BY <1>2, <1>3
<1>5. IsFiniteSet(saved') /\ Cardinality(saved') = n + 1
  BY <1>1, <1>2, <1>4, FS_AddElement
<1> HIDE DEF n
<1>6. /\ extraction' = [x \in Extraction |-> IF states[x].at = "save"
                           THEN [states[x] EXCEPT !.unsure = @ \cup {fact}] ELSE states[x]]
      /\ \A x \in Extraction : states[x] \in ExtractionState
  BY DEF Unsure
<1>7. ASSUME NEW x \in Extraction
      PROVE  /\ extraction'[x] \in ExtractionState /\ extraction'[x].victims = extraction[x].victims
             /\ extraction'[x].at = extraction[x].at
             /\ extraction'[x].existing = extraction[x].existing
             /\ extraction[x].unsure \subseteq extraction'[x].unsure
             /\ extraction'[x].at = "save" => fact \in extraction'[x].unsure
  <2> DEFINE r == [states[x] EXCEPT !.unsure = @ \cup {fact}]
  <2>1. /\ r \in ExtractionState /\ r.at = states[x].at /\ r.existing = states[x].existing
        /\ r.victims = states[x].victims /\ r.unsure = states[x].unsure \cup {fact}
    BY <1>6 DEF ExtractionState
  <2>2. extraction'[x] = IF states[x].at = "save" THEN r ELSE states[x]
    BY <1>6
  <2> HIDE DEF r
  <2>3. CASE states[x].at = "save"
    BY <2>1, <2>2, <2>3
  <2>4. CASE states[x].at # "save"
    BY <1>6, <2>2, <2>4
  <2> QED
    BY <2>3, <2>4
<1>8. extraction' \in [Extraction -> ExtractionState]
  <2> DEFINE v(x) == IF states[x].at = "save"
                     THEN [states[x] EXCEPT !.unsure = @ \cup {fact}] ELSE states[x]
  <2>1. extraction' = [x \in Extraction |-> v(x)]
    BY <1>6
  <2>2. \A x \in Extraction : v(x) \in ExtractionState
    BY <1>7, <2>1
  <2> HIDE DEF v
  <2> QED
    BY <2>1, <2>2
<1>9. Archived'
  <2>1. saved' \in SUBSET Saving /\ imprints' \subseteq saved'
    BY <1>1, <1>2, <1>3
  <2>2. ASSUME NEW j \in saved' PROVE j.id <= n + 1
    <3>1. CASE j = i
      BY <1>2, <1>3, <3>1
    <3>2. CASE j \in saved
      BY <1>2, <3>2
    <3> QED
      BY <1>1, <3>1, <3>2
  <2> QED
    BY <1>5, <1>8, <2>1, <2>2 DEF Archived
<1>10. \A j : Superseded(j) => Superseded(j)'
  BY <1>1, <1>5, SupersededStays
<1>11. Pruned'
  BY <1>1, <1>7, <1>10 DEF Remembered, Pruned
<1>12. Aware'
  BY <1>1, <1>3, <1>7 DEF Remembered, Aware
<1>13. Once'
  <2> SUFFICES ASSUME NEW j \in imprints', NEW k \in imprints', j.id < k.id, j.fact = k.fact
               PROVE  ~k.sure
    BY DEF Once
  <2>1. CASE k \in imprints
    <3>1. j # i
      BY <1>2, <1>3, <2>1
    <3> QED
      BY <1>1, <2>1, <3>1 DEF Remembered, Once
  <2>2. CASE k = i
    <3>1. j \in imprints
      BY <1>1, <1>2, <1>3, <2>2
    <3> QED
      BY <1>3, <2>2, <3>1
  <2> QED
    BY <1>1, <2>1, <2>2
<1> QED
  BY <1>9, <1>11, <1>12, <1>13 DEF Remembered

LEMMA ImprintStep == Remembered /\ [ImprintNext]_imprintVars => Remembered'
<1> SUFFICES ASSUME Remembered, [ImprintNext]_imprintVars PROVE Remembered'
  OBVIOUS
<1>20. /\ Archived /\ \A x \in Extraction : extraction[x] \in ExtractionState
       /\ NoExtraction \in ExtractionState /\ NoExtraction.victims = {} /\ NoExtraction.at = "idle"
  BY DEF Remembered, Archived, NoExtraction, ExtractionState
<1>1. ASSUME NEW x \in Extraction, Extract(x) PROVE Remembered'
  <2>1. PICK lines \in SeqOf(Fact, MaxLines) : Go(x, [NoExtraction EXCEPT !.at = "read", !.lines = lines])
    BY <1>1 DEF Extract
  <2>2. lines \in Seq(Fact)
    BY <2>1, ImprintAssumption DEF SeqOf
  <2> DEFINE r == [NoExtraction EXCEPT !.at = "read", !.lines = lines]
  <2>3. r \in ExtractionState /\ r.victims = {} /\ r.at = "read"
    BY <2>2 DEF NoExtraction, ExtractionState
  <2> HIDE DEF r
  <2> QED
    BY <1>1, <2>1, <2>3, GoesAlone DEF Extract, r
<1>2. ASSUME NEW x \in Extraction, ReadExisting(x) PROVE Remembered'
  <2> DEFINE r == [extraction[x] EXCEPT !.at = "save", !.existing = {i.fact : i \in imprints}]
             s == [extraction[x] EXCEPT !.at = "save", !.unsure = Fact]
  <2>1. \A i \in imprints : i.fact \in Fact
    BY <1>20 DEF Archived, Saving
  <2>2. /\ r \in ExtractionState /\ r.victims = extraction[x].victims
        /\ \A i \in imprints : i.fact \in r.existing
    <3> DEFINE found == {i.fact : i \in imprints}
    <3>1. found \subseteq Fact /\ \A i \in imprints : i.fact \in found
      BY <2>1
    <3>2. r = [extraction[x] EXCEPT !.at = "save", !.existing = found]
      OBVIOUS
    <3> HIDE DEF found, r
    <3>3. r \in ExtractionState /\ r.victims = extraction[x].victims /\ r.existing = found
      BY <1>20, <3>1, <3>2 DEF ExtractionState
    <3> QED
      BY <3>1, <3>3
  <2>3. /\ s \in ExtractionState /\ s.victims = extraction[x].victims
        /\ \A i \in imprints : i.fact \in s.unsure
    BY <1>20, <2>1 DEF ExtractionState
  <2>4. Go(x, r) \/ Go(x, s)
    BY <1>2 DEF ReadExisting
  <2> HIDE DEF r, s
  <2> QED
    BY <1>2, <2>2, <2>3, <2>4, GoesAlone DEF ReadExisting, Remembered, Pruned
<1>3. ASSUME NEW x \in Extraction, SaveNext(x) PROVE Remembered'
  <2> DEFINE r == extraction[x]
             fact == Head(r.lines)
             next == [r EXCEPT !.lines = Tail(@)]
             states == [extraction EXCEPT ![x] = next]
  <2>1. /\ r \in ExtractionState /\ r.at = "save" /\ fact \in Fact /\ Tail(r.lines) \in Seq(Fact)
    BY <1>3, <1>20 DEF SaveNext, ExtractionState
  <2>2. /\ next \in ExtractionState /\ next.at = r.at /\ next.existing = r.existing
        /\ next.unsure = r.unsure /\ next.victims = r.victims
    BY <2>1 DEF ExtractionState
  <2>3. CASE IsNew(r, fact) /\ InsertOne(fact, fact \notin r.unsure) /\ extraction' = Unsure(fact, states)
    <3> HIDE DEF next, fact
    <3>1. states \in [Extraction -> ExtractionState]
      BY <1>20, <2>2 DEF Archived
    <3>2. \A y \in Extraction : /\ states[y].at = extraction[y].at
                                /\ states[y].existing = extraction[y].existing
                                /\ states[y].unsure = extraction[y].unsure
                                /\ states[y].victims = extraction[y].victims
      BY <1>20, <2>2 DEF Archived
    <3>3. fact \notin r.unsure => \A i \in imprints : i.fact # fact
      BY <2>1, <2>3 DEF IsNew, Remembered, Aware
    <3> HIDE DEF states, r
    <3> QED
      BY <1>3, <2>1, <2>3, <3>1, <3>2, <3>3, InsertsOne DEF SaveNext
  <2>4. CASE Go(x, next) /\ UNCHANGED <<imprints, saved>>
    <3>1. \A i \in next.victims : i \in saved /\ Superseded(i)
      BY <2>2 DEF Remembered, Pruned
    <3>2. \A i \in imprints : i.fact \in next.existing \cup next.unsure
      BY <2>1, <2>2 DEF Remembered, Aware
    <3> HIDE DEF next
    <3> QED
      BY <1>3, <2>2, <2>4, <3>1, <3>2, GoesAlone DEF SaveNext
  <2> QED
    BY <1>3, <2>3, <2>4 DEF SaveNext
<1>4. ASSUME NEW x \in Extraction, PruneRead(x) PROVE Remembered'
  <2> DEFINE r == [NoExtraction EXCEPT !.at = "prune", !.victims = Oldest(imprints)]
  <2>1. Oldest(imprints) \subseteq Saving
    BY <1>20 DEF Oldest, Archived
  <2>2. r \in ExtractionState /\ r.victims = Oldest(imprints) /\ r.at = "prune"
    <3> HIDE DEF Oldest
    <3> DEFINE found == Oldest(imprints)
    <3>1. found \subseteq Saving /\ r = [NoExtraction EXCEPT !.at = "prune", !.victims = found]
      BY <2>1
    <3> HIDE DEF found
    <3> HIDE DEF r
    <3>2. r = [at |-> "prune", lines |-> << >>, existing |-> {}, victims |-> found, unsure |-> {}]
      BY <3>1 DEF NoExtraction
    <3>3. r.victims = found /\ r.at = "prune"
      BY <3>2
    <3>4. NoExtraction \in ExtractionState /\ "prune" \in {"idle", "read", "save", "prune"}
      BY <1>20
    <3>5. r \in ExtractionState
      BY <3>1, <3>4 DEF ExtractionState
    <3> QED
      BY <3>3, <3>5 DEF found
  <2>3. Go(x, r) \/ Go(x, NoExtraction)
    BY <1>4 DEF PruneRead
  <2> HIDE DEF r
  <2> QED
    BY <1>4, <1>20, <2>2, <2>3, GoesAlone, OldestAreSuperseded DEF PruneRead
<1>5. ASSUME NEW x \in Extraction, PruneDelete(x) PROVE Remembered'
  <2>1. PICK i \in extraction[x].victims :
          LET left == extraction[x].victims \ {i} IN
          /\ Go(x, IF left = {} THEN NoExtraction ELSE [extraction[x] EXCEPT !.victims = left])
          /\ imprints' \in {imprints, imprints \ {i}}
    BY <1>5 DEF PruneDelete
  <2> DEFINE left == extraction[x].victims \ {i}
             r == IF left = {} THEN NoExtraction ELSE [extraction[x] EXCEPT !.victims = left]
  <2>2. \A j \in extraction[x].victims : j \in saved /\ Superseded(j)
    BY DEF Remembered, Pruned
  <2>3. extraction[x].at = "prune"
    BY <1>5 DEF PruneDelete
  <2>4. r \in ExtractionState /\ r.at # "save" /\ r.victims \subseteq extraction[x].victims
    BY <1>20, <2>3 DEF ExtractionState
  <2>5. Go(x, r)
    BY <2>1
  <2> HIDE DEF r
  <2> QED
    BY <1>5, <2>1, <2>2, <2>4, <2>5, GoesAlone DEF PruneDelete
<1>6. ASSUME NEW x \in Extraction, ExtractionEnds(x) PROVE Remembered'
  BY <1>6, <1>20, GoesAlone DEF ExtractionEnds
<1>7. ASSUME NEW fact \in Fact, RememberFact(fact) PROVE Remembered'
  BY <1>7, <1>20, InsertsOne DEF RememberFact, Archived
<1>8. \A i : saved' = saved => (Superseded(i)' <=> Superseded(i))
  BY DEF Superseded, Newer
<1>9. CASE ForgetFind
  BY <1>8, <1>9 DEF ForgetFind, Remembered, Archived, Pruned, Aware, Once
<1>10. CASE ForgetDelete
  BY <1>8, <1>10 DEF ForgetDelete, Remembered, Archived, Pruned, Aware, Once
<1>11. CASE UNCHANGED imprintVars
  BY <1>8, <1>11 DEF imprintVars, Remembered, Archived, Pruned, Aware, Once
<1> QED
  BY <1>1, <1>2, <1>3, <1>4, <1>5, <1>6, <1>7, <1>9, <1>10, <1>11 DEF ImprintNext

\* With any number of extractions beside the turns: a fact that was not deleted on purpose is
\* gone only when MaxImprints newer ones were saved, and is saved a second time only by those
\* that could not know of the first (pipeline_step_imprint.go, imprint_actions.go).
THEOREM FactsStay == ImprintSpec => []FactsAreKeptOnce
<1>1. Remembered => FactsAreKeptOnce
  BY DEF Remembered, Pruned, Once, Superseded, Newer, FactsAreKeptOnce
<1> QED
  BY <1>1, ImprintStarts, ImprintStep, PTL DEF ImprintSpec

-----------------------------------------------------------------------------
(* Links: an instance that does not hold the Link of the database is behind  *)
(* for a reason, something that is on its way will bring it.                 *)

Kinds == {"one", "all"}

\* A notification that brings the Link whatever it is; one for all Links removes none.
Brings(kind) == kind = "one" \/ repo # NoLink

\* Notifications whose handling has not begun.
Unread(i) == {k \in DOMAIN channel[i] : read[i] = << >> \/ k > 1}

\* A call that is going to announce the Link to everybody.
Announced ==
    \E w \in Writer : \/ call[w].next \in {"cache", "publish one"}
                      \/ call[w].next = "publish all" /\ repo # NoLink

\* Something on its way to instance i that brings the Link.
Coming(i) == Announced \/ \E k \in Unread(i) : Brings(channel[i][k])

\* A handler that has read, and what it read.
Reading(i) == read[i] # << >>

Calls == [at : Instance \cup {NoLink}, link : Link,
          next : {"idle", "cache", "store", "publish one", "publish all"}]

Shaped ==
    /\ repo \in Link /\ cache \in [Instance -> Link]
    /\ up \in [Instance -> {"down", "loaded", "subscribed"}]
    /\ channel \in [Instance -> Seq(Kinds)]
    /\ read \in [Instance -> {<< >>} \cup {<<l>> : l \in Link}]
    /\ call \in [Writer -> Calls]
    /\ excused \subseteq Instance
    /\ \A i \in Instance : Reading(i) => channel[i] # << >>
    /\ \A i \in Instance : up[i] # "subscribed" => channel[i] = << >> /\ read[i] = << >>
    /\ \A w \in Writer : call[w].next # "idle" => call[w].at \in Instance

\* Of an instance that is up and has missed nothing.
Follows(i) ==
    /\ \/ cache[i] = repo
       \/ Coming(i)
       \/ read[i] = <<repo>> /\ Brings(channel[i][1])
    /\ Reading(i) /\ read[i] # <<repo>> => Coming(i)

Behind == Shaped /\ \A i \in Instance \ excused : up[i] # "down" => Follows(i)

LEMMA CacheInitBehind == CacheInit => Behind
  BY DEF CacheInit, Behind, Shaped, Link, Uncalled, Calls, Kinds, Reading

LEMMA UncalledIsCall == Uncalled \in Calls /\ Uncalled.next = "idle"
  BY DEF Uncalled, Calls, Link

-----------------------------------------------------------------------------
(* The shape *)

LEMMA AppendKind ==
  ASSUME NEW s \in Seq(Kinds), NEW kind \in Kinds
  PROVE  /\ Append(s, kind) \in Seq(Kinds) /\ Append(s, kind) # << >>
         /\ DOMAIN s = 1..Len(s) /\ Len(s) \in Nat
         /\ DOMAIN Append(s, kind) = 1..(Len(s) + 1)
         /\ \A k \in 1..Len(s) : Append(s, kind)[k] = s[k]
         /\ Append(s, kind)[Len(s) + 1] = kind
  BY AppendProperties, LenProperties

\* A call that begins.
LEMMA CallBegins ==
  ASSUME NEW w \in Writer, NEW c \in Calls, c.at \in Instance, call \in [Writer -> Calls],
         \A v \in Writer : call[v].next # "idle" => call[v].at \in Instance,
         call' = [call EXCEPT ![w] = c]
  PROVE  /\ call' \in [Writer -> Calls]
         /\ \A v \in Writer : call'[v].next # "idle" => call'[v].at \in Instance
<1>1. call'[w] = c /\ \A v \in Writer \ {w} : call'[v] = call[v]
  OBVIOUS
<1>2. call' \in [Writer -> Calls]
  OBVIOUS
<1> QED
  BY <1>1, <1>2

LEMMA ShapedStep == Shaped /\ [CacheNext]_cacheVars => Shaped'
<1> SUFFICES ASSUME Shaped, [CacheNext]_cacheVars PROVE Shaped'
  OBVIOUS
<1> USE DEF Shaped, Reading, Link, Kinds, Advance
<1>1. ASSUME NEW i \in Instance, Load(i) PROVE Shaped'
  BY <1>1 DEF Load
<1>2. ASSUME NEW i \in Instance, Subscribe(i) PROVE Shaped'
  BY <1>2 DEF Subscribe
<1>3. ASSUME NEW i \in Instance, Die(i) PROVE Shaped'
  <2>1. call' \in [Writer -> Calls]
    BY <1>3, UncalledIsCall DEF Die
  <2>2. \A w \in Writer : call'[w].next # "idle" => call'[w].at \in Instance
    BY <1>3, UncalledIsCall DEF Die
  <2>3. channel' = [channel EXCEPT ![i] = << >>] /\ read' = [read EXCEPT ![i] = << >>]
        /\ up' = [up EXCEPT ![i] = "down"] /\ repo' = repo /\ cache' = cache
        /\ excused' \subseteq Instance
    BY <1>3 DEF Die
  <2>4. << >> \in Seq(Kinds)
    BY EmptySeq
  <2>5. channel' \in [Instance -> Seq(Kinds)] /\ read' \in [Instance -> {<< >>} \cup {<<l>> : l \in Link}]
    BY <2>3, <2>4
  <2> QED
    BY <2>1, <2>2, <2>3, <2>5
<1>4. ASSUME NEW i \in Instance, HandlerReads(i) PROVE Shaped'
  BY <1>4 DEF HandlerReads
<1>5. ASSUME NEW i \in Instance, HandlerStores(i) PROVE Shaped'
  <2>1. channel[i] # << >> /\ Tail(channel[i]) \in Seq(Kinds)
    BY <1>5, HeadTailProperties DEF HandlerStores
  <2>2. Kept(i, Head(channel[i]), read[i][1]) \in Link
    <3>1. PICK l \in Link : read[i] = <<l>>
      BY <1>5 DEF HandlerStores
    <3>2. read[i][1] \in Link
      BY <3>1
    <3>3. cache[i] \in Link
      OBVIOUS
    <3> QED
      BY <3>2, <3>3 DEF Kept
  <2> QED
    BY <1>5, <2>1, <2>2 DEF HandlerStores
<1>6. ASSUME NEW i \in Instance, HandlerFails(i) PROVE Shaped'
  <2>1. Tail(channel[i]) \in Seq(Kinds)
    BY <1>6, HeadTailProperties DEF HandlerFails
  <2> QED
    BY <1>6, <2>1 DEF HandlerFails
<1>7. ASSUME NEW w \in Writer, WriteRepo(w) PROVE Shaped'
  <2>1. PICK i \in Instance, l \in Link :
          /\ repo' = l /\ excused' \in {excused, Instance}
          /\ call' \in {call, [call EXCEPT ![w] = [at |-> i, link |-> l, next |-> "cache"]]}
          /\ UNCHANGED <<cache, up, channel, read>>
    BY <1>7 DEF WriteRepo
  <2>2. [at |-> i, link |-> l, next |-> "cache"] \in Calls
    BY DEF Calls
  <2>3. call' \in [Writer -> Calls] /\ \A v \in Writer : call'[v].next # "idle" => call'[v].at \in Instance
    <3>1. CASE call' = call
      BY <3>1
    <3>2. CASE call' = [call EXCEPT ![w] = [at |-> i, link |-> l, next |-> "cache"]]
      BY <2>2, <3>2, CallBegins
    <3> QED
      BY <2>1, <3>1, <3>2
  <2> QED
    BY <2>1, <2>3
<1>8. ASSUME NEW w \in Writer, WriteCache(w) PROVE Shaped'
  BY <1>8 DEF WriteCache, Calls
<1>9. ASSUME NEW w \in Writer, ReloadReads(w) PROVE Shaped'
  <2>1. PICK i \in Instance :
          call' = [call EXCEPT ![w] = [at |-> i, link |-> repo, next |-> "store"]]
    BY <1>9 DEF ReloadReads
  <2>2. [at |-> i, link |-> repo, next |-> "store"] \in Calls
    BY DEF Calls
  <2> QED
    BY <1>9, <2>1, <2>2 DEF ReloadReads
<1>10. ASSUME NEW w \in Writer, ReloadStores(w) PROVE Shaped'
  BY <1>10 DEF ReloadStores, Kept, Calls
<1>11. ASSUME NEW w \in Writer, Publish(w) PROVE Shaped'
  <2>1. PICK kind \in Kinds :
          \A i \in Instance : \/ channel'[i] = channel[i]
                              \/ channel'[i] = Append(channel[i], kind) /\ up[i] = "subscribed"
    BY <1>11 DEF Publish, Subscribed
  <2>2. ASSUME NEW i \in Instance
        PROVE  /\ channel'[i] \in Seq(Kinds) /\ (channel[i] # << >> => channel'[i] # << >>)
               /\ up[i] # "subscribed" => channel'[i] = channel[i]
    <3>1. channel[i] \in Seq(Kinds)
      OBVIOUS
    <3>2. Append(channel[i], kind) \in Seq(Kinds) /\ Append(channel[i], kind) # << >>
      BY <3>1, AppendKind
    <3>3. channel'[i] \in {channel[i], Append(channel[i], kind)}
          /\ (up[i] # "subscribed" => channel'[i] = channel[i])
      BY <2>1
    <3> QED
      BY <3>1, <3>2, <3>3
  <2>3. channel' \in [Instance -> Seq(Kinds)]
    <3>1. channel' = [i \in Instance |-> channel'[i]]
      BY <1>11 DEF Publish
    <3> QED
      BY <2>2, <3>1
  <2>4. call' \in [Writer -> Calls] /\ \A v \in Writer : call'[v] = call[v] \/ call'[v] = Uncalled
    BY <1>11, UncalledIsCall DEF Publish
  <2>5. repo' = repo /\ cache' = cache /\ up' = up /\ read' = read /\ excused' \subseteq Instance
    BY <1>11 DEF Publish
  <2> QED
    BY <2>2, <2>3, <2>4, <2>5, UncalledIsCall
<1>12. CASE UNCHANGED cacheVars
  BY <1>12 DEF cacheVars
<1> QED
  BY <1>1, <1>2, <1>3, <1>4, <1>5, <1>6, <1>7, <1>8, <1>9, <1>10, <1>11, <1>12 DEF CacheNext

-----------------------------------------------------------------------------
(* What is on its way *)

\* A step that leaves an instance, the database and the announcements alone.
LEMMA FollowsOn ==
  ASSUME NEW i \in Instance, Follows(i), repo' = repo, cache'[i] = cache[i],
         channel'[i] = channel[i], read'[i] = read[i], Announced => Announced'
  PROVE  Follows(i)'
  BY DEF Follows, Coming, Unread, Reading, Brings

\* A call under way is one that goes on, or that announced what it had to.
LEMMA FollowsAnnounced ==
  ASSUME NEW i \in Instance, Announced'
  PROVE  Follows(i)'
  BY DEF Follows, Coming

\* The handler turns to the notification at the head of its channel.
LEMMA ReadsOn ==
  ASSUME Shaped, NEW i \in Instance, Follows(i), HandlerReads(i)
  PROVE  Follows(i)'
<1>1. channel[i] \in Seq(Kinds) /\ channel' = channel /\ repo' = repo /\ cache' = cache
      /\ call' = call /\ read[i] = << >> /\ read'[i] = <<repo>>
  BY DEF HandlerReads, Shaped
<1>2. ASSUME NEW k \in Unread(i), Brings(channel[i][k]), k # 1
      PROVE  Coming(i)'
  BY <1>1, <1>2 DEF Coming, Unread, Brings
<1>3. Announced => Announced'
  BY <1>1 DEF Announced
<1>4. 1 \in Unread(i) /\ Brings(channel[i][1]) => Brings(channel[i][1])'
  BY <1>1 DEF Brings
<1> QED
  BY <1>1, <1>2, <1>3, <1>4 DEF Follows, Coming, Reading

\* It stores what it read: what is still unread was so before.
LEMMA StoresOn ==
  ASSUME Shaped, NEW i \in Instance, Follows(i), HandlerStores(i)
  PROVE  Follows(i)'
<1>1. /\ channel[i] \in Seq(Kinds) /\ channel[i] # << >> /\ channel'[i] = Tail(channel[i])
      /\ read[i] # << >> /\ read'[i] = << >> /\ repo' = repo /\ call' = call
      /\ cache'[i] = Kept(i, Head(channel[i]), read[i][1])
  BY DEF HandlerStores, Shaped, Reading
<1>2. Coming(i) => Coming(i)'
  <2>1. Announced => Announced'
    BY <1>1 DEF Announced
  <2>2. ASSUME NEW k \in Unread(i), Brings(channel[i][k])
        PROVE  k - 1 \in Unread(i)' /\ Brings(channel[i][k - 1])'
    <3>1. k \in 2..Len(channel[i])
      BY <1>1, <2>2 DEF Unread
    <3>2. k - 1 \in 1..Len(Tail(channel[i])) /\ Tail(channel[i])[k - 1] = channel[i][k]
          /\ Tail(channel[i]) \in Seq(Kinds)
      BY <1>1, <3>1, HeadTailProperties
    <3> QED
      BY <1>1, <2>2, <3>2 DEF Unread, Brings
  <2> QED
    BY <2>1, <2>2 DEF Coming
<1>3. ASSUME ~Coming(i) PROVE cache'[i] = repo'
  <2>1. read[i] = <<repo>>
    BY <1>1, <1>3 DEF Follows, Reading
  <2>2. Head(channel[i]) = channel[i][1] /\ Head(channel[i]) \in Kinds
    BY <1>1, HeadTailProperties
  <2> QED
    BY <1>1, <1>3, <2>1, <2>2 DEF Follows, Kept, Brings, Kinds
<1> QED
  BY <1>1, <1>2, <1>3 DEF Follows, Reading

\* A publication that reached everybody is unread at every subscriber.
LEMMA PublishedComes ==
  ASSUME Shaped, NEW w \in Writer, Publish(w),
         NEW i \in Instance \ excused', up[i] # "down", Follows(i)
  PROVE  Follows(i)'
<1>1. PICK kind \in Kinds :
        /\ channel'[i] = Append(channel[i], kind)
        /\ kind = IF call[w].next = "publish all" THEN "all" ELSE "one"
  BY DEF Publish, Subscribed, Shaped, Kinds
<1>2. repo' = repo /\ cache' = cache /\ read' = read
      /\ call' = [call EXCEPT ![w] = Uncalled]
      /\ call[w].next \in {"publish one", "publish all"}
  BY DEF Publish
<1>3. channel[i] \in Seq(Kinds)
  BY DEF Shaped
<1>4. PICK n \in Nat :
        /\ n = Len(channel[i])
        /\ DOMAIN channel[i] = 1..n /\ DOMAIN channel'[i] = 1..(n + 1)
        /\ \A k \in 1..n : channel'[i][k] = channel[i][k]
        /\ channel'[i][n + 1] = kind
  <2>1. Len(channel[i]) \in Nat /\ DOMAIN channel[i] = 1..Len(channel[i])
    BY <1>3, AppendKind
  <2>2. /\ DOMAIN Append(channel[i], kind) = 1..(Len(channel[i]) + 1)
        /\ \A k \in 1..Len(channel[i]) : Append(channel[i], kind)[k] = channel[i][k]
        /\ Append(channel[i], kind)[Len(channel[i]) + 1] = kind
    BY <1>3, AppendKind
  <2> QED
    BY <1>1, <2>1, <2>2, Zenon
<1>5. Reading(i) => n > 0
  BY <1>3, <1>4, EmptySeq DEF Shaped
<1>6. Unread(i) \subseteq Unread(i)' /\ n + 1 \in Unread(i)'
  <2>1. ASSUME NEW k \in Unread(i) PROVE k \in Unread(i)'
    <3>1. k \in 1..n /\ (read[i] = << >> \/ k > 1)
      BY <1>4, <2>1 DEF Unread
    <3>2. k \in 1..(n + 1) /\ (read'[i] = << >> \/ k > 1)
      <4>1. k \in 1..(n + 1)
        BY <3>1
      <4>2. read'[i] = read[i]
        BY <1>2
      <4> QED
        BY <3>1, <4>1, <4>2
    <3> QED
      BY <1>4, <3>2 DEF Unread
  <2>2. n + 1 \in Unread(i)'
    <3>1. n + 1 \in 1..(n + 1) /\ (read'[i] = << >> \/ n + 1 > 1)
      <4>1. read'[i] = read[i] /\ (read[i] = << >> \/ n > 0)
        BY <1>2, <1>5 DEF Reading
      <4>2. n + 1 \in 1..(n + 1) /\ (n > 0 => n + 1 > 1)
        OBVIOUS
      <4> QED
        BY <4>1, <4>2
    <3> QED
      BY <1>4, <3>1 DEF Unread
  <2> QED
    BY <2>1, <2>2
<1>7. ASSUME Coming(i) PROVE Coming(i)'
  <2>1. ASSUME NEW k \in Unread(i), Brings(channel[i][k]) PROVE Coming(i)'
    <3>1. k \in 1..n
      BY <1>4, <2>1 DEF Unread
    <3>2. Brings(channel[i][k])'
      BY <1>2, <2>1, <1>4, <3>1 DEF Brings
    <3> QED
      BY <1>6, <3>2 DEF Coming
  <2>2. ASSUME NEW v \in Writer, v # w,
               \/ call[v].next \in {"cache", "publish one"}
               \/ call[v].next = "publish all" /\ repo # NoLink
        PROVE  Coming(i)'
    <3>1. call \in [Writer -> Calls]
      BY DEF Shaped
    <3>2. call'[v] = call[v]
      BY <1>2, <2>2, <3>1
    <3> QED
      BY <1>2, <2>2, <3>2 DEF Coming, Announced
  <2>3. ASSUME \/ call[w].next \in {"cache", "publish one"}
               \/ call[w].next = "publish all" /\ repo # NoLink
        PROVE  Coming(i)'
    <3>1. kind = "one" \/ repo # NoLink
      BY <1>1, <1>2, <2>3
    <3>2. Brings(channel[i][n + 1])'
      BY <1>2, <1>4, <3>1 DEF Brings
    <3> QED
      BY <1>6, <3>2 DEF Coming
  <2> QED
    BY <1>7, <2>1, <2>2, <2>3 DEF Coming, Announced
<1>8. ASSUME read[i] = <<repo>>, Brings(channel[i][1]) PROVE Brings(channel[i][1])'
  <2>1. 1 \in 1..n
    BY <1>4, <1>5, <1>8 DEF Reading
  <2> QED
    BY <1>2, <1>4, <1>8, <2>1 DEF Brings
<1> QED
  BY <1>2, <1>7, <1>8 DEF Follows, Reading

\* Each step, for one instance that has missed nothing: a step of another leaves it alone, one
\* that changes the Link is one of a call that will announce it, and one that breaks either
\* excuses the instance.
LEMMA BehindStep == Behind /\ [CacheNext]_cacheVars => Behind'
<1> SUFFICES ASSUME Behind, [CacheNext]_cacheVars,
                    NEW i \in Instance, i \notin excused', up'[i] # "down"
             PROVE  Follows(i)'
  BY ShapedStep DEF Behind
<1>1. Shaped /\ Shaped'
  BY ShapedStep DEF Behind
<1>2. ASSUME i \notin excused, up[i] # "down" PROVE Follows(i)
  BY <1>2 DEF Behind
<1>3. ASSUME repo' = repo, cache'[i] = cache[i], channel'[i] = channel[i], read'[i] = read[i],
             Announced => Announced', i \notin excused, up[i] # "down"
      PROVE  Follows(i)'
  BY <1>2, <1>3, FollowsOn
<1>4. ASSUME NEW j \in Instance, Load(j) PROVE Follows(i)'
  <2>1. CASE j = i
    <3>1. cache'[i] = repo' /\ read'[i] = << >>
      BY <1>1, <1>4, <2>1 DEF Load, Shaped
    <3> QED
      BY <3>1 DEF Follows, Reading
  <2>2. CASE j # i
    <3>1. UNCHANGED <<repo, channel, read, call>> /\ cache'[i] = cache[i] /\ up'[i] = up[i]
          /\ i \notin excused
      BY <1>1, <1>4, <2>2 DEF Load, Shaped
    <3> QED
      BY <1>3, <3>1 DEF Announced
  <2> QED
    BY <2>1, <2>2
<1>5. ASSUME NEW j \in Instance, Subscribe(j) PROVE Follows(i)'
  <2>1. UNCHANGED <<repo, cache, channel, read, call, excused>> /\ up[i] # "down"
    BY <1>1, <1>5 DEF Subscribe, Shaped
  <2> QED
    BY <1>3, <2>1 DEF Announced
<1>6. ASSUME NEW j \in Instance, Die(j) PROVE Follows(i)'
  <2>1. j # i /\ call' = call /\ excused' = excused
    BY <1>1, <1>6 DEF Die, Shaped
  <2>2. repo' = repo /\ cache' = cache /\ channel'[i] = channel[i] /\ read'[i] = read[i]
        /\ up[i] # "down"
    BY <1>1, <1>6, <2>1 DEF Die, Shaped
  <2> QED
    BY <1>3, <2>1, <2>2 DEF Announced
<1>7. ASSUME NEW j \in Instance, HandlerReads(j) PROVE Follows(i)'
  <2>1. CASE j = i
    BY <1>1, <1>2, <1>7, <2>1, ReadsOn DEF HandlerReads
  <2>2. CASE j # i
    BY <1>1, <1>3, <1>7, <2>2 DEF HandlerReads, Shaped, Announced
  <2> QED
    BY <2>1, <2>2
<1>8. ASSUME NEW j \in Instance, HandlerStores(j) PROVE Follows(i)'
  <2>1. CASE j = i
    BY <1>1, <1>2, <1>8, <2>1, StoresOn DEF HandlerStores
  <2>2. CASE j # i
    <3>1. UNCHANGED <<repo, up, call, excused>> /\ cache'[i] = cache[i]
          /\ channel'[i] = channel[i] /\ read'[i] = read[i]
      BY <1>1, <1>8, <2>2 DEF HandlerStores, Shaped
    <3> QED
      BY <1>3, <3>1 DEF Announced
  <2> QED
    BY <2>1, <2>2
<1>9. ASSUME NEW j \in Instance, HandlerFails(j) PROVE Follows(i)'
  <2>1. j # i /\ i \notin excused /\ UNCHANGED <<repo, up, read, call>>
    BY <1>9 DEF HandlerFails
  <2>2. cache'[i] = cache[i] /\ channel'[i] = channel[i]
    BY <1>1, <1>9, <2>1 DEF HandlerFails, Shaped
  <2> QED
    BY <1>3, <2>1, <2>2 DEF Announced
<1>10. ASSUME NEW w \in Writer, WriteRepo(w) PROVE Follows(i)'
  <2>1. PICK j \in Instance, l \in Link :
          call' = [call EXCEPT ![w] = [at |-> j, link |-> l, next |-> "cache"]]
    BY <1>10 DEF WriteRepo
  <2>2. call'[w].next = "cache"
    BY <1>1, <2>1 DEF Shaped
  <2> QED
    BY <2>2, FollowsAnnounced DEF Announced
<1>11. ASSUME NEW w \in Writer, WriteCache(w) PROVE Follows(i)'
  <2>1. call' = [call EXCEPT ![w].next = "publish one"]
    BY <1>11 DEF WriteCache, Advance
  <2>2. call \in [Writer -> Calls] /\ call[w] \in Calls
    BY <1>1 DEF Shaped
  <2>3. call'[w] = [call[w] EXCEPT !.next = "publish one"]
    BY <2>1, <2>2
  <2>4. call'[w].next = "publish one"
    BY <2>2, <2>3 DEF Calls
  <2> QED
    BY <2>4, FollowsAnnounced DEF Announced
<1>12. ASSUME NEW w \in Writer, ReloadReads(w) PROVE Follows(i)'
  <2>1. PICK j \in Instance :
          call' = [call EXCEPT ![w] = [at |-> j, link |-> repo, next |-> "store"]]
    BY <1>12 DEF ReloadReads
  <2>2. \A v \in Writer \ {w} : call'[v] = call[v]
    BY <1>1, <2>1 DEF Shaped
  <2>3. call[w].next = "idle" /\ UNCHANGED <<repo, cache, up, channel, read, excused>>
    BY <1>12 DEF ReloadReads
  <2>4. Announced => Announced'
    BY <2>2, <2>3 DEF Announced
  <2> QED
    BY <1>3, <2>3, <2>4
<1>13. ASSUME NEW w \in Writer, ReloadStores(w) PROVE Follows(i)'
  <2>1. call'[w].next = "publish all" /\ repo' = repo
    <3>1. call' = [call EXCEPT ![w].next = "publish all"] /\ repo' = repo
      BY <1>13 DEF ReloadStores, Advance
    <3>2. call \in [Writer -> Calls] /\ call[w] \in Calls
      BY <1>1 DEF Shaped
    <3>3. call'[w] = [call[w] EXCEPT !.next = "publish all"]
      BY <3>1, <3>2
    <3> QED
      BY <3>1, <3>2, <3>3 DEF Calls
  <2>2. CASE repo # NoLink
    BY <2>1, <2>2, FollowsAnnounced DEF Announced
  <2>3. CASE repo = NoLink
    <3>1. call[w].at # i /\ i \notin excused
          /\ UNCHANGED <<repo, up, channel, read>>
      BY <1>13, <2>3 DEF ReloadStores
    <3>2. cache'[i] = cache[i]
      BY <1>1, <1>13, <3>1 DEF ReloadStores, Shaped
    <3>3. call[w].next = "store" /\ \A v \in Writer \ {w} : call'[v] = call[v]
      BY <1>1, <1>13 DEF ReloadStores, Advance, Shaped
    <3>4. Announced => Announced'
      BY <3>1, <3>3 DEF Announced
    <3> QED
      BY <1>3, <3>1, <3>2, <3>4
  <2> QED
    BY <2>2, <2>3
<1>14. ASSUME NEW w \in Writer, Publish(w) PROVE Follows(i)'
  <2>1. i \notin excused /\ up' = up
    BY <1>14 DEF Publish
  <2> QED
    BY <1>1, <1>2, <1>14, <2>1, PublishedComes
<1>15. CASE UNCHANGED cacheVars
  BY <1>3, <1>15 DEF cacheVars, Announced
<1> QED
  BY <1>4, <1>5, <1>6, <1>7, <1>8, <1>9, <1>10, <1>11, <1>12, <1>13, <1>14, <1>15 DEF CacheNext

-----------------------------------------------------------------------------

\* However many instances and calls cross, once all is quiet every instance that is up and has
\* missed nothing holds the Link of the database (config_cache.go, Save, ForceReload, Subscribe).
THEOREM CachesFollow == CacheSpec => []CachesConverge
<1>1. Behind => CachesConverge
  <2> SUFFICES ASSUME Behind, Quiet, NEW i \in Instance \ excused, up[i] # "down"
               PROVE  cache[i] = repo
    BY DEF CachesConverge
  <2>1. Follows(i) /\ ~Announced
    BY UncalledIsCall DEF Behind, Announced, Quiet, Uncalled
  <2>2. Unread(i) = {} /\ ~Reading(i)
    BY EmptySeq DEF Behind, Shaped, Quiet, Unread
  <2> QED
    BY <2>1, <2>2 DEF Follows, Coming, Reading
<1> QED
  BY <1>1, CacheInitBehind, BehindStep, PTL DEF CacheSpec

-----------------------------------------------------------------------------
(* The builder: what of the options is in the engine that it returns. *)

BuildSteps == {"idle", "factory", "config", "registry", "links", "subscribe", "channels", "parts",
          "conduits"}
Factories == [providers : SUBSET Oracle, default : Oracle \cup {"none"}]
Weaves == [config : Configuration \cup {"none"}, parts : SUBSET (Wired \cup {"lore"}),
           factory : Factories, conduit : BOOLEAN, subscribed : BOOLEAN,
           voices : SUBSET {c.voice : c \in Channel}, receptors : SUBSET {c.name : c \in Channel}]

AssemblyTyped ==
    /\ {config, asked, document} \subseteq Configuration
    /\ channels \in Seq(Channel) /\ factory \in Factories /\ weave \in Weaves
    /\ actions \in [there : BOOLEAN, names : SUBSET {"request_rite", "conduit__find"}]
    /\ voices \subseteq {c.voice : c \in Channel} /\ oracles \subseteq Oracle
    /\ building \in BuildSteps /\ result \in {"none", "built", "refused"}
    /\ result = "built" => building = "idle"
    /\ {running, closable, clashes} \subseteq Nat

\* What the builder has of the settings, as long as no stored configuration replaced them, and of
\* the providers.
Settled ==
    /\ asked.lock # 0 => explicit
    /\ "configRepository" \notin given =>
          /\ asked.settings \ overwritten \subseteq config.settings
          /\ config.reasoning = asked.reasoning
          /\ asked.lock # 0 => config.lock = asked.lock
    /\ factory # NoFactory =>
          factory.default \in factory.providers /\ oracles \ late \subseteq factory.providers

Past(steps) == building \in steps \/ result = "built"

\* Parts of their own, and Lore with all of its three.
PartsAsked == (given \cap Wired) \cup
    IF {"loreRepository", "loreStore", "loreEmbedder"} \subseteq given THEN {"lore"} ELSE {}

\* What each part of Build has left behind for those after it.
Begun ==
    /\ Past({"config", "registry", "links", "subscribe", "channels", "parts", "conduits"}) =>
          factory # NoFactory
    /\ Past({"links", "subscribe", "channels", "parts", "conduits"}) =>
          /\ weave.config = config /\ Valid(config) /\ weave.factory = factory
          /\ "rites" \in given => actions.there
    /\ Past({"channels", "parts", "conduits"}) => ("rites" \in given => "request_rite" \in actions.names)
    /\ Past({"parts", "conduits"}) =>
          \A i \in DOMAIN channels :
             channels[i].voice \in weave.voices /\ channels[i].name \in weave.receptors
    /\ Past({"conduits"}) => weave.parts = PartsAsked
    /\ weave.conduit => result = "built" /\ (actions.there => "conduit__find" \in actions.names)

\* A subscription is one of an engine that was returned, of a refused one, or of this one.
Unclosed ==
    running <= closable + clashes +
       IF building \in {"channels", "parts", "conduits"} /\ weave.subscribed THEN 1 ELSE 0

Sound == AssemblyTyped /\ Settled /\ Begun /\ Unclosed

LEMMA NoWeaveIs ==
    NoWeave \in Weaves /\ ~NoWeave.conduit /\ ~NoWeave.subscribed /\ NoFactory \in Factories
  BY DEF NoWeave, NoFactory, Weaves, Factories

LEMMA AssemblyStarts == AssemblyInit => Sound
<1> SUFFICES ASSUME AssemblyInit PROVE Sound
  OBVIOUS
<1>1. AssemblyTyped
  BY NoWeaveIs DEF AssemblyInit, AssemblyTyped, DefaultWeaveConfig, Configuration, BuildSteps
<1>2. Settled
  BY DEF AssemblyInit, Settled, DefaultWeaveConfig
<1>3. Begun /\ Unclosed
  BY NoWeaveIs DEF AssemblyInit, Begun, Past, Unclosed
<1> QED
  BY <1>1, <1>2, <1>3 DEF Sound

\* A call of the builder: no engine, and nothing is being built.
LEMMA Called ==
  ASSUME Sound, Call, Settled',
         {config', asked'} \subseteq Configuration, channels' \in Seq(Channel), factory' \in Factories,
         actions' \in [there : BOOLEAN, names : SUBSET {"request_rite", "conduit__find"}],
         voices' \subseteq {c.voice : c \in Channel}, oracles' \subseteq Oracle
  PROVE  Sound'
<1>1. /\ AssemblyTyped /\ Unclosed /\ building = "idle" /\ building' = "idle" /\ result' = "none"
      /\ weave' = NoWeave /\ UNCHANGED <<document, clashes, running, closable>>
  BY DEF Sound, Call
<1>2. AssemblyTyped'
  BY <1>1, NoWeaveIs DEF AssemblyTyped
<1>3. Begun'
  BY <1>1, NoWeaveIs DEF Begun, Past
<1>4. Unclosed'
  BY <1>1 DEF Unclosed, AssemblyTyped
<1> QED
  BY <1>2, <1>3, <1>4 DEF Sound

\* Parts and providers.
LEMMA PartsGiven ==
  ASSUME Sound, \/ \E p \in Part : With(p)
                \/ WithActionRegistry \/ WithVoiceRegistry
                \/ \E c \in Channel : WithChannel(c)
                \/ \E o \in Oracle : AddOracle(o) \/ WithOracleFactory(o)
  PROVE  Sound'
<1>1. /\ AssemblyTyped /\ Settled /\ Call /\ UNCHANGED settingVars /\ given \subseteq given'
  BY DEF Sound, With, WithActionRegistry, WithVoiceRegistry, WithChannel, AddOracle,
         WithOracleFactory
<1>2. /\ {config', asked'} \subseteq Configuration
      /\ asked' = asked /\ config' = config /\ explicit' = explicit /\ overwritten' = overwritten
  BY <1>1 DEF AssemblyTyped, settingVars
<1> DEFINE Goal ==
        /\ channels' \in Seq(Channel) /\ factory' \in Factories
        /\ actions' \in [there : BOOLEAN, names : SUBSET {"request_rite", "conduit__find"}]
        /\ voices' \subseteq {c.voice : c \in Channel} /\ oracles' \subseteq Oracle
        /\ factory' # NoFactory =>
              /\ factory'.default \in factory'.providers
              /\ oracles' \ late' \subseteq factory'.providers
<1>3. ASSUME NEW p \in Part, With(p) PROVE Goal
  BY <1>1, <1>3 DEF With, AssemblyTyped, Settled
<1>4. ASSUME WithActionRegistry PROVE Goal
  BY <1>1, <1>4 DEF WithActionRegistry, AssemblyTyped, Settled
<1>5. ASSUME WithVoiceRegistry PROVE Goal
  BY <1>1, <1>5 DEF WithVoiceRegistry, AssemblyTyped, Settled
<1>6. ASSUME NEW c \in Channel, WithChannel(c) PROVE Goal
  BY <1>1, <1>6 DEF WithChannel, AssemblyTyped, Settled
<1>7. ASSUME NEW o \in Oracle, AddOracle(o) PROVE Goal
  BY <1>1, <1>7 DEF AddOracle, AssemblyTyped, Settled
<1>8. ASSUME NEW o \in Oracle, WithOracleFactory(o) PROVE Goal
  <2>1. /\ factory' = [providers |-> {o}, default |-> o] /\ late' = oracles \ {o}
        /\ UNCHANGED <<channels, actions, voices, oracles>>
    BY <1>8 DEF WithOracleFactory
  <2>2. factory' \in Factories /\ factory'.default = o /\ factory'.providers = {o}
    BY <2>1 DEF Factories
  <2> QED
    BY <1>1, <2>1, <2>2 DEF AssemblyTyped
<1>9. Goal
  BY <1>3, <1>4, <1>5, <1>6, <1>7, <1>8
<1>10. Settled'
  BY <1>1, <1>2, <1>9 DEF Settled
<1> QED
  BY <1>1, <1>2, <1>9, <1>10, Called

\* Settings.
LEMMA SettingsAsked ==
  ASSUME Sound, \/ \E s \in Setting : Tune(s)
                \/ \E ttl \in Lease : WithLockTTL(ttl)
                \/ \E timeout \in Budget : WithReasoningTimeout(timeout)
                \/ \E c \in Preset : WithConfig(c)
  PROVE  Sound'
<1>1. /\ AssemblyTyped /\ Settled /\ Call /\ UNCHANGED partVars
      /\ config \in Configuration /\ asked \in Configuration
  BY DEF Sound, Tune, WithLockTTL, WithReasoningTimeout, WithConfig, AssemblyTyped
<1>2. UNCHANGED <<given, oracles, factory, late, actions, voices, channels>>
  BY <1>1 DEF partVars
<1> DEFINE Goal ==
        /\ config' \in Configuration /\ asked' \in Configuration
        /\ asked'.lock # 0 => explicit'
        /\ "configRepository" \notin given =>
              /\ asked'.settings \ overwritten' \subseteq config'.settings
              /\ config'.reasoning = asked'.reasoning
              /\ asked'.lock # 0 => config'.lock = asked'.lock
<1>3. ASSUME NEW s \in Setting, Tune(s) PROVE Goal
  BY <1>1, <1>3 DEF Tune, Settled, Configuration
<1>4. ASSUME NEW ttl \in Lease, WithLockTTL(ttl) PROVE Goal
  BY <1>1, <1>4, TimesAssumption DEF WithLockTTL, Settled, Configuration
<1>5. ASSUME NEW timeout \in Budget, WithReasoningTimeout(timeout) PROVE Goal
  <2>1. timeout \in Nat /\ timeout + 2 \in Nat
    BY TimesAssumption
  <2>2. /\ config' = [config EXCEPT !.reasoning = timeout,
                                    !.lock = IF explicit THEN config.lock ELSE timeout + 2]
        /\ asked' = [asked EXCEPT !.reasoning = timeout]
        /\ UNCHANGED <<explicit, overwritten>>
    BY <1>5 DEF WithReasoningTimeout
  <2>3. /\ config' \in Configuration /\ asked' \in Configuration
        /\ config'.settings = config.settings /\ asked'.settings = asked.settings
        /\ config'.reasoning = timeout /\ asked'.reasoning = timeout
        /\ asked'.lock = asked.lock /\ (explicit => config'.lock = config.lock)
    BY <1>1, <2>1, <2>2 DEF Configuration
  <2> QED
    BY <1>1, <2>2, <2>3 DEF Settled
<1>6. ASSUME NEW c \in Preset, WithConfig(c) PROVE Goal
  <2>1. c \in Configuration
    BY PresetAssumption
  <2> QED
    BY <1>1, <1>6, <2>1 DEF WithConfig, Settled, Configuration
<1>7. Goal
  BY <1>3, <1>4, <1>5, <1>6
<1>8. Settled'
  BY <1>1, <1>2, <1>7 DEF Settled
<1> QED
  BY <1>1, <1>2, <1>7, <1>8, Called DEF AssemblyTyped

LEMMA Saves ==
  ASSUME Sound, \/ \E c \in Preset : SaveConfig(c)
                \/ UNCHANGED assemblyVars
  PROVE  Sound'
<1>1. /\ UNCHANGED <<settingVars, partVars, clashes, running, closable, building, weave, result>>
      /\ document' \in Configuration
  <2>1. CASE UNCHANGED assemblyVars
    BY <2>1 DEF assemblyVars, Sound, AssemblyTyped
  <2>2. ASSUME NEW c \in Preset, SaveConfig(c)
        PROVE  document' \in Configuration
    <3>1. c \in Configuration
      BY PresetAssumption
    <3> QED
      BY <2>2, <3>1 DEF SaveConfig, Configuration
  <2> QED
    BY <2>1, <2>2 DEF SaveConfig
<1>2. UNCHANGED <<config, explicit, asked, overwritten, given, oracles, factory, late, actions, voices,
                  channels, clashes, running, closable, building, weave, result>>
  BY <1>1 DEF settingVars, partVars
<1> QED
  BY <1>1, <1>2 DEF Sound, AssemblyTyped, Settled, Begun, Past, PartsAsked, Unclosed

-----------------------------------------------------------------------------

\* A call of Build that ends in an error.
LEMMA Refuses ==
  ASSUME Sound, Refuse, building # "idle" \/ result' = "refused", Settled',
         UNCHANGED <<asked, document, channels, actions, voices, oracles>>,
         config' \in Configuration, factory' \in Factories,
         {running', closable', clashes'} \subseteq Nat, running' <= closable' + clashes'
  PROVE  Sound'
<1>1. /\ building' = "idle" /\ result' = "refused" /\ weave' = NoWeave
  BY DEF Refuse
<1>2. AssemblyTyped'
  BY <1>1, NoWeaveIs DEF Sound, AssemblyTyped, BuildSteps
<1>3. Begun'
  BY <1>1, NoWeaveIs DEF Begun, Past
<1>4. Unclosed'
  BY <1>1 DEF Unclosed
<1> QED
  BY <1>2, <1>3, <1>4 DEF Sound

LEMMA Begins ==
  ASSUME Sound, BeginBuild
  PROVE  Sound'
<1>1. /\ UNCHANGED <<settingVars, partVars, document, clashes, running, closable>>
      /\ building = "idle" /\ AssemblyTyped /\ Settled /\ Unclosed
  BY DEF BeginBuild, Sound
<1>2. UNCHANGED <<config, explicit, asked, overwritten, given, oracles, factory, late, actions, voices,
                  channels>>
  BY <1>1 DEF settingVars, partVars
<1>3. Settled'
  BY <1>1, <1>2 DEF Settled
<1>4. running <= closable + clashes /\ {running, closable, clashes} \subseteq Nat
  BY <1>1 DEF Unclosed, AssemblyTyped
<1>5. CASE Refuse
  BY <1>1, <1>2, <1>3, <1>4, <1>5, Refuses DEF AssemblyTyped, Refuse
<1>6. CASE building' = "factory" /\ result' = "none" /\ weave' = NoWeave
  <2>1. AssemblyTyped'
    BY <1>1, <1>2, <1>6, NoWeaveIs DEF AssemblyTyped, BuildSteps
  <2>2. Begun'
    BY <1>6, NoWeaveIs DEF Begun, Past
  <2>3. Unclosed'
    BY <1>1, <1>4, <1>6 DEF Unclosed
  <2> QED
    BY <1>3, <2>1, <2>2, <2>3 DEF Sound
<1> QED
  BY <1>5, <1>6 DEF BeginBuild

LEMMA BuildsFactory ==
  ASSUME Sound, BuildOracleFactory
  PROVE  Sound'
<1>1. /\ UNCHANGED <<settingVars, given, oracles, late, actions, voices, channels, document, clashes,
                     running, closable, weave, result>>
      /\ building = "factory" /\ building' = "config" /\ AssemblyTyped /\ Settled /\ Begun /\ Unclosed
  BY DEF BuildOracleFactory, Sound
<1>2. UNCHANGED <<config, explicit, asked, overwritten>>
  BY <1>1 DEF settingVars
<1>3. /\ factory' \in Factories /\ factory' # NoFactory
      /\ factory'.default \in factory'.providers /\ oracles \ late \subseteq factory'.providers
  <2>1. CASE factory # NoFactory /\ UNCHANGED factory
    BY <1>1, <2>1 DEF AssemblyTyped, Settled
  <2>2. ASSUME NEW o \in oracles, factory' = [providers |-> oracles, default |-> o]
        PROVE  /\ factory' \in Factories /\ factory' # NoFactory
               /\ factory'.default \in factory'.providers /\ oracles \ late \subseteq factory'.providers
    <3>1. oracles \subseteq Oracle
      BY <1>1 DEF AssemblyTyped
    <3>2. factory'.providers = oracles /\ factory'.default = o /\ NoFactory.providers = {}
      BY <2>2 DEF NoFactory
    <3>3. factory' \in Factories
      BY <2>2, <3>1 DEF Factories
    <3> QED
      BY <3>2, <3>3
  <2> QED
    BY <2>1, <2>2 DEF BuildOracleFactory
<1>4. AssemblyTyped'
  BY <1>1, <1>2, <1>3 DEF AssemblyTyped, BuildSteps
<1>5. Settled'
  BY <1>1, <1>2, <1>3 DEF Settled
<1>6. Begun'
  BY <1>1, <1>3 DEF Begun, Past, AssemblyTyped
<1>7. Unclosed'
  BY <1>1 DEF Unclosed
<1> QED
  BY <1>4, <1>5, <1>6, <1>7 DEF Sound

LEMMA LoadsConfig ==
  ASSUME Sound, LoadConfig
  PROVE  Sound'
<1>1. /\ UNCHANGED <<explicit, asked, overwritten, partVars, document, clashes, running, closable>>
      /\ building = "config" /\ AssemblyTyped /\ Settled /\ Begun /\ Unclosed
  BY DEF LoadConfig, Sound
<1>2. UNCHANGED <<given, oracles, factory, late, actions, voices, channels>>
  BY <1>1 DEF partVars
<1>3. /\ config' \in Configuration
      /\ "configRepository" \notin given => config' = config
  BY <1>1 DEF LoadConfig, AssemblyTyped
<1>4. Settled'
  BY <1>1, <1>2, <1>3 DEF Settled
<1>5. running <= closable + clashes /\ {running, closable, clashes} \subseteq Nat
  BY <1>1 DEF Unclosed, AssemblyTyped
<1>6. CASE Refuse
  BY <1>1, <1>2, <1>3, <1>4, <1>5, <1>6, Refuses DEF AssemblyTyped, Refuse
<1>7. CASE building' = "registry" /\ UNCHANGED <<weave, result>>
  <2>1. AssemblyTyped'
    BY <1>1, <1>2, <1>3, <1>7 DEF AssemblyTyped, BuildSteps
  <2>2. Begun'
    BY <1>1, <1>2, <1>7 DEF Begun, Past, AssemblyTyped
  <2>3. Unclosed'
    BY <1>1, <1>5, <1>7 DEF Unclosed
  <2> QED
    BY <1>4, <2>1, <2>2, <2>3 DEF Sound
<1> QED
  BY <1>6, <1>7 DEF LoadConfig

LEMMA MakesWeave ==
  ASSUME Sound, NewWeave
  PROVE  Sound'
<1>1. /\ UNCHANGED <<settingVars, given, oracles, factory, late, voices, channels, document, clashes,
                     running, closable, made>>
      /\ building = "registry" /\ AssemblyTyped /\ Settled /\ Begun /\ Unclosed
  BY DEF NewWeave, Sound
<1>2. UNCHANGED <<config, explicit, asked, overwritten>>
  BY <1>1 DEF settingVars
<1>3. /\ actions' \in [there : BOOLEAN, names : SUBSET {"request_rite", "conduit__find"}]
      /\ "rites" \in given => actions'.there
  BY <1>1 DEF NewWeave, AssemblyTyped
<1>4. Settled'
  BY <1>1, <1>2 DEF Settled
<1>5. running <= closable + clashes /\ {running, closable, clashes} \subseteq Nat
  BY <1>1 DEF Unclosed, AssemblyTyped
<1>6. config \in Configuration /\ factory \in Factories /\ factory # NoFactory /\ result # "built"
  BY <1>1 DEF AssemblyTyped, Begun, Past
<1>7. CASE Refuse
  <2>1. /\ building' = "idle" /\ result' = "refused" /\ weave' = NoWeave
    BY <1>7 DEF Refuse
  <2>2. AssemblyTyped'
    BY <1>1, <1>2, <1>3, <2>1, NoWeaveIs DEF AssemblyTyped, BuildSteps
  <2>3. Begun'
    BY <2>1, NoWeaveIs DEF Begun, Past
  <2>4. Unclosed'
    BY <1>1, <1>5, <2>1 DEF Unclosed
  <2> QED
    BY <1>4, <2>2, <2>3, <2>4 DEF Sound
<1>8. CASE /\ Valid(config) /\ building' = "links" /\ UNCHANGED result
           /\ weave' = [NoWeave EXCEPT !.config = config, !.factory = factory]
  <2>1. /\ weave' \in Weaves /\ weave'.config = config /\ weave'.factory = factory
        /\ ~weave'.conduit
    BY <1>6, <1>8, NoWeaveIs DEF Weaves, NoWeave
  <2>2. AssemblyTyped'
    BY <1>1, <1>2, <1>3, <1>8, <2>1 DEF AssemblyTyped, BuildSteps
  <2>3. Valid(config)'
    BY <1>2, <1>8 DEF Valid
  <2>4. Begun'
    BY <1>1, <1>2, <1>3, <1>6, <1>8, <2>1, <2>3 DEF Begun, Past
  <2>5. Unclosed'
    BY <1>1, <1>5, <1>8 DEF Unclosed
  <2> QED
    BY <1>4, <2>2, <2>4, <2>5 DEF Sound
<1> QED
  BY <1>7, <1>8 DEF NewWeave

\* What the rest of Build leaves alone.
LEMMA BuildsOn ==
  ASSUME Sound, building \in {"links", "subscribe", "channels", "parts", "conduits"},
         UNCHANGED <<settingVars, given, oracles, factory, late, channels, document>>,
         weave' \in Weaves, weave'.config = weave.config, weave'.factory = weave.factory,
         building' \in BuildSteps, result' \in {"none", "built", "refused"}, result' = "built" => building' = "idle",
         actions' \in [there : BOOLEAN, names : SUBSET {"request_rite", "conduit__find"}],
         actions'.there = actions.there, actions.names \subseteq actions'.names,
         voices' \subseteq {c.voice : c \in Channel}, {running', closable', clashes'} \subseteq Nat
  PROVE  /\ AssemblyTyped' /\ Settled'
         /\ weave'.config = config' /\ Valid(config)' /\ weave'.factory = factory'
         /\ factory' # NoFactory /\ ("rites" \in given' => actions'.there) /\ result # "built"
<1>1. /\ AssemblyTyped /\ Settled /\ Begun /\ weave'.config = weave.config
      /\ weave'.factory = weave.factory
  BY DEF Sound
<1>2. UNCHANGED <<config, explicit, asked, overwritten>>
  BY DEF settingVars
<1>3. AssemblyTyped'
  BY <1>1, <1>2 DEF AssemblyTyped
<1>4. Settled'
  BY <1>1, <1>2 DEF Settled
<1>5. /\ weave.config = config /\ Valid(config) /\ weave.factory = factory /\ factory # NoFactory
      /\ "rites" \in given => actions.there
  BY <1>1 DEF Begun, Past
<1>6. Valid(config)'
  BY <1>2, <1>5 DEF Valid
<1> QED
  BY <1>1, <1>2, <1>3, <1>4, <1>5, <1>6 DEF AssemblyTyped

LEMMA LoadsLinks ==
  ASSUME Sound, LoadLinks
  PROVE  Sound'
<1>1. /\ UNCHANGED <<settingVars, partVars, document, clashes, running, closable>>
      /\ building = "links" /\ AssemblyTyped /\ Settled /\ Begun /\ Unclosed
  BY DEF LoadLinks, Sound
<1>2. UNCHANGED <<config, explicit, asked, overwritten, given, oracles, factory, late, actions, voices,
                  channels>>
  BY <1>1 DEF settingVars, partVars
<1>3. Settled'
  BY <1>1, <1>2 DEF Settled
<1>4. running <= closable + clashes /\ {running, closable, clashes} \subseteq Nat
  BY <1>1 DEF Unclosed, AssemblyTyped
<1>5. CASE Refuse
  BY <1>1, <1>2, <1>3, <1>4, <1>5, Refuses DEF AssemblyTyped, Refuse
<1>6. CASE building' = "subscribe" /\ UNCHANGED <<weave, result>>
  <2>1. AssemblyTyped'
    BY <1>1, <1>2, <1>6 DEF AssemblyTyped, BuildSteps
  <2>2. Valid(config)' = Valid(config)
    BY <1>2 DEF Valid
  <2>3. Begun'
    BY <1>1, <1>2, <1>6, <2>2 DEF Begun, Past, AssemblyTyped
  <2>4. Unclosed'
    BY <1>1, <1>4, <1>6 DEF Unclosed
  <2> QED
    BY <1>3, <2>1, <2>3, <2>4 DEF Sound
<1> QED
  BY <1>5, <1>6 DEF LoadLinks

\* An Action of the engine is in the registry, if there is one.
LEMMA Registrations ==
  ASSUME actions \in [there : BOOLEAN, names : SUBSET {"request_rite", "conduit__find"}],
         NEW name \in {"request_rite", "conduit__find"}, Registered(name)
  PROVE  /\ actions' \in [there : BOOLEAN, names : SUBSET {"request_rite", "conduit__find"}]
         /\ actions'.there = actions.there /\ actions.names \subseteq actions'.names
         /\ actions.there => name \in actions'.names
<1>1. CASE actions.there
  BY <1>1 DEF Registered
<1>2. CASE ~actions.there
  BY <1>2 DEF Registered
<1> QED
  BY <1>1, <1>2

LEMMA Subscribes ==
  ASSUME Sound, SubscribeCache
  PROVE  Sound'
<1>1. /\ UNCHANGED <<settingVars, given, oracles, factory, late, voices, channels, document, clashes,
                     closable, result>>
      /\ building = "subscribe" /\ building' = "channels" /\ AssemblyTyped /\ Begun /\ Unclosed
      /\ RegisterRite
      /\ running' = IF "pubSub" \in given THEN running + 1 ELSE running
      /\ weave' = [weave EXCEPT !.subscribed = "pubSub" \in given]
  BY DEF SubscribeCache, Sound
<1>2. /\ actions' \in [there : BOOLEAN, names : SUBSET {"request_rite", "conduit__find"}]
      /\ actions'.there = actions.there /\ actions.names \subseteq actions'.names
      /\ "rites" \in given /\ actions.there => "request_rite" \in actions'.names
  BY <1>1, Registrations DEF RegisterRite, AssemblyTyped
<1>3. /\ weave' \in Weaves /\ weave'.config = weave.config /\ weave'.factory = weave.factory
      /\ weave'.conduit = weave.conduit /\ ("pubSub" \in given => weave'.subscribed)
  <2> DEFINE subscribes == "pubSub" \in given
  <2>1. weave \in Weaves /\ subscribes \in BOOLEAN /\ weave' = [weave EXCEPT !.subscribed = subscribes]
    BY <1>1 DEF AssemblyTyped
  <2>2. "pubSub" \in given => subscribes
    OBVIOUS
  <2> HIDE DEF subscribes
  <2>3. CASE subscribes = TRUE
    BY <2>1, <2>2, <2>3 DEF Weaves
  <2>4. CASE subscribes = FALSE
    BY <2>1, <2>2, <2>4 DEF Weaves
  <2> QED
    BY <2>1, <2>3, <2>4
<1>4. running <= closable + clashes /\ {running, closable, clashes} \subseteq Nat /\ running' \in Nat
  BY <1>1 DEF Unclosed, AssemblyTyped
<1>5. result # "built" /\ result \in {"none", "built", "refused"} /\ building' \in BuildSteps /\ ~weave.conduit
  BY <1>1 DEF AssemblyTyped, BuildSteps, Begun
<1>6. voices' \subseteq {c.voice : c \in Channel} /\ {running', closable', clashes'} \subseteq Nat
  BY <1>1, <1>4 DEF AssemblyTyped
<1>7. /\ AssemblyTyped' /\ Settled'
      /\ weave'.config = config' /\ Valid(config)' /\ weave'.factory = factory'
      /\ factory' # NoFactory /\ ("rites" \in given' => actions'.there)
  BY <1>1, <1>2, <1>3, <1>5, <1>6, BuildsOn
<1>8. Begun'
  <2>1. building' = "channels" /\ result' # "built" /\ ~weave'.conduit
    BY <1>1, <1>3, <1>5
  <2>2. "rites" \in given' => "request_rite" \in actions'.names
    BY <1>1, <1>2, <1>7
  <2> QED
    BY <1>7, <2>1, <2>2 DEF Begun, Past
<1>9. Unclosed'
  BY <1>1, <1>3, <1>4 DEF Unclosed
<1> QED
  BY <1>7, <1>8, <1>9 DEF Sound

\* The Voices of the first channels are names of Voices; those of all of them cover every channel.
LEMMA VoicesOfChannels ==
  ASSUME channels \in Seq(Channel), NEW n \in 0..Len(channels)
  PROVE  /\ VoicesOf(n) \subseteq {c.voice : c \in Channel}
         /\ {channels[i].name : i \in 1..n} \subseteq {c.name : c \in Channel}
         /\ n = Len(channels) => \A i \in DOMAIN channels :
               channels[i].voice \in VoicesOf(n) /\ channels[i].name \in {channels[j].name : j \in 1..n}
<1>1. \A i \in 1..n : channels[i] \in Channel
  OBVIOUS
<1>2. DOMAIN channels = 1..Len(channels)
  OBVIOUS
<1> QED
  BY <1>1, <1>2 DEF VoicesOf

LEMMA RegistersChannels ==
  ASSUME Sound, RegisterChannels
  PROVE  Sound'
<1>1. /\ UNCHANGED <<settingVars, given, oracles, factory, late, actions, channels, document, running,
                     closable>>
      /\ building = "channels" /\ AssemblyTyped /\ Settled /\ Begun /\ Unclosed
  BY DEF RegisterChannels, Sound
<1>2. UNCHANGED <<config, explicit, asked, overwritten>>
  BY <1>1 DEF settingVars
<1>3. PICK n \in Fitting :
          /\ voices' = IF "voices" \in given THEN voices \cup VoicesOf(n) ELSE voices
          /\ IF n = Len(channels)
             THEN /\ building' = "parts" /\ UNCHANGED <<result, clashes>>
                  /\ weave' = [weave EXCEPT !.voices = Base \cup VoicesOf(n),
                                            !.receptors = {channels[i].name : i \in 1..n}]
             ELSE Refuse /\ clashes' = clashes + 1
  BY DEF RegisterChannels
<1>4. n \in 0..Len(channels) /\ channels \in Seq(Channel) /\ weave \in Weaves
  BY <1>1, <1>3 DEF Fitting, AssemblyTyped
<1>5. /\ VoicesOf(n) \subseteq {c.voice : c \in Channel}
      /\ {channels[i].name : i \in 1..n} \subseteq {c.name : c \in Channel}
      /\ n = Len(channels) => \A i \in DOMAIN channels :
            channels[i].voice \in VoicesOf(n) /\ channels[i].name \in {channels[j].name : j \in 1..n}
  BY <1>4, VoicesOfChannels
<1> DEFINE all == VoicesOf(n)
           names == {channels[i].name : i \in 1..n}
<1>6. voices' \subseteq {c.voice : c \in Channel} /\ Base \subseteq {c.voice : c \in Channel}
  BY <1>1, <1>3, <1>5 DEF AssemblyTyped, Base
<1>7. {running, closable, clashes} \subseteq Nat
  BY <1>1 DEF AssemblyTyped
<1>8. CASE n # Len(channels)
  <2>1. building' = "idle" /\ result' = "refused" /\ weave' = NoWeave /\ clashes' = clashes + 1
    BY <1>3, <1>8 DEF Refuse
  <2>2. AssemblyTyped'
    BY <1>1, <1>2, <1>6, <1>7, <2>1, NoWeaveIs DEF AssemblyTyped, BuildSteps
  <2>3. Settled'
    BY <1>1, <1>2 DEF Settled
  <2>4. Begun'
    BY <2>1, NoWeaveIs DEF Begun, Past
  <2>5. running' <= closable' + clashes'
    BY <1>1, <1>7, <2>1 DEF Unclosed
  <2>6. Unclosed'
    BY <1>1, <1>7, <2>1, <2>5 DEF Unclosed
  <2> QED
    BY <2>2, <2>3, <2>4, <2>6 DEF Sound
<1>9. CASE n = Len(channels)
  <2>1. /\ building' = "parts" /\ result' = result /\ clashes' = clashes
        /\ weave' = [weave EXCEPT !.voices = Base \cup all, !.receptors = names]
    BY <1>3, <1>9
  <2>2. /\ Base \cup all \subseteq {c.voice : c \in Channel}
        /\ names \subseteq {c.name : c \in Channel}
        /\ \A i \in DOMAIN channels :
              channels[i].voice \in Base \cup all /\ channels[i].name \in names
    BY <1>5, <1>6, <1>9
  <2> HIDE DEF all, names
  <2>3. /\ weave' \in Weaves /\ weave'.config = weave.config /\ weave'.factory = weave.factory
        /\ weave'.conduit = weave.conduit /\ weave'.subscribed = weave.subscribed
        /\ weave'.voices = Base \cup all /\ weave'.receptors = names
    BY <1>4, <2>1, <2>2 DEF Weaves
  <2>4. /\ result # "built" /\ result \in {"none", "built", "refused"} /\ building' \in BuildSteps
        /\ ~weave.conduit
        /\ "rites" \in given => "request_rite" \in actions.names
    BY <1>1, <2>1 DEF AssemblyTyped, BuildSteps, Begun, Past
  <2>5. actions \in [there : BOOLEAN, names : SUBSET {"request_rite", "conduit__find"}]
    BY <1>1 DEF AssemblyTyped
  <2>6. /\ AssemblyTyped' /\ Settled'
        /\ weave'.config = config' /\ Valid(config)' /\ weave'.factory = factory'
        /\ factory' # NoFactory /\ ("rites" \in given' => actions'.there)
    BY <1>1, <1>6, <1>7, <2>1, <2>3, <2>4, <2>5, BuildsOn
  <2>7. \A i \in DOMAIN channels' :
           channels'[i].voice \in weave'.voices /\ channels'[i].name \in weave'.receptors
    BY <1>1, <2>2, <2>3
  <2>8. /\ building' = "parts" /\ result' # "built" /\ ~weave'.conduit
        /\ "rites" \in given' => "request_rite" \in actions'.names
    BY <1>1, <2>1, <2>3, <2>4
  <2>9. Begun'
    BY <2>6, <2>7, <2>8 DEF Begun, Past
  <2>10. Unclosed'
    BY <1>1, <1>7, <2>1, <2>3 DEF Unclosed
  <2> QED
    BY <2>6, <2>9, <2>10 DEF Sound
<1> QED
  BY <1>8, <1>9

LEMMA WiresParts ==
  ASSUME Sound, WireParts
  PROVE  Sound'
<1>1. /\ UNCHANGED <<settingVars, partVars, document, clashes, running, closable, result>>
      /\ building = "parts" /\ building' = "conduits" /\ AssemblyTyped /\ Begun /\ Unclosed
      /\ weave' = [weave EXCEPT !.parts = PartsAsked]
  BY DEF WireParts, Sound, PartsAsked
<1>2. UNCHANGED <<given, oracles, factory, late, actions, voices, channels>>
  BY <1>1 DEF partVars
<1>3. PartsAsked \subseteq Wired \cup {"lore"} /\ weave \in Weaves
  BY <1>1 DEF AssemblyTyped, PartsAsked
<1>4. PartsAsked' = PartsAsked
  BY <1>2 DEF PartsAsked
<1>5. /\ weave' \in Weaves /\ weave'.config = weave.config /\ weave'.factory = weave.factory
      /\ weave'.conduit = weave.conduit /\ weave'.subscribed = weave.subscribed
      /\ weave'.voices = weave.voices /\ weave'.receptors = weave.receptors /\ weave'.parts = PartsAsked
  BY <1>1, <1>3 DEF Weaves
<1>6. /\ result # "built" /\ result \in {"none", "built", "refused"} /\ building' \in BuildSteps
      /\ ~weave.conduit
      /\ "rites" \in given => "request_rite" \in actions.names
      /\ \A i \in DOMAIN channels :
            channels[i].voice \in weave.voices /\ channels[i].name \in weave.receptors
  BY <1>1 DEF AssemblyTyped, BuildSteps, Begun, Past
<1>7. /\ actions \in [there : BOOLEAN, names : SUBSET {"request_rite", "conduit__find"}]
      /\ voices \subseteq {c.voice : c \in Channel} /\ {running, closable, clashes} \subseteq Nat
  BY <1>1 DEF AssemblyTyped
<1>8. /\ AssemblyTyped' /\ Settled'
      /\ weave'.config = config' /\ Valid(config)' /\ weave'.factory = factory'
      /\ factory' # NoFactory /\ ("rites" \in given' => actions'.there)
  BY <1>1, <1>2, <1>5, <1>6, <1>7, BuildsOn
<1>9. /\ building' = "conduits" /\ result' # "built" /\ ~weave'.conduit
      /\ "rites" \in given' => "request_rite" \in actions'.names
      /\ \A i \in DOMAIN channels' :
            channels'[i].voice \in weave'.voices /\ channels'[i].name \in weave'.receptors
      /\ weave'.parts = PartsAsked'
  BY <1>1, <1>2, <1>4, <1>5, <1>6
<1>10. Begun'
  BY <1>8, <1>9 DEF Begun, Past
<1>11. Unclosed'
  BY <1>1, <1>5, <1>7 DEF Unclosed
<1> QED
  BY <1>8, <1>10, <1>11 DEF Sound

LEMMA WiresConduits ==
  ASSUME Sound, WireConduits
  PROVE  Sound'
<1>1. /\ UNCHANGED <<settingVars, given, oracles, factory, late, voices, channels, document, clashes,
                     running>>
      /\ building = "conduits" /\ building' = "idle" /\ result' = "built"
      /\ AssemblyTyped /\ Begun /\ Unclosed
      /\ closable' = IF weave.subscribed THEN closable + 1 ELSE closable
  BY DEF WireConduits, Sound
<1>2. /\ actions \in [there : BOOLEAN, names : SUBSET {"request_rite", "conduit__find"}]
      /\ voices \subseteq {c.voice : c \in Channel} /\ {running, closable, clashes} \subseteq Nat
      /\ weave \in Weaves /\ "idle" \in BuildSteps
  BY <1>1 DEF AssemblyTyped, BuildSteps
<1>3. /\ ~weave.conduit
      /\ "rites" \in given => "request_rite" \in actions.names
      /\ \A i \in DOMAIN channels :
            channels[i].voice \in weave.voices /\ channels[i].name \in weave.receptors
      /\ weave.parts = PartsAsked
  BY <1>1 DEF AssemblyTyped, Begun, Past
<1>4. /\ actions' \in [there : BOOLEAN, names : SUBSET {"request_rite", "conduit__find"}]
      /\ actions'.there = actions.there /\ actions.names \subseteq actions'.names
      /\ weave' \in Weaves /\ weave'.config = weave.config /\ weave'.factory = weave.factory
      /\ weave'.voices = weave.voices /\ weave'.receptors = weave.receptors
      /\ weave'.parts = weave.parts
      /\ weave'.conduit /\ actions.there => "conduit__find" \in actions'.names
  <2>1. CASE UNCHANGED <<actions, weave>>
    BY <1>2, <1>3, <2>1
  <2>2. CASE Registered("conduit__find") /\ weave' = [weave EXCEPT !.conduit = TRUE]
    <3>1. /\ actions' \in [there : BOOLEAN, names : SUBSET {"request_rite", "conduit__find"}]
          /\ actions'.there = actions.there /\ actions.names \subseteq actions'.names
          /\ actions.there => "conduit__find" \in actions'.names
      BY <1>2, <2>2, Registrations
    <3>2. /\ weave' \in Weaves /\ weave'.config = weave.config /\ weave'.factory = weave.factory
          /\ weave'.voices = weave.voices /\ weave'.receptors = weave.receptors
          /\ weave'.parts = weave.parts
      BY <1>2, <2>2 DEF Weaves
    <3> QED
      BY <3>1, <3>2
  <2> QED
    BY <2>1, <2>2 DEF WireConduits
<1>5. closable' \in Nat /\ running <= closable'+ clashes
  BY <1>1, <1>2 DEF Unclosed
<1>6. /\ AssemblyTyped' /\ Settled'
      /\ weave'.config = config' /\ Valid(config)' /\ weave'.factory = factory'
      /\ factory' # NoFactory /\ ("rites" \in given' => actions'.there)
  BY <1>1, <1>2, <1>4, <1>5, BuildsOn
<1>7. /\ "rites" \in given' => "request_rite" \in actions'.names
      /\ \A i \in DOMAIN channels' :
            channels'[i].voice \in weave'.voices /\ channels'[i].name \in weave'.receptors
      /\ weave'.conduit => (actions'.there => "conduit__find" \in actions'.names)
  BY <1>1, <1>3, <1>4
<1>8. weave'.parts = PartsAsked'
  BY <1>1, <1>3, <1>4 DEF PartsAsked
<1>9. Begun'
  <2>1. result' = "built"
    BY <1>1
  <2>2. (weave.conduit => result = "built" /\ (actions.there => "conduit__find" \in actions.names))'
    BY <1>7, <2>1
  <2>3. ("rites" \in given => actions.there)' /\ ("rites" \in given => "request_rite" \in actions.names)'
    BY <1>6, <1>7
  <2>4. (\A i \in DOMAIN channels :
            channels[i].voice \in weave.voices /\ channels[i].name \in weave.receptors)'
    BY <1>7
  <2> QED
    BY <1>6, <1>8, <2>2, <2>3, <2>4 DEF Begun, Past
<1>10. Unclosed'
  BY <1>1, <1>2, <1>5 DEF Unclosed
<1> QED
  BY <1>6, <1>9, <1>10 DEF Sound

\* Every step keeps it.
LEMMA SoundHolds == AssemblySpec => []Sound
<1>1. Sound /\ [AssemblyNext]_assemblyVars => Sound'
  BY PartsGiven, SettingsAsked, Saves, Begins, BuildsFactory, LoadsConfig, MakesWeave, LoadsLinks,
     Subscribes, RegistersChannels, WiresParts, WiresConduits DEF AssemblyNext
<1> QED
  BY <1>1, AssemblyStarts, PTL DEF AssemblySpec

\* However many options are given, in whatever order and between however many calls of Build: the
\* engine that a call returns has them, except where the code drops one without an error, and is
\* consistent in itself; and only a refusal for a Voice leaves a subscription that nobody can
\* close (builder.go; config.go, Validate).
THEOREM EnginesAreAsAsked == AssemblySpec => []EngineIsAsAsked
<1>1. Sound => EngineIsAsAsked
  <2> SUFFICES ASSUME Sound PROVE EngineIsAsAsked
    OBVIOUS
  <2>1. AssemblyTyped /\ Settled /\ Begun /\ Unclosed
    BY DEF Sound
  <2>2. building = "idle" => running <= closable + clashes
    BY <2>1 DEF Unclosed, AssemblyTyped
  <2>3. ASSUME result = "built"
        PROVE  /\ weave.config = config /\ Valid(config) /\ weave.factory = factory
               /\ factory # NoFactory
               /\ "rites" \in given => "request_rite" \in actions.names
               /\ weave.conduit /\ actions.there => "conduit__find" \in actions.names
               /\ \A i \in DOMAIN channels :
                     channels[i].voice \in weave.voices /\ channels[i].name \in weave.receptors
               /\ weave.parts = PartsAsked
    BY <2>1, <2>3 DEF Begun, Past
  <2>4. result = "built" => weave.config.lock > weave.config.reasoning
    BY <2>1, <2>3 DEF Valid, AssemblyTyped, Configuration
  <2>5. result = "built" =>
           /\ given \cap Wired \subseteq weave.parts
           /\ "lore" \in weave.parts <=>
                 {"loreRepository", "loreStore", "loreEmbedder"} \subseteq given
    BY <2>3, LoreAssumption DEF PartsAsked
  <2>6. /\ "configRepository" \notin given =>
              /\ asked.settings \ overwritten \subseteq config.settings
              /\ config.reasoning = asked.reasoning
              /\ asked.lock # 0 => config.lock = asked.lock
        /\ factory # NoFactory =>
              factory.default \in factory.providers /\ oracles \ late \subseteq factory.providers
    BY <2>1 DEF Settled
  <2> QED
    BY <2>2, <2>3, <2>4, <2>5, <2>6 DEF EngineIsAsAsked
<1> QED
  BY <1>1, SoundHolds, PTL

-----------------------------------------------------------------------------
(* Lore: whose each stored chunk is, and how far each ingestion has come. *)

Of(c) == <<c.lore, c.doc>>
FoundIn(s, C) == {c \in C : c.lore = s[1] /\ c.doc = s[2]}
Jobs == [source : Source \cup {NoIngest.source}, text : Nat, total : Nat, next : Nat,
         step : {"idle", "ensure", "create", "write", "insert"}, spoilt : BOOLEAN]

LoreTyped ==
    /\ ingest \in [Ingestor -> Jobs] /\ ingests \in Nat
    /\ latest \in [Source -> [text : Nat, total : Nat]] /\ forms \in [Source -> SUBSET (Nat \ {0})]

\* Each chunk is one of the source that its fields name, in a number that this was cut into.
Placed(C) ==
    \A c \in C :
       /\ Of(c) \in Source
       /\ \E m \in forms[Of(c)] : \E i \in 0..(m - 1) : c.id = ChunkId(Of(c), i, m)

\* Of two sources with the same keys that have chunks, neither is settled; one without any was
\* never complete.
Marked ==
    /\ \A s, t \in Source :
          s # t /\ Collide(s, t) /\ forms[s] # {} /\ forms[t] # {} => s \in unsettled
    /\ \A s \in Source : forms[s] = {} => latest[s] = Never

\* The first k chunks of the text are there, and nothing else under their ids.
Written(C, s, text, n, k) ==
    /\ \A i \in 0..(k - 1) : Chunk(s, text, i, n) \in C
    /\ \A c \in FoundIn(s, C) : \A i \in 0..(k - 1) :
          c.id = ChunkId(s, i, n) => c = Chunk(s, text, i, n)

\* An ingestion that nothing spoilt is alone with its keys, and has come as far as it counts.
Alone(w) ==
    /\ \A t \in Source : t # ingest[w].source /\ Collide(ingest[w].source, t) => forms[t] = {}
    /\ \A v \in Ingestor : v # w /\ ingest[v].step # "idle" =>
          ~Collide(ingest[w].source, ingest[v].source)
Advanced(w, C) ==
    LET r == ingest[w] IN
    /\ Written(C, r.source, r.text, r.total, r.next)
    /\ r.step = "insert" => \A c \in FoundIn(r.source, C) : c.id # ChunkId(r.source, r.next, r.total)
Works(w) ==
    LET r == ingest[w] IN
    /\ r.step = "idle" => r = NoIngest
    /\ r.step # "idle" =>
          /\ r.source \in Source /\ r.total \in forms[r.source] /\ r.next < r.total
          /\ ~r.spoilt => Alone(w) /\ Advanced(w, chunks)

Fresh(s) ==
    \/ s \in unsettled \/ s[1] \in deleting
    \/ \E w \in Ingestor : ingest[w].source = s
    \/ FoundIn(s, chunks) = Chunks(s, latest[s].text, latest[s].total)

Current ==
    /\ LoreTyped /\ Placed(chunks) /\ Marked
    /\ \A w \in Ingestor : Works(w)
    /\ \A s \in Source : Fresh(s)

LEMMA SourcesAre ==
  ASSUME NEW s \in Source, NEW t \in Source
  PROVE  s = <<s[1], s[2]>> /\ s[2] # t[1] /\ (s[1] = t[1] /\ s[2] = t[2] => s = t)
         /\ s # NoIngest.source
  BY SourceAssumption DEF NoIngest

\* Chunks of the same id are of sources that collide.
LEMMA KeysCollide ==
  ASSUME NEW s \in Source, NEW t \in Source, NEW i \in Nat, NEW j \in Nat, NEW n, NEW m,
         ChunkId(s, i, n) = ChunkId(t, j, m), store = "pinecone" => s[1] = t[1]
  PROVE  Collide(s, t)
<1>1. s[2] # t[1] /\ t[2] # s[1]
  BY SourcesAre
<1>2. CASE s[2] = NoDocument /\ t[2] = NoDocument
  BY <1>2 DEF ChunkId, Collide
<1>3. CASE s[2] = NoDocument /\ t[2] # NoDocument
  BY <1>1, <1>3 DEF ChunkId
<1>4. CASE s[2] # NoDocument /\ t[2] = NoDocument
  BY <1>1, <1>4 DEF ChunkId
<1>5. CASE s[2] # NoDocument /\ t[2] # NoDocument
  BY <1>5 DEF ChunkId, Collide
<1> QED
  BY <1>2, <1>3, <1>4, <1>5

\* The ids of a text are of one piece each, and a text covers those of another.
LEMMA IdsDiffer ==
  ASSUME NEW s, NEW n \in Nat, NEW i \in 0..(n - 1), NEW j \in 0..(n - 1),
         ChunkId(s, i, n) = ChunkId(s, j, n)
  PROVE  i = j
  BY DEF ChunkId

LEMMA IdsAreCovered ==
  ASSUME NEW s, NEW n \in Nat \ {0}, NEW m \in Nat \ {0}, Covers(n, m), NEW i \in 0..(m - 1)
  PROVE  \E j \in 0..(n - 1) : ChunkId(s, i, m) = ChunkId(s, j, n)
  BY DEF Covers, ChunkId

LEMMA ChunkIs ==
  ASSUME NEW s \in Source, NEW text, NEW i, NEW n
  PROVE  /\ Of(Chunk(s, text, i, n)) = s
         /\ Chunk(s, text, i, n).id = ChunkId(s, i, n)
         /\ Chunk(s, text, i, n).lore = s[1] /\ Chunk(s, text, i, n).doc = s[2]
  BY SourcesAre DEF Chunk, Of

LEMMA FoundAre ==
  ASSUME NEW C, Placed(C), NEW s \in Source, NEW c
  PROVE  c \in FoundIn(s, C) <=> c \in C /\ Of(c) = s
  BY SourcesAre DEF FoundIn, Of, Placed

-----------------------------------------------------------------------------

\* What a store does with chunks of one source.
LEMMA PutKeeps ==
  ASSUME Placed(chunks), NEW s \in Source, NEW n \in forms[s], forms \in [Source -> SUBSET (Nat \ {0})],
         NEW text, NEW new, new \subseteq Chunks(s, text, n)
  PROVE  /\ Placed(Put(new, chunks))
         /\ \A t \in Source : ~Collide(s, t) => FoundIn(t, Put(new, chunks)) = FoundIn(t, chunks)
         /\ (\A t \in Source : t # s /\ Collide(s, t) => forms[t] = {}) =>
               /\ new \subseteq Put(new, chunks)
               /\ \A c \in FoundIn(s, Put(new, chunks)) :
                     c \in new \/ (c \in FoundIn(s, chunks) /\ \A e \in new : c.id # e.id)
               /\ \A c \in FoundIn(s, chunks) : c \in Put(new, chunks) \/ \E e \in new : c.id = e.id
<1> DEFINE C == Put(new, chunks)
           Moved(c, d) == [c EXCEPT !.lore = d.lore]
<1>1. n \in Nat \ {0}
  OBVIOUS
<1>2. \A e \in new : \E i \in 0..(n - 1) : e = Chunk(s, text, i, n)
  BY DEF Chunks
<1>3. \A e \in new : Of(e) = s /\ e.lore = s[1] /\ e.doc = s[2] /\ \E i \in 0..(n - 1) : e.id = ChunkId(s, i, n)
  BY <1>2, ChunkIs
<1>4. ASSUME NEW d \in chunks, NEW e \in new, SameKey(d, e)
      PROVE  /\ Of(d) \in Source /\ Collide(s, Of(d)) /\ d.id = e.id
             /\ Moved(e, d).id = d.id /\ Of(Moved(e, d)) = Of(d)
             /\ Moved(e, d).lore = d.lore
             /\ Of(d) = s => Moved(e, d) = e
  <2>0. PICK m \in forms[Of(d)] : Of(d) \in Source /\ \E i \in 0..(m - 1) : d.id = ChunkId(Of(d), i, m)
    BY DEF Placed
  <2>1. PICK i \in 0..(m - 1) : d.id = ChunkId(Of(d), i, m)
    BY <2>0
  <2>2. PICK j \in 0..(n - 1) : e = Chunk(s, text, j, n)
    BY <1>2
  <2>3. e.id = ChunkId(s, j, n) /\ e.lore = s[1] /\ e.doc = s[2] /\ d.id = e.id
        /\ Of(d)[1] = d.lore /\ Of(d)[2] = d.doc
    BY <2>2, ChunkIs, <1>4 DEF SameKey, Of
  <2>4. m \in Nat /\ i \in Nat /\ j \in Nat
    BY <1>1, <2>0, <2>1
  <2>5. Collide(s, Of(d))
    BY <1>4, <2>0, <2>1, <2>3, <2>4, KeysCollide DEF SameKey
  <2>6. d.doc = s[2]
    BY <2>3, <2>5 DEF Collide
  <2>7. Moved(e, d) = [id |-> e.id, lore |-> d.lore, doc |-> s[2], text |-> text, copy |-> 1]
    BY <2>2, <2>3 DEF Chunk
  <2>8. Of(d) = s => d.lore = s[1]
    BY <2>3
  <2>9. Of(d) = s => Moved(e, d) = e
    BY <2>2, <2>3, <2>7, <2>8 DEF Chunk
  <2> QED
    BY <2>0, <2>3, <2>5, <2>6, <2>7, <2>9 DEF Of
<1>5. ASSUME NEW c \in C
      PROVE  \/ c \in chunks /\ \A e \in new : ~SameKey(c, e)
             \/ c \in new /\ (store = "pgvector" => \A d \in chunks : ~SameKey(d, c))
             \/ store = "pgvector" /\ \E e \in new, d \in chunks : SameKey(d, e) /\ c = Moved(e, d)
  BY DEF Put
<1>6. \A d \in chunks : (\A e \in new : ~SameKey(d, e)) => d \in C
  BY DEF Put
<1>7. ASSUME NEW e \in new
      PROVE  e \in C \/ (store = "pgvector" /\ \E d \in chunks : SameKey(d, e) /\ Moved(e, d) \in C)
  <2>1. CASE store = "pgvector" /\ {d \in chunks : SameKey(d, e)} # {}
    <3>1. PICK d \in chunks : SameKey(d, e)
      BY <2>1
    <3>2. Moved(e, d) \in {[e EXCEPT !.lore = b.lore] : b \in {b \in chunks : SameKey(b, e)}}
      BY <3>1
    <3>3. Moved(e, d) \in C
      BY <2>1, <3>2 DEF Put
    <3> QED
      BY <2>1, <3>1, <3>3
  <2>2. CASE ~(store = "pgvector" /\ {d \in chunks : SameKey(d, e)} # {})
    <3>1. e \in C
      BY <2>2 DEF Put
    <3> QED
      BY <3>1
  <2> QED
    BY <2>1, <2>2
<1> HIDE DEF C, Moved
<1>8. Placed(C)
  <2> SUFFICES ASSUME NEW c \in C
               PROVE  /\ Of(c) \in Source
                      /\ \E m \in forms[Of(c)] : \E i \in 0..(m - 1) : c.id = ChunkId(Of(c), i, m)
    BY DEF Placed
  <2>1. CASE c \in chunks
    BY <2>1 DEF Placed
  <2>2. CASE c \in new
    BY <1>3, <2>2
  <2>3. ASSUME NEW e \in new, NEW d \in chunks, SameKey(d, e), c = Moved(e, d)
        PROVE  /\ Of(c) \in Source
               /\ \E m \in forms[Of(c)] : \E i \in 0..(m - 1) : c.id = ChunkId(Of(c), i, m)
    <3>1. Of(c) = Of(d) /\ c.id = d.id
      BY <1>4, <2>3
    <3> QED
      BY <3>1 DEF Placed
  <2> QED
    BY <1>5, <2>1, <2>2, <2>3
<1>9. ASSUME NEW t \in Source, ~Collide(s, t) PROVE FoundIn(t, C) = FoundIn(t, chunks)
  <2>1. s # t
    BY <1>9 DEF Collide
  <2>2. ASSUME NEW c \in C, Of(c) = t PROVE c \in chunks
    BY <1>3, <1>4, <1>5, <1>9, <2>1, <2>2
  <2>3. ASSUME NEW c \in chunks, Of(c) = t PROVE c \in C
    BY <1>4, <1>6, <1>9, <2>3
  <2> QED
    BY <1>8, <2>2, <2>3, FoundAre
<1>10. ASSUME \A t \in Source : t # s /\ Collide(s, t) => forms[t] = {}
       PROVE  /\ new \subseteq C
              /\ \A c \in FoundIn(s, C) :
                    c \in new \/ (c \in FoundIn(s, chunks) /\ \A e \in new : c.id # e.id)
              /\ \A c \in FoundIn(s, chunks) : c \in C \/ \E e \in new : c.id = e.id
  <2>1. \A d \in chunks, e \in new : SameKey(d, e) => Of(d) = s /\ Moved(e, d) = e
    <3> SUFFICES ASSUME NEW d \in chunks, NEW e \in new, SameKey(d, e)
                 PROVE  Of(d) = s /\ Moved(e, d) = e
      OBVIOUS
    <3>1. Of(d) \in Source /\ Collide(s, Of(d)) /\ (Of(d) = s => Moved(e, d) = e)
      BY <1>4
    <3>2. forms[Of(d)] # {}
      BY DEF Placed
    <3> QED
      BY <1>10, <3>1, <3>2
  <2>2. new \subseteq C
    BY <1>7, <2>1
  <2>3. \A c \in C : Of(c) = s => c \in new \/ (c \in chunks /\ \A e \in new : ~SameKey(c, e))
    BY <1>5, <2>1
  <2>4. \A c \in chunks, e \in new : Of(c) = s /\ c.id = e.id => SameKey(c, e)
    <3> SUFFICES ASSUME NEW c \in chunks, NEW e \in new, Of(c) = s, c.id = e.id
                 PROVE  SameKey(c, e)
      OBVIOUS
    <3>1. c.lore = s[1] /\ e.lore = s[1]
      BY <1>3 DEF Of
    <3> QED
      BY <3>1 DEF SameKey
  <2>5. \A c \in FoundIn(s, C) :
           c \in new \/ (c \in FoundIn(s, chunks) /\ \A e \in new : c.id # e.id)
    BY <1>8, <2>3, <2>4, FoundAre
  <2>6. \A c \in FoundIn(s, chunks) : c \in C \/ \E e \in new : c.id = e.id
    BY <1>6, FoundAre DEF SameKey
  <2> QED
    BY <2>2, <2>5, <2>6
<1> QED
  BY <1>8, <1>9, <1>10 DEF C

\* A text that is written to the end, and covers the others of its source, is all there is of it.
LEMMA WholeIs ==
  ASSUME NEW C, Placed(C), NEW s \in Source, forms \in [Source -> SUBSET (Nat \ {0})],
         NEW n \in forms[s], \A m \in forms[s] : Covers(n, m), NEW text, Written(C, s, text, n, n)
  PROVE  FoundIn(s, C) = Chunks(s, text, n)
<1>1. ASSUME NEW c \in FoundIn(s, C) PROVE c \in Chunks(s, text, n)
  <2>1. c \in C /\ Of(c) = s
    BY <1>1, FoundAre
  <2>2. PICK m \in forms[s] : \E i \in 0..(m - 1) : c.id = ChunkId(s, i, m)
    BY <2>1 DEF Placed
  <2>3. PICK i \in 0..(m - 1) : c.id = ChunkId(s, i, m)
    BY <2>2
  <2>4. n \in Nat \ {0} /\ m \in Nat \ {0} /\ Covers(n, m)
    OBVIOUS
  <2>5. PICK j \in 0..(n - 1) : ChunkId(s, i, m) = ChunkId(s, j, n)
    BY <2>4, IdsAreCovered
  <2>6. c = Chunk(s, text, j, n)
    BY <2>3, <2>5 DEF Written
  <2> QED
    BY <2>6 DEF Chunks
<1>2. ASSUME NEW c \in Chunks(s, text, n) PROVE c \in FoundIn(s, C)
  <2>1. PICK i \in 0..(n - 1) : c = Chunk(s, text, i, n)
    BY <1>2 DEF Chunks
  <2> QED
    BY <2>1, ChunkIs, FoundAre DEF Written
<1> QED
  BY <1>1, <1>2

\* One chunk more, or all of them.
LEMMA PutWritesNext ==
  ASSUME Placed(chunks), NEW s \in Source, NEW n \in forms[s], forms \in [Source -> SUBSET (Nat \ {0})],
         NEW text, NEW k \in 0..(n - 1), Written(chunks, s, text, n, k),
         \A t \in Source : t # s /\ Collide(s, t) => forms[t] = {}
  PROVE  Written(Put({Chunk(s, text, k, n)}, chunks), s, text, n, k + 1)
<1> DEFINE c == Chunk(s, text, k, n)
           C == Put({c}, chunks)
<1>1. {c} \subseteq Chunks(s, text, n)
  BY DEF Chunks
<1>2. /\ c \in C
      /\ \A d \in FoundIn(s, C) : d = c \/ (d \in FoundIn(s, chunks) /\ d.id # c.id)
      /\ \A d \in FoundIn(s, chunks) : d \in C \/ d.id = c.id
  BY <1>1, PutKeeps
<1>3. c.id = ChunkId(s, k, n) /\ n \in Nat \ {0} /\ k \in Nat
  BY ChunkIs
<1> HIDE DEF C
<1>4. ASSUME NEW i \in 0..k PROVE Chunk(s, text, i, n) \in C
  <2>1. CASE i = k
    BY <1>2, <2>1
  <2>2. CASE i # k
    <3>1. i \in 0..(k - 1) /\ i \in 0..(n - 1) /\ k \in 0..(n - 1)
      BY <1>3, <2>2
    <3>2. Chunk(s, text, i, n) \in chunks
      BY <3>1 DEF Written
    <3>3. Chunk(s, text, i, n) \in FoundIn(s, chunks) /\ Chunk(s, text, i, n).id = ChunkId(s, i, n)
      BY <3>2, ChunkIs, FoundAre
    <3>4. ChunkId(s, i, n) # ChunkId(s, k, n)
      BY <1>3, <2>2, <3>1, IdsDiffer
    <3> QED
      BY <1>2, <1>3, <3>3, <3>4
  <2> QED
    BY <2>1, <2>2
<1>5. ASSUME NEW d \in FoundIn(s, C), NEW i \in 0..k, d.id = ChunkId(s, i, n)
      PROVE  d = Chunk(s, text, i, n)
  <2>1. i \in 0..(n - 1) /\ k \in 0..(n - 1) /\ (i = k \/ i \in 0..(k - 1))
    BY <1>3
  <2>2. CASE d = c
    BY <1>3, <1>5, <2>1, <2>2, IdsDiffer
  <2>3. CASE d \in FoundIn(s, chunks) /\ d.id # c.id
    BY <1>3, <1>5, <2>1, <2>3 DEF Written
  <2> QED
    BY <1>2, <2>2, <2>3
<1>6. (k + 1) - 1 = k
  BY <1>3
<1>7. Written(C, s, text, n, k + 1)
  BY <1>4, <1>5, <1>6 DEF Written
<1> QED
  BY <1>7 DEF C

LEMMA PutWritesAll ==
  ASSUME Placed(chunks), NEW s \in Source, NEW n \in forms[s], forms \in [Source -> SUBSET (Nat \ {0})],
         NEW text, \A t \in Source : t # s /\ Collide(s, t) => forms[t] = {}
  PROVE  Written(Put(Chunks(s, text, n), chunks), s, text, n, n)
<1> DEFINE new == Chunks(s, text, n)
           C == Put(new, chunks)
<1>1. /\ new \subseteq C
      /\ \A c \in FoundIn(s, C) : c \in new \/ (c \in FoundIn(s, chunks) /\ \A e \in new : c.id # e.id)
  BY PutKeeps
<1>2. n \in Nat \ {0}
  OBVIOUS
<1>3. /\ \A i \in 0..(n - 1) : Chunk(s, text, i, n) \in new
      /\ \A e \in new : \E i \in 0..(n - 1) : e = Chunk(s, text, i, n)
  BY DEF Chunks
<1>4. \A i \in 0..(n - 1) : Chunk(s, text, i, n).id = ChunkId(s, i, n)
  BY ChunkIs
<1> HIDE DEF C, new
<1>5. ASSUME NEW c \in FoundIn(s, C), NEW i \in 0..(n - 1), c.id = ChunkId(s, i, n)
      PROVE  c = Chunk(s, text, i, n)
  <2>1. c \in new
    BY <1>1, <1>3, <1>4, <1>5
  <2>2. PICK j \in 0..(n - 1) : c = Chunk(s, text, j, n)
    BY <1>3, <2>1
  <2>3. i = j
    BY <1>2, <1>4, <1>5, <2>2, IdsDiffer
  <2> QED
    BY <2>2, <2>3
<1>6. Written(C, s, text, n, n)
  BY <1>1, <1>3, <1>5 DEF Written
<1> QED
  BY <1>6 DEF C, new

-----------------------------------------------------------------------------

LEMMA CollideIs ==
  ASSUME NEW s \in Source, NEW t \in Source
  PROVE  Collide(s, s) /\ (Collide(s, t) <=> Collide(t, s))
  BY DEF Collide

\* The ingestions beside one that writes, and the sources beside the one that it writes.
LEMMA OthersWork ==
  ASSUME Current, NEW w \in Ingestor, ingest[w].step # "idle",
         NEW v \in Ingestor, v # w, ingest'[v] = ingest[v], forms' = forms, store' = store,
         \A t \in Source : ~Collide(ingest[w].source, t) => FoundIn(t, chunks') = FoundIn(t, chunks),
         \A u \in Ingestor : ingest'[u].step # "idle" =>
            ingest[u].step # "idle" /\ ingest'[u].source = ingest[u].source
  PROVE  Works(v)'
<1> DEFINE q == ingest[v]
           t == q.source
<1>1. /\ q.step = "idle" => q = NoIngest
      /\ q.step # "idle" => t \in Source /\ q.total \in forms[t] /\ q.next < q.total
                            /\ (~q.spoilt => Alone(v) /\ Advanced(v, chunks))
  BY DEF Current, Works
<1>2. ASSUME q.step # "idle", ~q.spoilt
      PROVE  /\ Written(chunks', t, q.text, q.total, q.next)
             /\ q.step = "insert" =>
                   \A c \in FoundIn(t, chunks') : c.id # ChunkId(t, q.next, q.total)
  <2>1. ~Collide(t, ingest[w].source) /\ ingest[w].source \in Source
    BY <1>1, <1>2 DEF Alone, Current, Works
  <2>2. ~Collide(ingest[w].source, t)
    BY <1>1, <1>2, <2>1, CollideIs
  <2>3. FoundIn(t, chunks') = FoundIn(t, chunks)
    BY <1>1, <1>2, <2>2
  <2>4. Written(chunks, t, q.text, q.total, q.next)
        /\ (q.step = "insert" => \A c \in FoundIn(t, chunks) : c.id # ChunkId(t, q.next, q.total))
    BY <1>1, <1>2 DEF Advanced
  <2>5. \A i \in 0..(q.next - 1) : Chunk(t, q.text, i, q.total) \in chunks'
    <3> SUFFICES ASSUME NEW i \in 0..(q.next - 1) PROVE Chunk(t, q.text, i, q.total) \in chunks'
      OBVIOUS
    <3>1. Chunk(t, q.text, i, q.total) \in FoundIn(t, chunks)
      BY <1>1, <1>2, <2>4, ChunkIs DEF Written, FoundIn
    <3> QED
      BY <2>3, <3>1 DEF FoundIn
  <2> QED
    BY <2>3, <2>4, <2>5 DEF Written
<1>3. ASSUME q.step # "idle", ~q.spoilt
      PROVE  /\ \A u \in Source : u # t /\ Collide(t, u) => forms[u] = {}
             /\ \A u \in Ingestor : u # v /\ ingest'[u].step # "idle" => ~Collide(t, ingest'[u].source)
  BY <1>1, <1>3 DEF Alone
<1>4. ASSUME q.step # "idle", ~q.spoilt PROVE Alone(v)'
  BY <1>3, <1>4 DEF Alone, Collide
<1>5. ASSUME q.step # "idle", ~q.spoilt PROVE Advanced(v, chunks)'
  BY <1>2, <1>5 DEF Advanced
<1> QED
  BY <1>1, <1>4, <1>5 DEF Works

LEMMA OthersStayFresh ==
  ASSUME Current, NEW s \in Source, forms[s] # {}, NEW t \in Source, t # s,
         Placed(chunks'), forms' = forms, deleting' = deleting, latest'[t] = latest[t],
         Collide(s, t) \/ FoundIn(t, chunks') = FoundIn(t, chunks),
         t \in unsettled => t \in unsettled',
         \A v \in Ingestor : ingest[v].source = t => ingest'[v].source = t
  PROVE  Fresh(t)'
<1>1. CASE forms[t] = {}
  <2>1. latest'[t] = Never
    BY <1>1 DEF Current, Marked
  <2>2. FoundIn(t, chunks') = {}
    BY <1>1, FoundAre DEF Placed
  <2>3. Chunks(t, 0, 0) = {} /\ latest'[t].text = 0 /\ latest'[t].total = 0
    BY <2>1 DEF Chunks, Never
  <2>4. FoundIn(t, chunks') = Chunks(t, latest'[t].text, latest'[t].total)
    BY <2>2, <2>3
  <2> QED
    BY <2>4 DEF Fresh
<1>2. CASE forms[t] # {} /\ Collide(s, t)
  BY <1>2, CollideIs DEF Current, Marked, Fresh
<1>3. CASE FoundIn(t, chunks') = FoundIn(t, chunks)
  BY <1>3 DEF Current, Fresh
<1> QED
  BY <1>1, <1>2, <1>3

-----------------------------------------------------------------------------

\* An ingestion that has written something and goes on, or that is complete.
LEMMA Continues ==
  ASSUME Current, NEW w \in Ingestor, ingest[w].step # "idle", NEW q \in Jobs, Set(w, q),
         q.source = ingest[w].source, q.text = ingest[w].text, q.total = ingest[w].total,
         q.next < q.total, q.step # "idle",
         ~q.spoilt => /\ ~ingest[w].spoilt /\ Written(chunks', q.source, q.text, q.total, q.next)
                      /\ q.step = "insert" => \A c \in FoundIn(q.source, chunks') :
                                                 c.id # ChunkId(q.source, q.next, q.total),
         Placed(chunks'),
         \A t \in Source : ~Collide(q.source, t) => FoundIn(t, chunks') = FoundIn(t, chunks),
         UNCHANGED <<store, deleting, ingests, forms, latest, unsettled>>
  PROVE  Current'
<1>1. /\ LoreTyped /\ Marked /\ Works(w) /\ q.source \in Source /\ q.total \in forms[q.source]
  BY DEF Current, Works
<1>2. /\ ingest' = [ingest EXCEPT ![w] = q] /\ ingest'[w] = q
      /\ \A v \in Ingestor : v # w => ingest'[v] = ingest[v]
  BY <1>1 DEF Set, LoreTyped
<1>3. LoreTyped'
  BY <1>1, <1>2 DEF LoreTyped
<1>4. Placed(chunks)'
  BY DEF Placed
<1>5. Marked'
  BY <1>1 DEF Marked, Collide
<1>6. ASSUME ~q.spoilt PROVE Alone(w)' /\ Advanced(w, chunks)'
  <2>1. Alone(w)
    BY <1>1, <1>6 DEF Works
  <2>2. Alone(w)'
    BY <1>2, <2>1 DEF Alone, Collide
  <2>3. Advanced(w, chunks)'
    BY <1>2, <1>6 DEF Advanced
  <2> QED
    BY <2>2, <2>3
<1>7. Works(w)'
  BY <1>1, <1>2, <1>6 DEF Works
<1>8. \A v \in Ingestor : ingest'[v].step # "idle" =>
         ingest[v].step # "idle" /\ ingest'[v].source = ingest[v].source
  BY <1>2
<1>9. ASSUME NEW v \in Ingestor, v # w PROVE Works(v)'
  BY <1>2, <1>8, <1>9, OthersWork
<1>10. ASSUME NEW t \in Source PROVE Fresh(t)'
  <2>1. CASE t = q.source
    BY <1>2, <2>1 DEF Fresh
  <2>2. CASE t # q.source
    <3>1. \A v \in Ingestor : ingest[v].source = t => ingest'[v].source = t
      BY <1>2, <2>2
    <3> QED
      BY <1>1, <2>2, <3>1, OthersStayFresh
  <2> QED
    BY <2>1, <2>2
<1> QED
  BY <1>3, <1>4, <1>5, <1>7, <1>9, <1>10 DEF Current

LEMMA Completes ==
  ASSUME Current, NEW w \in Ingestor, ingest[w].step # "idle", NEW q \in Jobs, Complete(w, q),
         q.source = ingest[w].source, q.text = ingest[w].text, q.total = ingest[w].total,
         ~q.spoilt => ~ingest[w].spoilt /\ Written(chunks', q.source, q.text, q.total, q.total),
         Placed(chunks'),
         \A t \in Source : ~Collide(q.source, t) => FoundIn(t, chunks') = FoundIn(t, chunks),
         UNCHANGED <<store, deleting, ingests, forms>>
  PROVE  Current'
<1> DEFINE s == q.source
           settled == ~q.spoilt /\ ~Shared(s) /\ \A m \in forms[s] : Covers(q.total, m)
<1>1. /\ LoreTyped /\ Marked /\ Works(w) /\ s \in Source /\ q.total \in forms[s]
      /\ NoIngest \in Jobs /\ NoIngest.step = "idle"
  BY DEF Current, Works, NoIngest, Jobs
<1>2. /\ ingest' = [ingest EXCEPT ![w] = NoIngest] /\ ingest'[w] = NoIngest
      /\ \A v \in Ingestor : v # w => ingest'[v] = ingest[v]
  BY <1>1 DEF Complete, Set, LoreTyped
<1>3. /\ latest' = [latest EXCEPT ![s] = [text |-> q.text, total |-> q.total]]
      /\ unsettled' = IF settled THEN unsettled \ {s} ELSE unsettled \cup {s}
  BY DEF Complete, MarkSettled
<1>4. /\ latest'[s].text = q.text /\ latest'[s].total = q.total
      /\ \A t \in Source : t # s => latest'[t] = latest[t]
      /\ q.text \in Nat /\ q.total \in Nat
  BY <1>1, <1>3 DEF LoreTyped, Jobs
<1>5. LoreTyped'
  BY <1>1, <1>2, <1>3, <1>4 DEF LoreTyped
<1>6. Placed(chunks)'
  BY DEF Placed
<1>7. settled => \A t \in Source : t # s /\ Collide(s, t) => forms[t] = {}
  BY DEF Shared
<1> HIDE DEF settled
<1>8. Marked'
  <2>1. ASSUME NEW x \in Source, NEW y \in Source, x # y, Collide(x, y), forms[x] # {}, forms[y] # {}
        PROVE  x \in unsettled'
    <3>1. x \in unsettled
      BY <1>1, <2>1 DEF Marked
    <3>2. ~(settled /\ x = s)
      BY <1>7, <2>1
    <3> QED
      BY <1>3, <3>1, <3>2
  <2>2. \A x \in Source : forms[x] = {} => latest'[x] = Never
    BY <1>1, <1>4 DEF Marked
  <2> QED
    BY <2>1, <2>2 DEF Marked, Collide
<1>9. \A v \in Ingestor : ingest'[v].step # "idle" =>
         ingest[v].step # "idle" /\ ingest'[v].source = ingest[v].source
  BY <1>1, <1>2
<1>10. ASSUME NEW v \in Ingestor PROVE Works(v)'
  <2>1. CASE v = w
    BY <1>1, <1>2, <2>1 DEF Works
  <2>2. CASE v # w
    BY <1>2, <1>9, <2>2, OthersWork
  <2> QED
    BY <2>1, <2>2
<1>11. ASSUME NEW t \in Source PROVE Fresh(t)'
  <2>1. CASE t = s /\ ~settled
    BY <1>3, <2>1 DEF Fresh
  <2>2. CASE t = s /\ settled
    <3>1. ~q.spoilt /\ \A m \in forms[s] : Covers(q.total, m)
      BY <2>2 DEF settled
    <3>2. FoundIn(s, chunks') = Chunks(s, q.text, q.total)
      BY <1>1, <3>1, WholeIs DEF LoreTyped
    <3> QED
      BY <1>4, <2>2, <3>2 DEF Fresh
  <2>3. CASE t # s
    <3>1. \A v \in Ingestor : ingest[v].source = t => ingest'[v].source = t
      BY <1>2, <2>3
    <3>2. t \in unsettled => t \in unsettled'
      BY <1>3, <2>3
    <3> QED
      BY <1>1, <1>4, <2>3, <3>1, <3>2, OthersStayFresh
  <2> QED
    BY <2>1, <2>2, <2>3
<1> QED
  BY <1>5, <1>6, <1>8, <1>10, <1>11 DEF Current

LEMMA WorkIs ==
  ASSUME Current, NEW w \in Ingestor, ingest[w].step # "idle"
  PROVE  /\ ingest[w] \in Jobs /\ ingest[w].source \in Source
         /\ ingest[w].total \in forms[ingest[w].source] /\ ingest[w].total \in Nat \ {0}
         /\ ingest[w].next \in 0..(ingest[w].total - 1)
         /\ forms \in [Source -> SUBSET (Nat \ {0})] /\ Placed(chunks)
         /\ ~ingest[w].spoilt =>
               /\ \A t \in Source : t # ingest[w].source /\ Collide(ingest[w].source, t) => forms[t] = {}
               /\ Advanced(w, chunks)
  BY DEF Current, LoreTyped, Works, Jobs, Alone

LEMMA Proceeds ==
  ASSUME Current, NEW w \in Ingestor, ingest[w].step # "idle", NEW q \in Jobs, Proceed(w, q),
         q.source = ingest[w].source, q.text = ingest[w].text, q.total = ingest[w].total,
         q.next = ingest[w].next,
         ~q.spoilt => ~ingest[w].spoilt /\ Written(chunks', q.source, q.text, q.total, q.next + 1),
         Placed(chunks'),
         \A t \in Source : ~Collide(q.source, t) => FoundIn(t, chunks') = FoundIn(t, chunks),
         UNCHANGED <<store, deleting, ingests, forms>>
  PROVE  Current'
<1>1. q.total \in Nat \ {0} /\ q.next \in 0..(q.total - 1)
  BY WorkIs
<1>2. CASE q.next + 1 < q.total
  <2> DEFINE p == [q EXCEPT !.next = q.next + 1, !.step = "write"]
  <2>1. Set(w, p) /\ UNCHANGED <<latest, unsettled>>
    BY <1>2 DEF Proceed
  <2>2. /\ p \in Jobs /\ p.source = q.source /\ p.text = q.text /\ p.total = q.total
        /\ p.next = q.next + 1 /\ p.step = "write" /\ p.spoilt = q.spoilt
    <3>1. q.next + 1 \in Nat
      BY <1>1
    <3> QED
      BY <3>1 DEF Jobs
  <2> HIDE DEF p
  <2> QED
    BY <1>2, <2>1, <2>2, Continues
<1>3. CASE ~(q.next + 1 < q.total)
  <2>1. Complete(w, q) /\ q.next + 1 = q.total
    BY <1>1, <1>3 DEF Proceed
  <2> QED
    BY <2>1, Completes
<1> QED
  BY <1>2, <1>3

LEMMA WritesAll ==
  ASSUME Current, NEW w \in Ingestor, WriteAll(w)
  PROVE  Current'
<1> DEFINE r == ingest[w]
           new == Chunks(r.source, r.text, r.total)
<1>1. /\ r.step # "idle" /\ chunks' = Put(new, chunks) /\ Complete(w, r)
      /\ UNCHANGED <<store, deleting, ingests, forms>>
  BY DEF WriteAll
<1>2. /\ Placed(Put(new, chunks))
      /\ \A t \in Source : ~Collide(r.source, t) => FoundIn(t, Put(new, chunks)) = FoundIn(t, chunks)
  BY <1>1, WorkIs, PutKeeps
<1>3. ~r.spoilt => Written(Put(new, chunks), r.source, r.text, r.total, r.total)
  BY <1>1, WorkIs, PutWritesAll
<1> QED
  BY <1>1, <1>2, <1>3, WorkIs, Completes

LEMMA WritesNext ==
  ASSUME Current, NEW w \in Ingestor, WriteNext(w)
  PROVE  Current'
<1> DEFINE r == ingest[w]
           new == {Chunk(r.source, r.text, r.next, r.total)}
<1>1. /\ r.step # "idle" /\ chunks' = Put(new, chunks) /\ Proceed(w, r)
      /\ UNCHANGED <<store, deleting, ingests, forms>>
  BY DEF WriteNext
<1>2. new \subseteq Chunks(r.source, r.text, r.total)
  BY <1>1, WorkIs DEF Chunks
<1>3. /\ Placed(Put(new, chunks))
      /\ \A t \in Source : ~Collide(r.source, t) => FoundIn(t, Put(new, chunks)) = FoundIn(t, chunks)
  BY <1>1, <1>2, WorkIs, PutKeeps
<1>4. ~r.spoilt => Written(Put(new, chunks), r.source, r.text, r.total, r.next + 1)
  BY <1>1, WorkIs, PutWritesNext DEF Advanced
<1>5. /\ r \in Jobs /\ r.source \in Source /\ Placed(chunks')
      /\ ~r.spoilt => Written(chunks', r.source, r.text, r.total, r.next + 1)
      /\ \A t \in Source : ~Collide(r.source, t) => FoundIn(t, chunks') = FoundIn(t, chunks)
  BY <1>1, <1>3, <1>4, WorkIs
<1> HIDE DEF new
<1> QED
  BY <1>1, <1>5, Proceeds

LEMMA Erases ==
  ASSUME Current, NEW w \in Ingestor, Erase(w)
  PROVE  Current'
<1> DEFINE r == ingest[w]
           s == r.source
           id == ChunkId(s, r.next, r.total)
           C == {c \in chunks : c.id # id}
           q == [r EXCEPT !.step = "insert"]
           p == [r EXCEPT !.step = "insert", !.spoilt = TRUE]
<1>1. /\ r.step # "idle" /\ store = "weaviate"
      /\ (chunks' = C /\ Set(w, q)) \/ (Set(w, p) /\ chunks' = chunks)
      /\ UNCHANGED <<store, deleting, ingests, forms, latest, unsettled>>
  BY DEF Erase
<1>2. /\ r \in Jobs /\ s \in Source /\ r.total \in forms[s] /\ r.total \in Nat \ {0}
      /\ r.next \in 0..(r.total - 1) /\ Placed(chunks) /\ forms \in [Source -> SUBSET (Nat \ {0})]
      /\ ~r.spoilt => Advanced(w, chunks)
  BY <1>1, WorkIs
<1>3. /\ q \in Jobs /\ q.source = s /\ q.text = r.text /\ q.total = r.total /\ q.next = r.next
      /\ q.step = "insert" /\ q.spoilt = r.spoilt
      /\ p \in Jobs /\ p.source = s /\ p.text = r.text /\ p.total = r.total /\ p.next = r.next
      /\ p.step = "insert" /\ p.spoilt
  BY <1>2 DEF Jobs
<1>4. r.next < r.total
  BY <1>2
<1>5. Placed(C)
  BY <1>2 DEF Placed
<1>6. ASSUME NEW t \in Source, ~Collide(s, t) PROVE FoundIn(t, C) = FoundIn(t, chunks)
  <2>1. ASSUME NEW c \in FoundIn(t, chunks) PROVE c.id # id
    <3>1. c \in chunks /\ Of(c) = t
      BY <1>2, <2>1, FoundAre
    <3>2. PICK m \in forms[t] : \E i \in 0..(m - 1) : c.id = ChunkId(t, i, m)
      BY <1>2, <3>1 DEF Placed
    <3>3. PICK i \in 0..(m - 1) : c.id = ChunkId(t, i, m)
      BY <3>2
    <3>4. m \in Nat /\ i \in Nat /\ r.next \in Nat
      BY <1>2
    <3> QED
      BY <1>1, <1>2, <1>6, <3>3, <3>4, KeysCollide
  <2> QED
    BY <2>1 DEF FoundIn
<1>7. ASSUME ~r.spoilt
      PROVE  Written(C, s, r.text, r.total, r.next) /\ \A c \in FoundIn(s, C) : c.id # id
  <2>1. Written(chunks, s, r.text, r.total, r.next)
    BY <1>2, <1>7 DEF Advanced
  <2>2. ASSUME NEW i \in 0..(r.next - 1) PROVE Chunk(s, r.text, i, r.total) \in C
    <3>1. i \in 0..(r.total - 1) /\ i # r.next
      BY <1>2
    <3>2. ChunkId(s, i, r.total) # id
      BY <1>2, <3>1, IdsDiffer
    <3>3. Chunk(s, r.text, i, r.total).id = ChunkId(s, i, r.total)
      BY <1>2, ChunkIs
    <3>4. Chunk(s, r.text, i, r.total) \in chunks
      BY <2>1, <2>2 DEF Written
    <3> QED
      BY <3>2, <3>3, <3>4
  <2>3. FoundIn(s, C) \subseteq FoundIn(s, chunks) /\ \A c \in FoundIn(s, C) : c.id # id
    BY DEF FoundIn
  <2> QED
    BY <2>1, <2>2, <2>3 DEF Written
<1> HIDE DEF C, q, p, id
<1>8. CASE chunks' = C /\ Set(w, q)
  BY <1>1, <1>3, <1>4, <1>5, <1>6, <1>7, <1>8, Continues DEF id
<1>9. CASE Set(w, p) /\ chunks' = chunks
  BY <1>1, <1>2, <1>3, <1>4, <1>9, Continues
<1> QED
  BY <1>1, <1>8, <1>9

LEMMA Inserts ==
  ASSUME Current, NEW w \in Ingestor, InsertChunk(w)
  PROVE  Current'
<1> DEFINE r == ingest[w]
           s == r.source
           c == Chunk(s, r.text, r.next, r.total)
           e == [c EXCEPT !.copy = 2]
           p == [r EXCEPT !.spoilt = TRUE]
<1>1. /\ r.step = "insert"
      /\ (chunks' = chunks \cup {c} /\ Proceed(w, r)) \/ (chunks' = chunks \cup {c, e} /\ Proceed(w, p))
      /\ UNCHANGED <<store, deleting, ingests, forms>>
  BY DEF InsertChunk
<1>2. /\ r \in Jobs /\ s \in Source /\ r.total \in forms[s] /\ r.total \in Nat \ {0}
      /\ r.next \in 0..(r.total - 1) /\ Placed(chunks)
      /\ ~r.spoilt => Advanced(w, chunks)
  BY <1>1, WorkIs
<1>3. /\ p \in Jobs /\ p.source = s /\ p.text = r.text /\ p.total = r.total /\ p.next = r.next
      /\ p.spoilt
  BY <1>2 DEF Jobs
<1>4. /\ Of(c) = s /\ c.id = ChunkId(s, r.next, r.total) /\ c.lore = s[1] /\ c.doc = s[2]
      /\ e.id = c.id /\ Of(e) = s /\ e.lore = s[1] /\ e.doc = s[2]
  BY <1>2, ChunkIs DEF Chunk, Of
<1> HIDE DEF c, e, p
<1>5. Placed(chunks') /\ chunks \subseteq chunks' /\ chunks' \subseteq chunks \cup {c, e}
  BY <1>1, <1>2, <1>4 DEF Placed
<1>6. ASSUME NEW t \in Source, ~Collide(s, t) PROVE FoundIn(t, chunks') = FoundIn(t, chunks)
  <2>1. ~(s[1] = t[1] /\ s[2] = t[2])
    BY <1>6 DEF Collide
  <2> QED
    BY <1>4, <1>5, <2>1 DEF FoundIn
<1>7. ASSUME ~r.spoilt, chunks' = chunks \cup {c}
      PROVE  Written(chunks', s, r.text, r.total, r.next + 1)
  <2>1. /\ Written(chunks, s, r.text, r.total, r.next)
        /\ \A d \in FoundIn(s, chunks) : d.id # ChunkId(s, r.next, r.total)
    BY <1>1, <1>2, <1>7 DEF Advanced
  <2>2. (r.next + 1) - 1 = r.next /\ r.next \in Nat
    BY <1>2
  <2>3. ASSUME NEW i \in 0..r.next PROVE Chunk(s, r.text, i, r.total) \in chunks'
    <3>1. i = r.next \/ i \in 0..(r.next - 1)
      BY <2>2
    <3> QED
      BY <1>7, <2>1, <3>1 DEF Written, c
  <2>4. ASSUME NEW d \in FoundIn(s, chunks'), NEW i \in 0..r.next, d.id = ChunkId(s, i, r.total)
        PROVE  d = Chunk(s, r.text, i, r.total)
    <3>1. (i = r.next \/ i \in 0..(r.next - 1)) /\ i \in 0..(r.total - 1)
      BY <1>2, <2>2
    <3>2. d = c \/ d \in FoundIn(s, chunks)
      BY <1>7, <2>4 DEF FoundIn
    <3>3. CASE d = c
      <4>1. i = r.next
        BY <1>2, <1>4, <2>4, <3>1, <3>3, IdsDiffer
      <4> QED
        BY <3>3, <4>1 DEF c
    <3>4. CASE d \in FoundIn(s, chunks)
      BY <2>1, <2>4, <3>1, <3>4 DEF Written
    <3> QED
      BY <3>2, <3>3, <3>4
  <2> QED
    BY <2>2, <2>3, <2>4 DEF Written
<1>8. CASE chunks' = chunks \cup {c} /\ Proceed(w, r)
  BY <1>1, <1>2, <1>5, <1>6, <1>7, <1>8, Proceeds
<1>9. CASE chunks' = chunks \cup {c, e} /\ Proceed(w, p)
  BY <1>1, <1>3, <1>5, <1>6, <1>9, Proceeds
<1> QED
  BY <1>1, <1>8, <1>9

\* Steps that write no chunk of their own.
LEMMA Ensures ==
  ASSUME Current, NEW w \in Ingestor, Ensure(w)
  PROVE  Current'
<1> DEFINE r == ingest[w]
<1>1. /\ r.step # "idle" /\ UNCHANGED <<store, deleting, chunks, ingests, forms, latest, unsettled>>
      /\ \E then \in {"write", "create"} : Set(w, [r EXCEPT !.step = then])
  BY DEF Ensure
<1>2. PICK then \in {"write", "create"} : Set(w, [r EXCEPT !.step = then])
  BY <1>1
<1> DEFINE q == [r EXCEPT !.step = then]
<1>3. /\ r \in Jobs /\ r.next < r.total /\ Placed(chunks) /\ (~r.spoilt => Advanced(w, chunks))
  BY <1>1, WorkIs
<1>4. /\ q \in Jobs /\ q.source = r.source /\ q.text = r.text /\ q.total = r.total
      /\ q.next = r.next /\ q.step = then /\ q.spoilt = r.spoilt
  BY <1>3 DEF Jobs
<1> HIDE DEF q
<1>5. Set(w, q)
  BY <1>2 DEF q
<1> QED
  BY <1>1, <1>3, <1>4, <1>5, Continues DEF Advanced

LEMMA Fails ==
  ASSUME Current, NEW w \in Ingestor, IngestFails(w)
  PROVE  Current'
<1> DEFINE s == ingest[w].source
<1>1. /\ ingest[w].step # "idle" /\ Set(w, NoIngest) /\ unsettled' = unsettled \cup {s}
      /\ UNCHANGED <<store, deleting, chunks, ingests, forms, latest>>
  BY DEF IngestFails, MarkSettled
<1>2. /\ LoreTyped /\ Placed(chunks) /\ Marked /\ s \in Source /\ forms[s] # {}
      /\ NoIngest \in Jobs /\ NoIngest.step = "idle"
  BY <1>1, WorkIs DEF Current, NoIngest, Jobs
<1>3. /\ ingest'[w] = NoIngest /\ ingest' \in [Ingestor -> Jobs]
      /\ \A v \in Ingestor : v # w => ingest'[v] = ingest[v]
  BY <1>1, <1>2 DEF Set, LoreTyped
<1>4. LoreTyped' /\ Placed(chunks)' /\ Marked'
  BY <1>1, <1>2, <1>3 DEF LoreTyped, Placed, Marked, Collide
<1>5. \A v \in Ingestor : ingest'[v].step # "idle" =>
         ingest[v].step # "idle" /\ ingest'[v].source = ingest[v].source
  BY <1>2, <1>3
<1>6. ASSUME NEW v \in Ingestor PROVE Works(v)'
  <2>1. CASE v = w
    BY <1>2, <1>3, <2>1 DEF Works
  <2>2. CASE v # w
    BY <1>1, <1>3, <1>5, <2>2, OthersWork
  <2> QED
    BY <2>1, <2>2
<1>7. ASSUME NEW t \in Source PROVE Fresh(t)'
  <2>1. CASE t = s
    BY <1>1, <2>1 DEF Fresh
  <2>2. CASE t # s
    <3>1. \A v \in Ingestor : ingest[v].source = t => ingest'[v].source = t
      BY <1>3, <2>2
    <3>2. Placed(chunks')
      BY <1>1, <1>2
    <3> QED
      BY <1>1, <1>2, <2>2, <3>1, <3>2, OthersStayFresh
  <2> QED
    BY <2>1, <2>2
<1> QED
  BY <1>4, <1>6, <1>7 DEF Current

\* A Lore appears, disappears or is left with its vectors.
LEMMA LoresChange ==
  ASSUME Current, NEW l \in Lore,
         CreateLore(l) \/ DeleteLore(l) \/ DeleteVectorsFails(l)
  PROVE  Current'
<1>1. /\ UNCHANGED <<store, chunks, ingest, ingests, forms, latest>> /\ unsettled \subseteq unsettled'
      /\ \/ deleting \subseteq deleting'
         \/ deleting' = deleting \ {l} /\ \A s \in Source : s[1] = l /\ forms[s] # {} => s \in unsettled'
  BY DEF CreateLore, DeleteLore, DeleteVectorsFails
<1>2. LoreTyped /\ Placed(chunks) /\ Marked
  BY DEF Current
<1>3. LoreTyped' /\ Placed(chunks)' /\ Marked'
  BY <1>1, <1>2 DEF LoreTyped, Placed, Marked, Collide
<1>4. ASSUME NEW v \in Ingestor PROVE Works(v)'
  <2>1. Works(v)
    BY DEF Current
  <2> QED
    BY <1>1, <2>1 DEF Works, Alone, Advanced, Collide
<1>5. ASSUME NEW s \in Source PROVE Fresh(s)'
  <2>1. CASE s[1] \in deleting => s[1] \in deleting' \/ s \in unsettled'
    BY <1>1, <2>1 DEF Current, Fresh
  <2>2. CASE forms[s] = {}
    <3>1. latest[s].text = 0 /\ latest[s].total = 0
      BY <1>2, <2>2 DEF Marked, Never
    <3>2. FoundIn(s, chunks) = {} /\ Chunks(s, 0, 0) = {}
      BY <1>2, <2>2, FoundAre DEF Placed, Chunks
    <3> QED
      BY <1>1, <3>1, <3>2 DEF Fresh
  <2> QED
    BY <1>1, <2>1, <2>2
<1> QED
  BY <1>3, <1>4, <1>5 DEF Current

LEMMA Ingests ==
  ASSUME Current, NEW w \in Ingestor, Ingest(w)
  PROVE  Current'
<1>1. /\ ingest[w].step = "idle" /\ ingests' = ingests + 1
      /\ UNCHANGED <<store, lores, deleting, collection, chunks, latest>>
  BY DEF Ingest
<1>2. PICK s \in Source, n \in 1..MaxChunks :
          LET others == {v \in Ingestor : ingest[v].step # "idle" /\ Collide(ingest[v].source, s)}
              mine == [source |-> s, text |-> ingests + 1, total |-> n, next |-> 0,
                       step |-> IF store = "qdrant" THEN "ensure" ELSE "write",
                       spoilt |-> others # {} \/ Shared(s)]
          IN /\ s[1] \in lores
             /\ ingest' = [v \in Ingestor |-> IF v = w THEN mine
                             ELSE IF v \in others THEN [ingest[v] EXCEPT !.spoilt = TRUE]
                             ELSE ingest[v]]
             /\ forms' = [forms EXCEPT ![s] = @ \cup {n}]
             /\ unsettled' = unsettled \cup {t \in Source : Shared(s) /\ Collide(s, t)}
  BY DEF Ingest
<1> DEFINE others == {v \in Ingestor : ingest[v].step # "idle" /\ Collide(ingest[v].source, s)}
           spoils == others # {} \/ Shared(s)
           first == IF store = "qdrant" THEN "ensure" ELSE "write"
           mine == [source |-> s, text |-> ingests + 1, total |-> n, next |-> 0, step |-> first,
                    spoilt |-> spoils]
           spoilt(v) == [ingest[v] EXCEPT !.spoilt = TRUE]
<1>3. /\ LoreTyped /\ Placed(chunks) /\ Marked /\ n \in Nat \ {0}
      /\ forms \in [Source -> SUBSET (Nat \ {0})] /\ ingests \in Nat
      /\ ingest \in [Ingestor -> Jobs]
  BY NumbersAssumption DEF Current, LoreTyped
<1>4. /\ ingest' = [v \in Ingestor |-> IF v = w THEN mine
                       ELSE IF v \in others THEN spoilt(v) ELSE ingest[v]]
      /\ forms' = [forms EXCEPT ![s] = forms[s] \cup {n}]
      /\ unsettled' = unsettled \cup {t \in Source : Shared(s) /\ Collide(s, t)}
  BY <1>2
<1>5. /\ mine.source = s /\ mine.total = n /\ mine.next = 0 /\ mine.step \in {"ensure", "write"}
      /\ (mine.spoilt <=> spoils) /\ mine.text = ingests + 1
  OBVIOUS
<1>6. mine \in Jobs
  <2>1. spoils \in BOOLEAN /\ first \in {"ensure", "write"} /\ ingests + 1 \in Nat
    BY <1>3
  <2> HIDE DEF spoils, first
  <2> QED
    BY <1>3, <2>1 DEF Jobs
<1>7. ASSUME NEW v \in Ingestor
      PROVE  /\ spoilt(v) \in Jobs /\ spoilt(v).source = ingest[v].source /\ spoilt(v).spoilt
             /\ spoilt(v).text = ingest[v].text /\ spoilt(v).total = ingest[v].total
             /\ spoilt(v).next = ingest[v].next /\ spoilt(v).step = ingest[v].step
  <2>1. ingest[v] \in Jobs
    BY <1>3
  <2> QED
    BY <2>1 DEF Jobs
<1> HIDE DEF mine, spoilt
<1>8. /\ ingest' \in [Ingestor -> Jobs] /\ ingest'[w] = mine
      /\ \A v \in Ingestor : v # w /\ v \in others => ingest'[v] = spoilt(v)
      /\ \A v \in Ingestor : v # w /\ v \notin others => ingest'[v] = ingest[v]
  <2>1. \A v \in Ingestor : (IF v = w THEN mine ELSE IF v \in others THEN spoilt(v) ELSE ingest[v]) \in Jobs
    BY <1>3, <1>6, <1>7
  <2> QED
    BY <1>4, <2>1
<1>9. /\ \A v \in Ingestor : v # w => ingest'[v].source = ingest[v].source
      /\ \A v \in Ingestor : v # w => ingest'[v].step = ingest[v].step
  BY <1>7, <1>8
<1>10. /\ forms' \in [Source -> SUBSET (Nat \ {0})] /\ forms'[s] = forms[s] \cup {n}
       /\ \A t \in Source : t # s => forms'[t] = forms[t]
  BY <1>3, <1>4
<1>11. LoreTyped'
  BY <1>1, <1>3, <1>8, <1>10 DEF LoreTyped
<1>12. Placed(chunks)'
  <2>1. \A t \in Source : forms[t] \subseteq forms'[t]
    BY <1>10
  <2>2. \A c \in chunks : /\ Of(c) \in Source
                          /\ \E m \in forms'[Of(c)] : \E i \in 0..(m - 1) : c.id = ChunkId(Of(c), i, m)
    BY <1>3, <2>1 DEF Placed
  <2> QED
    BY <1>1, <2>2 DEF Placed
<1>13. ASSUME NEW x \in Source, NEW y \in Source, x # y, Collide(x, y), forms'[x] # {}, forms'[y] # {}
       PROVE  x \in unsettled'
  <2>1. CASE x = s
    <3>1. Shared(s)
      BY <1>10, <1>13, <2>1 DEF Shared
    <3> QED
      BY <1>4, <2>1, <3>1, CollideIs
  <2>2. CASE y = s
    <3>1. Shared(s) /\ Collide(s, x)
      BY <1>10, <1>13, <2>2, CollideIs DEF Shared
    <3> QED
      BY <1>4, <3>1
  <2>3. CASE x # s /\ y # s
    BY <1>3, <1>4, <1>10, <1>13, <2>3 DEF Marked
  <2> QED
    BY <2>1, <2>2, <2>3
<1>14. Marked'
  <2>1. \A t \in Source : forms'[t] = {} => latest[t] = Never
    BY <1>3, <1>10 DEF Marked
  <2> QED
    BY <1>1, <1>13, <2>1 DEF Marked, Collide
<1>15. Works(w)'
  <2>1. ASSUME ~mine.spoilt
        PROVE  /\ \A t \in Source : t # s /\ Collide(s, t) => forms'[t] = {}
               /\ \A v \in Ingestor : v # w /\ ingest'[v].step # "idle" => ~Collide(s, ingest'[v].source)
    <3>1. others = {} /\ ~Shared(s)
      BY <1>5, <2>1
    <3>2. \A t \in Source : t # s /\ Collide(s, t) => forms'[t] = {}
      BY <1>10, <3>1 DEF Shared
    <3>3. ASSUME NEW v \in Ingestor, v # w, ingest'[v].step # "idle"
          PROVE  ~Collide(s, ingest'[v].source)
      <4>1. ingest[v].step # "idle" /\ ingest'[v].source = ingest[v].source
        BY <1>9, <3>3
      <4>2. ingest[v].source \in Source /\ ~Collide(ingest[v].source, s)
        BY <3>1, <4>1, WorkIs
      <4> QED
        BY <4>1, <4>2, CollideIs
    <3> QED
      BY <3>2, <3>3
  <2>2. ~mine.spoilt => Alone(w)'
    BY <1>1, <1>5, <1>8, <2>1 DEF Alone, Collide
  <2>3. Written(chunks', s, mine.text, mine.total, 0)
    BY DEF Written
  <2>4. Advanced(w, chunks)'
    BY <1>5, <1>8, <2>3 DEF Advanced
  <2> QED
    BY <1>3, <1>5, <1>8, <1>10, <2>2, <2>4 DEF Works
<1>16. ASSUME NEW v \in Ingestor, v # w PROVE Works(v)'
  <2>1. Works(v)
    BY DEF Current
  <2>2. CASE v \in others
    <3>1. ingest[v].source \in Source /\ ingest[v].total \in forms[ingest[v].source]
          /\ ingest[v].next < ingest[v].total /\ ingest[v].step # "idle"
      BY <2>1, <2>2 DEF Works
    <3> QED
      BY <1>7, <1>8, <1>10, <1>16, <2>2, <3>1 DEF Works
  <2>3. CASE v \notin others
    <3>1. ingest'[v] = ingest[v]
      BY <1>8, <1>16, <2>3
    <3>2. ASSUME ingest[v].step # "idle", ~ingest[v].spoilt
          PROVE  Alone(v)' /\ Advanced(v, chunks)'
      <4>1. /\ ingest[v].source \in Source /\ ~Collide(ingest[v].source, s) /\ Alone(v)
            /\ Advanced(v, chunks)
        BY <2>1, <2>3, <3>2 DEF Works
      <4>2. \A t \in Source : t # ingest[v].source /\ Collide(ingest[v].source, t) => forms'[t] = {}
        BY <1>10, <4>1 DEF Alone
      <4>3. \A u \in Ingestor : u # v /\ ingest'[u].step # "idle" =>
               ~Collide(ingest[v].source, ingest'[u].source)
        BY <1>5, <1>8, <1>9, <4>1 DEF Alone
      <4>4. Alone(v)'
        BY <1>1, <3>1, <4>2, <4>3 DEF Alone, Collide
      <4>5. Advanced(v, chunks)'
        BY <1>1, <3>1, <4>1 DEF Advanced
      <4> QED
        BY <4>4, <4>5
    <3> QED
      BY <1>10, <2>1, <3>1, <3>2 DEF Works
  <2> QED
    BY <2>2, <2>3
<1>17. ASSUME NEW t \in Source PROVE Fresh(t)'
  <2>1. CASE t = s
    BY <1>5, <1>8, <2>1 DEF Fresh
  <2>2. CASE t # s
    <3>1. ingest[w].source # t
      BY <1>1, SourcesAre DEF Current, Works
    <3>2. \A v \in Ingestor : ingest[v].source = t => ingest'[v].source = t
      BY <1>9, <3>1
    <3> QED
      BY <1>1, <1>4, <3>2 DEF Current, Fresh
  <2> QED
    BY <2>1, <2>2
<1> QED
  BY <1>11, <1>12, <1>14, <1>15, <1>16, <1>17 DEF Current

LEMMA VectorsGo ==
  ASSUME Current, NEW l \in Lore, DeleteVectors(l)
  PROVE  Current'
<1> DEFINE under(d) == \E w \in Ingestor : ingest[w].source = <<l, d>>
           gone == {s \in Source : s[1] = l /\ ~under(s[2])}
           spoilt(w) == [ingest[w] EXCEPT !.spoilt = TRUE]
<1>1. /\ deleting' = deleting \ {l} /\ chunks' = {c \in chunks : c.lore # l}
      /\ ingest' = [w \in Ingestor |-> IF ingest[w].source[1] = l THEN spoilt(w) ELSE ingest[w]]
      /\ forms' = [s \in Source |-> IF s \in gone THEN {} ELSE forms[s]]
      /\ latest' = [s \in Source |-> IF s[1] = l THEN Never ELSE latest[s]]
      /\ unsettled' = unsettled \ gone /\ UNCHANGED <<store, ingests>>
  BY DEF DeleteVectors
<1>2. /\ LoreTyped /\ Placed(chunks) /\ Marked /\ ingest \in [Ingestor -> Jobs]
      /\ \A w \in Ingestor : Works(w)
  BY DEF Current, LoreTyped
<1>3. ASSUME NEW w \in Ingestor
      PROVE  /\ spoilt(w) \in Jobs /\ spoilt(w).source = ingest[w].source /\ spoilt(w).spoilt
             /\ spoilt(w).total = ingest[w].total /\ spoilt(w).next = ingest[w].next
             /\ spoilt(w).step = ingest[w].step
  <2>1. ingest[w] \in Jobs
    BY <1>2
  <2> QED
    BY <2>1 DEF Jobs
<1> HIDE DEF spoilt
<1>4. /\ ingest' \in [Ingestor -> Jobs]
      /\ \A w \in Ingestor : ingest[w].source[1] = l => ingest'[w] = spoilt(w)
      /\ \A w \in Ingestor : ingest[w].source[1] # l => ingest'[w] = ingest[w]
  <2>1. \A w \in Ingestor : (IF ingest[w].source[1] = l THEN spoilt(w) ELSE ingest[w]) \in Jobs
    BY <1>2, <1>3
  <2> QED
    BY <1>1, <2>1
<1>5. \A w \in Ingestor : ingest'[w].source = ingest[w].source /\ ingest'[w].step = ingest[w].step
  BY <1>3, <1>4
<1>6. /\ \A s \in Source : s \notin gone => forms'[s] = forms[s]
      /\ \A s \in Source : forms'[s] \subseteq forms[s]
      /\ \A s \in Source : s \in gone => forms'[s] = {} /\ s[1] = l
      /\ \A s \in Source : s[1] # l => latest'[s] = latest[s] /\ s \notin gone
      /\ \A s \in Source : s[1] = l => latest'[s] = Never
  BY <1>1
<1>7. \A w \in Ingestor : ingest[w].source \notin gone
  <2> SUFFICES ASSUME NEW w \in Ingestor, ingest[w].source \in gone PROVE FALSE
    OBVIOUS
  <2>1. ingest[w].source \in Source /\ ingest[w].source[1] = l /\ ~under(ingest[w].source[2])
    OBVIOUS
  <2>2. ingest[w].source = <<l, ingest[w].source[2]>>
    BY <2>1, SourcesAre
  <2> QED
    BY <2>1, <2>2
<1>8. LoreTyped'
  <2>1. forms' \in [Source -> SUBSET (Nat \ {0})]
    BY <1>1, <1>2 DEF LoreTyped
  <2>2. latest' \in [Source -> [text : Nat, total : Nat]]
    BY <1>1, <1>2 DEF LoreTyped, Never
  <2> QED
    BY <1>1, <1>2, <1>4, <2>1, <2>2 DEF LoreTyped
<1> HIDE DEF gone
<1>9. Placed(chunks)'
  <2>1. ASSUME NEW c \in chunks, c.lore # l
        PROVE  /\ Of(c) \in Source
               /\ \E m \in forms'[Of(c)] : \E i \in 0..(m - 1) : c.id = ChunkId(Of(c), i, m)
    <3>1. Of(c) \in Source /\ Of(c)[1] # l
      BY <1>2, <2>1 DEF Placed, Of
    <3>2. forms'[Of(c)] = forms[Of(c)]
      BY <1>6, <3>1
    <3> QED
      BY <1>2, <3>1, <3>2 DEF Placed
  <2> QED
    BY <1>1, <2>1 DEF Placed
<1>10. Marked'
  <2>1. ASSUME NEW x \in Source, NEW y \in Source, x # y, Collide(x, y), forms'[x] # {}, forms'[y] # {}
        PROVE  x \in unsettled'
    BY <1>1, <1>2, <1>6, <2>1 DEF Marked
  <2>2. \A s \in Source : forms'[s] = {} => latest'[s] = Never
    BY <1>2, <1>6 DEF Marked
  <2> QED
    BY <1>1, <2>1, <2>2 DEF Marked, Collide
<1>11. ASSUME NEW w \in Ingestor PROVE Works(w)'
  <2>1. CASE ingest[w].step = "idle"
    <3>1. ingest[w] = NoIngest /\ ingest[w].source[1] # l
      BY <1>2, <2>1, SourceAssumption DEF Works, NoIngest
    <3>2. ingest'[w] = ingest[w]
      BY <1>4, <3>1
    <3> QED
      BY <2>1, <3>1, <3>2 DEF Works
  <2>2. CASE ingest[w].step # "idle" /\ ingest[w].source[1] = l
    <3>1. /\ ingest[w].source \in Source /\ ingest[w].total \in forms[ingest[w].source]
          /\ ingest[w].next < ingest[w].total
      BY <1>2, <2>2 DEF Works
    <3>2. ingest[w].total \in forms'[ingest[w].source]
      BY <1>6, <1>7, <3>1
    <3> QED
      BY <1>3, <1>4, <2>2, <3>1, <3>2 DEF Works
  <2>3. CASE ingest[w].step # "idle" /\ ingest[w].source[1] # l
    <3> DEFINE r == ingest[w]
    <3>1. /\ r.source \in Source /\ r.total \in forms[r.source] /\ r.next < r.total
          /\ ~r.spoilt => Alone(w) /\ Advanced(w, chunks)
      BY <1>2, <2>3 DEF Works
    <3>2. ingest'[w] = r /\ forms'[r.source] = forms[r.source]
      BY <1>4, <1>6, <2>3, <3>1
    <3>3. FoundIn(r.source, chunks') = FoundIn(r.source, chunks)
      BY <1>1, <2>3 DEF FoundIn
    <3>4. ASSUME ~r.spoilt PROVE Alone(w)'
      <4>1. \A t \in Source : t # r.source /\ Collide(r.source, t) => forms'[t] = {}
        BY <1>6, <3>1, <3>4 DEF Alone
      <4>2. \A u \in Ingestor : u # w /\ ingest'[u].step # "idle" =>
               ~Collide(r.source, ingest'[u].source)
        BY <1>5, <3>1, <3>4 DEF Alone
      <4> QED
        BY <1>1, <3>2, <4>1, <4>2 DEF Alone, Collide
    <3>5. ASSUME ~r.spoilt PROVE Advanced(w, chunks)'
      <4>1. /\ Written(chunks, r.source, r.text, r.total, r.next)
            /\ r.step = "insert" => \A c \in FoundIn(r.source, chunks) :
                                       c.id # ChunkId(r.source, r.next, r.total)
        BY <3>1, <3>5 DEF Advanced
      <4>2. \A i \in 0..(r.next - 1) : Chunk(r.source, r.text, i, r.total).lore = r.source[1]
        BY <3>1, ChunkIs
      <4>3. Written(chunks', r.source, r.text, r.total, r.next)
        BY <1>1, <2>3, <3>3, <4>1, <4>2 DEF Written
      <4> QED
        BY <3>2, <3>3, <4>1, <4>3 DEF Advanced
    <3> QED
      BY <2>3, <3>1, <3>2, <3>4, <3>5 DEF Works
  <2> QED
    BY <2>1, <2>2, <2>3
<1>12. ASSUME NEW s \in Source PROVE Fresh(s)'
  <2>1. CASE s[1] = l
    <3>1. FoundIn(s, chunks') = {} /\ Chunks(s, 0, 0) = {}
      BY <1>1, <2>1 DEF FoundIn, Chunks
    <3>2. latest'[s].text = 0 /\ latest'[s].total = 0
      BY <1>6, <2>1 DEF Never
    <3> QED
      BY <3>1, <3>2 DEF Fresh
  <2>2. CASE s[1] # l
    <3>1. FoundIn(s, chunks') = FoundIn(s, chunks)
      BY <1>1, <2>2 DEF FoundIn
    <3>2. latest'[s] = latest[s] /\ (s \in unsettled => s \in unsettled')
          /\ (s[1] \in deleting => s[1] \in deleting')
      BY <1>1, <1>6, <2>2
    <3> QED
      BY <1>5, <3>1, <3>2 DEF Current, Fresh
  <2> QED
    BY <2>1, <2>2
<1> QED
  BY <1>8, <1>9, <1>10, <1>11, <1>12 DEF Current

-----------------------------------------------------------------------------

LEMMA LoreStarts == LoreInit => Current
<1> SUFFICES ASSUME LoreInit PROVE Current
  OBVIOUS
<1>1. NoIngest \in Jobs /\ Never \in [text : Nat, total : Nat] /\ NoIngest.step = "idle"
  BY DEF NoIngest, Jobs, Never
<1>2. LoreTyped
  BY <1>1 DEF LoreInit, LoreTyped
<1>3. Placed(chunks) /\ Marked
  BY DEF LoreInit, Placed, Marked
<1>4. \A w \in Ingestor : Works(w)
  BY <1>1 DEF LoreInit, Works
<1>5. ASSUME NEW s \in Source PROVE Fresh(s)
  <2>1. latest[s].text = 0 /\ latest[s].total = 0 /\ chunks = {}
    BY DEF LoreInit, Never
  <2>2. FoundIn(s, chunks) = {} /\ Chunks(s, 0, 0) = {}
    BY <2>1 DEF FoundIn, Chunks
  <2> QED
    BY <2>1, <2>2 DEF Fresh
<1> QED
  BY <1>2, <1>3, <1>4, <1>5 DEF Current

\* Every step keeps it.
LEMMA CurrentHolds == LoreSpec => []Current
<1>1. Current /\ [LoreNext]_loreVars => Current'
  <2> SUFFICES ASSUME Current, [LoreNext]_loreVars PROVE Current'
    OBVIOUS
  <2>1. ASSUME NEW w \in Ingestor,
               \/ Ingest(w) \/ Ensure(w) \/ WriteAll(w) \/ WriteNext(w) \/ Erase(w)
               \/ InsertChunk(w) \/ IngestFails(w)
        PROVE  Current'
    BY <2>1, Ingests, Ensures, WritesAll, WritesNext, Erases, Inserts, Fails
  <2>2. ASSUME NEW l \in Lore,
               CreateLore(l) \/ DeleteLore(l) \/ DeleteVectors(l) \/ DeleteVectorsFails(l)
        PROVE  Current'
    BY <2>2, LoresChange, VectorsGo
  <2>3. CASE UNCHANGED loreVars
    <3>1. /\ UNCHANGED <<store, lores, deleting, collection, chunks, ingest, ingests, forms, latest,
                         unsettled>>
      BY <2>3 DEF loreVars
    <3>2. \A w \in Ingestor : Works(w)'
      BY <3>1 DEF Current, Works, Alone, Advanced, Collide
    <3>3. \A s \in Source : Fresh(s)'
      BY <3>1 DEF Current, Fresh
    <3> QED
      BY <3>1, <3>2, <3>3 DEF Current, LoreTyped, Placed, Marked, Collide
  <2> QED
    BY <2>1, <2>2, <2>3 DEF LoreNext
<1> QED
  BY <1>1, LoreStarts, PTL DEF LoreSpec

\* Whatever texts are ingested into whatever Lores, at once or one after the other, in whatever order
\* their writes and failures come, and whichever Lores are deleted meanwhile: what a Lore answers of a
\* document is the text ingested last, whole and nothing else, unless one of the reasons that
\* AnswersAreFresh lists has come between (Weave.IngestLore, chunkID; Upsert of the LoreStores).
THEOREM LoresAnswerFresh == LoreSpec => []AnswersAreFresh
<1>1. Current => AnswersAreFresh
  BY DEF Current, Fresh, AnswersAreFresh, Found, FoundIn
<1> QED
  BY <1>1, CurrentHolds, PTL
=============================================================================
