--------------------------- MODULE ReasoningProofs ---------------------------
(* The four safety properties of a turn, for any Spirit, budget and number  *)
(* of deliveries, by an invariant on the turn of the process and on the     *)
(* turn of the saved snapshot alike: what the loop relies on when it goes   *)
(* on is what a resume finds.                                               *)
EXTENDS Reasoning, FiniteSetTheorems, FunctionTheorems, SequenceTheorems, TLAPS

-----------------------------------------------------------------------------
(* Contexts *)

\* The results of the calls of message i follow it, in some order.
Resolved(context, i) ==
    LET calls == context[i].calls
    IN  /\ i + Len(calls) <= Len(context)
        /\ \E order \in Bijection(DOMAIN calls, DOMAIN calls) :
            \A j \in DOMAIN calls : /\ context[i + j].from = "tool"
                                    /\ context[i + j].calls = <<calls[order[j]]>>
\* Message i needs such results.
Asks(context, i) ==
    context[i].from = "assistant" /\ Handoff \notin ToSet(context[i].calls)
Answered(context, last) == \A i \in 1..last : Asks(context, i) => Resolved(context, i)

ToolsAt(context) == {i \in DOMAIN context : ToolMessage(context[i])}

\* The context has the assistant's message of iteration n after position p.
Holds(context, n, p) ==
    \E i \in DOMAIN context : i > p /\ context[i].from = "assistant" /\ context[i].iter = n

\* What compression and topic switches do: the messages after position k move behind pre.
Rebased(context, pre, k) == pre \o SubSeq(context, k + 1, Len(context))

LEMMA RebasedMessages ==
  ASSUME NEW context \in Seq(Message), NEW pre \in Seq(Message), NEW k \in 0..Len(context)
  PROVE  /\ Rebased(context, pre, k) \in Seq(Message)
         /\ Len(Rebased(context, pre, k)) = Len(pre) + (Len(context) - k)
         /\ \A i \in 1..Len(pre) : Rebased(context, pre, k)[i] = pre[i]
         /\ \A i \in 1..(Len(context) - k) :
               Rebased(context, pre, k)[Len(pre) + i] = context[k + i]
<1> DEFINE rest == SubSeq(context, k + 1, Len(context))
<1>1. rest \in Seq(Message) /\ Len(rest) = Len(context) - k
      /\ \A i \in 1..(Len(context) - k) : rest[i] = context[k + i]
  OBVIOUS
<1> HIDE DEF rest
<1>2. Rebased(context, pre, k) = pre \o rest
  BY DEF Rebased, rest
<1>3. /\ pre \o rest \in Seq(Message) /\ Len(pre \o rest) = Len(pre) + Len(rest)
      /\ \A i \in 1..(Len(pre) + Len(rest)) :
            (pre \o rest)[i] = IF i <= Len(pre) THEN pre[i] ELSE rest[i - Len(pre)]
  BY <1>1, ConcatProperties
<1>5. \A i \in 1..Len(pre) : (pre \o rest)[i] = pre[i]
  BY <1>1, <1>3
<1>4. \A i \in 1..Len(rest) : (pre \o rest)[Len(pre) + i] = rest[i]
  <2> TAKE i \in 1..Len(rest)
  <2>1. Len(pre) + i \in 1..(Len(pre) + Len(rest)) /\ ~(Len(pre) + i <= Len(pre))
        /\ (Len(pre) + i) - Len(pre) = i
    BY <1>1
  <2>2. (pre \o rest)[Len(pre) + i] = IF Len(pre) + i <= Len(pre) THEN pre[Len(pre) + i]
                                      ELSE rest[(Len(pre) + i) - Len(pre)]
    BY <1>3, <2>1
  <2> QED
    BY <2>1, <2>2
<1> QED
  BY <1>1, <1>2, <1>3, <1>4, <1>5

\* A message and what follows it may move: its results move with it.
LEMMA ResolvedMoves ==
  ASSUME NEW context \in Seq(Message), NEW new \in Seq(Message),
         NEW i \in DOMAIN context, NEW p \in DOMAIN new,
         Len(new) - p >= Len(context) - i,
         \A j \in 0..(Len(context) - i) : new[p + j] = context[i + j],
         Resolved(context, i)
  PROVE  Resolved(new, p)
<1> DEFINE calls == context[i].calls
<1>1. new[p].calls = calls
  BY 0 \in 0..(Len(context) - i), new[p + 0] = context[i + 0]
<1>2. i + Len(calls) <= Len(context)
  BY DEF Resolved
<1>7. calls \in Seq(Signature)
  <2>1. context[i] \in Message
    OBVIOUS
  <2> QED
    BY <2>1 DEF Message
<1>3. \A j \in DOMAIN calls : new[p + j] = context[i + j]
  <2> TAKE j \in DOMAIN calls
  <2>1. j \in 1..Len(calls) /\ Len(calls) \in Nat
    BY <1>7
  <2>2. j \in 0..(Len(context) - i)
    BY <1>2, <2>1
  <2> QED
    BY <2>2
<1>4. p + Len(calls) <= Len(new)
  BY <1>7, <1>2
<1> HIDE DEF calls
<1>5. PICK order \in Bijection(DOMAIN calls, DOMAIN calls) :
         \A j \in DOMAIN calls : context[i + j].from = "tool"
                                 /\ context[i + j].calls = <<calls[order[j]]>>
  BY DEF Resolved, calls
<1>6. \A j \in DOMAIN calls : new[p + j].from = "tool"
                              /\ new[p + j].calls = <<calls[order[j]]>>
  BY <1>3, <1>5
<1> QED
  BY <1>1, <1>4, <1>5, <1>6 DEF Resolved

LEMMA AnsweredExtends ==
  ASSUME NEW context \in Seq(Message), NEW new \in Seq(Message),
         NEW last \in 0..Len(context), Answered(context, last)
  PROVE  Answered(context \o new, last)
<1> DEFINE all == context \o new
<1>1. all \in Seq(Message) /\ Len(all) = Len(context) + Len(new)
      /\ \A i \in DOMAIN context : all[i] = context[i] /\ i \in DOMAIN all
  OBVIOUS
<1> HIDE DEF all
<1> SUFFICES ASSUME NEW i \in 1..last, Asks(all, i) PROVE Resolved(all, i)
  BY DEF Answered, all
<1>2. i \in DOMAIN context /\ i \in DOMAIN all /\ Asks(context, i)
  BY <1>1 DEF Asks
<1>3. Resolved(context, i)
  BY <1>2 DEF Answered
<1>4. Len(all) - i >= Len(context) - i
      /\ \A j \in 0..(Len(context) - i) : all[i + j] = context[i + j]
  BY <1>1
<1> QED
  BY <1>1, <1>2, <1>3, <1>4, ResolvedMoves

LEMMA AnsweredRebases ==
  ASSUME NEW context \in Seq(Message), NEW pre \in Seq(Message), NEW k \in 0..Len(context),
         \A i \in DOMAIN pre : pre[i].from # "assistant",
         Answered(context, Len(context))
  PROVE  Answered(Rebased(context, pre, k), Len(Rebased(context, pre, k)))
<1> DEFINE new == Rebased(context, pre, k)
<1>1. /\ new \in Seq(Message) /\ Len(new) = Len(pre) + (Len(context) - k)
      /\ \A i \in 1..Len(pre) : new[i] = pre[i]
      /\ \A i \in 1..(Len(context) - k) : new[Len(pre) + i] = context[k + i]
  BY RebasedMessages
<1> HIDE DEF new
<1> SUFFICES ASSUME NEW p \in 1..Len(new), Asks(new, p) PROVE Resolved(new, p)
  BY DEF Answered, new
<1>2. p > Len(pre)
  BY <1>1 DEF Asks
<1> DEFINE i == k + (p - Len(pre))
<1>3. i \in DOMAIN context /\ p \in DOMAIN new /\ new[p] = context[i]
  <2>1. p - Len(pre) \in 1..(Len(context) - k) /\ Len(pre) + (p - Len(pre)) = p
    BY <1>1, <1>2
  <2>2. new[Len(pre) + (p - Len(pre))] = context[k + (p - Len(pre))]
    BY <1>1, <2>1
  <2> QED
    BY <1>1, <2>1, <2>2
<1>4. Len(new) - p >= Len(context) - i
  BY <1>1, <1>2
<1>5. \A j \in 0..(Len(context) - i) : new[p + j] = context[i + j]
  <2> TAKE j \in 0..(Len(context) - i)
  <2>1. (p - Len(pre)) + j \in 1..(Len(context) - k)
    BY <1>1, <1>2
  <2>2. new[Len(pre) + ((p - Len(pre)) + j)] = context[k + ((p - Len(pre)) + j)]
    BY <1>1, <2>1
  <2>3. Len(pre) + ((p - Len(pre)) + j) = p + j /\ k + ((p - Len(pre)) + j) = i + j
    BY <2>1
  <2> QED
    BY <2>2, <2>3
<1> HIDE DEF i
<1>6. Resolved(context, i)
  BY <1>3 DEF Answered, Asks
<1> QED
  BY <1>1, <1>3, <1>4, <1>5, <1>6, ResolvedMoves

\* The number of results in a context grows by the messages added at most, and only shrinks
\* when a context is rebased.
LEMMA ToolsFinite ==
  ASSUME NEW context \in Seq(Message)
  PROVE  IsFiniteSet(ToolsAt(context)) /\ Cardinality(ToolsAt(context)) \in Nat
<1>1. IsFiniteSet(1..Len(context))
  BY Len(context) \in Nat, FS_Interval
<1>2. ToolsAt(context) \subseteq 1..Len(context)
  BY DEF ToolsAt
<1> QED
  BY <1>1, <1>2, FS_Subset, FS_CardinalityType

LEMMA IntervalSize ==
  ASSUME NEW n \in Nat, NEW m \in Nat
  PROVE  IsFiniteSet((n + 1)..(n + m)) /\ Cardinality((n + 1)..(n + m)) = m
<1>1. IsFiniteSet((n + 1)..(n + m))
      /\ Cardinality((n + 1)..(n + m)) = IF n + 1 > n + m THEN 0 ELSE n + m - (n + 1) + 1
  BY FS_Interval
<1>2. (IF n + 1 > n + m THEN 0 ELSE n + m - (n + 1) + 1) = m
  OBVIOUS
<1> QED
  BY <1>1, <1>2

LEMMA ToolsAdded ==
  ASSUME NEW context \in Seq(Message), NEW new \in Seq(Message)
  PROVE  Cardinality(ToolsAt(context \o new)) <= Cardinality(ToolsAt(context)) + Len(new)
<1> DEFINE added == (Len(context) + 1)..(Len(context) + Len(new))
<1>1. IsFiniteSet(added) /\ Cardinality(added) = Len(new)
  <2>1. Len(context) \in Nat /\ Len(new) \in Nat
    OBVIOUS
  <2> QED
    BY <2>1, IntervalSize
<1>2. ToolsAt(context \o new) \subseteq ToolsAt(context) \cup added
  BY DEF ToolsAt
<1> HIDE DEF added
<1>3. IsFiniteSet(ToolsAt(context)) /\ Cardinality(ToolsAt(context)) \in Nat
  BY ToolsFinite
<1>4. /\ IsFiniteSet(ToolsAt(context) \cup added)
      /\ IsFiniteSet(ToolsAt(context) \cap added)
      /\ Cardinality(ToolsAt(context) \cup added)
         = Cardinality(ToolsAt(context)) + Cardinality(added)
           - Cardinality(ToolsAt(context) \cap added)
  BY <1>1, <1>3, FS_Union, FS_Intersection
<1>5. Cardinality(ToolsAt(context) \cap added) \in Nat
  BY <1>4, FS_CardinalityType
<1>6. Cardinality(ToolsAt(context \o new)) <= Cardinality(ToolsAt(context) \cup added)
  BY <1>2, <1>4, FS_Subset
<1>7. Cardinality(ToolsAt(context \o new)) \in Nat
  BY context \o new \in Seq(Message), ToolsFinite
<1> QED
  BY <1>1, <1>3, <1>4, <1>5, <1>6, <1>7

LEMMA ToolsRebased ==
  ASSUME NEW context \in Seq(Message), NEW pre \in Seq(Message), NEW k \in 0..Len(context),
         \A i \in DOMAIN pre : pre[i].from # "tool"
  PROVE  Cardinality(ToolsAt(Rebased(context, pre, k))) <= Cardinality(ToolsAt(context))
<1> DEFINE new == Rebased(context, pre, k)
           back == [p \in ToolsAt(new) |-> k + (p - Len(pre))]
<1>1. /\ new \in Seq(Message) /\ Len(new) = Len(pre) + (Len(context) - k)
      /\ \A i \in 1..Len(pre) : new[i] = pre[i]
      /\ \A i \in 1..(Len(context) - k) : new[Len(pre) + i] = context[k + i]
  BY RebasedMessages
<1> HIDE DEF new
<1>2. \A p \in ToolsAt(new) : p \in 1..Len(new) /\ p > Len(pre)
  BY <1>1 DEF ToolsAt, ToolMessage
<1>3. \A p \in ToolsAt(new) : k + (p - Len(pre)) \in ToolsAt(context)
  <2> TAKE p \in ToolsAt(new)
  <2>1. p - Len(pre) \in 1..(Len(context) - k) /\ Len(pre) + (p - Len(pre)) = p
    BY <1>1, <1>2
  <2>3. new[Len(pre) + (p - Len(pre))] = context[k + (p - Len(pre))]
    BY <1>1, <2>1
  <2>2. new[p] = context[k + (p - Len(pre))]
    BY <2>1, <2>3
  <2> QED
    BY <2>1, <2>2 DEF ToolsAt
<1>4. back \in [ToolsAt(new) -> ToolsAt(context)]
  BY <1>3
<1>5. \A p, q \in ToolsAt(new) : back[p] = back[q] => p = q
  BY <1>1, <1>2
<1>6. back \in Injection(ToolsAt(new), ToolsAt(context))
  BY <1>4, <1>5 DEF Injection, IsInjective
<1> HIDE DEF back
<1> QED
  BY <1>6, ToolsFinite, FS_Injection DEF new

-----------------------------------------------------------------------------
(* The order of the results *)

\* The skipped calls first, then the others, each in the order of the calls: every call has
\* its place (reasoning_service.go, processActionCalls).
Below(i) == {j \in DOMAIN batch : Before(j, i)}

LEMMA BelowIsSmall ==
  ASSUME batch \in Seq(Signature), NEW i \in DOMAIN batch
  PROVE  /\ IsFiniteSet(Below(i)) /\ Cardinality(Below(i)) \in Nat
         /\ Cardinality(Below(i)) < Len(batch)
         /\ Rank(i) = 1 + Cardinality(Below(i)) /\ Rank(i) \in DOMAIN batch
<1>1. DOMAIN batch = 1..Len(batch) /\ Len(batch) \in Nat
  OBVIOUS
<1>2. IsFiniteSet(1..Len(batch)) /\ Cardinality(1..Len(batch)) = Len(batch)
  <2>1. IsFiniteSet(1..Len(batch))
        /\ Cardinality(1..Len(batch)) = IF 1 > Len(batch) THEN 0 ELSE Len(batch) - 1 + 1
    BY <1>1, FS_Interval
  <2> QED
    BY <1>1, <2>1
<1>3. Below(i) \subseteq 1..Len(batch) /\ Below(i) # 1..Len(batch)
  <2>1. ~Before(i, i)
    BY <1>1 DEF Before
  <2> QED
    BY <1>1, <2>1 DEF Below
<1>4. IsFiniteSet(Below(i)) /\ Cardinality(Below(i)) \in Nat /\ Cardinality(Below(i)) < Len(batch)
  BY <1>2, <1>3, FS_Subset, FS_CardinalityType
<1>5. Rank(i) = 1 + Cardinality(Below(i))
  BY DEF Rank, Below
<1> QED
  BY <1>1, <1>4, <1>5

LEMMA RanksDiffer ==
  ASSUME batch \in Seq(Signature), NEW i \in DOMAIN batch, NEW j \in DOMAIN batch, Before(i, j)
  PROVE  Rank(i) < Rank(j)
<1>1. Below(i) \subseteq Below(j) /\ Below(i) # Below(j)
  <2>1. DOMAIN batch = 1..Len(batch) /\ Len(batch) \in Nat
    OBVIOUS
  <2>2. ~Before(i, i)
    BY <2>1 DEF Before
  <2>3. \A m \in DOMAIN batch : Before(m, i) => Before(m, j)
    BY <2>1 DEF Before
  <2> QED
    BY <2>2, <2>3 DEF Below
<1>2. Cardinality(Below(i)) < Cardinality(Below(j))
  BY <1>1, BelowIsSmall, FS_Subset
<1> QED
  BY <1>2, BelowIsSmall

LEMMA OrderIsBijection ==
  ASSUME batch \in Seq(Signature)
  PROVE  ResultOrder \in Bijection(DOMAIN batch, DOMAIN batch)
<1> DEFINE D == DOMAIN batch
           rank == [i \in D |-> Rank(i)]
<1>1. D = 1..Len(batch) /\ Len(batch) \in Nat
  OBVIOUS
<1>2. IsFiniteSet(D)
  BY <1>1, FS_Interval
<1>3. rank \in [D -> D]
  BY BelowIsSmall
<1>4. \A i, j \in D : rank[i] = rank[j] => i = j
  <2> SUFFICES ASSUME NEW i \in D, NEW j \in D, i # j PROVE rank[i] # rank[j]
    OBVIOUS
  <2>1. CASE Before(i, j)
    BY <1>3, <2>1, BelowIsSmall, RanksDiffer
  <2>2. CASE Before(j, i)
    BY <1>3, <2>2, BelowIsSmall, RanksDiffer
  <2>3. Before(i, j) \/ Before(j, i)
    BY <1>1 DEF Before
  <2> QED
    BY <2>1, <2>2, <2>3
<1>5. rank \in Injection(D, D)
  BY <1>3, <1>4 DEF Injection, IsInjective
<1>6. rank \in Surjection(D, D)
  <2> HIDE DEF rank, D
  <2> QED
    BY <1>2, <1>5, FS_Injection
<1>7. \A n \in D : \E i \in D : Rank(i) = n
  BY <1>3, <1>6 DEF Surjection
<1>8. \A n \in D : ResultOrder[n] \in D /\ Rank(ResultOrder[n]) = n
  BY <1>7 DEF ResultOrder
<1>9. ResultOrder \in [D -> D]
  <2>1. ResultOrder = [n \in D |-> ResultOrder[n]]
    BY DEF ResultOrder
  <2> QED
    BY <1>8, <2>1
<1>10. \A n, m \in D : ResultOrder[n] = ResultOrder[m] => n = m
  BY <1>8
<1>11. \A i \in D : \E n \in D : ResultOrder[n] = i
  <2> TAKE i \in D
  <2>1. rank[i] \in D /\ rank[i] = Rank(i)
    BY <1>3
  <2>2. Rank(ResultOrder[Rank(i)]) = Rank(i) /\ ResultOrder[Rank(i)] \in D
    BY <1>8, <2>1
  <2>3. ResultOrder[Rank(i)] = i
    BY <1>4, <2>2
  <2> QED
    BY <2>1, <2>3
<1> HIDE DEF D
<1>12. ResultOrder \in Injection(D, D) /\ ResultOrder \in Surjection(D, D)
  BY <1>9, <1>10, <1>11 DEF Injection, Surjection, IsInjective
<1> QED
  BY <1>12 DEF Bijection, D

LEMMA ToolMessagesAnswer ==
  ASSUME batch \in Seq(Signature), turn \in Turns
  PROVE  /\ ToolMessages \in Seq(Message) /\ Len(ToolMessages) = Len(batch)
         /\ \A j \in DOMAIN batch : /\ ToolMessages[j].from = "tool"
                                    /\ ToolMessages[j].calls = <<batch[ResultOrder[j]]>>
<1>1. DOMAIN batch = 1..Len(batch) /\ Len(batch) \in Nat
      /\ \A j \in DOMAIN batch : batch[j] \in Signature
  OBVIOUS
<1>2. \A j \in DOMAIN batch : ResultOrder[j] \in DOMAIN batch
  BY OrderIsBijection DEF Bijection, Injection
<1>3. turn.iterationsUsed \in 0..MaxIterations
  BY DEF Turns
<1>4. \A j \in DOMAIN batch :
         [from |-> "tool", iter |-> turn.iterationsUsed, calls |-> <<batch[ResultOrder[j]]>>]
         \in Message
  <2> TAKE j \in DOMAIN batch
  <2>1. PICK s \in Signature : s = batch[ResultOrder[j]]
    BY <1>1, <1>2
  <2>2. <<s>> \in Seq(Signature)
    OBVIOUS
  <2> QED
    BY <1>3, <2>1, <2>2 DEF Message
<1>5. ToolMessages \in [1..Len(batch) -> Message]
  BY <1>1, <1>4 DEF ToolMessages
<1>6. ToolMessages \in Seq(Message) /\ Len(ToolMessages) = Len(batch)
  BY <1>1, <1>5, IsASeq, LenProperties
<1>7. \A j \in DOMAIN batch : /\ ToolMessages[j].from = "tool"
                             /\ ToolMessages[j].calls = <<batch[ResultOrder[j]]>>
  BY DEF ToolMessages
<1> QED
  BY <1>6, <1>7

-----------------------------------------------------------------------------
(* What a turn keeps to, in the process and in the snapshot *)

\* The history that the turn started with, or was switched to, is whole.
Pinned(p, t) ==
    /\ t.conversationOffset <= Len(t.context)
    /\ \A i \in 1..Len(t.context) :
           t.context[i].from = "history" <=> i <= t.conversationOffset
    /\ IF p.message
       THEN /\ t.conversationOffset # Len(t.context)
            /\ t.context[t.conversationOffset + 1].from \in {"user", "ledger"}
       ELSE \A i \in 1..Len(t.context) : t.context[i].from # "user"

\* The latest iterations are in the context,
Recent(p, t) ==
    \A n \in 1..t.iterationsUsed :
        n >= t.iterationsUsed - p.keep + 2 => Holds(t.context, n, 0)

\* and after the boundary that a compression may cut at, those that it has to keep. While
\* the calls of the current iteration run, its own boundary is still to come.
Bounded(t, coming) ==
    ~t.topicSwitched =>
        \A j \in DOMAIN t.boundaries :
            /\ t.boundaries[j] <= Len(t.context)
            /\ \A n \in 1..t.iterationsUsed :
                   n > t.iterationsUsed - (Len(t.boundaries) - j) - coming =>
                       Holds(t.context, n, t.boundaries[j])

\* Every result was counted when it was asked for.
Within(p, t, more) ==
    p.keep = 0 => Cardinality(ToolsAt(t.context)) + more <= t.totalActionCalls

Telling(t) == t.memo \cap Delivery # {} => t.delivered

Settled(p, t, coming) ==
    /\ Pinned(p, t) /\ Recent(p, t) /\ Bounded(t, coming) /\ Within(p, t, 0) /\ Telling(t)
    /\ Answered(t.context, Len(t.context))

Acting(p, t, calls) ==
    /\ Pinned(p, t) /\ Recent(p, t) /\ Bounded(t, 1) /\ Within(p, t, Len(calls)) /\ Telling(t)
    /\ Len(t.context) > 0 /\ Answered(t.context, Len(t.context) - 1)
    /\ t.context[Len(t.context)].from = "assistant"
    /\ t.context[Len(t.context)].calls = calls

\* What these read of a turn, apart from its context.
Alike(u, t) ==
    /\ u.conversationOffset = t.conversationOffset /\ u.iterationsUsed = t.iterationsUsed
    /\ u.boundaries = t.boundaries /\ u.topicSwitched = t.topicSwitched
    /\ u.totalActionCalls = t.totalActionCalls
    /\ u.memo = t.memo /\ u.delivered = t.delivered

LEMMA AlikeKeeps ==
  ASSUME NEW p, NEW t, NEW u, NEW calls, NEW coming, Alike(u, t), u.context = t.context
  PROVE  /\ Settled(p, t, coming) => Settled(p, u, coming)
         /\ Acting(p, t, calls) => Acting(p, u, calls)
  BY DEF Alike, Settled, Acting, Pinned, Recent, Bounded, Within, Telling

LEMMA HoldsOn ==
  ASSUME NEW context \in Seq(Message), NEW new \in Seq(Message), NEW n, NEW p,
         Holds(context, n, p)
  PROVE  Holds(context \o new, n, p)
<1>1. PICK i \in DOMAIN context :
         i > p /\ context[i].from = "assistant" /\ context[i].iter = n
  BY DEF Holds
<1>2. i \in DOMAIN (context \o new) /\ (context \o new)[i] = context[i]
  OBVIOUS
<1> QED
  BY <1>1, <1>2 DEF Holds

LEMMA HoldsRebased ==
  ASSUME NEW context \in Seq(Message), NEW pre \in Seq(Message), NEW k \in 0..Len(context),
         NEW n, NEW p \in Nat, Holds(context, n, p),
         p >= k \/ \A i \in 1..k : context[i].from # "assistant"
  PROVE  Holds(Rebased(context, pre, k), n, 0)
<1>1. PICK i \in DOMAIN context :
         i > p /\ context[i].from = "assistant" /\ context[i].iter = n
  BY DEF Holds
<1>2. i \in 1..Len(context) /\ i > k
  BY <1>1
<1>3. i - k \in 1..(Len(context) - k) /\ k + (i - k) = i
  BY <1>2
<1>4. Rebased(context, pre, k)[Len(pre) + (i - k)] = context[k + (i - k)]
  BY <1>3, RebasedMessages
<1>5. Len(pre) + (i - k) \in DOMAIN Rebased(context, pre, k) /\ Len(pre) + (i - k) > 0
  <2> DEFINE new == Rebased(context, pre, k)
  <2>1. new \in Seq(Message) /\ Len(new) = Len(pre) + (Len(context) - k)
    BY RebasedMessages
  <2> HIDE DEF new
  <2>2. Len(pre) + (i - k) \in DOMAIN new /\ Len(pre) + (i - k) > 0
    BY <1>3, <2>1
  <2> QED
    BY <2>2 DEF new
<1> QED
  BY <1>1, <1>3, <1>4, <1>5 DEF Holds

\* Messages are added at the end: what was true of the context stays so.
LEMMA Grows ==
  ASSUME NEW p, NEW t \in Turns, NEW u \in Turns, NEW new \in Seq(Message),
         u.context = t.context \o new,
         u.conversationOffset = t.conversationOffset, u.iterationsUsed = t.iterationsUsed,
         u.boundaries = t.boundaries, u.topicSwitched = t.topicSwitched, p.keep \in Nat,
         \A i \in DOMAIN new : new[i].from \notin {"history", "user"},
         NEW coming
  PROVE  /\ Pinned(p, t) => Pinned(p, u)
         /\ Recent(p, t) => Recent(p, u)
         /\ Bounded(t, coming) => Bounded(u, coming)
<1>1. t.context \in Seq(Message) /\ t.conversationOffset \in Nat
      /\ t.boundaries \in Seq(Nat)
  BY DEF Turns
<1>2. Len(u.context) = Len(t.context) + Len(new) /\ Len(new) \in Nat
      /\ Len(t.context) \in Nat
  BY <1>1
<1>3. \A i \in 1..Len(t.context) : u.context[i] = t.context[i]
  BY <1>1
<1>8. \A i \in 1..Len(u.context) :
         i > Len(t.context) => u.context[i].from \notin {"history", "user"}
  <2> SUFFICES ASSUME NEW i \in 1..Len(u.context), i > Len(t.context)
               PROVE  u.context[i].from \notin {"history", "user"}
    OBVIOUS
  <2>1. i - Len(t.context) \in DOMAIN new /\ u.context[i] = new[i - Len(t.context)]
    BY <1>1, <1>2
  <2> QED
    BY <2>1
<1>4. Pinned(p, t) => Pinned(p, u)
  <2> SUFFICES ASSUME Pinned(p, t) PROVE Pinned(p, u)
    OBVIOUS
  <2>1. t.conversationOffset <= Len(t.context) /\ t.conversationOffset <= Len(u.context)
    BY <1>1, <1>2 DEF Pinned
  <2>2. \A i \in 1..Len(u.context) : u.context[i].from = "history" <=> i <= u.conversationOffset
    BY <1>1, <1>2, <1>3, <1>8, <2>1 DEF Pinned
  <2>3. p.message => /\ u.conversationOffset # Len(u.context)
                     /\ u.context[u.conversationOffset + 1].from \in {"user", "ledger"}
    <3> SUFFICES ASSUME p.message
                 PROVE  /\ u.conversationOffset # Len(u.context)
                        /\ u.context[u.conversationOffset + 1].from \in {"user", "ledger"}
      OBVIOUS
    <3>1. t.conversationOffset + 1 \in 1..Len(t.context)
      BY <1>1, <1>2, <2>1 DEF Pinned
    <3> QED
      BY <1>1, <1>2, <1>3, <3>1 DEF Pinned
  <2>4. ~p.message => \A i \in 1..Len(u.context) : u.context[i].from # "user"
    BY <1>1, <1>2, <1>3, <1>8 DEF Pinned
  <2> QED
    BY <2>1, <2>2, <2>3, <2>4 DEF Pinned
<1>5. \A n, q : Holds(t.context, n, q) => Holds(u.context, n, q)
  BY <1>1, HoldsOn
<1>6. Recent(p, t) => Recent(p, u)
  BY <1>5 DEF Recent
<1>7. Bounded(t, coming) => Bounded(u, coming)
  <2>1. \A j \in DOMAIN t.boundaries : t.boundaries[j] \in Nat
    BY <1>1
  <2> QED
    BY <1>2, <1>5, <2>1 DEF Bounded
<1> QED
  BY <1>4, <1>6, <1>7

\* A context whose messages before position k became a history, and perhaps a ledger.
LEMMA PinnedRebases ==
  ASSUME NEW p, NEW t \in Turns, NEW u \in Turns, Pinned(p, t), NEW pre \in Seq(Message),
         NEW k \in 0..Len(t.context), k >= t.conversationOffset,
         u.context = Rebased(t.context, pre, k),
         \A i \in 1..Len(pre) : /\ pre[i].from = "history" <=> i <= u.conversationOffset
                                /\ pre[i].from # "user",
         \/ u.conversationOffset = Len(pre) /\ k = t.conversationOffset
         \/ u.conversationOffset + 1 = Len(pre) /\ pre[Len(pre)].from = "ledger"
  PROVE  Pinned(p, u)
<1> DEFINE old == t.context
           new == u.context
           m == Len(pre)
           offset == u.conversationOffset
<1>1. /\ old \in Seq(Message) /\ Len(old) \in Nat /\ m \in Nat /\ k \in Nat /\ offset \in Nat
      /\ t.conversationOffset \in Nat
  <2>1. t.context \in Seq(Message) /\ t.conversationOffset \in Nat
    BY DEF Turns
  <2>2. u.conversationOffset \in Nat
    BY DEF Turns
  <2>3. Len(t.context) \in Nat /\ m \in Nat /\ k \in Nat
    BY <2>1
  <2> QED
    BY <2>1, <2>2, <2>3
<1>2. /\ new \in Seq(Message) /\ Len(new) = m + (Len(old) - k)
      /\ \A i \in 1..m : new[i] = pre[i]
      /\ \A i \in 1..(Len(old) - k) : new[m + i] = old[k + i]
  <2> HIDE DEF old, new, m
  <2>1. /\ Rebased(old, pre, k) \in Seq(Message) /\ k \in 0..Len(old)
        /\ Len(Rebased(old, pre, k)) = Len(pre) + (Len(old) - k)
        /\ \A i \in 1..Len(pre) : Rebased(old, pre, k)[i] = pre[i]
        /\ \A i \in 1..(Len(old) - k) : Rebased(old, pre, k)[Len(pre) + i] = old[k + i]
    BY <1>1, RebasedMessages DEF old
  <2> QED
    BY <2>1 DEF old, new, m
<1>9. Len(new) \in Nat /\ k <= Len(old)
  BY <1>1, <1>2
<1>3. offset <= m /\ offset <= Len(new)
  BY <1>1, <1>2
<1> HIDE DEF new
<1>4. \A i \in 1..Len(new) :
         i > m => new[i].from # "history" /\ (new[i].from # "user" \/ p.message)
  <2> SUFFICES ASSUME NEW i \in 1..Len(new), i > m
               PROVE  new[i].from # "history" /\ (new[i].from # "user" \/ p.message)
    OBVIOUS
  <2>1. i - m \in 1..(Len(old) - k) /\ m + (i - m) = i /\ k + (i - m) \in 1..Len(old)
        /\ k + (i - m) > t.conversationOffset
    <3> HIDE DEF m, old
    <3>1. i \in Nat /\ i <= m + (Len(old) - k)
      BY <1>2, <1>9
    <3> QED
      BY <1>1, <1>9, <3>1
  <2>2. new[m + (i - m)] = old[k + (i - m)]
    BY <1>2, <2>1
  <2>3. PICK j \in 1..Len(old) : j > t.conversationOffset /\ new[i] = old[j]
    <3> HIDE DEF m, old
    <3> QED
      BY <2>1, <2>2
  <2>4. ~(j <= t.conversationOffset)
    <3> HIDE DEF m, old
    <3> QED
      BY <1>1, <2>3
  <2>5. /\ old[j].from = "history" <=> j <= t.conversationOffset
        /\ ~p.message => old[j].from # "user"
    BY <2>3 DEF Pinned
  <2> QED
    BY <2>3, <2>4, <2>5
<1>10. \A i \in 1..Len(new) : i > m => new[i].from # "history" /\ ~(i <= offset)
  <2> HIDE DEF m, offset
  <2>1. \A i \in 1..Len(new) : i > m => new[i].from # "history"
    BY <1>4
  <2>2. \A i \in 1..Len(new) : i > m => ~(i <= offset)
    BY <1>1, <1>3, <1>9
  <2> QED
    BY <2>1, <2>2
<1>5. \A i \in 1..Len(new) : new[i].from = "history" <=> i <= offset
  <2> TAKE i \in 1..Len(new)
  <2>1. CASE i <= m
    BY <1>1, <1>2, <1>9, <2>1
  <2>2. CASE i > m
    BY <1>10, <2>2
  <2> QED
    BY <1>1, <1>9, <2>1, <2>2
<1>6. ~p.message => \A i \in 1..Len(new) : new[i].from # "user"
  <2> SUFFICES ASSUME ~p.message, NEW i \in 1..Len(new) PROVE new[i].from # "user"
    OBVIOUS
  <2>1. CASE i > m
    BY <1>4, <2>1
  <2>2. CASE ~(i > m)
    <3> HIDE DEF m
    <3>1. i \in 1..m
      BY <1>1, <1>9, <2>2
    <3>2. new[i] = pre[i]
      BY <1>2, <3>1
    <3> QED
      BY <3>1, <3>2 DEF m
  <2> QED
    BY <2>1, <2>2
<1>7. p.message => offset # Len(new) /\ new[offset + 1].from \in {"user", "ledger"}
  <2> SUFFICES ASSUME p.message
               PROVE  offset # Len(new) /\ new[offset + 1].from \in {"user", "ledger"}
    OBVIOUS
  <2>1. CASE offset = m /\ k = t.conversationOffset
    <3>1. k # Len(old) /\ old[k + 1].from \in {"user", "ledger"}
      BY <2>1 DEF Pinned
    <3>2. 1 \in 1..(Len(old) - k)
      BY <1>1, <3>1
    <3>3. new[m + 1] = old[k + 1]
      BY <1>2, <3>2
    <3>4. m # m + (Len(old) - k)
      BY <1>1, <3>1
    <3> QED
      BY <1>2, <2>1, <3>1, <3>3, <3>4
  <2>2. CASE offset + 1 = m /\ pre[m].from = "ledger"
    <3>1. offset + 1 \in 1..m /\ offset # Len(new)
      BY <1>1, <1>2, <2>2
    <3> QED
      BY <1>2, <2>2, <3>1
  <2> QED
    BY <2>1, <2>2
<1> QED
  BY <1>3, <1>5, <1>6, <1>7 DEF Pinned, new

LEMMA HistoryIs ==
  ASSUME NEW topic \in Topic
  PROVE  /\ Echoes[topic] \in Nat /\ Len(History(topic)) = Echoes[topic]
         /\ History(topic) \in Seq(Message)
         /\ \A i \in 1..Echoes[topic] : History(topic)[i].from = "history"
<1>1. Echoes[topic] \in Nat
  BY TopicAssumption
<1>2. Note("history", 0) \in Message /\ Note("history", 0).from = "history"
  <2>1. << >> \in Seq(Signature) /\ 0 \in 0..MaxIterations
    BY BoundsAssumption
  <2> QED
    BY <2>1 DEF Note, Message
<1>3. History(topic) = [i \in 1..Echoes[topic] |-> Note("history", 0)]
  BY DEF History
<1>4. History(topic) \in Seq(Message)
  BY <1>1, <1>2, <1>3, IsASeq
<1> QED
  BY <1>1, <1>2, <1>3, <1>4, LenProperties

LEMMA Starts ==
  ASSUME policy.keep \in Nat
  PROVE  NewTurn \in Turns /\ Settled(policy, NewTurn, 0)
<1> USE TopicAssumption, BoundsAssumption
<1> DEFINE past == History(HomeTopic)
           n == Echoes[HomeTopic]
           context == past \o Opening
<1>1. /\ n \in Nat /\ past \in Seq(Message) /\ Len(past) = n
      /\ \A i \in 1..n : past[i].from = "history"
  BY HistoryIs
<1>2. /\ Opening \in Seq(Message) /\ \A i \in DOMAIN Opening : Opening[i].from = "user"
      /\ policy.message => Len(Opening) = 1
      /\ ~policy.message => Len(Opening) = 0
  <2>1. Note("user", 0) \in Message /\ Note("user", 0).from = "user"
    <3>1. << >> \in Seq(Signature) /\ 0 \in 0..MaxIterations
      OBVIOUS
    <3> QED
      BY <3>1 DEF Note, Message
  <2> QED
    BY <2>1 DEF Opening
<1>3. /\ NewTurn.context = context /\ NewTurn.conversationOffset = n
      /\ NewTurn.iterationsUsed = 0 /\ NewTurn.boundaries = << >> /\ NewTurn.memo = {}
      /\ NewTurn.totalActionCalls = 0
  BY DEF NewTurn
<1> HIDE DEF past, n
<1>4. /\ context \in Seq(Message) /\ Len(context) = n + Len(Opening)
      /\ \A i \in 1..n : context[i].from = "history"
      /\ \A i \in 1..Len(context) : i > n => context[i].from = "user"
  <2>1. /\ context \in Seq(Message) /\ Len(context) = n + Len(Opening)
        /\ \A i \in 1..Len(context) :
               context[i] = IF i <= n THEN past[i] ELSE Opening[i - n]
    <3>1. /\ past \o Opening \in Seq(Message)
          /\ Len(past \o Opening) = Len(past) + Len(Opening)
          /\ \A i \in 1..(Len(past) + Len(Opening)) :
                 (past \o Opening)[i] = IF i <= Len(past) THEN past[i]
                                       ELSE Opening[i - Len(past)]
      BY <1>1, <1>2, ConcatProperties
    <3> QED
      BY <1>1, <3>1
  <2> HIDE DEF context
  <2>2. Len(Opening) \in Nat /\ DOMAIN Opening = 1..Len(Opening)
    BY <1>2
  <2>3. \A i \in 1..Len(context) : i > n => i - n \in DOMAIN Opening
    BY <1>1, <2>1, <2>2
  <2>4. \A i \in 1..n : i \in 1..Len(context) /\ i <= n
    BY <1>1, <2>1, <2>2
  <2>5. \A i \in 1..Len(context) : i > n => context[i] = Opening[i - n]
    BY <1>1, <2>1, <2>2
  <2>6. \A i \in 1..n : context[i] = past[i]
    BY <2>1, <2>4
  <2>7. \A i \in 1..n : context[i].from = "history"
    BY <1>1, <2>6
  <2>8. \A i \in 1..Len(context) : i > n => context[i].from = "user"
    BY <1>2, <2>3, <2>5
  <2> QED
    BY <2>1, <2>7, <2>8
<1> HIDE DEF context
<1>5. NewTurn \in Turns
  <2>1. << >> \in Seq(Nat)
    OBVIOUS
  <2> QED
    BY <1>1, <1>4, <2>1 DEF NewTurn, past, n, context, Turns
<1>6. \A i \in 1..Len(context) : context[i].from \in {"history", "user"}
  BY <1>1, <1>4
<1>7. Pinned(policy, NewTurn)
  <2>1. \A i \in 1..Len(context) : context[i].from = "history" <=> i <= n
    BY <1>1, <1>4
  <2>2. policy.message => n # Len(context) /\ context[n + 1].from \in {"user", "ledger"}
    <3> SUFFICES ASSUME policy.message
                 PROVE  n # Len(context) /\ context[n + 1].from \in {"user", "ledger"}
      OBVIOUS
    <3>1. Len(context) = n + 1 /\ n \in Nat
      <4>1. Len(Opening) = 1
        BY <1>2
      <4> QED
        BY <1>1, <1>4, <4>1
    <3>2. n + 1 \in 1..Len(context) /\ n + 1 > n /\ n # Len(context)
      BY <3>1
    <3> QED
      BY <1>4, <3>2
  <2>3. ~policy.message => Len(context) = n
    <3>1. ~policy.message => Len(Opening) = 0
      BY <1>2
    <3>2. n \in Nat /\ Len(context) = n + Len(Opening)
      BY <1>1, <1>4
    <3> QED
      BY <3>1, <3>2
  <2>4. ~policy.message => \A i \in 1..Len(context) : context[i].from # "user"
    BY <2>3, <1>1, <1>4
  <2>5. n <= Len(context)
    BY <1>1, <1>2, <1>4
  <2> QED
    BY <1>3, <2>1, <2>2, <2>4, <2>5 DEF Pinned
<1>8. Recent(policy, NewTurn) /\ Bounded(NewTurn, 0) /\ Telling(NewTurn)
  BY <1>3 DEF Recent, Bounded, Telling
<1>9. Within(policy, NewTurn, 0)
  <2>1. ToolsAt(context) = {}
    BY <1>4, <1>6 DEF ToolsAt, ToolMessage
  <2> QED
    BY <1>3, <2>1, FS_EmptySet DEF Within
<1>10. Answered(context, Len(context))
  BY <1>6 DEF Answered, Asks
<1> QED
  BY <1>3, <1>5, <1>7, <1>8, <1>9, <1>10 DEF Settled

\* A message of the loop itself, or of a failed handoff (SendBack, SettleHandoff).
LEMMA Says ==
  ASSUME NEW p, p.keep \in Nat, NEW t \in Turns, NEW u \in Turns, NEW m \in Message,
         m.from \notin {"assistant", "history", "user"}, ~ToolMessage(m),
         u.context = Append(t.context, m), Alike(u, t), Settled(p, t, 0)
  PROVE  Settled(p, u, 0)
<1>1. t.context \in Seq(Message) /\ <<m>> \in Seq(Message) /\ u.context = t.context \o <<m>>
  <2>1. t.context \in Seq(Message)
    BY DEF Turns
  <2> QED
    BY <2>1, AppendIsConcat
<1>2. Pinned(p, u) /\ Recent(p, u) /\ Bounded(u, 0)
  <2>1. \A i \in DOMAIN <<m>> : <<m>>[i].from \notin {"history", "user"}
    OBVIOUS
  <2> QED
    BY <1>1, <2>1, Grows DEF Alike, Settled
<1>3. Within(p, u, 0)
  <2>1. ToolsAt(Append(t.context, m)) = ToolsAt(t.context)
    BY <1>1 DEF ToolsAt
  <2> QED
    BY <2>1 DEF Within, Settled, Alike
<1>4. Telling(u)
  BY DEF Telling, Settled, Alike
<1>5. Answered(u.context, Len(u.context))
  <2>1. Answered(u.context, Len(t.context))
    <3>1. Len(t.context) \in 0..Len(t.context) /\ Answered(t.context, Len(t.context))
      BY <1>1 DEF Settled
    <3> QED
      BY <1>1, <3>1, AnsweredExtends
  <2>2. Len(u.context) = Len(t.context) + 1 /\ Len(t.context) \in Nat
        /\ u.context[Len(u.context)] = m
    BY <1>1
  <2>3. ~Asks(u.context, Len(u.context))
    BY <2>2 DEF Asks
  <2>4. \A i \in 1..Len(u.context) : i = Len(u.context) \/ i \in 1..Len(t.context)
    BY <2>2
  <2> QED
    BY <2>1, <2>3, <2>4 DEF Answered
<1> QED
  BY <1>2, <1>3, <1>4, <1>5 DEF Settled

\* A response of the model: a new iteration, which no boundary closes yet.
IsReply(u, t, calls, more) ==
    /\ u.iterationsUsed = t.iterationsUsed + 1
    /\ u.context = Append(t.context, [from |-> "assistant", iter |-> t.iterationsUsed + 1,
                                      calls |-> calls])
    /\ u.conversationOffset = t.conversationOffset
    /\ u.boundaries = t.boundaries /\ u.topicSwitched = t.topicSwitched
    /\ u.totalActionCalls = t.totalActionCalls + more
    /\ u.memo = t.memo /\ u.banned = t.banned /\ u.delivered = t.delivered

LEMMA Replies ==
  ASSUME NEW p, p.keep \in Nat, NEW t \in Turns, NEW u, NEW calls \in Seq(Signature),
         NEW more \in Nat, Settled(p, t, 0), t.iterationsUsed < MaxIterations,
         IsReply(u, t, calls, more)
  PROVE  /\ Pinned(p, u) /\ Recent(p, u) /\ Bounded(u, 1) /\ Within(p, u, more) /\ Telling(u)
         /\ Len(u.context) > 0 /\ Answered(u.context, Len(u.context) - 1)
         /\ u.context[Len(u.context)].from = "assistant"
         /\ u.context[Len(u.context)].calls = calls
<1> USE DEF IsReply
<1> DEFINE it == t.iterationsUsed
           m == [from |-> "assistant", iter |-> it + 1, calls |-> calls]
           mid == [t EXCEPT !.context = Append(@, m)]
<1>1. t.context \in Seq(Message) /\ it \in 0..MaxIterations /\ it + 1 \in 0..MaxIterations
      /\ t.boundaries \in Seq(Nat)
  <2> HIDE DEF IsReply
  <2>1. t.context \in Seq(Message) /\ it \in 0..MaxIterations /\ t.boundaries \in Seq(Nat)
    BY DEF Turns
  <2>2. it + 1 \in 0..MaxIterations
    BY <2>1, BoundsAssumption
  <2> QED
    BY <2>1, <2>2
<1>2. m \in Message /\ m.from = "assistant" /\ m.calls = calls /\ m.iter = it + 1
  BY <1>1 DEF Message
<1>3. u.context = Append(t.context, m)
  OBVIOUS
<1> HIDE DEF m
<1>4. Append(t.context, m) \in Seq(Message) /\ <<m>> \in Seq(Message)
      /\ Append(t.context, m) = t.context \o <<m>>
  BY <1>1, <1>2, AppendIsConcat
<1>5. /\ mid \in Turns /\ mid.context = t.context \o <<m>>
      /\ mid.conversationOffset = t.conversationOffset /\ mid.iterationsUsed = it
      /\ mid.boundaries = t.boundaries /\ mid.topicSwitched = t.topicSwitched
  BY <1>4 DEF Turns
<1> HIDE DEF mid, it
<1>6. Pinned(p, mid) /\ Recent(p, mid) /\ Bounded(mid, 0)
  <2>1. \A i \in DOMAIN <<m>> : <<m>>[i].from \notin {"history", "user"}
    BY <1>2
  <2>2. Pinned(p, t) /\ Recent(p, t) /\ Bounded(t, 0)
    BY DEF Settled
  <2>3. mid.iterationsUsed = t.iterationsUsed
    BY <1>5 DEF it
  <2> HIDE DEF IsReply
  <2> QED
    BY <1>4, <1>5, <2>1, <2>2, <2>3, Grows
<1>7. Pinned(p, u)
  BY <1>3, <1>4, <1>5, <1>6 DEF Pinned
<1>8. Len(u.context) = Len(t.context) + 1 /\ Len(t.context) \in Nat
      /\ u.context[Len(u.context)] = m
  BY <1>1, <1>2, <1>3
<1>9. \A q \in Nat : q <= Len(t.context) => Holds(u.context, it + 1, q)
  <2>1. Len(u.context) \in DOMAIN u.context
    BY <1>3, <1>4, <1>8
  <2> QED
    BY <1>2, <1>8, <2>1 DEF Holds
<1>15. u.iterationsUsed = it + 1 /\ u.boundaries = t.boundaries
       /\ u.topicSwitched = t.topicSwitched
  BY DEF it
<1>10. Recent(p, u)
  <2> SUFFICES ASSUME NEW n \in 1..(it + 1), n >= it + 1 - p.keep + 2
               PROVE  Holds(u.context, n, 0)
    BY <1>1, <1>15 DEF Recent
  <2>1. CASE n = it + 1
    BY <1>8, <1>9, <2>1
  <2>2. CASE n # it + 1
    <3>1. n \in 1..it /\ n >= it - p.keep + 2
      BY <1>1, <2>2
    <3> QED
      BY <1>3, <1>4, <1>5, <1>6, <3>1 DEF Recent
  <2> QED
    BY <2>1, <2>2
<1>11. Bounded(u, 1)
  <2> SUFFICES ASSUME ~u.topicSwitched, NEW j \in DOMAIN u.boundaries
               PROVE  /\ u.boundaries[j] <= Len(u.context)
                      /\ \A n \in 1..u.iterationsUsed :
                             n > u.iterationsUsed - (Len(u.boundaries) - j) - 1 =>
                                 Holds(u.context, n, u.boundaries[j])
    BY DEF Bounded
  <2>1. /\ ~t.topicSwitched
        /\ j \in DOMAIN t.boundaries /\ u.boundaries[j] = t.boundaries[j]
        /\ t.boundaries[j] \in Nat /\ j \in Nat /\ Len(t.boundaries) \in Nat
    <3> HIDE DEF IsReply
    <3>1. ~t.topicSwitched /\ j \in DOMAIN t.boundaries /\ u.boundaries[j] = t.boundaries[j]
      BY <1>15
    <3>2. t.boundaries[j] \in Nat /\ j \in Nat /\ Len(t.boundaries) \in Nat
      BY <1>1, <3>1
    <3> QED
      BY <3>1, <3>2
  <2>2. t.boundaries[j] <= Len(t.context)
    BY <2>1 DEF Settled, Bounded
  <2>3. ASSUME NEW n \in 1..u.iterationsUsed,
               n > u.iterationsUsed - (Len(u.boundaries) - j) - 1
        PROVE  Holds(u.context, n, u.boundaries[j])
    <3>1. CASE n = it + 1
      BY <1>9, <2>1, <2>2, <3>1
    <3>2. CASE n # it + 1
      <4>2. n \in 1..(it + 1) /\ n > (it + 1) - (Len(t.boundaries) - j) - 1
        BY <1>15, <2>3
      <4>1. n \in 1..it /\ n > it - (Len(t.boundaries) - j) - 0
        BY <1>1, <2>1, <3>2, <4>2
      <4> QED
        BY <1>3, <1>4, <1>5, <1>6, <2>1, <4>1 DEF Bounded
    <3> QED
      BY <3>1, <3>2
  <2>4. u.boundaries[j] <= Len(u.context)
    BY <1>8, <2>1, <2>2
  <2> QED
    BY <2>3, <2>4
<1>12. Within(p, u, more)
  <2>1. ToolsAt(Append(t.context, m)) = ToolsAt(t.context)
    <3> DEFINE new == Append(t.context, m)
    <3>1. /\ DOMAIN new = DOMAIN t.context \cup {Len(t.context) + 1}
          /\ \A i \in DOMAIN t.context : new[i] = t.context[i]
          /\ new[Len(t.context) + 1] = m
      <4> HIDE DEF IsReply
      <4> QED
        BY <1>1, <1>2
    <3>2. ~ToolMessage(m)
      BY <1>2 DEF ToolMessage
    <3> HIDE DEF new
    <3>3. \A i : i \in DOMAIN new /\ ToolMessage(new[i]) <=> i \in DOMAIN t.context /\ ToolMessage(t.context[i])
      BY <3>1, <3>2
    <3>4. ToolsAt(new) = ToolsAt(t.context)
      BY <3>3 DEF ToolsAt
    <3> QED
      BY <3>4 DEF new
  <2>2. Cardinality(ToolsAt(t.context)) \in Nat /\ t.totalActionCalls \in Nat
    BY <1>1, ToolsFinite, BoundsAssumption DEF Turns
  <2> QED
    BY <1>3, <2>1, <2>2 DEF Within, Settled
<1>13. Telling(u)
  BY DEF Telling, Settled
<1>14. Answered(u.context, Len(u.context) - 1)
  <2>1. Len(u.context) - 1 = Len(t.context) /\ Len(t.context) \in 0..Len(t.context)
    BY <1>8
  <2>2. Answered(t.context \o <<m>>, Len(t.context))
    BY <1>1, <1>4, <2>1, AnsweredExtends DEF Settled
  <2> QED
    BY <1>3, <1>4, <2>1, <2>2
<1> QED
  BY <1>2, <1>7, <1>8, <1>10, <1>11, <1>12, <1>13, <1>14

-----------------------------------------------------------------------------
(* What the end of an iteration makes of the turn *)

LEMMA ProcessedIs ==
  ASSUME turn \in Turns, batch \in Seq(Signature)
  PROVE  /\ Processed \in Turns
         /\ Processed.context = turn.context \o ToolMessages
         /\ Processed.memo = IF policy.durable THEN turn.memo \cup Calls(Where({"ok"}))
                             ELSE turn.memo
         /\ turn.delivered => Processed.delivered
         /\ Calls(Where({"ok"})) \cap Delivery # {} => Processed.delivered
         /\ turn.banned \subseteq Processed.banned
         /\ Processed.conversationOffset = turn.conversationOffset
         /\ Processed.iterationsUsed = turn.iterationsUsed
         /\ Processed.boundaries = turn.boundaries
         /\ Processed.topicSwitched = turn.topicSwitched
         /\ Processed.totalActionCalls = turn.totalActionCalls
<1> DEFINE refused == {i \in Where({"business"}) : batch[i] \in Critical}
           down == {i \in Where({"infra"}) : batch[i] \in Critical}
           ok == Calls(Where({"ok"}))
           told == Calls(Memoized \cup Where({"ok"})) \cap Delivery # {}
           context == turn.context \o ToolMessages
           memo == IF policy.durable THEN turn.memo \cup ok ELSE turn.memo
           banned == turn.banned \cup Calls(refused)
           failed == turn.infraTerminal \/ down # {}
           errors == IF refused \cup down = {} THEN turn.criticalErrors
                     ELSE turn.criticalErrors + 1
           delivered == turn.delivered \/ told
<1>1. context \in Seq(Message)
  BY ToolMessagesAnswer DEF Turns
<1>2. ok \subseteq Signature /\ Calls(refused) \subseteq Signature
  BY DEF Calls, Where
<1>3. ok \cap Delivery # {} => told
  BY DEF Calls
<1>4. turn.memo \subseteq Signature /\ turn.banned \subseteq Signature
      /\ turn.criticalErrors \in Nat
  BY DEF Turns
<1>5. memo \subseteq Signature /\ banned \subseteq Signature /\ errors \in Nat
  BY <1>2, <1>4
<1>6. failed \in BOOLEAN /\ delivered \in BOOLEAN
  OBVIOUS
<1>7. Processed = [turn EXCEPT !.context = context, !.memo = memo, !.banned = banned,
                               !.infraTerminal = failed, !.criticalErrors = errors,
                               !.delivered = delivered]
  BY DEF Processed
<1>8. turn.banned \subseteq banned /\ (turn.delivered => delivered) /\ (told => delivered)
  OBVIOUS
<1> HIDE DEF context, memo, banned, failed, errors, delivered
<1>9. Processed \in Turns
  BY <1>1, <1>5, <1>6, <1>7 DEF Turns
<1>10. /\ Processed.context = context /\ Processed.memo = memo
       /\ Processed.banned = banned /\ Processed.delivered = delivered
       /\ Processed.conversationOffset = turn.conversationOffset
       /\ Processed.iterationsUsed = turn.iterationsUsed
       /\ Processed.boundaries = turn.boundaries
       /\ Processed.topicSwitched = turn.topicSwitched
       /\ Processed.totalActionCalls = turn.totalActionCalls
  BY <1>7 DEF Turns
<1> QED
  BY <1>3, <1>8, <1>9, <1>10 DEF context, memo

\* Every call of the response gets its message, and the ones that ran are remembered.
LEMMA ProcessedSettles ==
  ASSUME NEW p, p = policy, p.keep \in Nat, turn \in Turns, batch \in Seq(Signature),
         Acting(p, turn, batch)
  PROVE  Settled(p, Processed, 1)
<1> DEFINE u == Processed
           old == turn.context
           new == ToolMessages
<1>1. old \in Seq(Message) /\ Len(old) \in Nat
  BY DEF Turns
<1>2. /\ new \in Seq(Message) /\ Len(new) = Len(batch)
      /\ \A j \in DOMAIN batch : new[j].from = "tool" /\ new[j].calls = <<batch[ResultOrder[j]]>>
  BY ToolMessagesAnswer
<1>3. /\ u \in Turns /\ u.context = old \o new /\ Telling(u)
      /\ u.conversationOffset = turn.conversationOffset /\ u.iterationsUsed = turn.iterationsUsed
      /\ u.boundaries = turn.boundaries /\ u.topicSwitched = turn.topicSwitched
      /\ u.totalActionCalls = turn.totalActionCalls
  BY ProcessedIs DEF Acting, Telling
<1> HIDE DEF u, new
<1>7. u.context \in Seq(Message) /\ Len(u.context) = Len(old) + Len(batch) /\ Len(batch) \in Nat
  <2>1. old \o new \in Seq(Message) /\ Len(old \o new) = Len(old) + Len(new)
    BY <1>1, <1>2, ConcatProperties
  <2> QED
    BY <1>2, <1>3, <2>1
<1>4. Pinned(p, u) /\ Recent(p, u) /\ Bounded(u, 1)
  <2>1. \A i \in DOMAIN new : new[i].from \notin {"history", "user"}
    BY <1>2
  <2> QED
    BY <1>2, <1>3, <2>1, Grows DEF Acting
<1>5. Within(p, u, 0)
  <2>1. Cardinality(ToolsAt(u.context)) <= Cardinality(ToolsAt(old)) + Len(batch)
    BY <1>1, <1>2, <1>3, ToolsAdded
  <2>2. Cardinality(ToolsAt(u.context)) \in Nat /\ Cardinality(ToolsAt(old)) \in Nat
    BY <1>1, <1>7, ToolsFinite
  <2>3. turn.totalActionCalls \in Int /\ Len(batch) \in Nat
    BY BoundsAssumption DEF Turns
  <2> QED
    BY <1>3, <2>1, <2>2, <2>3 DEF Within, Acting
<1>6. Answered(u.context, Len(u.context))
  <2>2. \A i \in 1..Len(old) : u.context[i] = old[i]
    BY <1>1, <1>2, <1>3
  <2>3. \A j \in DOMAIN batch : u.context[Len(old) + j] = new[j]
    <3> TAKE j \in DOMAIN batch
    <3>1. j \in 1..Len(new) /\ Len(old) + j \in 1..(Len(old) + Len(new))
          /\ ~(Len(old) + j <= Len(old)) /\ (Len(old) + j) - Len(old) = j
      BY <1>1, <1>2
    <3> QED
      BY <1>1, <1>2, <1>3, <3>1, ConcatProperties
  <2>4. old[Len(old)].from = "assistant" /\ old[Len(old)].calls = batch /\ Len(old) > 0
    BY <1>1 DEF Acting
  <2>5. Resolved(u.context, Len(old))
    <3>1. u.context[Len(old)].calls = batch
      BY <1>1, <2>2, <2>4
    <3>2. ResultOrder \in Bijection(DOMAIN batch, DOMAIN batch)
      BY OrderIsBijection
    <3>3. \A j \in DOMAIN batch :
             /\ u.context[Len(old) + j].from = "tool"
             /\ u.context[Len(old) + j].calls = <<batch[ResultOrder[j]]>>
      BY <1>2, <2>3
    <3>4. Len(old) + Len(batch) <= Len(u.context)
      BY <1>1, <1>7
    <3> QED
      BY <3>1, <3>2, <3>3, <3>4 DEF Resolved
  <2>6. Answered(u.context, Len(old) - 1)
    BY <1>1, <1>2, <1>3, <2>4, AnsweredExtends DEF Acting
  <2>7. \A i \in 1..Len(u.context) :
           i > Len(old) => u.context[i].from = "tool"
    <3> SUFFICES ASSUME NEW i \in 1..Len(u.context), i > Len(old)
                 PROVE  u.context[i].from = "tool"
      OBVIOUS
    <3>1. i - Len(old) \in DOMAIN batch /\ Len(old) + (i - Len(old)) = i
      BY <1>1, <1>7
    <3> QED
      BY <1>2, <2>3, <3>1
  <2> SUFFICES ASSUME NEW i \in 1..Len(u.context), Asks(u.context, i)
               PROVE  Resolved(u.context, i)
    BY DEF Answered
  <2>8. i \in 1..(Len(old) - 1) \/ i = Len(old) \/ i > Len(old)
    BY <1>1, <1>7
  <2> QED
    BY <2>5, <2>6, <2>7, <2>8 DEF Answered, Asks
<1> QED
  BY <1>3, <1>4, <1>5, <1>6 DEF Settled, u

\* handleTopicSwitch: the messages since the old history move behind the new one.
LEMMA SwitchedSettles ==
  ASSUME NEW p, p.keep \in Nat, NEW t \in Turns, NEW rebuilt \in BOOLEAN, Settled(p, t, 1)
  PROVE  /\ Switched(t, rebuilt) \in Turns /\ Settled(p, Switched(t, rebuilt), 1)
         /\ Switched(t, rebuilt).memo = t.memo /\ Switched(t, rebuilt).banned = t.banned
         /\ Switched(t, rebuilt).iterationsUsed = t.iterationsUsed
<1> DEFINE u == Switched(t, rebuilt)
           old == t.context
           k == t.conversationOffset
           past == History(t.session)
           context == IF rebuilt THEN Rebased(old, past, k) ELSE old
           offset == IF rebuilt THEN Echoes[t.session] ELSE k
<1>1. CASE t.session = t.activeTopic
  BY <1>1 DEF Switched
<1>2. CASE t.session # t.activeTopic
  <2>1. old \in Seq(Message) /\ k \in Nat /\ t.session \in Topic
    BY DEF Turns
  <2>2. k \in 0..Len(old)
    BY <2>1 DEF Settled, Pinned
  <2>3. /\ Echoes[t.session] \in Nat /\ Len(past) = Echoes[t.session] /\ past \in Seq(Message)
        /\ \A i \in 1..Echoes[t.session] : past[i].from = "history"
    BY <2>1, HistoryIs
  <2>4. u = [t EXCEPT !.activeTopic = t.session, !.topicSwitched = TRUE,
                      !.context = context, !.conversationOffset = offset]
    BY <1>2 DEF Switched, Rebased
  <2>5. context \in Seq(Message) /\ offset \in Nat
    BY <2>1, <2>2, <2>3, RebasedMessages
  <2> HIDE DEF context, offset, u, past
  <2>6. u \in Turns
    BY <2>1, <2>4, <2>5 DEF Turns
  <2>7. /\ u.context = context /\ u.conversationOffset = offset /\ u.topicSwitched
        /\ u.iterationsUsed = t.iterationsUsed /\ u.memo = t.memo /\ u.banned = t.banned
        /\ u.delivered = t.delivered /\ u.totalActionCalls = t.totalActionCalls
        /\ u.boundaries = t.boundaries
    BY <2>4 DEF Turns
  <2>8. Bounded(u, 1) /\ Telling(u)
    BY <2>7 DEF Bounded, Telling, Settled
  <2>9. CASE ~rebuilt
    <3>1. context = old /\ offset = k
      BY <2>9 DEF context, offset
    <3>2. Settled(p, u, 1)
      BY <2>7, <2>8, <3>1 DEF Settled, Pinned, Recent, Within
    <3> QED
      BY <2>6, <2>7, <3>2 DEF u
  <2>10. CASE rebuilt
    <3>1. context = Rebased(old, past, k) /\ offset = Len(past)
      BY <2>3, <2>10 DEF context, offset
    <3>2. /\ Len(context) = Len(past) + (Len(old) - k) /\ Len(past) \in Nat
          /\ \A i \in 1..Len(past) : context[i] = past[i]
          /\ \A i \in 1..(Len(old) - k) : context[Len(past) + i] = old[k + i]
      BY <2>2, <2>1, <2>3, <3>1, RebasedMessages
    <3>3. \A i \in DOMAIN past : past[i].from = "history"
      BY <2>3
    <3>4. Pinned(p, u)
      <4>1. \A i \in 1..Len(past) : /\ past[i].from = "history" <=> i <= u.conversationOffset
                                    /\ past[i].from # "user"
        BY <2>3, <2>7, <3>1
      <4>2. k >= t.conversationOffset /\ k = t.conversationOffset
        BY <2>1
      <4> HIDE DEF k
      <4> QED
        BY <2>2, <2>3, <2>6, <2>7, <3>1, <4>1, <4>2, PinnedRebases DEF Settled
    <3>5. Recent(p, u)
      <4>1. \A i \in 1..k : old[i].from # "assistant"
        BY <2>1, <2>2 DEF Settled, Pinned
      <4>2. \A n : Holds(old, n, 0) => Holds(context, n, 0)
        BY <2>1, <2>2, <2>3, <3>1, <4>1, HoldsRebased
      <4> QED
        BY <2>7, <4>2 DEF Recent, Settled
    <3>6. Within(p, u, 0)
      <4>1. Cardinality(ToolsAt(context)) <= Cardinality(ToolsAt(old))
        BY <2>1, <2>2, <2>3, <3>1, <3>3, ToolsRebased
      <4>2. Cardinality(ToolsAt(context)) \in Nat /\ Cardinality(ToolsAt(old)) \in Nat
        BY <2>1, <2>5, ToolsFinite
      <4>3. t.totalActionCalls \in Int
        BY BoundsAssumption DEF Turns
      <4> QED
        BY <2>7, <4>1, <4>2, <4>3 DEF Within, Settled
    <3>7. Answered(context, Len(context))
      BY <2>1, <2>2, <2>3, <3>1, <3>3, AnsweredRebases DEF Settled
    <3> QED
      BY <2>6, <2>7, <2>8, <3>4, <3>5, <3>6, <3>7 DEF Settled, u
  <2> QED
    BY <2>9, <2>10
<1> QED
  BY <1>1, <1>2

LEMMA ObservedSettles ==
  ASSUME NEW p, NEW t \in Turns, batch \in Seq(Signature), Settled(p, t, 1)
  PROVE  /\ Observed(t) \in Turns /\ Settled(p, Observed(t), 1)
         /\ Observed(t).memo = t.memo /\ Observed(t).banned = t.banned
         /\ Observed(t).iterationsUsed = t.iterationsUsed
<1> DEFINE seen == t.seen \cup ToSet(batch)
           streak == IF ToSet(batch) \subseteq t.seen THEN t.streak + 1 ELSE 0
<1>1. CASE policy.window = 0
  BY <1>1 DEF Observed
<1>2. CASE policy.window # 0
  <2>1. Observed(t) = [t EXCEPT !.seen = seen, !.streak = streak]
    BY <1>2 DEF Observed
  <2>2. seen \subseteq Signature /\ streak \in Nat
    BY DEF Turns, ToSet
  <2> HIDE DEF seen, streak
  <2>3. Observed(t) \in Turns
    BY <2>1, <2>2 DEF Turns
  <2>4. Alike(Observed(t), t) /\ Observed(t).context = t.context /\ Observed(t).banned = t.banned
    BY <2>1 DEF Turns, Alike
  <2> QED
    BY <2>3, <2>4, AlikeKeeps DEF Alike
<1> QED
  BY <1>1, <1>2

LEMMA Closes ==
  ASSUME NEW p, NEW t \in Turns, Settled(p, t, 1)
  PROVE  Settled(p, t, 0)
<1>1. t.boundaries \in Seq(Nat) /\ t.iterationsUsed \in Int
  BY BoundsAssumption DEF Turns
<1>2. \A j \in DOMAIN t.boundaries, n \in 1..t.iterationsUsed :
         n > t.iterationsUsed - (Len(t.boundaries) - j) - 0 =>
             n > t.iterationsUsed - (Len(t.boundaries) - j) - 1
  BY <1>1
<1>3. Bounded(t, 0)
  BY <1>2 DEF Bounded, Settled
<1> QED
  BY <1>3 DEF Settled

\* maybeCompress: what the boundary counted back from the end of this iteration leaves is
\* what the boundaries say it is.
LEMMA CompressedSettles ==
  ASSUME NEW p, p = policy, p.keep \in Nat, NEW t \in Turns, NEW summarized \in BOOLEAN,
         Settled(p, t, 1)
  PROVE  /\ Compressed(t, summarized) \in Turns /\ Settled(p, Compressed(t, summarized), 0)
         /\ Compressed(t, summarized).memo = t.memo
         /\ Compressed(t, summarized).banned = t.banned
         /\ Compressed(t, summarized).iterationsUsed = t.iterationsUsed
<1> DEFINE u == Compressed(t, summarized)
           old == t.context
           bounds == Append(t.boundaries, Len(old))
           k == bounds[Len(bounds) - p.keep + 1]
           offset == t.conversationOffset
           it == t.iterationsUsed
           pre == SubSeq(old, 1, offset) \o <<Note("ledger", it)>>
           context == Rebased(old, pre, k)
           m == Len(t.boundaries)
<1>1. /\ old \in Seq(Message) /\ Len(old) \in Nat /\ offset \in Nat
      /\ t.boundaries \in Seq(Nat) /\ it \in 0..MaxIterations /\ it \in Int
  BY BoundsAssumption DEF Turns
<1>2. offset <= Len(old)
  BY DEF Settled, Pinned
<1>3. /\ bounds \in Seq(Nat) /\ Len(bounds) = Len(t.boundaries) + 1
      /\ Len(t.boundaries) \in Nat /\ bounds[Len(bounds)] = Len(old)
      /\ \A j \in 1..Len(t.boundaries) : bounds[j] = t.boundaries[j]
  BY <1>1
<1>8. m \in Nat /\ Len(bounds) = m + 1 /\ DOMAIN t.boundaries = 1..m /\ DOMAIN bounds = 1..(m + 1)
  BY <1>1, <1>3
<1> HIDE DEF bounds
<1>4. CASE p.keep = 0 \/ t.topicSwitched
  <2>1. u = t
    BY <1>4 DEF Compressed
  <2> HIDE DEF u
  <2>2. Settled(p, t, 0)
    BY Closes
  <2> QED
    BY <2>1, <2>2 DEF u
<1>5. ASSUME p.keep # 0, ~t.topicSwitched, u = [t EXCEPT !.boundaries = bounds]
      PROVE  u \in Turns /\ Settled(p, u, 0) /\ u.memo = t.memo /\ u.banned = t.banned
             /\ u.iterationsUsed = it
  <2> HIDE DEF u
  <2>1. u \in Turns
    BY <1>3, <1>5 DEF Turns
  <2>2. /\ u.context = old /\ u.boundaries = bounds /\ u.iterationsUsed = it
        /\ u.conversationOffset = offset /\ u.topicSwitched = t.topicSwitched
        /\ u.totalActionCalls = t.totalActionCalls
        /\ u.memo = t.memo /\ u.banned = t.banned /\ u.delivered = t.delivered
    BY <1>5 DEF Turns
  <2>3. Bounded(u, 0)
    <3> SUFFICES ASSUME NEW j \in DOMAIN bounds
                 PROVE  /\ bounds[j] <= Len(old)
                        /\ \A n \in 1..it : n > it - (Len(bounds) - j) - 0 =>
                               Holds(old, n, bounds[j])
      BY <2>2 DEF Bounded
    <3>1. CASE j = Len(bounds)
      BY <1>1, <1>3, <3>1
    <3>2. CASE j # Len(bounds)
      <4>1. j \in 1..m /\ j \in DOMAIN t.boundaries
        <5> HIDE DEF m
        <5> QED
          BY <1>8, <3>2
      <4>2. bounds[j] = t.boundaries[j] /\ t.boundaries[j] <= Len(old)
        BY <1>3, <1>5, <4>1 DEF Bounded, Settled
      <4>3. ASSUME NEW n \in 1..it, n > it - (Len(bounds) - j) - 0
            PROVE  Holds(old, n, bounds[j])
        <5>1. n > it - (m - j) - 1
          <6> HIDE DEF m, it
          <6> QED
            BY <1>1, <1>8, <4>1, <4>3
        <5> QED
          BY <1>5, <4>1, <4>2, <5>1 DEF Bounded, Settled
      <4> QED
        BY <4>2, <4>3
    <3> QED
      BY <3>1, <3>2
  <2>4. Settled(p, u, 0)
    BY <2>2, <2>3 DEF Settled, Pinned, Recent, Within, Telling
  <2> QED
    BY <2>1, <2>2, <2>4
<1>6. ASSUME p.keep # 0, ~t.topicSwitched, Len(bounds) > p.keep, ~(k <= offset),
             u = [t EXCEPT !.context = context, !.boundaries = <<Len(context)>>]
      PROVE  u \in Turns /\ Settled(p, u, 0) /\ u.memo = t.memo /\ u.banned = t.banned
             /\ u.iterationsUsed = it
  <2> DEFINE at == Len(bounds) - p.keep + 1
  <2>1. at \in 1..(m + 1) /\ k = bounds[at] /\ at = m - p.keep + 2
    <3>1. at \in 1..(m + 1) /\ at = m - p.keep + 2
      <4> HIDE DEF m
      <4> QED
        BY <1>6, <1>8
    <3> QED
      BY <3>1
  <2>2. /\ k \in 0..Len(old)
        /\ \A n \in 1..it : n >= it - p.keep + 2 => Holds(old, n, k)
    <3> HIDE DEF at, k
    <3>1. CASE at = m + 1
      <4>1. k = Len(old)
        BY <1>3, <1>8, <2>1, <3>1
      <4>2. p.keep = 1
        <5> HIDE DEF m
        <5> QED
          BY <1>8, <2>1, <3>1
      <4>3. \A n \in 1..it : ~(n >= it - p.keep + 2)
        BY <1>1, <4>2
      <4> QED
        BY <1>1, <4>1, <4>3
    <3>2. CASE at # m + 1
      <4>1. at \in 1..m /\ at \in DOMAIN t.boundaries
        <5> HIDE DEF m
        <5> QED
          BY <1>8, <2>1, <3>2
      <4>2. k = t.boundaries[at] /\ t.boundaries[at] <= Len(old) /\ t.boundaries[at] \in Nat
        <5>1. k = t.boundaries[at]
          BY <1>3, <2>1, <4>1
        <5>2. t.boundaries[at] <= Len(old)
          BY <1>6, <4>1 DEF Bounded, Settled
        <5>3. t.boundaries[at] \in Nat
          BY <1>1, <4>1
        <5> QED
          BY <5>1, <5>2, <5>3
      <4>3. ASSUME NEW n \in 1..it, n >= it - p.keep + 2
            PROVE  Holds(old, n, k)
        <5>1. n > it - (m - at) - 1
          <6> HIDE DEF m, it, at, k
          <6>1. m \in Nat /\ at \in Nat /\ p.keep \in Nat /\ at = m - p.keep + 2
            BY <1>8, <2>1
          <6>2. it \in Nat /\ n \in Nat
            BY <1>1
          <6> QED
            BY <4>3, <6>1, <6>2
        <5> QED
          BY <1>6, <4>1, <4>2, <5>1 DEF Bounded, Settled
      <4> QED
        BY <1>1, <4>2, <4>3
    <3> QED
      BY <3>1, <3>2
  <2> HIDE DEF k, at, m
  <2>3. /\ pre \in Seq(Message) /\ Len(pre) = offset + 1
        /\ \A i \in 1..offset : pre[i].from = "history"
        /\ pre[offset + 1].from = "ledger"
    <3> DEFINE past == SubSeq(old, 1, offset)
               note == Note("ledger", it)
    <3>1. /\ past \in Seq(Message) /\ Len(past) = offset
          /\ \A i \in 1..offset : past[i] = old[i]
      BY <1>1, <1>2
    <3>2. note \in Message /\ note.from = "ledger"
      <4>1. << >> \in Seq(Signature)
        OBVIOUS
      <4> QED
        BY <1>1, <4>1 DEF Note, Message
    <3>3. \A i \in 1..offset : old[i].from = "history"
      BY <1>1, <1>2 DEF Settled, Pinned
    <3> HIDE DEF past, note
    <3>4. past \o <<note>> = Append(past, note)
      BY <3>1, <3>2, AppendIsConcat
    <3>5. /\ Append(past, note) \in Seq(Message) /\ Len(Append(past, note)) = offset + 1
          /\ \A i \in 1..offset : Append(past, note)[i] = past[i]
          /\ Append(past, note)[offset + 1] = note
      BY <1>1, <3>1, <3>2
    <3>6. pre = Append(past, note)
      BY <3>4 DEF past, note
    <3> HIDE DEF pre
    <3> QED
      BY <3>1, <3>2, <3>3, <3>5, <3>6
  <2>4. \A i \in DOMAIN pre : pre[i].from \in {"history", "ledger"}
    <3>1. \A i \in 1..Len(pre) : i \in 1..offset \/ i = offset + 1
      BY <1>1, <2>3
    <3> HIDE DEF pre
    <3> QED
      BY <2>3, <3>1
  <2> HIDE DEF pre
  <2>5. /\ context \in Seq(Message) /\ Len(context) = Len(pre) + (Len(old) - k)
        /\ \A i \in 1..Len(pre) : context[i] = pre[i]
    BY <1>1, <2>2, <2>3, RebasedMessages
  <2>6. Len(context) \in Nat /\ offset < Len(context)
    BY <1>1, <2>2, <2>3, <2>5
  <2>7. Answered(context, Len(context))
    BY <1>1, <2>2, <2>3, <2>4, AnsweredRebases DEF Settled
  <2>8. \A n \in 1..it : n >= it - p.keep + 2 => Holds(context, n, 0)
    BY <1>1, <2>2, <2>3, HoldsRebased
  <2> HIDE DEF context, u
  <2>9. <<Len(context)>> \in Seq(Nat)
    BY <2>6
  <2>10. u \in Turns
    BY <1>6, <2>5, <2>9 DEF Turns
  <2>11. /\ u.context = context /\ u.boundaries = <<Len(context)>> /\ u.iterationsUsed = it
         /\ u.conversationOffset = offset
         /\ u.memo = t.memo /\ u.banned = t.banned /\ u.delivered = t.delivered
    BY <1>6 DEF Turns
  <2>12. Pinned(p, u)
    <3>1. \A i \in 1..Len(pre) : /\ pre[i].from = "history" <=> i <= u.conversationOffset
                                 /\ pre[i].from # "user"
      <4> HIDE DEF offset
      <4>1. Len(pre) = offset + 1 /\ offset \in Nat
        BY <1>1, <2>3
      <4>2. \A i \in 1..Len(pre) : i \in 1..offset \/ (i = offset + 1 /\ ~(i <= offset))
        <5> TAKE i \in 1..Len(pre)
        <5>1. i \in 1..(offset + 1)
          BY <4>1
        <5> QED
          BY <4>1, <5>1
      <4>3. \A i \in 1..offset : i <= offset
        BY <4>1
      <4> QED
        BY <2>3, <2>11, <4>2, <4>3
    <3>2. k >= offset /\ u.conversationOffset + 1 = Len(pre) /\ pre[Len(pre)].from = "ledger"
      <4>1. k >= offset
        <5> HIDE DEF k, offset
        <5> QED
          BY <1>1, <1>6, <2>2
      <4>2. u.conversationOffset + 1 = Len(pre) /\ pre[Len(pre)].from = "ledger"
        BY <2>3, <2>11
      <4> QED
        BY <4>1, <4>2
    <3> HIDE DEF k
    <3> QED
      BY <2>2, <2>3, <2>10, <2>11, <3>1, <3>2, PinnedRebases DEF Settled, context
  <2>13. Recent(p, u)
    BY <2>8, <2>11 DEF Recent
  <2>14. Bounded(u, 0)
    <3>1. DOMAIN u.boundaries = {1} /\ u.boundaries[1] = Len(context) /\ Len(u.boundaries) = 1
      BY <2>6, <2>11
    <3>2. \A n \in 1..it : ~(n > it - (1 - 1) - 0)
      BY <1>1
    <3> QED
      BY <2>6, <2>11, <3>1, <3>2 DEF Bounded
  <2>15. Within(p, u, 0) /\ Telling(u)
    BY <1>6, <2>11 DEF Within, Telling, Settled
  <2> QED
    BY <2>7, <2>10, <2>11, <2>12, <2>13, <2>14, <2>15 DEF Settled
<1>7. CASE ~(p.keep = 0 \/ t.topicSwitched)
  <2>1. \/ u = [t EXCEPT !.boundaries = bounds]
        \/ /\ Len(bounds) > p.keep /\ ~(k <= offset)
           /\ u = [t EXCEPT !.context = context, !.boundaries = <<Len(context)>>]
    <3>1. ~(Len(bounds) <= p.keep) <=> Len(bounds) > p.keep
      BY <1>3
    <3> QED
      BY <1>7, <3>1 DEF Compressed, Rebased, bounds
  <2> HIDE DEF u, context
  <2>2. CASE u = [t EXCEPT !.boundaries = bounds]
    BY <1>5, <1>7, <2>2 DEF u
  <2>3. CASE /\ Len(bounds) > p.keep /\ ~(k <= offset)
             /\ u = [t EXCEPT !.context = context, !.boundaries = <<Len(context)>>]
    BY <1>6, <1>7, <2>3 DEF u
  <2> QED
    BY <2>1, <2>2, <2>3
<1> QED
  BY <1>4, <1>7

-----------------------------------------------------------------------------
(* The invariant *)

Typed == ReasoningTypeOK /\ (stage = "oracle" => turn.iterationsUsed < MaxIterations)

Going ==
    /\ IF stage = "execute" THEN Acting(policy, turn, batch) ELSE Settled(policy, turn, 0)
    /\ \A snap \in checkpoint : Settled(policy, snap, 0)

\* What a checkpoint says is done, the turn knows, and so does the snapshot itself.
Remembering ==
    /\ Running => banked \subseteq turn.memo \cup turn.banned
    /\ \A snap \in checkpoint : banked \subseteq snap.memo \cup snap.banned
    /\ checkpoint = {} => banked = {}
    /\ checkpoint # {} => policy.durable
    /\ stage = "execute" =>
        \A i \in DOMAIN batch : results[i] = "pending" => batch[i] \notin turn.memo \cup turn.banned

TurnInvariant == Typed /\ Going /\ Remembering

LEMMA PolicyIs ==
  ASSUME Typed
  PROVE  /\ policy.keep \in Nat /\ policy.window \in Nat
         /\ \A calls \in policy.requests : calls \in Seq(Signature)
  BY PolicyAssumption DEF Typed, ReasoningTypeOK

LEMMA RepliedIs ==
  ASSUME turn \in Turns, turn.iterationsUsed < MaxIterations, NEW calls \in Seq(Signature)
  PROVE  /\ Replied(calls) \in Turns /\ IsReply(Replied(calls), turn, calls, 0)
         /\ Replied(calls).planOpen = turn.planOpen
<1> DEFINE it == turn.iterationsUsed + 1
           m == [from |-> "assistant", iter |-> it, calls |-> calls]
           context == Append(turn.context, m)
<1>1. it \in 0..MaxIterations
  <2>1. turn.iterationsUsed \in 0..MaxIterations
    BY DEF Turns
  <2> QED
    BY <2>1, BoundsAssumption
<1>2. m \in Message
  BY <1>1 DEF Message
<1>3. context \in Seq(Message)
  BY <1>2 DEF Turns
<1>4. Replied(calls) = [turn EXCEPT !.iterationsUsed = it, !.context = context]
  BY DEF Replied
<1> HIDE DEF context, it
<1>5. Replied(calls) \in Turns
  BY <1>1, <1>3, <1>4 DEF Turns
<1>6. LET u == Replied(calls)
      IN  /\ u.iterationsUsed = it /\ u.context = context
          /\ u.conversationOffset = turn.conversationOffset
          /\ u.boundaries = turn.boundaries /\ u.topicSwitched = turn.topicSwitched
          /\ u.totalActionCalls = turn.totalActionCalls
          /\ u.memo = turn.memo /\ u.banned = turn.banned /\ u.delivered = turn.delivered
          /\ u.planOpen = turn.planOpen
  BY <1>4 DEF Turns
<1>7. turn.totalActionCalls = turn.totalActionCalls + 0
  BY BoundsAssumption DEF Turns
<1> QED
  BY <1>5, <1>6, <1>7 DEF it, context, IsReply

LEMMA AnswersSettle ==
  ASSUME Typed, Going, OracleAnswers
  PROVE  turn' \in Turns /\ Settled(policy, turn', 0) /\ turn'.memo = turn.memo
         /\ turn'.banned = turn.banned
<1> DEFINE u == Replied(<< >>)
<1>1. /\ turn' = u /\ turn \in Turns /\ turn.iterationsUsed < MaxIterations
      /\ Settled(policy, turn, 0) /\ turn.totalActionCalls \in Int
  <2>1. turn' = u /\ stage = "oracle" /\ turn \in Turns
    BY DEF OracleAnswers, Typed, ReasoningTypeOK
  <2>2. turn.iterationsUsed < MaxIterations /\ Settled(policy, turn, 0)
    BY <2>1 DEF Going, Typed
  <2>3. turn.totalActionCalls \in 0..MaxActions
    BY <2>1 DEF Turns
  <2> QED
    BY <2>1, <2>2, <2>3, BoundsAssumption
<1>2. << >> \in Seq(Signature)
  OBVIOUS
<1>3. u \in Turns /\ IsReply(u, turn, << >>, 0)
  BY <1>1, <1>2, RepliedIs
<1> HIDE DEF u
<1>5. /\ Pinned(policy, u) /\ Recent(policy, u) /\ Bounded(u, 1) /\ Within(policy, u, 0) /\ Telling(u)
      /\ Len(u.context) > 0 /\ Answered(u.context, Len(u.context) - 1)
      /\ u.context[Len(u.context)].calls = << >>
  BY <1>1, <1>2, <1>3, PolicyIs, 0 \in Nat, Replies
<1>6. Answered(u.context, Len(u.context))
  <2>1. u.context \in Seq(Message) /\ Len(u.context) \in Nat /\ Len(u.context) > 0
    BY <1>3, <1>5 DEF Turns
  <2>2. Resolved(u.context, Len(u.context))
    <3>1. [j \in {} |-> j] \in Bijection({}, {})
      BY DEF Bijection, Injection, Surjection, IsInjective
    <3>2. DOMAIN << >> = {} /\ Len(<< >>) = 0
      OBVIOUS
    <3> QED
      BY <1>5, <2>1, <3>1, <3>2 DEF Resolved
  <2>3. \A i \in 1..Len(u.context) : i \in 1..(Len(u.context) - 1) \/ i = Len(u.context)
    BY <2>1
  <2> QED
    BY <1>5, <2>2, <2>3 DEF Answered
<1>7. Settled(policy, u, 1)
  BY <1>5, <1>6 DEF Settled
<1>8. u.memo = turn.memo /\ u.banned = turn.banned
  BY <1>3 DEF IsReply
<1> QED
  BY <1>1, <1>3, <1>7, <1>8, Closes

\* A response that asks for Actions, or for a handoff, whose siblings are not answered.
LEMMA CallsAct ==
  ASSUME Typed, Going, NEW calls \in policy.requests, OracleCalls(calls),
         stage' \in {"execute", "handoff"}
  PROVE  /\ turn' \in Turns /\ turn'.memo = turn.memo /\ turn'.banned = turn.banned
         /\ batch' = calls
         /\ stage' = "execute" => Acting(policy, turn', calls)
         /\ stage' = "handoff" => Settled(policy, turn', 0)
<1>1. /\ turn \in Turns /\ turn.iterationsUsed < MaxIterations /\ Settled(policy, turn, 0)
      /\ calls \in Seq(Signature) /\ policy.keep \in Nat
  BY PolicyIs DEF OracleCalls, Typed, ReasoningTypeOK, Going
<1>5. turn.totalActionCalls \in 0..MaxActions /\ MaxActions \in Nat
  BY <1>1, BoundsAssumption DEF Turns
<1> DEFINE u == Replied(calls)
<1>2. /\ u \in Turns /\ IsReply(u, turn, calls, 0)
      /\ u.memo = turn.memo /\ u.banned = turn.banned /\ u.planOpen = turn.planOpen
  BY <1>1, RepliedIs DEF IsReply
<1> HIDE DEF u
<1>3. CASE Handoff \in ToSet(calls)
  <2>1. turn' = u /\ batch' = calls /\ stage' = "handoff"
    BY <1>3 DEF OracleCalls, u
  <2>3. /\ Pinned(policy, u) /\ Recent(policy, u) /\ Bounded(u, 1) /\ Within(policy, u, 0) /\ Telling(u)
        /\ Len(u.context) > 0 /\ Answered(u.context, Len(u.context) - 1)
        /\ u.context[Len(u.context)].calls = calls
    <3>1. u \in Turns /\ IsReply(u, turn, calls, 0) /\ 0 \in Nat
      BY <1>2
    <3> HIDE <1>2
    <3> QED
      BY <1>1, <3>1, Replies
  <2>4. Answered(u.context, Len(u.context))
    <3>1. Len(u.context) \in Nat
      BY <1>2 DEF Turns
    <3>2. \A i \in 1..Len(u.context) : i \in 1..(Len(u.context) - 1) \/ i = Len(u.context)
      BY <3>1
    <3>3. ~Asks(u.context, Len(u.context))
      BY <1>3, <2>3 DEF Asks
    <3> QED
      BY <2>3, <3>2, <3>3 DEF Answered
  <2>5. Settled(policy, u, 1)
    BY <2>3, <2>4 DEF Settled
  <2> QED
    BY <1>2, <2>1, <2>5, Closes
<1>4. CASE Handoff \notin ToSet(calls)
  <2> DEFINE total == turn.totalActionCalls + Len(calls)
             plan == IF PlanCalls(calls) = << >> THEN u.planOpen
                     ELSE Last(PlanCalls(calls)) = PlanOpen
             v == [u EXCEPT !.totalActionCalls = total, !.planOpen = plan]
  <2>1. stage' = "execute" /\ ~(total > MaxActions) /\ batch' = calls
        /\ turn' = [u EXCEPT !.totalActionCalls = @ + Len(calls), !.planOpen = plan]
    <3>1. stage' = "execute"
      BY <1>4 DEF OracleCalls, Fail
    <3> QED
      BY <1>4, <3>1 DEF OracleCalls, Fail, u
  <2>2. total \in 0..MaxActions /\ Len(calls) \in Nat
    <3>1. Len(calls) \in Nat
      BY <1>1
    <3> QED
      BY <1>5, <2>1, <3>1
  <2>3. plan \in BOOLEAN
    BY <1>2 DEF Turns
  <2>8. u.totalActionCalls = turn.totalActionCalls
    BY <1>2, <1>5 DEF IsReply
  <2>4. turn' = v
    BY <1>2, <2>1, <2>8
  <2> HIDE DEF total, plan
  <2>5. v \in Turns
    BY <1>2, <2>2, <2>3 DEF Turns
  <2>6. /\ v.iterationsUsed = u.iterationsUsed /\ v.context = u.context
        /\ v.conversationOffset = u.conversationOffset
        /\ v.boundaries = u.boundaries /\ v.topicSwitched = u.topicSwitched
        /\ v.totalActionCalls = total
        /\ v.memo = u.memo /\ v.banned = u.banned /\ v.delivered = u.delivered
    BY <1>2 DEF Turns
  <2> HIDE DEF v
  <2>7. Acting(policy, v, calls)
    <3>1. IsReply(v, turn, calls, Len(calls))
      BY <1>2, <2>6 DEF IsReply, total
    <3> QED
      BY <1>1, <2>2, <3>1, Replies DEF Acting
  <2> QED
    BY <1>2, <2>1, <2>4, <2>5, <2>6, <2>7
<1> QED
  BY <1>3, <1>4

LEMMA SettleSettles ==
  ASSUME Typed, Going, Settle
  PROVE  /\ turn' \in Turns /\ Settled(policy, turn', 0)
         /\ turn.memo \subseteq turn'.memo /\ turn.banned \subseteq turn'.banned
<1>1. /\ turn \in Turns /\ batch \in Seq(Signature) /\ Acting(policy, turn, batch)
      /\ policy.keep \in Nat
  BY PolicyIs DEF Settle, Typed, ReasoningTypeOK, Going
<1>2. PICK rebuilt \in BOOLEAN, summarized \in BOOLEAN :
         \/ turn' = Observed(Switched(Processed, rebuilt))
         \/ turn' = Compressed(Observed(Switched(Processed, rebuilt)), summarized)
  BY DEF Settle
<1> DEFINE t == Processed
           u == Switched(t, rebuilt)
           v == Observed(u)
           w == Compressed(v, summarized)
<1>3. t \in Turns /\ Settled(policy, t, 1)
      /\ turn.memo \subseteq t.memo /\ turn.banned \subseteq t.banned
  BY <1>1, ProcessedIs, ProcessedSettles
<1> HIDE DEF t
<1>4. u \in Turns /\ Settled(policy, u, 1) /\ u.memo = t.memo /\ u.banned = t.banned
  BY <1>1, <1>3, SwitchedSettles
<1> HIDE DEF u
<1>5. v \in Turns /\ Settled(policy, v, 1) /\ v.memo = u.memo /\ v.banned = u.banned
  BY <1>1, <1>4, ObservedSettles
<1> HIDE DEF v
<1>6. w \in Turns /\ Settled(policy, w, 0) /\ w.memo = v.memo /\ w.banned = v.banned
  BY <1>1, <1>5, CompressedSettles
<1>7. Settled(policy, v, 0)
  BY <1>5, Closes
<1>8. turn' = v \/ turn' = w
  BY <1>2 DEF t, u, v
<1> HIDE DEF w
<1> QED
  BY <1>3, <1>4, <1>5, <1>6, <1>7, <1>8

\* Where every step leaves the turn and the checkpoint.
GoesOn ==
    /\ policy' = policy /\ turn' \in Turns
    /\ stage' = "oracle" => turn'.iterationsUsed < MaxIterations
    /\ stage' = "execute" => Acting(policy, turn', batch')
    /\ stage' # "execute" => Settled(policy, turn', 0)
    /\ \A snap \in checkpoint' : snap \in Turns /\ Settled(policy, snap, 0)
    /\ Cardinality(checkpoint') <= 1

LEMMA Saves ==
  ASSUME Typed, Going, stage = "save"
  PROVE  /\ Snapshot(turn) \in Turns /\ Settled(policy, Snapshot(turn), 0)
         /\ Snapshot(turn).memo = turn.memo /\ Snapshot(turn).banned = turn.banned
         /\ Cardinality({Snapshot(turn)}) <= 1
<1>1. turn \in Turns /\ Settled(policy, turn, 0)
  BY DEF Typed, ReasoningTypeOK, Going
<1>2. /\ NewTurn.seen \subseteq Signature /\ NewTurn.streak \in Nat /\ NewTurn.session \in Topic
  BY TopicAssumption DEF NewTurn
<1>3. Snapshot(turn) = [turn EXCEPT !.seen = NewTurn.seen, !.streak = NewTurn.streak,
                                    !.session = NewTurn.session]
  BY DEF Snapshot
<1> DEFINE seen == NewTurn.seen
           streak == NewTurn.streak
           session == NewTurn.session
<1> HIDE DEF seen, streak, session
<1>4. Snapshot(turn) = [turn EXCEPT !.seen = seen, !.streak = streak, !.session = session]
  BY <1>3 DEF seen, streak, session
<1>5. seen \subseteq Signature /\ streak \in Nat /\ session \in Topic
  BY <1>2 DEF seen, streak, session
<1>6. Snapshot(turn) \in Turns
  <2>1. [turn EXCEPT !.seen = seen, !.streak = streak, !.session = session] \in Turns
    BY <1>1, <1>5 DEF Turns
  <2> QED
    BY <1>4, <2>1
<1>7. /\ Alike(Snapshot(turn), turn) /\ Snapshot(turn).context = turn.context
      /\ Snapshot(turn).banned = turn.banned
  BY <1>1, <1>4 DEF Turns, Alike
<1> QED
  BY <1>1, <1>6, <1>7, AlikeKeeps, FS_Singleton DEF Alike

LEMMA Sends ==
  ASSUME NEW p, p.keep \in Nat, NEW t \in Turns, NEW m \in Message,
         m.from \notin {"assistant", "history", "user"}, ~ToolMessage(m), Settled(p, t, 0)
  PROVE  /\ [t EXCEPT !.context = Append(@, m)] \in Turns
         /\ Settled(p, [t EXCEPT !.context = Append(@, m)], 0)
<1> DEFINE context == Append(t.context, m)
           u == [t EXCEPT !.context = context]
<1>1. context \in Seq(Message)
  BY DEF Turns
<1> HIDE DEF context
<1>2. u \in Turns /\ u.context = context /\ Alike(u, t)
  BY <1>1 DEF Turns, Alike
<1> HIDE DEF u
<1>3. Settled(p, u, 0)
  BY <1>2, Says DEF context
<1>4. u = [t EXCEPT !.context = Append(@, m)]
  BY DEF u, context
<1> QED
  BY <1>2, <1>3, <1>4

LEMMA SentBack ==
  ASSUME Typed, NEW from \in {"nudge", "review", "cite"}, NEW t \in Turns, Settled(policy, t, 0),
         SendBack(from, t)
  PROVE  turn' \in Turns /\ Settled(policy, turn', 0)
<1>1. Note(from, t.iterationsUsed) \in Message
      /\ Note(from, t.iterationsUsed).from = from
  <2>1. << >> \in Seq(Signature) /\ t.iterationsUsed \in 0..MaxIterations
    BY DEF Turns
  <2> QED
    BY <2>1 DEF Note, Message
<1>2. turn' = [t EXCEPT !.context = Append(@, Note(from, t.iterationsUsed))]
  BY DEF SendBack
<1>3. Note(from, t.iterationsUsed).from # "assistant" /\ ~ToolMessage(Note(from, t.iterationsUsed))
  BY <1>1 DEF ToolMessage
<1> QED
  BY <1>1, <1>2, <1>3, PolicyIs, Sends

LEMMA HandoffFails ==
  ASSUME Typed, Going, SettleHandoff
  PROVE  /\ turn' \in Turns /\ Settled(policy, turn', 0)
         /\ turn'.memo = turn.memo /\ turn'.banned = turn.banned
<1>1. turn \in Turns /\ Settled(policy, turn, 0)
  BY DEF Typed, ReasoningTypeOK, Going, SettleHandoff
<1>2. CASE UNCHANGED turn
  BY <1>1, <1>2
<1> DEFINE m == [from |-> "tool", iter |-> turn.iterationsUsed, calls |-> <<Handoff>>]
<1>3. CASE turn' = [turn EXCEPT !.context = Append(@, m)]
  <2>1. m \in Message /\ m.from \notin {"assistant", "history", "user"} /\ ~ToolMessage(m)
    <3>1. <<Handoff>> \in Seq(Signature) /\ turn.iterationsUsed \in 0..MaxIterations
      BY <1>1, BuiltInAssumption DEF Turns
    <3> QED
      BY <3>1 DEF Message, ToolMessage
  <2> HIDE DEF m
  <2>2. turn' \in Turns /\ Settled(policy, turn', 0)
    BY <1>1, <1>3, <2>1, PolicyIs, Sends
  <2>3. turn'.memo = turn.memo /\ turn'.banned = turn.banned
    BY <1>1, <1>3 DEF Turns
  <2> QED
    BY <2>2, <2>3
<1> QED
  BY <1>2, <1>3 DEF SettleHandoff

LEMMA CallExecuted ==
  ASSUME Typed, Going, NEW i \in DOMAIN batch, ExecuteCall(i)
  PROVE  /\ turn' \in Turns /\ Acting(policy, turn', batch)
         /\ turn'.memo = turn.memo /\ turn'.banned = turn.banned
<1>1. turn \in Turns /\ Acting(policy, turn, batch)
  BY DEF Typed, ReasoningTypeOK, Going, ExecuteCall
<1>2. turn' = turn \/ \E topic \in Topic : turn' = [turn EXCEPT !.session = topic]
  BY SubjectAssumption DEF ExecuteCall
<1>3. CASE turn' = turn
  BY <1>1, <1>3
<1>4. ASSUME NEW topic \in Topic, turn' = [turn EXCEPT !.session = topic]
      PROVE  /\ turn' \in Turns /\ Acting(policy, turn', batch)
             /\ turn'.memo = turn.memo /\ turn'.banned = turn.banned
  <2>1. turn' \in Turns
    BY <1>1, <1>4 DEF Turns
  <2>2. /\ Alike(turn', turn) /\ turn'.context = turn.context
        /\ turn'.banned = turn.banned /\ turn'.memo = turn.memo
    BY <1>1, <1>4 DEF Turns, Alike
  <2> QED
    BY <1>1, <2>1, <2>2, AlikeKeeps
<1> QED
  BY <1>2, <1>3, <1>4

LEMMA TurnStep == Typed /\ Going /\ [ReasoningNext]_reasoningVars => GoesOn
<1> SUFFICES ASSUME Typed, Going, [ReasoningNext]_reasoningVars PROVE GoesOn
  OBVIOUS
<1>20. /\ turn \in Turns /\ (stage # "execute" => Settled(policy, turn, 0))
       /\ (stage = "execute" => Acting(policy, turn, batch))
       /\ \A snap \in checkpoint : snap \in Turns /\ Settled(policy, snap, 0)
       /\ Cardinality(checkpoint) <= 1
       /\ (stage = "oracle" => turn.iterationsUsed < MaxIterations)
  BY DEF Typed, ReasoningTypeOK, Going
<1>21. NewTurn \in Turns /\ Settled(policy, NewTurn, 0)
  BY PolicyIs, Starts
<1>1. CASE DeliverPulse
  BY <1>20, <1>1, <1>21 DEF DeliverPulse, Resumed, GoesOn, Faultless, Faulty
<1>2. CASE OracleFails
  BY <1>20, <1>2, <1>21 DEF OracleFails, Fail, GoesOn
<1>3. CASE OracleAnswers
  BY <1>20, <1>3, AnswersSettle DEF OracleAnswers, GoesOn
<1>4. ASSUME NEW calls \in policy.requests, OracleCalls(calls) PROVE GoesOn
  <2>1. CASE stage' \in {"execute", "handoff"}
    BY <1>20, <1>4, <2>1, CallsAct DEF OracleCalls, GoesOn
  <2>2. CASE stage' \notin {"execute", "handoff"}
    BY <1>20, <1>4, <1>21, <2>2 DEF OracleCalls, Fail, GoesOn
  <2> QED
    BY <2>1, <2>2
<1>5. ASSUME NEW i \in DOMAIN batch, ExecuteCall(i) PROVE GoesOn
  BY <1>20, <1>5, CallExecuted DEF ExecuteCall, GoesOn
<1>6. CASE SettleHardStop
  BY <1>20, <1>6, <1>21 DEF SettleHardStop, Fail, GoesOn
<1>7. CASE Settle
  BY <1>20, <1>7, SettleSettles DEF Settle, GoesOn
<1>8. CASE SettleHandoff
  BY <1>20, <1>8, HandoffFails DEF SettleHandoff, GoesOn
<1>9. ASSUME NEW t \in Turns, Alike(t, turn), t.context = turn.context, stage = "answer",
             NEW from \in {"nudge", "review", "cite"}, SendBack(from, t)
      PROVE  GoesOn
  <2>1. Settled(policy, t, 0)
    BY <1>20, <1>9, AlikeKeeps
  <2> QED
    BY <1>20, <1>9, <2>1, SentBack DEF SendBack, GoesOn
<1>10. CASE NudgePlan
  <2>1. [turn EXCEPT !.planNudged = TRUE] \in Turns
        /\ Alike([turn EXCEPT !.planNudged = TRUE], turn)
        /\ [turn EXCEPT !.planNudged = TRUE].context = turn.context
    BY <1>20 DEF Turns, Alike
  <2> QED
    BY <1>9, <1>10, <2>1 DEF NudgePlan, Gated
<1>11. CASE Review
  <2> DEFINE rounds == turn.reflectionRounds + 1
  <2>1. rounds \in Nat
    BY <1>20 DEF Turns
  <2>2. SendBack("review", [turn EXCEPT !.reflectionRounds = rounds])
    BY <1>11 DEF Review
  <2> HIDE DEF rounds
  <2>3. [turn EXCEPT !.reflectionRounds = rounds] \in Turns
        /\ Alike([turn EXCEPT !.reflectionRounds = rounds], turn)
        /\ [turn EXCEPT !.reflectionRounds = rounds].context = turn.context
    BY <1>20, <2>1 DEF Turns, Alike
  <2> QED
    BY <1>9, <1>11, <2>2, <2>3 DEF Review, Gated
<1>12. CASE ReviseCitations
  <2>1. [turn EXCEPT !.groundingRevised = TRUE] \in Turns
        /\ Alike([turn EXCEPT !.groundingRevised = TRUE], turn)
        /\ [turn EXCEPT !.groundingRevised = TRUE].context = turn.context
    BY <1>20 DEF Turns, Alike
  <2> QED
    BY <1>9, <1>12, <2>1 DEF ReviseCitations, Gated
<1>13. ASSUME NEW cited \in BOOLEAN, NEW hedged \in BOOLEAN, Conclude(cited, hedged) PROVE GoesOn
  BY <1>20, <1>13 DEF Conclude, GoesOn
<1>14. CASE SaveCheckpoint
  BY <1>20, <1>14, Saves DEF SaveCheckpoint, GoesOn
<1>15. CASE Exhaust
  BY <1>20, <1>15 DEF Exhaust, GoesOn
<1>16. CASE Finish
  BY <1>20, <1>16, <1>21, FS_EmptySet DEF Finish, GoesOn
<1>17. CASE Crash
  BY <1>20, <1>17, <1>21 DEF Crash, GoesOn
<1>18. CASE Cancel
  BY <1>20, <1>18 DEF Cancel, calling, GoesOn
<1>19. CASE UNCHANGED reasoningVars
  BY <1>20, <1>19 DEF reasoningVars, calling, GoesOn
<1> QED
  BY <1>1, <1>2, <1>3, <1>4, <1>5, <1>6, <1>7, <1>8, <1>10, <1>11, <1>12, <1>13, <1>14, <1>15,
     <1>16, <1>17, <1>18, <1>19 DEF ReasoningNext, Iterate, Answer

LEMMA TypeStep == Typed /\ Going /\ [ReasoningNext]_reasoningVars => Typed'
<1> SUFFICES ASSUME Typed, Going, [ReasoningNext]_reasoningVars PROVE Typed'
  OBVIOUS
<1> DEFINE Stages == {"idle", "oracle", "execute", "handoff", "answer", "save", "exhausted",
                      "delete", "done"}
           Calling == /\ batch \in Seq(Signature)
                      /\ results \in [DOMAIN batch -> Result]
                      /\ tries \in [DOMAIN batch -> 1..MaxTries]
           Spare == /\ stage \in Stages /\ outcome.kind \in Outcome /\ banked \subseteq Signature
                    /\ cancelled \in BOOLEAN
                    /\ attempts \in 0..MaxAttempts /\ trouble \in 0..MaxTrouble
<1>20. GoesOn
  BY TurnStep
<1>21. policy \in Policy /\ Calling /\ Spare /\ turn \in Turns
  BY DEF Typed, ReasoningTypeOK
<1>22. Calling' /\ Spare' => Typed'
  BY <1>20, <1>21 DEF GoesOn, Typed, ReasoningTypeOK
<1>23. UNCHANGED calling => Calling'
  BY <1>21 DEF calling
<1>24. NoCall => Calling'
  <2> SUFFICES ASSUME NoCall PROVE Calling'
    OBVIOUS
  <2>1. batch' = << >> /\ results' = << >> /\ tries' = << >>
    BY DEF NoCall
  <2>2. << >> \in Seq(Signature) /\ DOMAIN << >> = {}
        /\ << >> \in [{} -> Result] /\ << >> \in [{} -> 1..MaxTries]
    OBVIOUS
  <2> QED
    BY <2>1, <2>2
<1>25. /\ trouble \in 0..MaxTrouble /\ (Faulty => trouble' \in 0..MaxTrouble)
       /\ (Faultless => trouble' \in 0..MaxTrouble)
  BY <1>21, BoundsAssumption DEF Faulty, Faultless
<1>26. ASSUME NEW kind \in Outcome, NEW told, Ended(kind, told) PROVE outcome'.kind \in Outcome
  BY <1>26 DEF Ended
<1>27. Dropped => outcome'.kind \in Outcome
  BY <1>26 DEF Dropped, Outcome
<1>28. ASSUME NEW told, Fail(told) PROVE Calling' /\ stage' \in Stages /\ outcome'.kind \in Outcome
  BY <1>24, <1>26, <1>27, <1>28 DEF Fail, Outcome
<1> HIDE DEF Calling
<1>1. CASE DeliverPulse
  <2>1. outcome'.kind \in Outcome
    BY <1>1, <1>26 DEF DeliverPulse, Outcome
  <2>2. attempts' \in 0..MaxAttempts
    BY <1>1, <1>21, BoundsAssumption DEF DeliverPulse
  <2>3. Spare'
    BY <1>1, <1>21, <1>25, <2>1, <2>2 DEF DeliverPulse
  <2> QED
    BY <1>1, <1>22, <1>23, <2>3 DEF DeliverPulse
<1>2. CASE OracleFails
  BY <1>2, <1>21, <1>22, <1>25, <1>28 DEF OracleFails
<1>3. CASE OracleAnswers
  BY <1>3, <1>21, <1>22, <1>23 DEF OracleAnswers
<1>4. ASSUME NEW calls \in policy.requests, OracleCalls(calls) PROVE Typed'
  <2>1. calls \in Seq(Signature)
    BY PolicyIs
  <2>2. CASE stage' \in {"execute", "handoff"}
    <3>1. /\ batch' = calls /\ results' \in [DOMAIN calls -> Result]
          /\ tries' = [i \in DOMAIN calls |-> 1] /\ UNCHANGED outcome
      BY <1>4, <2>2 DEF OracleCalls, Fail, Result
    <3>2. tries' \in [DOMAIN calls -> 1..MaxTries]
      BY <3>1, BoundsAssumption
    <3>3. Calling'
      BY <2>1, <3>1, <3>2 DEF Calling
    <3> QED
      BY <1>4, <1>21, <1>22, <2>2, <3>1, <3>3 DEF OracleCalls
  <2>3. CASE stage' \notin {"execute", "handoff"}
    <3>1. Fail(turn.delivered)
      BY <1>4, <2>3 DEF OracleCalls
    <3> QED
      BY <1>4, <1>21, <1>22, <1>28, <3>1 DEF OracleCalls
  <2> QED
    BY <2>2, <2>3
<1>5. ASSUME NEW i \in DOMAIN batch, ExecuteCall(i) PROVE Typed'
  <2>1. batch' = batch /\ batch \in Seq(Signature)
    BY <1>5, <1>21 DEF ExecuteCall, Calling
  <2>2. results' \in [DOMAIN batch -> Result]
    BY <1>5, <1>21 DEF ExecuteCall, Calling, Outcomes, Result
  <2>3. tries' \in [DOMAIN batch -> 1..MaxTries]
    <3>1. tries[i] \in 1..MaxTries /\ tries \in [DOMAIN batch -> 1..MaxTries] /\ MaxTries \in Nat
      BY <1>5, <1>21, BoundsAssumption DEF Calling
    <3>2. tries' = tries \/ (tries[i] < MaxTries /\ tries' = [tries EXCEPT ![i] = @ + 1])
      BY <1>5 DEF ExecuteCall
    <3> QED
      BY <3>1, <3>2
  <2>4. Calling'
    BY <2>1, <2>2, <2>3 DEF Calling
  <2> QED
    BY <1>5, <1>21, <1>22, <2>4 DEF ExecuteCall
<1>6. CASE SettleHardStop
  BY <1>6, <1>21, <1>22, <1>25, <1>28 DEF SettleHardStop
<1>7. CASE Settle
  <2>1. outcome'.kind \in Outcome
    BY <1>7, <1>21, <1>26 DEF Settle, Outcome
  <2>2. stage' \in Stages /\ (Faulty \/ Faultless)
    BY <1>7 DEF Settle
  <2> QED
    BY <1>7, <1>21, <1>22, <1>24, <1>25, <2>1, <2>2 DEF Settle
<1>8. CASE SettleHandoff
  <2>1. outcome'.kind \in Outcome
    BY <1>8, <1>21, <1>26 DEF SettleHandoff, Outcome
  <2> QED
    BY <1>8, <1>21, <1>22, <1>24, <2>1 DEF SettleHandoff
<1>9. CASE NudgePlan \/ Review \/ ReviseCitations
  BY <1>9, <1>21, <1>22, <1>23 DEF NudgePlan, Review, ReviseCitations, SendBack
<1>13. ASSUME NEW cited \in BOOLEAN, NEW hedged \in BOOLEAN, Conclude(cited, hedged) PROVE Typed'
  <2>1. outcome'.kind \in Outcome /\ (Faulty \/ Faultless)
    BY <1>13, <1>26 DEF Conclude, Outcome
  <2> QED
    BY <1>13, <1>21, <1>22, <1>23, <1>25, <2>1 DEF Conclude
<1>14. CASE SaveCheckpoint
  <2>1. turn.memo \cup turn.banned \subseteq Signature
    BY <1>21 DEF Turns
  <2> QED
    BY <1>14, <1>21, <1>22, <1>23, <1>25, <2>1 DEF SaveCheckpoint
<1>15. CASE Exhaust
  <2>1. outcome'.kind \in Outcome
    BY <1>15, <1>26 DEF Exhaust, Outcome
  <2> QED
    BY <1>15, <1>21, <1>22, <1>23, <2>1 DEF Exhaust
<1>16. CASE Finish
  BY <1>16, <1>21, <1>22, <1>23, <1>25, <1>27 DEF Finish
<1>17. CASE Crash
  <2>1. outcome'.kind \in Outcome
    BY <1>17, <1>26 DEF Crash, Outcome
  <2> QED
    BY <1>17, <1>21, <1>22, <1>24, <1>25, <2>1 DEF Crash
<1>18. CASE Cancel
  BY <1>18, <1>21, <1>22, <1>23, <1>25 DEF Cancel
<1>19. CASE UNCHANGED reasoningVars
  BY <1>19, <1>21, <1>22, <1>23 DEF reasoningVars
<1> QED
  BY <1>1, <1>2, <1>3, <1>4, <1>5, <1>6, <1>7, <1>8, <1>9, <1>13, <1>14, <1>15, <1>16, <1>17,
     <1>18, <1>19 DEF ReasoningNext, Iterate, Answer

LEMMA GoingStep == Typed /\ Going /\ [ReasoningNext]_reasoningVars => Going'
<1> SUFFICES ASSUME Typed, Going, [ReasoningNext]_reasoningVars PROVE Going'
  OBVIOUS
<1>1. GoesOn
  BY TurnStep
<1> QED
  BY <1>1 DEF GoesOn, Going

LEMMA RememberStep == TurnInvariant /\ [ReasoningNext]_reasoningVars => Remembering'
<1> SUFFICES ASSUME Typed, Going, Remembering, [ReasoningNext]_reasoningVars
             PROVE  Remembering'
  BY DEF TurnInvariant
<1> DEFINE Knows(t) == banked' \subseteq t.memo \cup t.banned
           Saved == /\ \A snap \in checkpoint' : Knows(snap)
                    /\ checkpoint' = {} => banked' = {}
                    /\ checkpoint' # {} => policy'.durable
           Asked == \A i \in DOMAIN batch' :
                        results'[i] = "pending" => batch'[i] \notin turn'.memo \cup turn'.banned
<1>20. turn \in Turns
  BY DEF Typed, ReasoningTypeOK
<1>21. Saved /\ (stage' \notin {"idle", "done"} => Knows(turn')) /\ (stage' = "execute" => Asked)
       => Remembering'
  BY DEF Remembering, Running
<1>22. UNCHANGED <<policy, checkpoint, banked>> => Saved
  BY DEF Remembering
<1>23. ASSUME UNCHANGED banked, Running, turn'.memo = turn.memo, turn'.banned = turn.banned
       PROVE  Knows(turn')
  BY <1>23 DEF Remembering
<1> HIDE DEF Saved, Asked
<1>1. CASE DeliverPulse
  <2>1. checkpoint' = checkpoint /\ policy' = policy /\ stage' # "execute"
    BY <1>1 DEF DeliverPulse
  <2>2. CASE turn' \in Resumed /\ UNCHANGED banked
    BY <1>21, <1>22, <2>1, <2>2 DEF Resumed, Remembering
  <2>3. CASE banked' = {} /\ policy.durable
    BY <1>21, <2>1, <2>3 DEF Saved
  <2> QED
    BY <1>1, <2>2, <2>3 DEF DeliverPulse
<1>2. CASE OracleFails
  BY <1>2, <1>21, <1>22 DEF OracleFails, Fail
<1>3. CASE OracleAnswers
  <2>1. turn'.memo = turn.memo /\ turn'.banned = turn.banned
    BY <1>3, AnswersSettle
  <2> QED
    BY <1>3, <1>21, <1>22, <1>23, <2>1 DEF OracleAnswers, Running
<1>4. ASSUME NEW calls \in policy.requests, OracleCalls(calls) PROVE Remembering'
  <2>1. UNCHANGED <<policy, checkpoint, banked>> /\ stage = "oracle"
    BY <1>4 DEF OracleCalls
  <2>2. CASE stage' \in {"execute", "handoff"}
    <3>1. turn'.memo = turn.memo /\ turn'.banned = turn.banned /\ batch' = calls
      BY <1>4, <2>2, CallsAct
    <3>2. ASSUME stage' = "execute" PROVE Asked
      <4>1. results' = [i \in DOMAIN calls |->
                   IF Skips(calls[i]) THEN "skipped"
                   ELSE IF calls[i] \in {PlanOpen, PlanDone} THEN "ok" ELSE "pending"]
        BY <1>4, <3>2 DEF OracleCalls, Fail
      <4> QED
        BY <3>1, <4>1 DEF Asked, Skips
    <3> QED
      BY <1>21, <1>22, <1>23, <2>1, <3>1, <3>2 DEF Running
  <2>3. CASE stage' \notin {"execute", "handoff"}
    BY <1>4, <1>21, <1>22, <2>1, <2>3 DEF OracleCalls, Fail
  <2> QED
    BY <2>2, <2>3
<1>5. ASSUME NEW i \in DOMAIN batch, ExecuteCall(i) PROVE Remembering'
  <2>1. /\ UNCHANGED <<policy, checkpoint, banked, stage, batch>> /\ stage = "execute"
        /\ turn'.memo = turn.memo /\ turn'.banned = turn.banned
    BY <1>5, CallExecuted DEF ExecuteCall
  <2>2. \A k \in DOMAIN batch : results'[k] = "pending" => results[k] = "pending"
    <3>1. results \in [DOMAIN batch -> Result]
      BY DEF Typed, ReasoningTypeOK
    <3> QED
      BY <1>5, <3>1 DEF ExecuteCall, Outcomes
  <2>3. Asked
    BY <2>1, <2>2 DEF Asked, Remembering
  <2> QED
    BY <1>21, <1>22, <1>23, <2>1, <2>3 DEF Running
<1>6. CASE SettleHardStop
  BY <1>6, <1>21, <1>22 DEF SettleHardStop, Fail
<1>7. CASE Settle
  <2>1. turn.memo \subseteq turn'.memo /\ turn.banned \subseteq turn'.banned
    BY <1>7, SettleSettles
  <2>2. UNCHANGED <<policy, checkpoint, banked>> /\ stage = "execute" /\ stage' # "execute"
    BY <1>7 DEF Settle
  <2>3. Knows(turn')
    BY <2>1, <2>2 DEF Remembering, Running
  <2> QED
    BY <1>21, <1>22, <2>2, <2>3
<1>8. CASE SettleHandoff
  <2>1. turn'.memo = turn.memo /\ turn'.banned = turn.banned
    BY <1>8, HandoffFails
  <2> QED
    BY <1>8, <1>21, <1>22, <1>23, <2>1 DEF SettleHandoff, Running
<1>9. CASE NudgePlan \/ Review \/ ReviseCitations
  <2>1. turn'.memo = turn.memo /\ turn'.banned = turn.banned
    BY <1>9, <1>20 DEF NudgePlan, Review, ReviseCitations, SendBack, Turns
  <2> QED
    BY <1>9, <1>21, <1>22, <1>23, <2>1
       DEF NudgePlan, Review, ReviseCitations, SendBack, Gated, Running
<1>13. ASSUME NEW cited \in BOOLEAN, NEW hedged \in BOOLEAN, Conclude(cited, hedged)
       PROVE  Remembering'
  BY <1>13, <1>21, <1>22, <1>23 DEF Conclude, Running
<1>14. CASE SaveCheckpoint
  <2>1. /\ Snapshot(turn).memo = turn.memo /\ Snapshot(turn).banned = turn.banned
        /\ stage = "save" /\ stage' # "execute" /\ turn' = turn /\ policy' = policy
    BY <1>14, Saves DEF SaveCheckpoint
  <2>2. CASE policy.durable /\ checkpoint' = {Snapshot(turn)} /\ banked' = turn.memo \cup turn.banned
    <3>1. Saved
      BY <2>1, <2>2 DEF Saved
    <3> QED
      BY <1>21, <2>1, <2>2, <3>1
  <2>3. CASE UNCHANGED <<checkpoint, banked>>
    BY <1>21, <1>22, <1>23, <2>1, <2>3 DEF Running
  <2> QED
    BY <1>14, <2>2, <2>3 DEF SaveCheckpoint
<1>15. CASE Exhaust
  BY <1>15, <1>21, <1>22, <1>23 DEF Exhaust, Running
<1>16. CASE Finish
  BY <1>16, <1>21, <1>22 DEF Finish, Saved
<1>17. CASE Crash
  BY <1>17, <1>21, <1>22 DEF Crash
<1>18. CASE Cancel
  <2>1. stage' = "execute" => Asked
    BY <1>18 DEF Cancel, calling, Asked, Remembering
  <2> QED
    BY <1>18, <1>21, <1>22, <1>23, <2>1 DEF Cancel
<1>19. CASE UNCHANGED reasoningVars
  <2>1. stage' = "execute" => Asked
    BY <1>19 DEF reasoningVars, calling, Asked, Remembering
  <2> QED
    BY <1>19, <1>21, <1>22, <1>23, <2>1 DEF reasoningVars, Running
<1> QED
  BY <1>1, <1>2, <1>3, <1>4, <1>5, <1>6, <1>7, <1>8, <1>9, <1>13, <1>14, <1>15, <1>16, <1>17,
     <1>18, <1>19 DEF ReasoningNext, Iterate, Answer

LEMMA InvariantStarts == ReasoningInit => TurnInvariant
<1> SUFFICES ASSUME ReasoningInit PROVE TurnInvariant
  OBVIOUS
<1>1. policy.keep \in Nat
  BY PolicyAssumption DEF ReasoningInit
<1>2. turn \in Turns /\ Settled(policy, turn, 0)
  BY <1>1, Starts DEF ReasoningInit
<1>3. batch \in Seq(Signature) /\ results \in [DOMAIN batch -> Result]
      /\ tries \in [DOMAIN batch -> 1..MaxTries]
  BY DEF ReasoningInit
<1>4. Typed
  <2>1. Cardinality(checkpoint) <= 1 /\ \A snap \in checkpoint : snap \in Turns
    BY FS_EmptySet DEF ReasoningInit
  <2>2. attempts \in 0..MaxAttempts /\ trouble \in 0..MaxTrouble
    BY BoundsAssumption DEF ReasoningInit
  <2>3. /\ policy \in Policy /\ stage = "idle" /\ outcome.kind \in Outcome
        /\ banked \subseteq Signature /\ cancelled \in BOOLEAN
    BY DEF ReasoningInit, Outcome
  <2> QED
    BY <1>2, <1>3, <2>1, <2>2, <2>3 DEF Typed, ReasoningTypeOK
<1> QED
  BY <1>2, <1>4 DEF ReasoningInit, TurnInvariant, Going, Remembering, Running

LEMMA TurnInvariantHolds == ReasoningSpec => []TurnInvariant
<1>1. TurnInvariant /\ [ReasoningNext]_reasoningVars => TurnInvariant'
  BY TypeStep, GoingStep, RememberStep DEF TurnInvariant
<1> QED
  BY <1>1, InvariantStarts, PTL DEF ReasoningSpec

-----------------------------------------------------------------------------
(* The theorems *)

\* A permutation of positions moves the positions of a kind and keeps their number.
LEMMA PermutationCounts ==
  ASSUME NEW S, IsFiniteSet(S), NEW order \in Bijection(S, S), NEW T \in SUBSET S
  PROVE  Cardinality({j \in S : order[j] \in T}) = Cardinality(T)
<1> DEFINE J == {j \in S : order[j] \in T}
           f == [j \in J |-> order[j]]
<1>1. /\ order \in [S -> S] /\ \A a, b \in S : order[a] = order[b] => a = b
      /\ \A t \in S : \E s \in S : order[s] = t
  BY Fun_BijectionProperties
<1>2. f \in Bijection(J, T)
  <2>1. f \in [J -> T] /\ \A a, b \in J : f[a] = f[b] => a = b
    BY <1>1
  <2>2. \A t \in T : \E j \in J : f[j] = t
    <3> TAKE t \in T
    <3>1. PICK s \in S : order[s] = t
      BY <1>1
    <3> QED
      BY <3>1
  <2> HIDE DEF J, f
  <2> QED
    BY <2>1, <2>2, Fun_IsBij
<1>3. IsFiniteSet(J)
  BY FS_Subset
<1> HIDE DEF J, f
<1>4. Cardinality(T) = Cardinality(J)
  BY <1>2, <1>3, FS_Bijection DEF ExistsBijection
<1> QED
  BY <1>4 DEF J

LEMMA Slice ==
  ASSUME NEW context \in Seq(Message), NEW i \in Nat, NEW n \in Nat, i + n <= Len(context)
  PROVE  /\ SubSeq(context, i + 1, i + n) \in Seq(Message)
         /\ Len(SubSeq(context, i + 1, i + n)) = n
         /\ \A j \in 1..n : SubSeq(context, i + 1, i + n)[j] = context[i + j]
  OBVIOUS

\* As many messages as message i makes calls, from the one after it.
After(context, i) ==
    SubSeq(context, i + 1, Min({i + Len(context[i].calls), Len(context)}))

\* A call of message i is answered as often as message i makes it.
Tallies(context, i, s) ==
    Count(LAMBDA m : m.from = "tool" /\ m.calls = <<s>>, After(context, i))
    = Count(LAMBDA c : c = s, context[i].calls)

LEMMA ResolvedCounts ==
  ASSUME NEW context \in Seq(Message), NEW i \in DOMAIN context, Resolved(context, i), NEW s
  PROVE  Tallies(context, i, s)
<1> DEFINE calls == context[i].calls
           after == After(context, i)
<1>1. calls \in Seq(Signature) /\ i \in Nat /\ Len(context) \in Nat
  <2>1. context[i] \in Message
    OBVIOUS
  <2> QED
    BY <2>1 DEF Message
<1>2. i + Len(calls) <= Len(context)
  BY DEF Resolved
<1>3. PICK order \in Bijection(DOMAIN calls, DOMAIN calls) :
         \A j \in DOMAIN calls : context[i + j].from = "tool"
                                 /\ context[i + j].calls = <<calls[order[j]]>>
  BY DEF Resolved
<1> HIDE DEF calls
<1>4. Len(calls) \in Nat /\ DOMAIN calls = 1..Len(calls)
  BY <1>1
<1>5. Min({i + Len(calls), Len(context)}) = i + Len(calls)
  <2> DEFINE two == {i + Len(calls), Len(context)}
  <2>1. /\ i + Len(calls) \in two /\ \A y \in two : i + Len(calls) <= y
        /\ \A x \in two : x <= i + Len(calls) => x = i + Len(calls)
    BY <1>1, <1>2, <1>4
  <2> HIDE DEF two
  <2>2. Min(two) = i + Len(calls)
    BY <2>1 DEF Min
  <2> QED
    BY <2>2 DEF two
<1>6. /\ DOMAIN after = 1..Len(calls)
      /\ \A j \in 1..Len(calls) : after[j] = context[i + j]
  <2> DEFINE n == Len(calls)
  <2>1. n \in Nat /\ i + n <= Len(context)
    BY <1>2, <1>4
  <2>2. after = SubSeq(context, i + 1, i + n)
    BY <1>5 DEF After, calls
  <2> HIDE DEF n, after
  <2>3. /\ after \in Seq(Message) /\ Len(after) = n
        /\ \A j \in 1..n : after[j] = context[i + j]
    BY <1>1, <2>1, <2>2, Slice
  <2>4. DOMAIN after = 1..n
    BY <2>1, <2>3
  <2> QED
    BY <2>3, <2>4 DEF n
<1> HIDE DEF after
<1>7. \A j \in DOMAIN calls : order[j] \in DOMAIN calls
  BY <1>3, Fun_BijectionProperties
<1> DEFINE T == {j \in DOMAIN calls : calls[j] = s}
<1>8. {j \in DOMAIN after : after[j].from = "tool" /\ after[j].calls = <<s>>}
      = {j \in DOMAIN calls : order[j] \in T}
  <2>1. \A j \in DOMAIN calls : <<calls[order[j]]>> = <<s>> <=> calls[order[j]] = s
    OBVIOUS
  <2> QED
    BY <1>3, <1>4, <1>6, <1>7, <2>1
<1>9. IsFiniteSet(DOMAIN calls)
  BY <1>4, FS_Interval
<1>10. Cardinality({j \in DOMAIN calls : order[j] \in T}) = Cardinality(T)
  BY <1>3, <1>9, PermutationCounts
<1> QED
  BY <1>8, <1>10 DEF calls, after, Tallies, Count

\* A turn has the fields of turnState throughout, and a delivery its bounds: iterations and
\* Actions within their budgets, one result and one number of tries for each call.
THEOREM TypeCorrect == ReasoningSpec => []ReasoningTypeOK
<1>1. TurnInvariant => ReasoningTypeOK
  BY DEF TurnInvariant, Typed
<1> QED
  BY <1>1, TurnInvariantHolds, PTL

\* When the loop calls the Oracle, every Action call of the context is followed by one result
\* for each time it was made: processActionCalls answers skipped calls too, and neither
\* handleTopicSwitch, maybeCompress nor resumeFromCheckpoint parts a call from its results.
THEOREM EveryCallAnswered == ReasoningSpec => []CallsAnswered
<1>1. TurnInvariant => CallsAnswered
  <2> SUFFICES ASSUME TurnInvariant, stage = "oracle", NEW i \in DOMAIN turn.context,
                      turn.context[i].from = "assistant", Handoff \notin ToSet(turn.context[i].calls),
                      NEW s
               PROVE  Tallies(turn.context, i, s)
    BY DEF CallsAnswered, After, Tallies
  <2>1. turn.context \in Seq(Message) /\ Settled(policy, turn, 0)
    BY DEF TurnInvariant, Typed, ReasoningTypeOK, Going, Turns
  <2>2. Resolved(turn.context, i)
    <3>1. i \in 1..Len(turn.context)
      BY <2>1
    <3> QED
      BY <2>1, <3>1 DEF Settled, Answered, Asks
  <2> QED
    BY <2>1, <2>2, ResolvedCounts
<1> QED
  BY <1>1, TurnInvariantHolds, PTL

\* A delivery that resumes a turn (resumeFromCheckpoint) repeats no call that the checkpoint
\* has as done or banned, collects no more results than the Action budget over all the
\* deliveries, and knows that an Action has already answered the user.
THEOREM ResumeIsContinuation == ReasoningSpec => []ResumeGoesOn
<1>1. TurnInvariant => NothingRepeated
  BY DEF TurnInvariant, Remembering, Running, NothingRepeated, Calls, Where
<1>2. TurnInvariant => BudgetHolds
  <2> SUFFICES ASSUME TurnInvariant, policy.keep = 0
               PROVE  Cardinality(ToolsAt(turn.context)) <= MaxActions
    BY DEF BudgetHolds, Count, ToolsAt
  <2>1. turn \in Turns /\ batch \in Seq(Signature)
    BY DEF TurnInvariant, Typed, ReasoningTypeOK
  <2>2. /\ turn.totalActionCalls \in 0..MaxActions /\ MaxActions \in Nat /\ Len(batch) \in Nat
        /\ turn.context \in Seq(Message)
    BY <2>1, BoundsAssumption DEF Turns
  <2>3. Cardinality(ToolsAt(turn.context)) \in Nat
    BY <2>2, ToolsFinite
  <2>4. \E more \in Nat : Within(policy, turn, more)
    BY <2>2 DEF TurnInvariant, Going, Acting, Settled
  <2> QED
    BY <2>2, <2>3, <2>4 DEF Within
<1>3. TurnInvariant => NoSecondAnswer
  <2>1. TurnInvariant => Telling(turn)
    BY DEF TurnInvariant, Going, Acting, Settled
  <2> QED
    BY <2>1 DEF TurnInvariant, Remembering, NoSecondAnswer, Telling
<1>4. TurnInvariant => ResumeGoesOn
  BY <1>1, <1>2, <1>3 DEF ResumeGoesOn
<1> QED
  BY <1>4, TurnInvariantHolds, PTL

\* maybeCompress leaves the assistant's messages of the latest KeepRecent - 1 iterations in
\* the context, over topic switches, resumes and earlier compressions: one iteration less than
\* its comment promises, and never fewer.
THEOREM AllButOneStay == ReasoningSpec => []KeepsLast(policy.keep - 1)
<1>1. TurnInvariant => KeepsLast(policy.keep - 1)
  <2> SUFFICES ASSUME TurnInvariant, stage \in {"save", "oracle"},
                      NEW n \in (turn.iterationsUsed - (policy.keep - 1) + 1)
                                ..turn.iterationsUsed,
                      n > 0
               PROVE  \E i \in DOMAIN turn.context :
                          turn.context[i].from = "assistant" /\ turn.context[i].iter = n
    BY DEF KeepsLast
  <2>1. /\ turn.iterationsUsed \in Nat /\ policy.keep \in Nat /\ Recent(policy, turn)
    <3>1. turn \in Turns /\ policy.keep \in Nat
      BY PolicyIs DEF TurnInvariant, Typed, ReasoningTypeOK
    <3>2. turn.iterationsUsed \in Nat
      BY <3>1, BoundsAssumption DEF Turns
    <3>3. Recent(policy, turn)
      BY DEF TurnInvariant, Going, Settled
    <3> QED
      BY <3>1, <3>2, <3>3
  <2>2. n \in 1..turn.iterationsUsed /\ n >= turn.iterationsUsed - policy.keep + 2
    BY <2>1
  <2>3. Holds(turn.context, n, 0)
    BY <2>1, <2>2 DEF Recent
  <2> QED
    BY <2>3 DEF Holds
<1> QED
  BY <1>1, TurnInvariantHolds, PTL

\* conversationOffset is where the conversation before the turn ends, in every context that
\* newTurnState, handleTopicSwitch, maybeCompress and resumeFromCheckpoint make, of a Pulse
\* with a message of the user and of one without.
THEOREM ConversationStays == ReasoningSpec => []ConversationPinned
<1>1. TurnInvariant => ConversationPinned
  <2> SUFFICES ASSUME TurnInvariant, Running PROVE ConversationPinned
    BY DEF ConversationPinned
  <2>1. Pinned(policy, turn)
    BY DEF TurnInvariant, Going, Acting, Settled
  <2>2. DOMAIN turn.context = 1..Len(turn.context)
    BY DEF TurnInvariant, Typed, ReasoningTypeOK, Turns
  <2> QED
    BY <2>1, <2>2 DEF ConversationPinned, Pinned
<1> QED
  BY <1>1, TurnInvariantHolds, PTL
====
