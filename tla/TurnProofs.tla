----------------------------- MODULE TurnProofs -----------------------------
(* A turn that is more than one reasoning on one thread: the Spirits that    *)
(* summon and hand off to each other, for any catalog of them and any limits *)
(* they have; the goroutines that stream a turn, for any sizes of their      *)
(* channels and of what the model answers; the Spirit that a turn is cast    *)
(* with, while others edit it; and what the loop takes for an answer of any  *)
(* length.                                                                   *)
EXTENDS Delegation, Streaming, Casting, Generation, FiniteSetTheorems, SequenceTheorems,
        WellFoundedInduction, TLAPS

-----------------------------------------------------------------------------
(* Summon and Handoff: the counters that the Pulses carry count the calls of *)
(* a chain, and the handoffs of a turn are one relay.                        *)

Kind == {"turn", "summon", "handoff"}
Tasked == [spirit : Spirit, parent : Nat, by : Kind, depth : Nat, handoffs : Nat,
         state : {"open", "ok", "error"}, author : Spirit \cup {NoSpirit}]

\* The reasonings are a tree, numbered in the order they began.
TreeOf(fr) ==
    \A f \in DOMAIN fr :
       /\ f = 1 <=> fr[f].by = "turn"
       /\ f = 1 <=> fr[f].parent = 0
       /\ f # 1 => fr[f].parent \in DOMAIN fr /\ fr[f].parent < f

\* The counter that its Pulse carries, and what it was checked against.
Count(fr, f) == IF fr[f].by = "summon" THEN fr[f].depth ELSE fr[f].handoffs
Limit(fr, f) == IF fr[f].by = "summon" THEN MaxDepth[fr[fr[f].parent].spirit]
                                       ELSE MaxHandoffs[fr[fr[f].parent].spirit]
ChainOf(fr, calls, f) ==
    /\ f \in calls
    /\ \A c \in calls : /\ fr[c].by = fr[f].by
                        /\ c # f => \E d \in calls : fr[d].parent = c
CountsChains(fr) ==
    \A f \in DOMAIN fr \ {1} :
       /\ Count(fr, f) <= Limit(fr, f)
       /\ \A calls \in SUBSET DOMAIN fr : ChainOf(fr, calls, f) => Cardinality(calls) <= Count(fr, f)

\* While a target works, or when it has answered, no other call of its caller runs, and none
\* runs when the caller has ended.
Waits(fr) ==
    \A c \in DOMAIN fr \ {1} :
       /\ fr[fr[c].parent].state # "open" => fr[c].state # "open"
       /\ fr[c].by = "handoff" /\ fr[c].state # "error" =>
             \A d \in DOMAIN fr \ {c} : fr[d].parent = fr[c].parent => fr[d].state # "open"

\* As long as no target failed and no sub-task handed off, the handoffs are one relay in which
\* each target was called by the one before; who has ended answers with the last one.
Hops(fr) == {f \in DOMAIN fr : fr[f].by # "summon"}
Clean(fr) == \A t \in Hops(fr) \ {1} : fr[t].state # "error" /\ fr[t].parent \in Hops(fr)
LastOf(fr, g) == g \in Hops(fr) /\ \A h \in Hops(fr) : h <= g
Relay(fr) == Clean(fr) =>
    /\ \A t \in Hops(fr) \ {1}, u \in Hops(fr) : u <= fr[t].parent \/ t <= u
    /\ \A f \in Hops(fr) : fr[f].state = "ok" =>
          /\ \A g \in Hops(fr) : f < g => fr[g].state # "open"
          /\ \A g \in Hops(fr) : LastOf(fr, g) => fr[f].author = fr[g].spirit

Typed ==
    /\ frames \in Seq(Tasked) /\ catalog \subseteq Spirit
    /\ TreeOf(frames)
\* The pin is that of the last target.
Pinned ==
    Live /\ ~inDoubt =>
       \/ Hops(frames) = {1} /\ pin \in {NoSpirit, before}
       \/ \E t \in Hops(frames) \ {1} : LastOf(frames, t) /\ pin \in {NoSpirit, frames[t].spirit}

Delegated == Typed /\ CountsChains(frames) /\ Waits(frames) /\ Relay(frames) /\ Pinned

LEMMA FramesAre ==
  ASSUME NEW fr \in Seq(Tasked)
  PROVE  /\ DOMAIN fr = 1..Len(fr) /\ Len(fr) \in Nat /\ IsFiniteSet(DOMAIN fr)
         /\ \A f \in DOMAIN fr : fr[f] \in Tasked /\ f \in Nat \ {0}
<1>1. DOMAIN fr = 1..Len(fr) /\ Len(fr) \in Nat /\ 1 \in Int /\ Len(fr) \in Int
  OBVIOUS
<1>2. IsFiniteSet(1..Len(fr))
  BY <1>1, FS_Interval
<1> QED
  BY <1>1, <1>2

\* A chain without its last call is the chain of the caller.
LEMMA ChainWithout ==
  ASSUME NEW fr \in Seq(Tasked), TreeOf(fr), NEW f \in DOMAIN fr \ {1},
         NEW calls \in SUBSET DOMAIN fr, ChainOf(fr, calls, f), calls # {f}
  PROVE  /\ fr[f].parent \in calls \ {f}
         /\ ChainOf(fr, calls \ {f}, fr[f].parent)
<1> DEFINE last == Len(fr)
           rest == {last - c : c \in calls \ {f}}
<1>1. DOMAIN fr = 1..last /\ last \in Nat
  BY FramesAre
<1>2. rest \in SUBSET Nat /\ rest # {}
  <2>1. \A c \in calls : last - c \in Nat
    BY <1>1
  <2>2. f \in calls /\ calls \ {f} # {}
    BY DEF ChainOf
  <2> QED
    BY <2>1, <2>2
<1>3. PICK n \in rest : \A m \in rest : ~(<<m, n>> \in OpToRel(<, Nat))
  BY <1>2, NatLessThanWellFounded, WFMin
<1>4. PICK c \in calls \ {f} : n = last - c
  BY <1>3
<1>5. \A b \in calls \ {f} : b <= c
  <2> TAKE b \in calls \ {f}
  <2>1. last - b \in rest /\ last - b \in Nat /\ n \in Nat
    BY <1>2, <1>3
  <2>2. ~(last - b < n)
    BY <1>3, <2>1 DEF OpToRel
  <2> QED
    BY <1>1, <1>4, <2>1, <2>2
<1>6. \A b \in calls \ {f} : \E d \in calls : fr[d].parent = b
  BY DEF ChainOf
<1>7. \A d \in calls : fr[d].parent \in calls \ {f} => d # 1 /\ fr[d].parent < d
  BY <1>1 DEF TreeOf
<1>8. PICK d \in calls : fr[d].parent = c
  BY <1>4, <1>6
<1>9. d = f
  BY <1>1, <1>4, <1>5, <1>7, <1>8
<1>10. \A b \in (calls \ {f}) \ {c} : \E e \in calls \ {f} : fr[e].parent = b
  BY <1>6, <1>8, <1>9
<1> QED
  BY <1>4, <1>8, <1>9, <1>10 DEF ChainOf

\* New reasonings at the end, each called by an older one with the counters of its Pulse.
Called(fr, fr2) ==
    /\ fr2 \in Seq(Tasked) /\ TreeOf(fr2)
    /\ DOMAIN fr \subseteq DOMAIN fr2 /\ \A f \in DOMAIN fr : fr2[f] = fr[f]
    /\ \A f \in DOMAIN fr2 \ DOMAIN fr :
          /\ f # 1 /\ fr2[f].parent \in DOMAIN fr
          /\ Count(fr2, f) <= Limit(fr2, f)
          /\ fr2[f].by = fr[fr2[f].parent].by => Count(fr2, f) = Count(fr, fr2[f].parent) + 1
          /\ Count(fr2, f) >= 1

LEMMA CallsAreCounted ==
  ASSUME NEW fr \in Seq(Tasked), TreeOf(fr), CountsChains(fr), NEW fr2, Called(fr, fr2)
  PROVE  CountsChains(fr2)
<1>0. /\ fr2 \in Seq(Tasked) /\ TreeOf(fr2)
      /\ DOMAIN fr \subseteq DOMAIN fr2 /\ \A f \in DOMAIN fr : fr2[f] = fr[f]
  BY DEF Called
<1>1. \A f \in DOMAIN fr \ {1} : Count(fr2, f) = Count(fr, f) /\ Limit(fr2, f) = Limit(fr, f)
                                 /\ Count(fr, f) <= Limit(fr, f)
  BY <1>0 DEF Count, Limit, CountsChains, TreeOf
<1>2. \A d \in DOMAIN fr2 \ {1} : fr2[d].parent \in DOMAIN fr
  BY <1>0 DEF Called, TreeOf
<1>3. ASSUME NEW f \in DOMAIN fr, NEW calls \in SUBSET DOMAIN fr2, ChainOf(fr2, calls, f)
      PROVE  calls \in SUBSET DOMAIN fr /\ ChainOf(fr, calls, f)
  <2>1. \A c \in calls : c # f => c \in DOMAIN fr
    <3> TAKE c \in calls
    <3> HAVE c # f
    <3>1. PICK d \in calls : fr2[d].parent = c
      BY <1>3 DEF ChainOf
    <3>2. c # 0
      BY <1>0, FramesAre
    <3> QED
      BY <1>0, <1>2, <3>1, <3>2 DEF TreeOf
  <2>2. calls \in SUBSET DOMAIN fr
    BY <2>1
  <2> QED
    BY <1>0, <1>3, <2>2 DEF ChainOf
<1>4. ASSUME NEW f \in DOMAIN fr2 \ {1}, NEW calls \in SUBSET DOMAIN fr2, ChainOf(fr2, calls, f)
      PROVE  Cardinality(calls) <= Count(fr2, f)
  <2>1. CASE f \in DOMAIN fr
    BY <1>1, <1>3, <1>4, <2>1 DEF CountsChains
  <2>2. CASE f \notin DOMAIN fr
    <3> DEFINE p == fr2[f].parent
    <3>1. p \in DOMAIN fr /\ Count(fr2, f) >= 1
      BY <2>2 DEF Called
    <3>2. IsFiniteSet(calls) /\ f \in calls
      BY <1>0, <1>4, FramesAre, FS_Subset DEF ChainOf
    <3>3. CASE calls = {f}
      BY <3>1, <3>3, FS_Singleton
    <3>4. CASE calls # {f}
      <4>1. p \in calls \ {f} /\ ChainOf(fr2, calls \ {f}, p)
        BY <1>0, <1>4, <3>4, ChainWithout
      <4>2. calls \ {f} \in SUBSET DOMAIN fr /\ ChainOf(fr, calls \ {f}, p)
        BY <1>3, <3>1, <4>1
      <4>3. fr2[f].by = fr[p].by
        BY <1>0, <1>4, <3>1, <4>1 DEF ChainOf
      <4>4. p # 1
        BY <1>0, <1>4, <3>1, <4>3 DEF TreeOf
      <4>5. Cardinality(calls \ {f}) <= Count(fr, p) /\ Count(fr2, f) = Count(fr, p) + 1
        BY <2>2, <3>1, <4>2, <4>3, <4>4 DEF CountsChains, Called
      <4>6. Cardinality(calls \ {f}) = Cardinality(calls) - 1 /\ Cardinality(calls) \in Nat
        BY <3>2, FS_RemoveElement, FS_CardinalityType
      <4>7. Count(fr, p) \in Nat
        BY <3>1, FramesAre DEF Count, Tasked
      <4> QED
        BY <4>5, <4>6, <4>7
    <3> QED
      BY <3>3, <3>4
  <2> QED
    BY <2>1, <2>2
<1>5. \A f \in DOMAIN fr2 \ {1} : Count(fr2, f) <= Limit(fr2, f)
  BY <1>1 DEF Called
<1> QED
  BY <1>4, <1>5 DEF CountsChains

\* The hop that called no target is the last.
LEMMA LastHop ==
  ASSUME NEW fr \in Seq(Tasked), TreeOf(fr), Relay(fr), Clean(fr), NEW f \in Hops(fr),
         \A t \in Hops(fr) \ {1} : fr[t].parent # f
  PROVE  LastOf(fr, f)
<1> DEFINE later == {g \in Hops(fr) : f < g}
<1>1. Hops(fr) \subseteq DOMAIN fr /\ DOMAIN fr \subseteq Nat \ {0}
  BY FramesAre DEF Hops
<1>2. ASSUME later # {} PROVE FALSE
  <2>1. later \in SUBSET Nat /\ later # {}
    BY <1>1, <1>2
  <2>2. PICK t \in later : \A u \in later : ~(<<u, t>> \in OpToRel(<, Nat))
    <3> HIDE DEF later
    <3> QED
      BY <2>1, NatLessThanWellFounded, WFMin
  <2>3. \A u \in later : ~(u < t)
    BY <2>1, <2>2 DEF OpToRel
  <2>4. t \in Hops(fr) \ {1} /\ f < t
    BY <1>1
  <2>5. fr[t].parent \in Hops(fr) /\ fr[t].parent < t
    BY <1>1, <2>4 DEF Clean, TreeOf
  <2>6. ~(f < fr[t].parent)
    BY <2>3, <2>5
  <2>7. f <= fr[t].parent
    BY <1>1, <2>4 DEF Relay
  <2>8. f = fr[t].parent
    BY <1>1, <2>5, <2>6, <2>7
  <2> QED
    BY <2>4, <2>8
<1> QED
  BY <1>1, <1>2 DEF LastOf

\* A reasoning ends: nothing but its state and its author changes.
LEMMA Closes ==
  ASSUME Delegated, NEW f \in DOMAIN frames, NEW st \in {"ok", "error"},
         NEW au \in Spirit \cup {NoSpirit}, Close(f, st, au)
  PROVE  /\ frames' \in Seq(Tasked) /\ DOMAIN frames' = DOMAIN frames
         /\ \A g \in DOMAIN frames : /\ g # f => frames'[g] = frames[g]
                                     /\ frames'[g].by = frames[g].by
                                     /\ frames'[g].parent = frames[g].parent
                                     /\ frames'[g].spirit = frames[g].spirit
                                     /\ frames'[g].depth = frames[g].depth
                                     /\ frames'[g].handoffs = frames[g].handoffs
         /\ frames'[f].state = st /\ frames'[f].author = au
<1>1. frames \in Seq(Tasked) /\ frames[f] \in Tasked
  BY FramesAre DEF Delegated, Typed
<1> DEFINE w == [frames[f] EXCEPT !.state = st, !.author = au]
<1>2. frames' = [frames EXCEPT ![f] = w]
  BY DEF Close
<1>3. /\ w \in Tasked /\ w.by = frames[f].by /\ w.parent = frames[f].parent
      /\ w.spirit = frames[f].spirit /\ w.depth = frames[f].depth
      /\ w.handoffs = frames[f].handoffs /\ w.state = st /\ w.author = au
  BY <1>1 DEF Tasked
<1> HIDE DEF w
<1>4. frames' \in Seq(Tasked) /\ DOMAIN frames' = DOMAIN frames
  BY <1>1, <1>2, <1>3
<1>5. frames'[f] = w /\ \A g \in DOMAIN frames : g # f => frames'[g] = frames[g]
  BY <1>2
<1> QED
  BY <1>3, <1>4, <1>5

LEMMA EndKeepsTree ==
  ASSUME Delegated, NEW f \in DOMAIN frames, NEW st \in {"ok", "error"},
         NEW au \in Spirit \cup {NoSpirit}, Close(f, st, au)
  PROVE  /\ TreeOf(frames') /\ CountsChains(frames') /\ Hops(frames') = Hops(frames)
         /\ \A g : LastOf(frames', g) <=> LastOf(frames, g)
<1>1. /\ frames' \in Seq(Tasked) /\ DOMAIN frames' = DOMAIN frames
      /\ \A g \in DOMAIN frames : /\ frames'[g].by = frames[g].by
                                  /\ frames'[g].parent = frames[g].parent
                                  /\ frames'[g].spirit = frames[g].spirit
                                  /\ frames'[g].depth = frames[g].depth
                                  /\ frames'[g].handoffs = frames[g].handoffs
  BY Closes
<1>2. TreeOf(frames) /\ CountsChains(frames)
  BY DEF Delegated, Typed
<1>3. TreeOf(frames')
  BY <1>1, <1>2 DEF TreeOf
<1>4. \A g \in DOMAIN frames \ {1} :
         Count(frames', g) = Count(frames, g) /\ Limit(frames', g) = Limit(frames, g)
  BY <1>1, <1>2 DEF Count, Limit, TreeOf
<1>5. \A g \in DOMAIN frames, calls \in SUBSET DOMAIN frames :
         ChainOf(frames', calls, g) <=> ChainOf(frames, calls, g)
  BY <1>1 DEF ChainOf
<1>6. Hops(frames') = Hops(frames)
  BY <1>1 DEF Hops
<1> QED
  BY <1>1, <1>2, <1>3, <1>4, <1>5, <1>6 DEF CountsChains, LastOf

\* What both ways to end have in common.
LEMMA EndsTurn ==
  ASSUME Delegated, NEW f \in DOMAIN frames, NEW st \in {"ok", "error"},
         NEW au \in Spirit \cup {NoSpirit}, Close(f, st, au),
         UNCHANGED <<pin, catalog, before, inDoubt>>,
         frames[f].state = "open",
         \A c \in DOMAIN frames \ {1} : frames[c].parent = f => frames[c].state # "open",
         st = "ok" /\ f \in Hops(frames) /\ Clean(frames) =>
            /\ \A g \in Hops(frames) : f < g => frames[g].state # "open"
            /\ \A g \in Hops(frames) : LastOf(frames, g) => au = frames[g].spirit
  PROVE  Delegated'
<1>1. /\ frames' \in Seq(Tasked) /\ DOMAIN frames' = DOMAIN frames
      /\ \A g \in DOMAIN frames : /\ g # f => frames'[g] = frames[g]
                                  /\ frames'[g].by = frames[g].by
                                  /\ frames'[g].parent = frames[g].parent
                                  /\ frames'[g].spirit = frames[g].spirit
      /\ frames'[f].state = st /\ frames'[f].author = au
  BY Closes
<1>2. /\ TreeOf(frames') /\ CountsChains(frames') /\ Hops(frames') = Hops(frames)
      /\ \A g : LastOf(frames', g) <=> LastOf(frames, g)
  BY EndKeepsTree
<1>3. /\ frames \in Seq(Tasked) /\ TreeOf(frames) /\ Waits(frames) /\ Relay(frames)
      /\ Hops(frames) \subseteq DOMAIN frames /\ DOMAIN frames \subseteq Nat \ {0}
  BY FramesAre DEF Delegated, Typed, Hops
<1>4. Typed'
  BY <1>1, <1>2 DEF Delegated, Typed
<1>5. Waits(frames')
  <2>1. \A g \in DOMAIN frames : frames[g].state # "open" => frames'[g].state # "open"
    BY <1>1
  <2>2. ASSUME NEW c \in DOMAIN frames \ {1}, frames'[frames[c].parent].state # "open"
        PROVE  frames'[c].state # "open"
    <3>1. frames[c].parent \in DOMAIN frames
      BY <1>3 DEF TreeOf
    <3> QED
      BY <1>1, <1>3, <2>1, <2>2, <3>1 DEF Waits
  <2>3. ASSUME NEW c \in DOMAIN frames \ {1}, frames[c].by = "handoff",
               frames'[c].state # "error", NEW d \in DOMAIN frames \ {c},
               frames[d].parent = frames[c].parent
        PROVE  frames'[d].state # "open"
    <3>1. CASE c = f
      <4>1. frames[c].state # "error"
        BY <3>1
      <4> QED
        BY <1>3, <2>1, <2>3, <4>1 DEF Waits
    <3>2. CASE c # f
      BY <1>1, <1>3, <2>1, <2>3, <3>2 DEF Waits
    <3> QED
      BY <3>1, <3>2
  <2> QED
    BY <1>1, <2>2, <2>3 DEF Waits
<1>6. Clean(frames') => Clean(frames) /\ (f \in Hops(frames) \ {1} => st = "ok")
  BY <1>1, <1>2, <1>3 DEF Clean
<1>7. Relay(frames')
  <2> SUFFICES ASSUME Clean(frames')
               PROVE  /\ \A t \in Hops(frames') \ {1}, u \in Hops(frames') :
                            u <= frames'[t].parent \/ t <= u
                      /\ \A e \in Hops(frames') : frames'[e].state = "ok" =>
                            /\ \A g \in Hops(frames') : e < g => frames'[g].state # "open"
                            /\ \A g \in Hops(frames') : LastOf(frames', g)
                                  => frames'[e].author = frames'[g].spirit
    BY DEF Relay
  <2>1. Clean(frames)
    BY <1>6
  <2>2. \A t \in Hops(frames') \ {1}, u \in Hops(frames') : u <= frames'[t].parent \/ t <= u
    BY <1>1, <1>2, <1>3, <2>1 DEF Relay
  <2>3. ASSUME NEW e \in Hops(frames), frames'[e].state = "ok"
        PROVE  /\ \A g \in Hops(frames) : e < g => frames'[g].state # "open"
               /\ \A g \in Hops(frames) : LastOf(frames, g)
                     => frames'[e].author = frames'[g].spirit
    <3>1. CASE e = f
      BY <1>1, <1>3, <2>1, <2>3, <3>1
    <3>2. CASE e # f
      <4>1. frames[e].state = "ok"
        BY <1>1, <1>3, <2>3, <3>2
      <4>2. /\ \A g \in Hops(frames) : e < g => frames[g].state # "open"
            /\ \A g \in Hops(frames) : LastOf(frames, g) => frames[e].author = frames[g].spirit
        BY <1>3, <2>1, <4>1 DEF Relay
      <4> QED
        BY <1>1, <1>3, <3>2, <4>2
    <3> QED
      BY <3>1, <3>2
  <2> QED
    BY <1>2, <2>2, <2>3
<1>8. Live' <=> Live
  <2>1. \A fr \in Seq(Tasked) : fr # <<>> <=> 1 \in DOMAIN fr
    OBVIOUS
  <2> QED
    BY <1>1, <1>3, <2>1 DEF Live
<1>9. Pinned'
  BY <1>1, <1>2, <1>3, <1>8 DEF Delegated, Pinned
<1> QED
  BY <1>2, <1>4, <1>5, <1>7, <1>9 DEF Delegated

LEMMA Answers ==
  ASSUME Delegated, NEW f \in 1..MaxFrames, Answered(f)
  PROVE  Delegated'
<1>1. /\ f \in DOMAIN frames /\ frames[f].state = "open" /\ HandedOff(f) = {}
      /\ \A c \in DOMAIN frames : frames[c].parent = f => frames[c].state # "open"
      /\ UNCHANGED <<pin, catalog, before, inDoubt>>
  BY DEF Answered, Reasoning, Children
<1>2. frames \in Seq(Tasked) /\ frames[f] \in Tasked /\ TreeOf(frames) /\ Relay(frames)
  BY <1>1, FramesAre DEF Delegated, Typed
<1>3. ASSUME f \in Hops(frames), Clean(frames) PROVE LastOf(frames, f)
  <2>1. \A t \in Hops(frames) \ {1} : frames[t].parent # f
    <3> SUFFICES ASSUME NEW t \in Hops(frames) \ {1}, frames[t].parent = f PROVE FALSE
      OBVIOUS
    <3>1. t \in DOMAIN frames /\ frames[t] \in Tasked /\ frames[t].by = "handoff"
      <4>1. t \in DOMAIN frames /\ t # 1 /\ frames[t].by # "summon"
        BY DEF Hops
      <4>2. frames[t] \in Tasked
        BY <1>2, <4>1, FramesAre
      <4>3. frames[t].by \in Kind
        BY <4>2 DEF Tasked
      <4>4. frames[t].by # "turn"
        BY <1>2, <4>1 DEF TreeOf
      <4> QED
        BY <4>1, <4>2, <4>3, <4>4 DEF Kind
    <3>2. frames[t].state = "ok"
      BY <1>1, <1>3, <3>1 DEF Clean, Tasked
    <3> QED
      BY <1>1, <3>1, <3>2 DEF HandedOff, Children
  <2> QED
    BY <1>2, <1>3, <2>1, LastHop
<1>4. CASE Close(f, "ok", frames[f].spirit)
  <2>1. frames[f].spirit \in Spirit \cup {NoSpirit}
    BY <1>2 DEF Tasked
  <2>2. f \in Hops(frames) /\ Clean(frames) =>
            /\ \A g \in Hops(frames) : f < g => frames[g].state # "open"
            /\ \A g \in Hops(frames) : LastOf(frames, g) => frames[f].spirit = frames[g].spirit
    <3> SUFFICES ASSUME f \in Hops(frames), Clean(frames), NEW g \in Hops(frames)
                 PROVE  ~(f < g) /\ (LastOf(frames, g) => g = f)
      OBVIOUS
    <3>1. LastOf(frames, f) /\ f \in Nat /\ g \in Nat
      BY <1>1, <1>2, <1>3, FramesAre DEF Hops
    <3> QED
      BY <3>1 DEF LastOf
  <2> HIDE DEF Delegated
  <2> QED
    BY <1>1, <1>4, <2>1, <2>2, EndsTurn
<1>5. CASE Close(f, "error", NoSpirit)
  BY <1>1, <1>5, EndsTurn
<1> QED
  BY <1>4, <1>5 DEF Answered

LEMMA Returns ==
  ASSUME Delegated, NEW f \in 1..MaxFrames, Return(f)
  PROVE  Delegated'
<1>1. PICK c \in HandedOff(f) : /\ frames[f].state = "open" /\ Close(f, "ok", frames[c].author)
                                /\ UNCHANGED <<pin, catalog, before, inDoubt>>
  BY DEF Return
<1>2. /\ c \in DOMAIN frames /\ frames[c].parent = f /\ frames[c].by = "handoff"
      /\ frames[c].state = "ok"
  BY <1>1 DEF HandedOff, Children
<1>3. /\ frames \in Seq(Tasked) /\ frames[c] \in Tasked /\ TreeOf(frames) /\ Relay(frames)
      /\ Waits(frames)
  BY <1>2, FramesAre DEF Delegated, Typed
<1>4. c # 1 /\ f \in DOMAIN frames /\ c \in Hops(frames) \ {1} /\ f < c
  BY <1>2, <1>3 DEF TreeOf, Hops
<1>5. \A d \in DOMAIN frames \ {1} : frames[d].parent = f => frames[d].state # "open"
  BY <1>2, <1>3, <1>4 DEF Waits
<1>6. ASSUME f \in Hops(frames), Clean(frames)
      PROVE  /\ \A g \in Hops(frames) : f < g => frames[g].state # "open"
             /\ \A g \in Hops(frames) : LastOf(frames, g) => frames[c].author = frames[g].spirit
  <2>1. /\ \A g \in Hops(frames) : c < g => frames[g].state # "open"
        /\ \A g \in Hops(frames) : LastOf(frames, g) => frames[c].author = frames[g].spirit
    BY <1>2, <1>3, <1>4, <1>6 DEF Relay
  <2>2. \A g \in Hops(frames) : g <= f \/ c <= g
    BY <1>2, <1>3, <1>4, <1>6 DEF Relay
  <2>3. Hops(frames) \subseteq Nat /\ c \in Nat /\ f \in Nat
    BY <1>3, <1>4, FramesAre DEF Hops
  <2>4. ASSUME NEW g \in Hops(frames), f < g PROVE frames[g].state # "open"
    <3>1. g = c \/ c < g
      BY <2>2, <2>3, <2>4
    <3> QED
      BY <1>2, <2>1, <3>1
  <2> QED
    BY <2>1, <2>4
<1>7. frames[c].author \in Spirit \cup {NoSpirit}
  BY <1>3 DEF Tasked
<1> HIDE DEF Delegated
<1> QED
  BY <1>1, <1>4, <1>5, <1>6, <1>7, EndsTurn

\* What a reasoning begins is a child of one that is open and waits for nobody.
LEMMA Begins ==
  ASSUME Delegated, NEW f, Reasoning(f), Called(frames, frames'), UNCHANGED <<catalog, before, inDoubt>>,
         \A g \in DOMAIN frames' \ DOMAIN frames : /\ frames'[g].parent = f /\ DOMAIN frames \subseteq 1..(g - 1)
                                                   /\ frames'[g].state = "open",
         \A g, h \in DOMAIN frames' \ DOMAIN frames : frames'[g].by = "handoff" => g = h
  PROVE  Typed' /\ CountsChains(frames') /\ Waits(frames') /\ Relay(frames')
<1>1. /\ frames \in Seq(Tasked) /\ TreeOf(frames) /\ Waits(frames) /\ Relay(frames)
      /\ CountsChains(frames) /\ catalog \subseteq Spirit
      /\ Hops(frames) \subseteq DOMAIN frames /\ DOMAIN frames \subseteq Nat \ {0}
  BY FramesAre DEF Delegated, Typed, Hops
<1>2. /\ frames' \in Seq(Tasked) /\ TreeOf(frames') /\ DOMAIN frames \subseteq DOMAIN frames'
      /\ \A g \in DOMAIN frames : frames'[g] = frames[g]
      /\ DOMAIN frames' \subseteq Nat \ {0} /\ Hops(frames') \subseteq DOMAIN frames'
  BY FramesAre DEF Called, Hops
<1>3. /\ f \in DOMAIN frames /\ frames[f].state = "open"
      /\ \A c \in DOMAIN frames : frames[c].parent = f =>
            /\ frames[c].state # "open" /\ (frames[c].by = "handoff" => frames[c].state # "ok")
  BY DEF Reasoning, HandedOff, Children
<1>4. Typed' /\ CountsChains(frames')
  BY <1>1, <1>2, CallsAreCounted DEF Typed
<1>5. Waits(frames')
  <2>1. ASSUME NEW c \in DOMAIN frames' \ {1}, frames'[frames'[c].parent].state # "open"
        PROVE  frames'[c].state # "open"
    <3>1. CASE c \in DOMAIN frames
      <4>1. frames[c].parent \in DOMAIN frames
        BY <1>1, <2>1, <3>1 DEF TreeOf
      <4> QED
        BY <1>1, <1>2, <2>1, <3>1, <4>1 DEF Waits
    <3>2. CASE c \notin DOMAIN frames
      BY <1>2, <1>3, <2>1, <3>2
    <3> QED
      BY <3>1, <3>2
  <2>2. ASSUME NEW c \in DOMAIN frames' \ {1}, frames'[c].by = "handoff",
               frames'[c].state # "error", NEW d \in DOMAIN frames' \ {c},
               frames'[d].parent = frames'[c].parent
        PROVE  frames'[d].state # "open"
    <3>1. CASE c \in DOMAIN frames
      <4>1. frames'[c] = frames[c] /\ frames[c] \in Tasked
        BY <1>1, <1>2, <3>1, FramesAre
      <4>2. frames[c].parent # f
        BY <1>3, <2>2, <3>1, <4>1 DEF Tasked
      <4>3. d \in DOMAIN frames
        BY <2>2, <4>1, <4>2
      <4> QED
        BY <1>1, <1>2, <2>2, <3>1, <4>1, <4>3 DEF Waits
    <3>2. CASE c \notin DOMAIN frames
      <4>1. frames'[c].parent = f
        BY <3>2
      <4>2. d \in DOMAIN frames
        BY <2>2, <3>2
      <4> QED
        BY <1>2, <1>3, <2>2, <4>1, <4>2
    <3> QED
      BY <3>1, <3>2
  <2> QED
    BY <2>1, <2>2 DEF Waits
<1>6. Relay(frames')
  <2> SUFFICES ASSUME Clean(frames')
               PROVE  /\ \A t \in Hops(frames') \ {1}, u \in Hops(frames') :
                            u <= frames'[t].parent \/ t <= u
                      /\ \A e \in Hops(frames') : frames'[e].state = "ok" =>
                            /\ \A g \in Hops(frames') : e < g => frames'[g].state # "open"
                            /\ \A g \in Hops(frames') : LastOf(frames', g)
                                  => frames'[e].author = frames'[g].spirit
    BY DEF Relay
  <2>1. Hops(frames') \cap DOMAIN frames = Hops(frames)
    BY <1>2 DEF Hops
  <2>2. Clean(frames)
    <3> SUFFICES ASSUME NEW t \in Hops(frames) \ {1}
                 PROVE  frames[t].state # "error" /\ frames[t].parent \in Hops(frames)
      BY DEF Clean
    <3>1. t \in Hops(frames') \ {1} /\ frames'[t] = frames[t] /\ frames[t].parent \in DOMAIN frames
      BY <1>1, <1>2, <2>1 DEF TreeOf
    <3> QED
      BY <2>1, <3>1 DEF Clean
  <2>3. CASE Hops(frames') = Hops(frames)
    <3>1. \A g : LastOf(frames', g) <=> LastOf(frames, g)
      BY <2>3 DEF LastOf
    <3> QED
      BY <1>1, <1>2, <2>2, <2>3, <3>1 DEF Relay
  <2>4. ASSUME NEW g \in Hops(frames') \ Hops(frames)
        PROVE  /\ \A t \in Hops(frames') \ {1}, u \in Hops(frames') :
                     u <= frames'[t].parent \/ t <= u
               /\ \A e \in Hops(frames') : frames'[e].state # "ok"
    <3>1. /\ g \in DOMAIN frames' \ DOMAIN frames /\ g # 1 /\ frames'[g].parent = f
          /\ frames'[g].state = "open"
      BY <1>2, <2>1, <2>4 DEF Called
    <3>2. frames'[g] \in Tasked /\ frames'[g].by # "summon" /\ frames'[g].by # "turn"
      BY <1>2, <3>1, FramesAre DEF Hops, TreeOf
    <3>3. frames'[g].by = "handoff" /\ Hops(frames') = Hops(frames) \cup {g}
      BY <1>2, <2>1, <3>1, <3>2 DEF Tasked, Kind
    <3>4. f \in Hops(frames)
      BY <1>3, <2>1, <3>1, <2>4 DEF Clean
    <3>5. \A t \in Hops(frames) \ {1} : frames[t].parent # f
      <4> SUFFICES ASSUME NEW t \in Hops(frames) \ {1}, frames[t].parent = f PROVE FALSE
        OBVIOUS
      <4>a. t \in DOMAIN frames /\ frames[t] \in Tasked /\ frames[t].by # "summon"
        BY <1>1, FramesAre DEF Hops
      <4>1. t \in DOMAIN frames /\ frames[t] \in Tasked /\ frames[t].by = "handoff"
        BY <1>1, <4>a DEF TreeOf, Tasked, Kind
      <4>2. frames[t].state = "ok"
        BY <1>3, <2>2, <4>1 DEF Clean, Tasked
      <4> QED
        BY <1>3, <4>1, <4>2
    <3>6. LastOf(frames, f)
      BY <1>1, <2>2, <3>4, <3>5, LastHop
    <3>7. \A e \in Hops(frames) : frames[e].state # "ok"
      <4> SUFFICES ASSUME NEW e \in Hops(frames), frames[e].state = "ok" PROVE FALSE
        OBVIOUS
      <4>1. e # f /\ e < f
        BY <1>1, <1>3, <3>4, <3>6 DEF LastOf
      <4> QED
        BY <1>1, <1>3, <2>2, <3>4, <4>1 DEF Relay
    <3>8. \A u \in Hops(frames) : u < g /\ u \in Nat
      BY <1>1, <3>1
    <3>9. \A t \in Hops(frames) \ {1}, u \in Hops(frames) : u <= frames[t].parent \/ t <= u
      BY <1>1, <2>2 DEF Relay
    <3>10. \A u \in Hops(frames) : u <= f
      BY <3>6 DEF LastOf
    <3>11. \A t \in Hops(frames') \ {1}, u \in Hops(frames') : u <= frames'[t].parent \/ t <= u
      <4> SUFFICES ASSUME NEW t \in Hops(frames') \ {1}, NEW u \in Hops(frames')
                   PROVE  u <= frames'[t].parent \/ t <= u
        OBVIOUS
      <4>1. CASE t = g
        BY <1>2, <3>1, <3>3, <3>10, <4>1
      <4>2. CASE t # g /\ u = g
        BY <3>3, <3>8, <4>2, <1>2
      <4>3. CASE t # g /\ u # g
        BY <1>1, <1>2, <3>3, <3>9, <4>3
      <4> QED
        BY <4>1, <4>2, <4>3
    <3>12. \A e \in Hops(frames') : frames'[e].state # "ok"
      BY <1>1, <1>2, <3>1, <3>3, <3>7
    <3> QED
      BY <3>11, <3>12
  <2>5. Hops(frames) \subseteq Hops(frames')
    BY <2>1
  <2> QED
    BY <2>3, <2>4, <2>5
<1> QED
  BY <1>4, <1>5, <1>6

LEMMA PulsesAre ==
  ASSUME Delegated, NEW f \in DOMAIN frames, NEW s \in Spirit
  PROVE  /\ TaskPulse(f, s) \in Tasked /\ TaskPulse(f, s).parent = f
         /\ TaskPulse(f, s).by = "summon" /\ TaskPulse(f, s).state = "open"
         /\ TaskPulse(f, s).depth = frames[f].depth + 1
         /\ PeerPulse(f, s) \in Tasked /\ PeerPulse(f, s).parent = f
         /\ PeerPulse(f, s).by = "handoff" /\ PeerPulse(f, s).state = "open"
         /\ PeerPulse(f, s).handoffs = frames[f].handoffs + 1 /\ PeerPulse(f, s).spirit = s
<1>1. frames[f].depth + 1 \in Nat /\ frames[f].handoffs + 1 \in Nat /\ f \in Nat
  <2>1. frames[f] \in Tasked /\ f \in Nat
    BY FramesAre DEF Delegated, Typed
  <2> QED
    BY <2>1 DEF Tasked
<1>2. Root(s) \in [spirit : {s}, parent : {0}, by : {"turn"}, depth : {0}, handoffs : {0},
                   state : {"open"}, author : {NoSpirit}]
  BY DEF Root
<1>3. TaskPulse(f, s) \in [spirit : {s}, parent : {f}, by : {"summon"},
        depth : {frames[f].depth + 1}, handoffs : {0}, state : {"open"}, author : {NoSpirit}]
  BY <1>2 DEF TaskPulse
<1>4. PeerPulse(f, s) \in [spirit : {s}, parent : {f}, by : {"handoff"},
        depth : {0}, handoffs : {frames[f].handoffs + 1}, state : {"open"}, author : {NoSpirit}]
  BY <1>2 DEF PeerPulse
<1> QED
  BY <1>1, <1>3, <1>4 DEF Tasked, Kind

\* The limits that the code compares a counter with.
LEMMA LimitsAre ==
  ASSUME Delegated, NEW f \in DOMAIN frames
  PROVE  /\ frames[f].depth \in Nat /\ MaxDepth[frames[f].spirit] \in Nat
         /\ frames[f].handoffs \in Nat /\ MaxHandoffs[frames[f].spirit] \in Nat
<1>1. frames[f] \in Tasked
  BY FramesAre DEF Delegated, Typed
<1> QED
  BY <1>1, LimitsAssumption DEF Tasked

LEMMA Summons ==
  ASSUME Delegated, NEW f \in 1..MaxFrames, Summon(f)
  PROVE  Delegated'
<1>1. PICK tasks \in [1..2 -> Spirit] \cup [1..1 -> Spirit] :
         /\ \A i \in DOMAIN tasks : MaySummon(f, tasks[i])
         /\ frames' = frames \o [i \in DOMAIN tasks |-> TaskPulse(f, tasks[i])]
  BY DEF Summon
<1>2. Reasoning(f) /\ UNCHANGED <<pin, catalog, before, inDoubt>>
  BY DEF Summon, MayCall
<1>3. /\ frames \in Seq(Tasked) /\ frames[f] \in Tasked /\ f \in DOMAIN frames /\ TreeOf(frames)
      /\ DOMAIN frames = 1..Len(frames) /\ Len(frames) \in Nat
  BY <1>2, FramesAre DEF Delegated, Typed, MayCall, Reasoning
<1>4. PICK n \in {1, 2} : tasks \in [1..n -> Spirit]
  OBVIOUS
<1> DEFINE new == [i \in 1..n |-> TaskPulse(f, tasks[i])]
<1>5. \A i \in 1..n : /\ new[i] \in Tasked /\ new[i].parent = f /\ new[i].by = "summon"
                      /\ new[i].depth = frames[f].depth + 1 /\ new[i].state = "open"
  BY <1>3, <1>4, PulsesAre
<1>6. new \in Seq(Tasked) /\ Len(new) = n /\ frames' = frames \o new
  BY <1>1, <1>4, <1>5
<1>7. frames[f].depth + 1 <= MaxDepth[frames[f].spirit]
  <2>1. 1 \in DOMAIN tasks
    BY <1>4
  <2>2. frames[f].depth < MaxDepth[frames[f].spirit]
    BY <1>1, <2>1 DEF MaySummon
  <2> QED
    BY <1>3, <2>2, LimitsAre
<1> HIDE DEF new
<1>8. /\ frames' \in Seq(Tasked) /\ DOMAIN frames' = 1..(Len(frames) + n)
      /\ \A g \in DOMAIN frames : frames'[g] = frames[g]
      /\ \A g \in DOMAIN frames' \ DOMAIN frames : frames'[g] = new[g - Len(frames)]
  <2>1. /\ frames \o new \in Seq(Tasked) /\ Len(frames \o new) = Len(frames) + n
        /\ \A g \in 1..(Len(frames) + n) :
              (frames \o new)[g] = IF g <= Len(frames) THEN frames[g] ELSE new[g - Len(frames)]
    BY <1>3, <1>6, ConcatProperties
  <2>2. DOMAIN (frames \o new) = 1..(Len(frames) + n)
    BY <2>1
  <2>3. \A g \in DOMAIN frames : g \in 1..(Len(frames) + n) /\ g <= Len(frames)
    BY <1>3, <1>4
  <2>4. \A g \in 1..(Len(frames) + n) : g \notin DOMAIN frames => ~(g <= Len(frames))
    BY <1>3, <1>4
  <2> QED
    BY <1>6, <2>1, <2>2, <2>3, <2>4
<1>9. \A g \in DOMAIN frames' \ DOMAIN frames :
         /\ frames'[g].parent = f /\ frames'[g].by = "summon" /\ frames'[g].state = "open"
         /\ frames'[g].depth = frames[f].depth + 1 /\ g \in Nat /\ g > Len(frames)
  <2> TAKE g \in DOMAIN frames' \ DOMAIN frames
  <2>1. g - Len(frames) \in 1..n /\ g \in Nat /\ g > Len(frames)
    BY <1>3, <1>4, <1>8
  <2> QED
    BY <1>5, <1>8, <2>1
<1>10. TreeOf(frames')
  <2> SUFFICES ASSUME NEW g \in DOMAIN frames'
               PROVE  /\ g = 1 <=> frames'[g].by = "turn"
                      /\ g = 1 <=> frames'[g].parent = 0
                      /\ g # 1 => frames'[g].parent \in DOMAIN frames' /\ frames'[g].parent < g
    BY DEF TreeOf
  <2>1. CASE g \in DOMAIN frames
    BY <1>3, <1>4, <1>8, <2>1 DEF TreeOf
  <2>2. CASE g \notin DOMAIN frames
    BY <1>3, <1>4, <1>8, <1>9, <2>2
  <2> QED
    BY <2>1, <2>2
<1>11. Called(frames, frames')
  <2>1. \A g \in DOMAIN frames' \ DOMAIN frames :
          /\ Count(frames', g) = frames[f].depth + 1
          /\ Limit(frames', g) = MaxDepth[frames[f].spirit]
          /\ frames'[g].by = frames[f].by => Count(frames, f) = frames[f].depth
    BY <1>3, <1>8, <1>9 DEF Count, Limit
  <2>2. frames[f].depth \in Nat
    BY <1>3 DEF Tasked
  <2>3. DOMAIN frames \subseteq DOMAIN frames' /\ \A g \in DOMAIN frames' \ DOMAIN frames : g # 1
    BY <1>3, <1>4, <1>8, <1>9
  <2> QED
    <3>1. \A g \in DOMAIN frames' \ DOMAIN frames :
             /\ g # 1 /\ frames'[g].parent \in DOMAIN frames
             /\ Count(frames', g) <= Limit(frames', g)
             /\ frames'[g].by = frames[frames'[g].parent].by =>
                   Count(frames', g) = Count(frames, frames'[g].parent) + 1
             /\ Count(frames', g) >= 1
      BY <1>3, <1>7, <1>9, <2>1, <2>2, <2>3
    <3> QED
      BY <1>8, <1>10, <2>3, <3>1 DEF Called
<1>12. \A g \in DOMAIN frames' \ DOMAIN frames : DOMAIN frames \subseteq 1..(g - 1)
  BY <1>3, <1>9
<1>13. Typed' /\ CountsChains(frames') /\ Waits(frames') /\ Relay(frames')
  <2>1. \A g, h \in DOMAIN frames' \ DOMAIN frames : frames'[g].by = "handoff" => g = h
    BY <1>9
  <2> HIDE DEF Delegated
  <2> QED
    BY <1>2, <1>9, <1>11, <1>12, <2>1, Begins
<1>14. Pinned'
  <2>1. Hops(frames') = Hops(frames)
    <3>1. DOMAIN frames \subseteq DOMAIN frames'
      BY <1>11 DEF Called
    <3> QED
      BY <1>8, <1>9, <3>1 DEF Hops
  <2>2. \A g : LastOf(frames', g) <=> LastOf(frames, g)
    BY <2>1 DEF LastOf
  <2>3. Live
    BY <1>3 DEF Live
  <2>4. \A g \in Hops(frames) : frames'[g] = frames[g]
    BY <1>8 DEF Hops
  <2> QED
    BY <1>2, <2>1, <2>2, <2>3, <2>4 DEF Delegated, Pinned
<1> QED
  BY <1>13, <1>14 DEF Delegated

LEMMA HandsOff ==
  ASSUME Delegated, NEW f \in 1..MaxFrames, HandOff(f)
  PROVE  Delegated'
<1>1. PICK s \in Spirit : MayHandOff(f, s) /\ pin' = s /\ frames' = Append(frames, PeerPulse(f, s))
  BY DEF HandOff
<1>2. Reasoning(f) /\ UNCHANGED <<catalog, before, inDoubt>>
  BY DEF HandOff, MayCall
<1>3. /\ frames \in Seq(Tasked) /\ frames[f] \in Tasked /\ f \in DOMAIN frames /\ TreeOf(frames)
      /\ DOMAIN frames = 1..Len(frames) /\ Len(frames) \in Nat
  BY <1>2, FramesAre DEF Delegated, Typed, MayCall, Reasoning
<1> DEFINE w == PeerPulse(f, s)
           last == Len(frames) + 1
<1>4. /\ w \in Tasked /\ w.parent = f /\ w.by = "handoff" /\ w.state = "open" /\ w.spirit = s
      /\ w.handoffs = frames[f].handoffs + 1
  BY <1>3, PulsesAre
<1>5. frames[f].handoffs + 1 <= MaxHandoffs[frames[f].spirit]
  <2>1. frames[f].handoffs < MaxHandoffs[frames[f].spirit]
    BY <1>1 DEF MayHandOff
  <2> QED
    BY <1>3, <2>1, LimitsAre
<1> HIDE DEF w
<1>6. /\ frames' \in Seq(Tasked) /\ DOMAIN frames' = 1..last /\ frames'[last] = w
      /\ \A g \in DOMAIN frames : frames'[g] = frames[g]
  BY <1>1, <1>3, <1>4 DEF w
<1>7. DOMAIN frames' \ DOMAIN frames = {last} /\ DOMAIN frames \subseteq DOMAIN frames'
      /\ last \in Nat /\ last # 1 /\ DOMAIN frames = 1..(last - 1) /\ f < last
  BY <1>3, <1>6
<1> HIDE DEF last
<1>8. TreeOf(frames')
  <2> SUFFICES ASSUME NEW g \in DOMAIN frames'
               PROVE  /\ g = 1 <=> frames'[g].by = "turn"
                      /\ g = 1 <=> frames'[g].parent = 0
                      /\ g # 1 => frames'[g].parent \in DOMAIN frames' /\ frames'[g].parent < g
    BY DEF TreeOf
  <2>1. CASE g \in DOMAIN frames
    BY <1>3, <1>6, <1>7, <2>1 DEF TreeOf
  <2>2. CASE g = last
    BY <1>3, <1>4, <1>6, <1>7, <2>2
  <2> QED
    BY <1>7, <2>1, <2>2
<1>9. Called(frames, frames')
  <2>1. /\ Count(frames', last) = frames[f].handoffs + 1
        /\ Limit(frames', last) = MaxHandoffs[frames[f].spirit]
        /\ w.by = frames[f].by => Count(frames, f) = frames[f].handoffs
    BY <1>3, <1>4, <1>6 DEF Count, Limit
  <2>2. frames[f].handoffs \in Nat
    BY <1>3 DEF Tasked
  <2> QED
    BY <1>3, <1>4, <1>5, <1>6, <1>7, <1>8, <2>1, <2>2 DEF Called
<1>10. Typed' /\ CountsChains(frames') /\ Waits(frames') /\ Relay(frames')
  <2> HIDE DEF Delegated
  <2> QED
    BY <1>2, <1>4, <1>6, <1>7, <1>9, Begins
<1>11. Pinned'
  <2>1. last \in Hops(frames') \ {1} /\ frames'[last].spirit = s
    BY <1>4, <1>6, <1>7 DEF Hops
  <2>2. \A h \in Hops(frames') : h <= last
    BY <1>6, <1>7 DEF Hops
  <2> QED
    BY <1>1, <2>1, <2>2 DEF Pinned, LastOf
<1> QED
  BY <1>10, <1>11 DEF Delegated

\* The turn begins and ends.
LEMMA Turns ==
  ASSUME Delegated, BeginTurn \/ EndTurn
  PROVE  Delegated'
<1>1. CASE BeginTurn
  <2>1. PICK led \in Spirit : frames' = <<Root(led)>>
    BY <1>1 DEF BeginTurn, Delegated, Typed
  <2>2. catalog' = catalog /\ before' = pin /\ pin' = pin
    BY <1>1 DEF BeginTurn
  <2>3. Root(led) \in Tasked /\ Root(led).parent = 0 /\ Root(led).by = "turn" /\ Root(led).state = "open"
    BY <2>1 DEF Root, Tasked, Kind
  <2>4. frames' \in Seq(Tasked) /\ DOMAIN frames' = {1} /\ frames'[1] = Root(led)
    BY <2>1, <2>3
  <2>5. Typed'
    BY <2>2, <2>3, <2>4 DEF Delegated, Typed, TreeOf
  <2>6. CountsChains(frames') /\ Waits(frames')
    BY <2>4 DEF CountsChains, Waits
  <2>7. Hops(frames') = {1}
    BY <2>3, <2>4 DEF Hops
  <2>8. Relay(frames')
    BY <2>3, <2>4, <2>7 DEF Relay
  <2>9. Pinned'
    BY <2>2, <2>7 DEF Pinned
  <2> QED
    BY <2>5, <2>6, <2>8, <2>9 DEF Delegated
<1>2. CASE EndTurn
  <2>1. frames' = <<>> /\ catalog' = catalog
    BY <1>2 DEF EndTurn
  <2>2. frames' \in Seq(Tasked) /\ DOMAIN frames' = {}
    BY <2>1
  <2>3. Typed' /\ CountsChains(frames') /\ Waits(frames')
    BY <2>1, <2>2 DEF Delegated, Typed, TreeOf, CountsChains, Waits
  <2>4. Relay(frames') /\ Pinned'
    BY <2>1, <2>2 DEF Relay, Pinned, Live, Hops
  <2> QED
    BY <2>3, <2>4 DEF Delegated
<1> QED
  BY <1>1, <1>2

\* The pin expires, a write of it fails, a Spirit is retired: no reasoning changes.
LEMMA Beside ==
  ASSUME Delegated, UNCHANGED <<frames, before>>, catalog' \subseteq catalog,
         \/ pin' \in {pin, NoSpirit} /\ UNCHANGED inDoubt
         \/ inDoubt'
  PROVE  Delegated'
<1>1. Typed' /\ CountsChains(frames') /\ Waits(frames') /\ Relay(frames')
  BY DEF Delegated, Typed
<1>2. Pinned'
  BY DEF Delegated, Pinned, Live
<1> QED
  BY <1>1, <1>2 DEF Delegated

LEMMA DelegatedHolds == DelegationSpec => []Delegated
<1>1. DelegationInit => Delegated
  <2> SUFFICES ASSUME DelegationInit PROVE Delegated
    OBVIOUS
  <2>1. frames = <<>> /\ frames \in Seq(Tasked) /\ DOMAIN frames = {} /\ catalog = Spirit
    BY DEF DelegationInit
  <2> QED
    BY <2>1 DEF Delegated, Typed, TreeOf, CountsChains, Waits, Relay, Pinned, Live, Hops
<1>2. Delegated /\ [DelegationNext]_delegationVars => Delegated'
  <2> SUFFICES ASSUME Delegated, [DelegationNext]_delegationVars PROVE Delegated'
    OBVIOUS
  <2>1. CASE BeginTurn \/ EndTurn
    BY <2>1, Turns
  <2>2. ASSUME NEW f \in 1..MaxFrames, HandOffError(f) PROVE Delegated'
    BY <2>2, Beside DEF HandOffError
  <2>3. CASE PinExpires \/ Deactivate
    BY <2>3, Beside DEF PinExpires, Deactivate
  <2>4. CASE UNCHANGED delegationVars
    BY <2>4, Beside DEF delegationVars
  <2> QED
    BY <2>1, <2>2, <2>3, <2>4, Summons, HandsOff, Answers, Returns DEF DelegationNext
<1> QED
  BY <1>1, <1>2, PTL DEF DelegationSpec

\* No chain of summons or relay of handoffs is longer than what the last caller allows.
THEOREM ChainsStayBounded == DelegationSpec => []ChainsBounded
<1>1. Delegated => ChainsBounded
  <2> SUFFICES ASSUME Delegated, NEW f \in DOMAIN frames, frames[f].parent # 0,
                      NEW calls \in SUBSET DOMAIN frames, Chain(calls, f)
               PROVE  Cardinality(calls) <= Limit(frames, f)
    BY DEF ChainsBounded, Limit
  <2>1. frames \in Seq(Tasked) /\ TreeOf(frames) /\ CountsChains(frames)
    BY DEF Delegated, Typed
  <2>2. f # 1 /\ ChainOf(frames, calls, f)
    BY <2>1 DEF Chain, ChainOf, TreeOf
  <2>3. Cardinality(calls) <= Count(frames, f) /\ Count(frames, f) <= Limit(frames, f)
    BY <2>1, <2>2 DEF CountsChains
  <2>4. Cardinality(calls) \in Nat /\ Count(frames, f) \in Nat
    BY <2>1, FramesAre, FS_Subset, FS_CardinalityType DEF Count, Tasked
  <2>5. Limit(frames, f) \in Nat
    <3>1. frames[frames[f].parent].spirit \in Spirit
      BY <2>1, <2>2, FramesAre DEF TreeOf, Tasked
    <3> QED
      BY <3>1, LimitsAssumption DEF Limit
  <2> QED
    BY <2>3, <2>4, <2>5
<1> QED
  BY <1>1, DelegatedHolds, PTL

\* The next turn goes to the Spirit that answered, which is the last of the relay.
THEOREM AuthorStaysOwner == DelegationSpec => []AuthorOwnsSession
<1>1. Delegated => AuthorOwnsSession
  <2> SUFFICES ASSUME Delegated, Live, frames[1].state = "ok", ~inDoubt
               PROVE  IF \A f \in Transfers : frames[f].state = "ok" /\ ~OfSubTask(f)
                      THEN pin \in {NoSpirit, IF Transfers = {} THEN before ELSE frames[1].author}
                      ELSE pin \in {NoSpirit, frames[1].author} \cup {frames[f].spirit : f \in Transfers}
    BY DEF AuthorOwnsSession
  <2>1. frames \in Seq(Tasked) /\ TreeOf(frames) /\ Relay(frames)
    BY DEF Delegated, Typed
  <2>2. 1 \in DOMAIN frames
    BY <2>1 DEF Live
  <2>3. Hops(frames) \ {1} = Transfers /\ 1 \in Hops(frames)
    <3>1. \A f \in DOMAIN frames : frames[f] \in Tasked /\ (f = 1 <=> frames[f].by = "turn")
      BY <2>1, FramesAre DEF TreeOf
    <3> QED
      BY <2>2, <3>1 DEF Hops, Transfers, Tasked, Kind
  <2>4. \/ Transfers = {} /\ pin \in {NoSpirit, before}
        \/ \E t \in Transfers : LastOf(frames, t) /\ pin \in {NoSpirit, frames[t].spirit}
    BY <2>3 DEF Delegated, Pinned
  <2>5. CASE \A f \in Transfers : frames[f].state = "ok" /\ ~OfSubTask(f)
    <3>1. Clean(frames)
      <4> SUFFICES ASSUME NEW t \in Transfers
                   PROVE  frames[t].state # "error" /\ frames[t].parent \in Hops(frames)
        BY <2>3 DEF Clean
      <4>1. frames[t].parent \in DOMAIN frames
        BY <2>1, <2>3 DEF TreeOf, Transfers
      <4> QED
        BY <2>5, <4>1 DEF OfSubTask, Hops
    <3>2. \A g \in Hops(frames) : LastOf(frames, g) => frames[1].author = frames[g].spirit
      BY <2>1, <2>3, <3>1 DEF Relay
    <3> QED
      BY <2>3, <2>4, <2>5, <3>2
  <2>6. CASE ~(\A f \in Transfers : frames[f].state = "ok" /\ ~OfSubTask(f))
    BY <2>4, <2>6
  <2> QED
    BY <2>5, <2>6
<1> QED
  BY <1>1, DelegatedHolds, PTL

-----------------------------------------------------------------------------
(* Streaming: what the turn has produced stands in one line, from what the   *)
(* client has, through the two channels and what each goroutine holds, to    *)
(* what the loop is about to emit.                                           *)

Piece == {"delta", "tool_status"} \X (Nat \ {0})
Item == Piece \cup Terminal

\* y may come after x: x does not end the turn, and was produced before.
Follows(y, x) == x \notin Terminal /\ (y \notin Terminal => x[2] < y[2])
Ordered(s) == \A i, j \in DOMAIN s : i < j => Follows(s[j], s[i])
Ahead(X, Y) == \A x \in X, y \in Y : Follows(y, x)
Held(e) == {e} \ {Nothing}

\* What is with the client, on its way to it, and before it.
Sink == ToSet(received) \cup ToSet(sse)
Out == Sink \cup Held(runner.emits)
Line == Out \cup ToSet(events) \cup Held(loop.emits)

Places == Calling \cup {"think", "act", "acted", "next", "last", "closed"}
StreamTyped ==
    /\ {received, sse, events} \subseteq Seq(Item)
    /\ runner \in [at : {"before", "read", "after", "last", "closed", "panic"},
                   emits : Item \cup {Nothing}, result : BOOLEAN]
    /\ loop \in [at : Places, call : Nat,
                 emits : Item \cup {Nothing}]
    /\ writer \in [at : {"reading", "ended"}, pulse : Nat]
    /\ produced \in Nat /\ {expired, gone} \subseteq BOOLEAN

\* Where the events of the turn are: in order, and all there.
InLine ==
    /\ Ordered(received) /\ Ordered(sse) /\ Ordered(events)
    /\ Ahead(ToSet(received), ToSet(sse))
    /\ Ahead(Sink, Held(runner.emits))
    /\ Ahead(Out, ToSet(events))
    /\ Ahead(Out \cup ToSet(events), Held(loop.emits))
    /\ \A x \in Line : x[2] <= produced
    /\ ~expired => \A n \in 1..produced : \E x \in Line : x[2] = n

\* Who has ended, and with what.
Loops ==
    /\ loop.at \in Calling \cup {"act", "acted", "next"} => runner.at = "read"
    /\ loop.at \in {"think", "act", "next", "closed"} => loop.emits = Nothing
    /\ loop.at = "last" <=> loop.emits \in Terminal
    /\ loop.at # "closed" => ToSet(events) \cap Terminal = {}
Runs ==
    /\ runner.at = "before" => loop = NoLoop
    /\ runner.at # "read" => events = <<>> /\ loop.at \in {"think", "closed"}
    /\ runner.at = "last" <=> runner.emits \in Terminal
    /\ runner.at \notin {"read", "last"} => runner.emits = Nothing
    /\ runner.at # "closed" => Sink \cap Terminal = {}
    /\ runner.at = "closed" /\ ~gone => Sink \cap Terminal # {}
    /\ gone => expired /\ writer.at = "ended"
    /\ runner.at = "read" /\ loop.at = "closed" /\ ~expired =>
          runner.result \/ ToSet(events) \cap Terminal # {}
    /\ runner.at = "after" /\ ~runner.result => expired \/ loop = NoLoop
    /\ runner.at = "panic" => expired \/ loop = NoLoop

Flowing == StreamTyped /\ InLine /\ Loops /\ Runs

LEMMA Items ==
  /\ Nothing \notin Item /\ Piece \cap Terminal = {}
  /\ \A x \in Item : x[2] \in Nat
  /\ \A x \in Terminal : x[2] = 0
  /\ \A k \in {"delta", "tool_status"}, n \in Nat : <<k, n + 1>> \in Piece /\ <<k, n + 1>>[2] = n + 1
  BY DEF Item, Piece, Terminal, Done, Error, Nothing

LEMMA AppendOrders ==
  ASSUME NEW s \in Seq(Item), NEW e \in Item, Ordered(s), Ahead(ToSet(s), {e})
  PROVE  /\ Append(s, e) \in Seq(Item) /\ Ordered(Append(s, e))
         /\ ToSet(Append(s, e)) = ToSet(s) \cup {e}
<1>1. /\ Append(s, e) \in Seq(Item) /\ DOMAIN s = 1..Len(s) /\ Len(s) \in Nat
      /\ DOMAIN Append(s, e) = 1..(Len(s) + 1)
      /\ \A i \in 1..Len(s) : Append(s, e)[i] = s[i]
      /\ Append(s, e)[Len(s) + 1] = e
  OBVIOUS
<1>2. ToSet(Append(s, e)) = ToSet(s) \cup {e}
  BY <1>1 DEF ToSet
<1>3. ASSUME NEW i \in 1..(Len(s) + 1), NEW j \in 1..(Len(s) + 1), i < j
      PROVE  Follows(Append(s, e)[j], Append(s, e)[i])
  <2>1. i \in 1..Len(s) /\ s[i] \in ToSet(s) /\ Append(s, e)[i] = s[i]
    BY <1>1, <1>3 DEF ToSet
  <2>2. CASE j = Len(s) + 1
    BY <1>1, <2>1, <2>2 DEF Ahead
  <2>3. CASE j \in 1..Len(s)
    BY <1>1, <1>3, <2>1, <2>3 DEF Ordered
  <2> QED
    BY <1>1, <2>2, <2>3
<1> QED
  BY <1>1, <1>2, <1>3 DEF Ordered

LEMMA TailOrders ==
  ASSUME NEW s \in Seq(Item), s # <<>>, Ordered(s)
  PROVE  /\ Head(s) \in Item /\ Tail(s) \in Seq(Item) /\ Ordered(Tail(s))
         /\ ToSet(s) = {Head(s)} \cup ToSet(Tail(s))
         /\ Ahead({Head(s)}, ToSet(Tail(s)))
<1>1. /\ Tail(s) \in Seq(Item) /\ DOMAIN s = 1..Len(s) /\ Len(s) \in Nat \ {0} /\ Head(s) = s[1]
      /\ DOMAIN Tail(s) = 1..(Len(s) - 1)
      /\ \A i \in 1..(Len(s) - 1) : Tail(s)[i] = s[i + 1]
  OBVIOUS
<1>2. ToSet(s) = {Head(s)} \cup ToSet(Tail(s))
  <2>1. \A i \in DOMAIN s : i = 1 \/ (i - 1 \in DOMAIN Tail(s) /\ Tail(s)[i - 1] = s[i])
    BY <1>1
  <2>2. \A i \in DOMAIN Tail(s) : i + 1 \in DOMAIN s /\ Tail(s)[i] = s[i + 1]
    BY <1>1
  <2>3. ToSet(s) \subseteq {Head(s)} \cup ToSet(Tail(s))
    BY <1>1, <2>1 DEF ToSet
  <2>4. {Head(s)} \cup ToSet(Tail(s)) \subseteq ToSet(s)
    BY <1>1, <2>2 DEF ToSet
  <2> QED
    BY <2>3, <2>4
<1>3. Ahead({Head(s)}, ToSet(Tail(s)))
  BY <1>1 DEF Ahead, ToSet, Ordered
<1>4. Ordered(Tail(s))
  BY <1>1 DEF Ordered
<1> QED
  BY <1>1, <1>2, <1>3, <1>4

LEMMA StreamStarts == StreamInit => Flowing
<1> SUFFICES ASSUME StreamInit PROVE Flowing
  OBVIOUS
<1>0. /\ ToSet(received) = {} /\ ToSet(sse) = {} /\ ToSet(events) = {} /\ received = <<>>
      /\ sse = <<>> /\ events = <<>> /\ runner.emits = Nothing /\ loop.emits = Nothing
  BY DEF StreamInit, ToSet, NoLoop, NoRunner, Loop, Runner
<1>1. /\ Line = {} /\ Sink = {} /\ Out = {} /\ Held(runner.emits) = {} /\ Held(loop.emits) = {}
      /\ ToSet(received) = {} /\ ToSet(sse) = {} /\ ToSet(events) = {}
      /\ received = <<>> /\ sse = <<>> /\ events = <<>>
  BY <1>0 DEF Held, Line, Sink, Out
<1>2. StreamTyped
  <2>1. <<>> \in Seq(Item)
    OBVIOUS
  <2> QED
    BY <1>0, <2>1 DEF StreamInit, StreamTyped, NoLoop, NoRunner, Loop, Runner, Places
<1>3. InLine
  BY <1>1 DEF InLine, Ordered, Ahead, StreamInit
<1>4. Loops /\ Runs
  BY <1>1, Items DEF Loops, Runs, StreamInit, NoLoop, NoRunner, Loop, Runner, Item, Calling
<1> QED
  BY <1>2, <1>3, <1>4 DEF Flowing

\* The places where events are, as they change.
LEMMA SameLine ==
  ASSUME InLine, UNCHANGED <<received, sse, events, produced>>,
         runner'.emits = runner.emits, loop'.emits = loop.emits, expired => expired'
  PROVE  InLine' /\ Line' = Line /\ Out' = Out /\ Sink' = Sink
  BY DEF InLine, Line, Out, Sink

LEMMA StartsReasoning ==
  ASSUME Flowing, StartReasoning
  PROVE  Flowing'
<1>1. /\ runner.at = "before" /\ loop = NoLoop /\ events = <<>> /\ runner.emits = Nothing
      /\ Sink \cap Terminal = {} /\ loop.emits = Nothing /\ ToSet(events) = {}
  BY DEF StartReasoning, Flowing, Runs, NoLoop, Loop, ToSet
<1>2. CASE runner' \in {Runner("read", Nothing, FALSE), Runner("after", Nothing, FALSE)}
  <2>1. InLine' /\ Line' = Line /\ Out' = Out /\ Sink' = Sink
    BY <1>1, <1>2, SameLine DEF StartReasoning, Flowing, Runner
  <2>2. /\ UNCHANGED <<received, sse, events, loop, produced, expired, gone, writer>>
        /\ \E at \in {"read", "after"} : runner' = [at |-> at, emits |-> Nothing, result |-> FALSE]
    BY <1>2 DEF StartReasoning, Runner
  <2>3. StreamTyped'
    BY <2>2 DEF Flowing, StreamTyped
  <2>4. loop.at = "think" /\ Nothing \notin Terminal
    BY <1>1, Items DEF NoLoop, Loop, Item
  <2>5. Loops' /\ Runs'
    BY <1>1, <2>1, <2>2, <2>4 DEF Flowing, Loops, Runs, Calling
  <2> QED
    BY <2>1, <2>3, <2>5 DEF Flowing
<1>3. ASSUME NEW e \in Terminal, NEW b \in BOOLEAN, runner' = Runner("last", e, b)
      PROVE  Flowing'
  <2>1. /\ Held(runner'.emits) = {e} /\ Held(runner.emits) = {} /\ Held(loop.emits) = {}
        /\ e \in Item /\ e[2] = 0 /\ Held(loop'.emits) = {}
    BY <1>1, <1>3, Items DEF Held, Runner, Item, StartReasoning
  <2>2. UNCHANGED <<received, sse, events, loop, produced, expired, gone, writer>>
    BY DEF StartReasoning
  <2>3. Sink' = Sink /\ Line = Sink /\ Out' = Sink \cup {e} /\ Line' = Sink \cup {e}
    BY <1>1, <2>1, <2>2 DEF Sink, Line, Out
  <2>4. Ahead(Sink, {e})
    BY <1>1, <1>3 DEF Ahead, Follows
  <2>5. InLine'
    BY <1>1, <2>1, <2>2, <2>3, <2>4 DEF InLine, Flowing, StreamTyped, Ahead
  <2>6. StreamTyped' /\ Loops' /\ Runs'
    BY <1>1, <1>3, <2>1, <2>2, <2>3, Items
    DEF Flowing, StreamTyped, Loops, Runs, Runner, NoLoop, Loop
  <2> QED
    BY <2>5, <2>6 DEF Flowing
<1> QED
  BY <1>2, <1>3 DEF StartReasoning, Terminal

\* The steps of the loop that begin or end a call emit at most a terminal event.
LEMMA Thinks ==
  ASSUME Flowing, Generate \/ GenerateEnds \/ SynthesisEnds \/ ActionsEnd \/ NextCall
  PROVE  Flowing'
<1>1. UNCHANGED <<events, runner, sse, writer, received, expired, gone, produced>>
  BY DEF Generate, GenerateEnds, SynthesisEnds, ActionsEnd, NextCall
<1>2. /\ loop.emits = Nothing /\ runner.at = "read"
      /\ loop.at \in Calling \cup {"think", "acted", "next"}
  BY DEF Generate, GenerateEnds, SynthesisEnds, ActionsEnd, NextCall, Flowing, Loops, Calling
<1>3. \/ \E at \in Calling \cup {"think", "act", "next"}, n \in {loop.call, loop.call + 1} :
            loop' = Loop(at, n, Nothing)
      \/ \E e \in Terminal : loop' = Loop("last", loop.call, e)
  <2>1. CASE Generate
    BY <2>1 DEF Generate, Calling
  <2>2. CASE GenerateEnds
    BY <2>2 DEF GenerateEnds, Ends, Terminal, Calling
  <2>3. CASE SynthesisEnds
    BY <2>3 DEF SynthesisEnds, Ends, Terminal
  <2>4. CASE ActionsEnd
    BY <2>4 DEF ActionsEnd, Ends, Terminal, Synthesize, Calling
  <2>5. CASE NextCall
    BY <2>5 DEF NextCall, Ends, Terminal, Synthesize, Calling
  <2> QED
    BY <2>1, <2>2, <2>3, <2>4, <2>5
<1>4. /\ loop' \in [at : Places, call : Nat, emits : Item \cup {Nothing}]
      /\ \/ loop'.emits = Nothing /\ loop'.at \in Calling \cup {"think", "act", "next"}
         \/ loop'.at = "last" /\ loop'.emits \in Terminal
  BY <1>3 DEF Loop, Flowing, StreamTyped, Item, Places
<1>5. StreamTyped'
  BY <1>1, <1>4 DEF Flowing, StreamTyped
<1>6. Sink' = Sink /\ Out' = Out /\ Out \cap Terminal = {} /\ ToSet(events)' = ToSet(events)
  BY <1>1, <1>2, Items DEF Sink, Out, Flowing, Runs, Held
<1>7. ToSet(events) \cap Terminal = {} /\ Held(loop.emits) = {}
  BY <1>2 DEF Flowing, Loops, Held, Calling
<1>8. Ahead(Out \cup ToSet(events), Held(loop'.emits)) /\ \A x \in Held(loop'.emits) : x[2] = 0
  BY <1>4, <1>6, <1>7, Items DEF Ahead, Held, Follows
<1>9. InLine'
  <2>1. Line' = Line \cup Held(loop'.emits)
    BY <1>1, <1>6, <1>7 DEF Line
  <2> QED
    BY <1>1, <1>6, <1>7, <1>8, <2>1 DEF InLine, Flowing, StreamTyped
<1>10. Loops' /\ Runs'
  BY <1>1, <1>2, <1>4, <1>6, <1>7, Items DEF Loops, Runs, Flowing, Item, Calling
<1> QED
  BY <1>5, <1>9, <1>10 DEF Flowing

\* A piece is produced: every piece before it has a lower number.
LEMMA Produces ==
  ASSUME Flowing, Delta \/ Act
  PROVE  Flowing'
<1>1. UNCHANGED <<events, runner, sse, writer, received, expired, gone>> /\ produced' = produced + 1
  BY DEF Delta, Act, Numbered
<1>2. loop.emits = Nothing /\ runner.at = "read" /\ loop.at \in Calling \cup {"act"}
  BY DEF Delta, Act, Flowing, Loops
<1>3. PICK k \in {"delta", "tool_status"} :
        loop' \in {[loop EXCEPT !.emits = <<k, produced + 1>>],
                   Loop("acted", loop.call, <<k, produced + 1>>)} /\ loop'.at \in Calling \cup {"acted"}
  <2>1. CASE Delta
    <3>1. loop.at \in Calling /\ loop' = [loop EXCEPT !.emits = <<"delta", produced + 1>>]
      BY <2>1 DEF Delta, Numbered, Emit
    <3>2. loop'.at = loop.at
      BY <3>1 DEF Flowing, StreamTyped
    <3> QED
      BY <3>1, <3>2
  <2>2. CASE Act
    <3>1. loop' = Loop("acted", loop.call, <<"tool_status", produced + 1>>)
      BY <2>2 DEF Act
    <3>2. loop'.at = "acted"
      BY <3>1 DEF Loop
    <3> QED
      BY <3>1, <3>2
  <2> QED
    BY <2>1, <2>2
<1> DEFINE e == <<k, produced + 1>>
<1>4. e \in Piece /\ e \in Item /\ e \notin Terminal /\ e[2] = produced + 1 /\ e # Nothing
  BY Items DEF Flowing, StreamTyped, Item
<1> HIDE DEF e
<1>5. loop'.emits = e /\ loop' \in [at : Calling \cup {"acted"}, call : Nat, emits : Item]
  <2>1. loop' \in {[loop EXCEPT !.emits = e], Loop("acted", loop.call, e)}
    BY <1>3 DEF e
  <2>2. loop \in [at : Places, call : Nat, emits : Item \cup {Nothing}]
    BY DEF Flowing, StreamTyped
  <2> QED
    BY <1>3, <1>4, <2>1, <2>2 DEF Loop
<1>6. StreamTyped'
  BY <1>1, <1>5 DEF Flowing, StreamTyped, Places
<1>7. Sink' = Sink /\ Out' = Out /\ Out \cap Terminal = {} /\ ToSet(events)' = ToSet(events)
  BY <1>1, <1>2, Items DEF Sink, Out, Flowing, Runs, Held
<1>8. ToSet(events) \cap Terminal = {} /\ Held(loop.emits) = {} /\ Held(loop'.emits) = {e}
  BY <1>2, <1>4, <1>5 DEF Flowing, Loops, Held, Calling
<1>9. Line = Out \cup ToSet(events) /\ Line' = Line \cup {e}
  BY <1>7, <1>8 DEF Line
<1>10. Line \subseteq Item
  BY <1>9, Items DEF Out, Sink, Held, Flowing, StreamTyped, ToSet
<1>11. Ahead(Line, {e})
  BY <1>4, <1>7, <1>8, <1>9, <1>10, Items DEF Ahead, Follows, InLine, Flowing, StreamTyped
<1>12. InLine'
  <2>1. \A x \in Line' : x[2] <= produced'
    BY <1>1, <1>4, <1>9, <1>10, Items DEF InLine, Flowing, StreamTyped
  <2>2. ~expired' => \A n \in 1..produced' : \E x \in Line' : x[2] = n
    <3>1. \A n \in 1..(produced + 1) : n \in 1..produced \/ n = produced + 1
      BY DEF Flowing, StreamTyped
    <3> QED
      BY <1>1, <1>4, <1>9, <3>1 DEF InLine, Flowing
  <2> QED
    BY <1>1, <1>7, <1>8, <1>9, <1>11, <2>1, <2>2 DEF InLine, Flowing
<1>13. Loops' /\ Runs'
  BY <1>1, <1>2, <1>4, <1>5, <1>7, <1>8 DEF Loops, Runs, Flowing, Calling
<1> QED
  BY <1>6, <1>12, <1>13 DEF Flowing

\* The loop's event reaches the channel, or is dropped when the time is over.
LEMMA EmitsEvent ==
  ASSUME Flowing, EmitEvent
  PROVE  Flowing'
<1> DEFINE e == loop.emits
<1>1. UNCHANGED <<runner, sse, writer, received, expired, gone, produced>> /\ e # Nothing
  BY DEF EmitEvent
<1>2. events' = Append(events, e) \/ (expired /\ events' = events)
  BY DEF EmitEvent, Sent
<1>3. e \in Item /\ Held(e) = {e} /\ loop.at \in Calling \cup {"acted", "last"} /\ runner.at = "read"
  <2>1. e \in Item /\ Held(e) = {e}
    BY <1>1 DEF Flowing, StreamTyped, Held
  <2>2. loop.at \in Calling \cup {"acted", "last"}
    BY <1>1 DEF Flowing, StreamTyped, Loops, Places
  <2>3. runner.at = "read"
    BY <2>2 DEF Flowing, Runs, Calling
  <2> QED
    BY <2>1, <2>2, <2>3
<1>4. /\ loop' \in [at : Calling \cup {"acted", "closed"}, call : Nat, emits : {Nothing}]
      /\ loop'.at = "closed" <=> e \in Terminal
      /\ loop'.at # "closed" => loop'.at = loop.at
  BY <1>3 DEF EmitEvent, Emit, Loop, Flowing, StreamTyped, Loops
<1> HIDE DEF e
<1>5. events \in Seq(Item) /\ Ordered(events) /\ Ahead(ToSet(events), {e}) /\ Ahead(Out, {e})
  BY <1>3 DEF Flowing, StreamTyped, InLine, Ahead, e
<1>6. /\ events' \in Seq(Item) /\ Ordered(events')
      /\ ToSet(events') = ToSet(events) \cup {e} \/ (expired /\ ToSet(events') = ToSet(events))
  BY <1>2, <1>3, <1>5, AppendOrders
<1>7. Sink' = Sink /\ Out' = Out /\ ToSet(events)' = ToSet(events') /\ Held(loop'.emits) = {}
  BY <1>1, <1>4 DEF Sink, Out, Held
<1>8. StreamTyped'
  BY <1>1, <1>4, <1>6 DEF Flowing, StreamTyped, Places
<1>9. Line = Out \cup ToSet(events) \cup {e} /\ Line' = Out \cup ToSet(events')
  BY <1>3, <1>7 DEF Line, e
<1>10. Ahead(Out, ToSet(events'))
  BY <1>5, <1>6 DEF Ahead, InLine, Flowing
<1>11. Line' \subseteq Line /\ (~expired => Line' = Line)
  BY <1>6, <1>9
<1>12. InLine'
  BY <1>1, <1>6, <1>7, <1>10, <1>11 DEF InLine, Flowing, Ahead
<1>13. Loops' /\ Runs'
  <2>1. Loops'
    BY <1>1, <1>3, <1>4, <1>6, <1>7, Items DEF Loops, Flowing, Item, Calling
  <2>2. ~expired /\ loop'.at = "closed" => ToSet(events') \cap Terminal # {}
    BY <1>4, <1>6
  <2> QED
    BY <1>1, <1>3, <1>7, <2>1, <2>2 DEF Runs, Flowing
<1> QED
  BY <1>8, <1>12, <1>13 DEF Flowing

LEMMA ReadsEvent ==
  ASSUME Flowing, ReadEvent
  PROVE  Flowing'
<1>1. UNCHANGED <<loop, produced, sse, writer, received, expired, gone>>
      /\ runner.at = "read" /\ runner.emits = Nothing
  BY DEF ReadEvent
<1>2. Held(runner.emits) = {} /\ Out = Sink /\ Sink' = Sink /\ Sink \cap Terminal = {}
  BY <1>1 DEF Held, Out, Sink, Flowing, Runs
<1>3. CASE events = <<>> /\ loop.at = "closed" /\ runner' = [runner EXCEPT !.at = "after"]
           /\ UNCHANGED events
  <2>1. ToSet(events) = {} /\ runner'.emits = Nothing /\ runner'.at = "after"
        /\ runner'.result = runner.result
    BY <1>1, <1>3 DEF ToSet, Flowing, StreamTyped
  <2>2. InLine'
    BY <1>1, <1>3, <2>1, SameLine DEF Flowing
  <2>3. StreamTyped'
    BY <1>1, <1>3 DEF Flowing, StreamTyped
  <2>4. Loops' /\ Runs'
    BY <1>1, <1>2, <1>3, <2>1, Items DEF Loops, Runs, Flowing, Item, Calling
  <2> QED
    BY <2>2, <2>3, <2>4 DEF Flowing
<1>4. CASE events # <<>> /\ events' = Tail(events)
           /\ runner' = CASE Head(events) = Done -> [runner EXCEPT !.result = TRUE]
                          [] Head(events) = Error -> Runner("last", Error, FALSE)
                          [] OTHER -> [runner EXCEPT !.emits = Head(events)]
  <2> DEFINE h == Head(events)
  <2>1. /\ h \in Item /\ Tail(events) \in Seq(Item) /\ Ordered(Tail(events))
        /\ ToSet(events) = {h} \cup ToSet(Tail(events)) /\ Ahead({h}, ToSet(Tail(events)))
    BY <1>4, TailOrders DEF Flowing, StreamTyped, InLine
  <2>2. /\ events' \in Seq(Item) /\ Ordered(events') /\ ToSet(events)' = ToSet(events')
        /\ ToSet(events) = {h} \cup ToSet(events') /\ Ahead({h}, ToSet(events'))
    BY <1>4, <2>1
  <2>3. \/ h = Done /\ runner' = [runner EXCEPT !.result = TRUE]
        \/ h = Error /\ runner' = Runner("last", Error, FALSE)
        \/ h \notin Terminal /\ runner' = [runner EXCEPT !.emits = h]
    <3>1. Done # Error
      BY DEF Done, Error
    <3> QED
      BY <1>4, <3>1 DEF Terminal
  <2>4. runner \in [at : {"read"}, emits : {Nothing}, result : BOOLEAN]
    BY <1>1 DEF Flowing, StreamTyped
  <2> HIDE DEF h
  <2>5. \/ h = Done /\ runner'.at = "read" /\ runner'.result /\ runner'.emits = Nothing
        \/ h = Error /\ runner'.at = "last" /\ runner'.emits = h
        \/ h \notin Terminal /\ runner'.at = "read" /\ runner'.emits = h
           /\ runner'.result = runner.result
    BY <2>3, <2>4 DEF Runner
  <2>6. StreamTyped'
    <3>1. runner' \in [at : {"before", "read", "after", "last", "closed", "panic"},
                       emits : Item \cup {Nothing}, result : BOOLEAN]
      <4>1. CASE h = Done /\ runner' = [runner EXCEPT !.result = TRUE]
        BY <2>4, <4>1
      <4>2. CASE h = Error /\ runner' = Runner("last", Error, FALSE)
        BY <2>1, <4>2 DEF Runner
      <4>3. CASE h \notin Terminal /\ runner' = [runner EXCEPT !.emits = h]
        BY <2>1, <2>4, <4>3
      <4> QED
        BY <2>3, <4>1, <4>2, <4>3
    <3> QED
      BY <1>1, <2>2, <3>1 DEF Flowing, StreamTyped
  <2>7. Held(runner'.emits) \subseteq {h} /\ (h # Done => Held(runner'.emits) = {h})
    BY <2>1, <2>5, Items DEF Held
  <2>8. Out' = Sink \cup Held(runner'.emits) /\ Line = Sink \cup ToSet(events) \cup Held(loop.emits)
        /\ Line' = Sink \cup Held(runner'.emits) \cup ToSet(events') \cup Held(loop.emits)
    BY <1>1, <1>2 DEF Out, Line, Sink
  <2>9. Line' \subseteq Line /\ (\A x \in Line \ Line' : x = Done)
    BY <2>2, <2>7, <2>8
  <2>10. InLine'
    <3>1. Ahead(Sink, Held(runner'.emits)) /\ Ahead(Out', ToSet(events'))
      BY <1>2, <2>2, <2>7, <2>8 DEF InLine, Flowing, Ahead
    <3>2. Ahead(Out' \cup ToSet(events'), Held(loop.emits))
      BY <1>2, <2>2, <2>7, <2>8 DEF InLine, Flowing, Ahead
    <3>3. ~expired => \A n \in 1..produced : \E x \in Line' : x[2] = n
      BY <2>9, Items DEF InLine, Flowing, Terminal
    <3> QED
      BY <1>1, <1>2, <2>2, <2>9, <3>1, <3>2, <3>3 DEF InLine, Flowing
  <2>11. Loops' /\ Runs'
    <3>1. h \in Terminal => loop.at = "closed"
      BY <2>2 DEF Loops, Flowing
    <3>2. h = Error => ToSet(events') = {} /\ events' = <<>>
      <4>1. h = Error => ToSet(events') = {}
        BY <2>2 DEF Ahead, Follows, Terminal
      <4>2. events' # <<>> => events'[1] \in ToSet(events')
        BY <2>2 DEF ToSet
      <4> QED
        BY <4>1, <4>2
    <3>3. Loops'
      BY <1>1, <2>2, <2>5, <3>1 DEF Loops, Flowing, Terminal, Calling
    <3>4. h # Done => (ToSet(events) \cap Terminal # {} => h = Error \/ ToSet(events') \cap Terminal # {})
      BY <2>2 DEF Terminal
    <3> QED
      BY <1>1, <1>2, <2>1, <2>2, <2>5, <3>1, <3>2, <3>3, <3>4, Items
      DEF Runs, Loops, Flowing, Terminal
  <2> QED
    BY <2>6, <2>10, <2>11 DEF Flowing
<1> QED
  BY <1>3, <1>4 DEF ReadEvent

\* The turn is assembled, or fails, after all events were read.
LEMMA Assembles ==
  ASSUME Flowing, Assembled
  PROVE  Flowing'
<1>1. UNCHANGED <<oracle, loop, produced, events, sse, writer, received, expired, gone>>
      /\ runner.at = "after"
  BY DEF Assembled
<1>2. /\ events = <<>> /\ loop.at \in {"think", "closed"} /\ loop.emits = Nothing
      /\ runner.emits = Nothing /\ Sink \cap Terminal = {} /\ (~runner.result => expired \/ loop = NoLoop)
      /\ ToSet(events) = {}
  BY <1>1 DEF Flowing, Runs, Loops, ToSet
<1>3. CASE runner' = Runner("panic", Nothing, FALSE) /\ ~runner.result
  <2>1. InLine' /\ Line' = Line /\ Out' = Out /\ Sink' = Sink
    BY <1>1, <1>2, <1>3, SameLine DEF Flowing, Runner
  <2>2. StreamTyped' /\ Loops' /\ Runs'
    BY <1>1, <1>2, <1>3, <2>1, Items DEF Flowing, StreamTyped, Loops, Runs, Runner, Item
  <2> QED
    BY <2>1, <2>2 DEF Flowing
<1>4. ASSUME NEW e \in Terminal, NEW b \in BOOLEAN, runner' = Runner("last", e, b)
      PROVE  Flowing'
  <2>1. /\ Held(runner'.emits) = {e} /\ Held(runner.emits) = {} /\ Held(loop.emits) = {}
        /\ e \in Item /\ e[2] = 0 /\ Held(loop'.emits) = {}
    BY <1>1, <1>2, <1>4, Items DEF Held, Runner, Item
  <2>2. Sink' = Sink /\ Line = Sink /\ Out' = Sink \cup {e} /\ Line' = Sink \cup {e}
    BY <1>1, <1>2, <2>1 DEF Sink, Line, Out
  <2>3. Ahead(Sink, {e})
    BY <1>2, <1>4 DEF Ahead, Follows
  <2>4. InLine'
    BY <1>1, <1>2, <2>1, <2>2, <2>3 DEF InLine, Flowing, StreamTyped, Ahead
  <2>5. StreamTyped' /\ Loops' /\ Runs'
    BY <1>1, <1>2, <1>4, <2>1, <2>2, Items DEF Flowing, StreamTyped, Loops, Runs, Runner
  <2> QED
    BY <2>4, <2>5 DEF Flowing
<1> QED
  BY <1>1, <1>3, <1>4 DEF Assembled, Terminal

\* A frame reaches the handler's channel, or is dropped when the client is gone.
LEMMA EmitsFrame ==
  ASSUME Flowing, EmitFrame
  PROVE  Flowing'
<1> DEFINE e == runner.emits
<1>1. UNCHANGED <<loop, produced, events, writer, received, expired, gone>> /\ e # Nothing
  BY DEF EmitFrame
<1>2. sse' = Append(sse, e) \/ (gone /\ sse' = sse)
  BY DEF EmitFrame, Sent
<1>3. /\ e \in Item /\ Held(e) = {e} /\ runner.at \in {"read", "last"}
      /\ runner.at = "last" <=> e \in Terminal
  BY <1>1 DEF Flowing, StreamTyped, Held, Runs
<1>4. /\ runner' \in [at : {"read", "closed"}, emits : {Nothing}, result : BOOLEAN]
      /\ runner'.result = runner.result /\ (runner'.at = "closed" <=> e \in Terminal)
  BY <1>3 DEF EmitFrame, Flowing, StreamTyped
<1> HIDE DEF e
<1>5. sse \in Seq(Item) /\ Ordered(sse) /\ Ahead(ToSet(sse), {e}) /\ Ahead(Sink, {e})
  BY <1>3 DEF Flowing, StreamTyped, InLine, Ahead, Sink, e
<1>6. /\ sse' \in Seq(Item) /\ Ordered(sse')
      /\ ToSet(sse') = ToSet(sse) \cup {e} \/ (gone /\ ToSet(sse') = ToSet(sse))
  BY <1>2, <1>3, <1>5, AppendOrders
<1>7. /\ Sink' = ToSet(received) \cup ToSet(sse') /\ Out = Sink \cup {e} /\ Out' = Sink'
      /\ Held(runner'.emits) = {}
  BY <1>1, <1>3, <1>4 DEF Sink, Out, Held, e
<1>8. /\ Sink' \subseteq Out /\ (~gone => Sink' = Out) /\ Line' \subseteq Line
      /\ (~expired => Line' = Line)
  <2>1. Sink' \subseteq Out /\ (~gone => Sink' = Out)
    BY <1>6, <1>7 DEF Sink
  <2>2. Line' = Out' \cup ToSet(events) \cup Held(loop.emits)
    BY <1>1 DEF Line
  <2> QED
    BY <1>7, <2>1, <2>2 DEF Line, Flowing, Runs
<1>9. StreamTyped'
  BY <1>1, <1>4, <1>6 DEF Flowing, StreamTyped
<1>10. Ahead(ToSet(received), ToSet(sse'))
  BY <1>5, <1>6 DEF Ahead, InLine, Flowing, Sink
<1>11. InLine'
  BY <1>1, <1>6, <1>7, <1>8, <1>10 DEF InLine, Flowing, Ahead
<1>12. Loops'
  BY <1>1, <1>3, <1>4 DEF Loops, Runs, Flowing
<1>13. Runs'
  <2>1. e \notin Terminal => Sink' \cap Terminal = {}
    BY <1>3, <1>7, <1>8 DEF Runs, Flowing
  <2>2. e \in Terminal /\ ~gone => Sink' \cap Terminal # {}
    BY <1>7, <1>8
  <2> QED
    BY <1>1, <1>3, <1>4, <2>1, <2>2, Items DEF Runs, Flowing, Item
<1> QED
  BY <1>9, <1>11, <1>12, <1>13 DEF Flowing

LEMMA WritesFrame ==
  ASSUME Flowing, WriteFrame
  PROVE  Flowing'
<1> DEFINE h == Head(sse)
<1>1. UNCHANGED <<loop, produced, events, runner>> /\ sse # <<>> /\ sse' = Tail(sse)
      /\ writer.at = "reading" /\ ~gone
  BY DEF WriteFrame, Flowing, Runs
<1>2. /\ h \in Item /\ sse' \in Seq(Item) /\ Ordered(sse') /\ Ahead({h}, ToSet(sse'))
      /\ ToSet(sse) = {h} \cup ToSet(sse')
  BY <1>1, TailOrders DEF Flowing, StreamTyped, InLine
<1>3. CASE received' = Append(received, h) /\ UNCHANGED <<writer, gone, expired>>
  <2>0. received \in Seq(Item) /\ Ordered(received) /\ Ahead(ToSet(received), {h})
    BY <1>2 DEF Flowing, StreamTyped, InLine, Ahead
  <2> HIDE DEF h
  <2>1. /\ received' \in Seq(Item) /\ Ordered(received')
        /\ ToSet(received') = ToSet(received) \cup {h}
    BY <1>2, <1>3, <2>0, AppendOrders
  <2>2. Ahead(ToSet(received'), ToSet(sse'))
    BY <1>2, <2>1 DEF Ahead, InLine, Flowing
  <2>3. Sink' = Sink
    BY <1>2, <2>1 DEF Sink
  <2>4. Out' = Out /\ Line' = Line
    BY <1>1, <2>3 DEF Out, Line
  <2>5. StreamTyped' /\ InLine'
    BY <1>1, <1>2, <1>3, <2>1, <2>2, <2>3, <2>4 DEF StreamTyped, InLine, Flowing
  <2>6. Loops' /\ Runs'
    BY <1>1, <1>3, <2>3 DEF Loops, Runs, Flowing
  <2> QED
    BY <2>5, <2>6 DEF Flowing
<1>4. CASE gone' = TRUE /\ expired' = TRUE /\ UNCHANGED received
           /\ writer' = [writer EXCEPT !.at = "ended"]
  <2> HIDE DEF h
  <2>1. Sink' \subseteq Sink /\ Out' \subseteq Out /\ Line' \subseteq Line
    BY <1>1, <1>2, <1>4 DEF Sink, Out, Line
  <2>2. StreamTyped' /\ InLine'
    BY <1>1, <1>2, <1>4, <2>1 DEF StreamTyped, InLine, Flowing, Ahead
  <2>3. Loops' /\ Runs'
    BY <1>1, <1>4, <2>1 DEF Loops, Runs, Flowing
  <2> QED
    BY <2>2, <2>3 DEF Flowing
<1> QED
  BY <1>3, <1>4 DEF WriteFrame

LEMMA Moves ==
  ASSUME Flowing, NextPulse \/ Timeout
  PROVE  Flowing'
<1>1. CASE Timeout
  <2>1. UNCHANGED <<loop, produced, events, runner, sse, writer, received, gone>> /\ expired'
    BY <1>1 DEF Timeout
  <2>2. InLine' /\ Line' = Line /\ Out' = Out /\ Sink' = Sink
    BY <2>1, SameLine DEF Flowing
  <2>3. StreamTyped' /\ Loops' /\ Runs'
    BY <2>1, <2>2 DEF Flowing, StreamTyped, Loops, Runs
  <2> QED
    BY <2>2, <2>3 DEF Flowing
<1>2. CASE NextPulse /\ writer.pulse < PayloadPulses
  <2>1. /\ writer' = [writer EXCEPT !.pulse = @ + 1] /\ loop' = NoLoop /\ produced' = 0
        /\ events' = <<>> /\ runner' = NoRunner /\ sse' = <<>> /\ received' = <<>>
        /\ expired' = FALSE /\ ~gone /\ gone' = gone
    BY <1>2 DEF NextPulse, Flowing, Runs
  <2>2. /\ ToSet(received') = {} /\ ToSet(sse') = {} /\ ToSet(events') = {}
        /\ runner'.emits = Nothing /\ loop'.emits = Nothing
    BY <2>1 DEF ToSet, NoRunner, NoLoop, Runner, Loop
  <2>3. Sink' = {} /\ Out' = {} /\ Line' = {}
    BY <2>2 DEF Sink, Out, Line, Held
  <2>4. <<>> \in Seq(Item)
    OBVIOUS
  <2>5. StreamTyped'
    <3>1. /\ runner' \in [at : {"before"}, emits : {Nothing}, result : BOOLEAN]
          /\ loop' \in [at : {"think"}, call : Nat, emits : {Nothing}]
      BY <2>1 DEF NoRunner, NoLoop, Runner, Loop
    <3>2. writer' \in [at : {"reading", "ended"}, pulse : Nat]
      BY <2>1 DEF StreamTyped, Flowing
    <3>3. {expired', gone'} \subseteq BOOLEAN
      BY <2>1 DEF StreamTyped, Flowing
    <3>4. {received', sse', events'} \subseteq Seq(Item)
      BY <2>1, <2>4
    <3> QED
      BY <2>1, <3>1, <3>2, <3>3, <3>4 DEF StreamTyped, Places
  <2>6. InLine'
    BY <2>1, <2>2, <2>3 DEF InLine, Ordered, Ahead, Held
  <2>7. Loops' /\ Runs'
    BY <2>1, <2>2, <2>3, Items DEF Loops, Runs, NoRunner, NoLoop, Runner, Loop, Item, Calling
  <2> QED
    BY <2>5, <2>6, <2>7 DEF Flowing
<1>3. CASE NextPulse /\ ~(writer.pulse < PayloadPulses)
  <2>1. /\ UNCHANGED <<loop, produced, events, runner, sse, received, expired, gone>>
        /\ writer' = [writer EXCEPT !.at = "ended"]
    BY <1>3 DEF NextPulse
  <2>2. InLine' /\ Line' = Line /\ Out' = Out /\ Sink' = Sink
    BY <2>1, SameLine DEF Flowing
  <2>3. StreamTyped' /\ Loops' /\ Runs'
    BY <2>1, <2>2 DEF Flowing, StreamTyped, Loops, Runs
  <2> QED
    BY <2>2, <2>3 DEF Flowing
<1> QED
  BY <1>1, <1>2, <1>3

LEMMA FlowingHolds == StreamSpec => []Flowing
<1>1. Flowing /\ [StreamNext]_streamVars => Flowing'
  <2> SUFFICES ASSUME Flowing, [StreamNext]_streamVars PROVE Flowing'
    OBVIOUS
  <2>1. CASE StreamNext
    BY <2>1, StartsReasoning, Thinks, Produces, EmitsEvent, ReadsEvent, Assembles, EmitsFrame,
       WritesFrame, Moves DEF StreamNext, Work
  <2>2. CASE UNCHANGED streamVars
    <3>1. UNCHANGED <<loop, produced, events, runner, sse, writer, received, gone, expired>>
      BY <2>2 DEF streamVars
    <3>2. InLine' /\ Line' = Line /\ Out' = Out /\ Sink' = Sink
      BY <3>1, SameLine DEF Flowing
    <3> QED
      BY <3>1, <3>2 DEF Flowing, StreamTyped, Loops, Runs
  <2> QED
    BY <2>1, <2>2
<1> QED
  BY <1>1, StreamStarts, PTL DEF StreamSpec

\* A client that did not leave reads every event once and in order, and one terminal frame, the
\* last; the process dies only of a terminal event that was given up.
THEOREM StreamsAreWhole == StreamSpec => []StreamIsWhole
<1>1. Flowing => StreamIsWhole
  <2> SUFFICES ASSUME Flowing PROVE StreamIsWhole
    OBVIOUS
  <2>1. \A i, j \in DOMAIN received : i < j =>
          received[i] \notin Terminal /\ (received[j] \notin Terminal => received[i][2] < received[j][2])
    BY DEF Flowing, InLine, Ordered, Follows
  <2>2. ASSUME writer.at = "reading", runner.at = "closed", sse = <<>>
        PROVE  /\ received # <<>> /\ Last(received) \in Terminal
               /\ ~expired => \A n \in 1..produced : \E i \in DOMAIN received : received[i][2] = n
    <3>1. ToSet(sse) = {} /\ Sink = ToSet(received) /\ Sink \cap Terminal # {}
      BY <2>2 DEF Flowing, Runs, ToSet, Sink
    <3>2. /\ received \in Seq(Item) /\ DOMAIN received = 1..Len(received) /\ Len(received) \in Nat
      BY DEF Flowing, StreamTyped
    <3>3. PICK i \in 1..Len(received) : received[i] \in Terminal
      BY <3>1, <3>2 DEF ToSet
    <3>4. i = Len(received)
      <4>1. Len(received) \in DOMAIN received /\ i \in DOMAIN received /\ i <= Len(received)
            /\ i \in Nat /\ Len(received) \in Nat
        BY <3>2
      <4>2. ~(i < Len(received))
        BY <2>1, <3>3, <4>1
      <4> QED
        BY <4>1, <4>2
    <3>5. received # <<>> /\ Last(received) \in Terminal
      BY <3>2, <3>3, <3>4 DEF Last
    <3>6. Line = ToSet(received)
      BY <2>2, <3>1 DEF Line, Out, Held, Flowing, Loops, Runs, ToSet
    <3> QED
      BY <3>2, <3>5, <3>6 DEF Flowing, InLine, ToSet
  <2> QED
    BY <2>1, <2>2 DEF StreamIsWhole, Flowing, Runs
<1> QED
  BY <1>1, FlowingHolds, PTL

-----------------------------------------------------------------------------
(* Casting: the Spirit of a turn, and the tools it offers. *)

Entries == [name : ToolName, id : Tool, revision : Nat]
Behind(e) == [id |-> e.id, revision |-> e.revision]
Ids(E) == {e.id : e \in E}

Names == Name \cup Cased \cup Named \cup {Nobody, "DEFAULT"}
Castings == [step : {"idle", "load", "failed", "find", "register", "scouts", "reason"},
          name : Names, version : Nat, by : {"pin", "link", "router"}, found : SUBSET Entries,
          offered : SUBSET Entries, scouts : SUBSET Names, late : SUBSET Tool, excused : BOOLEAN]

CastingTyped ==
    /\ live \in [Name -> Nat] /\ newest \in [Name -> Nat] /\ link \in Links
    /\ tools \in [Tool -> [name : ToolName \cup {""}, of : SUBSET (Name \X Nat), revision : Nat]]
    /\ \A i \in Tool : tools[i].of # {} => tools[i].name \in ToolName
    /\ registry \in [ToolName -> [id : Tool \cup {"none", "host"}, revision : Nat]]
    /\ tried \subseteq Entries
    /\ pinned \in [Conversation -> Name \cup {Nobody}]
    /\ cast \in [Conversation -> Castings]

\* A name in the registry has a reason, and a registration that came too late has a rival.
Registers ==
    /\ \A n \in ToolName : registry[n] # NoAction =>
          n \in OwnActions \/ \E f \in tried : f.name = n /\ registry[n] = Behind(f)
    /\ \A e \in tried : Shadowed(e) \/ registry[e.name] = Behind(e)

\* What a turn knows of itself.
Led(r) ==
    /\ r.step \notin {"idle", "load", "failed"} => r.name \in Name
    /\ r.by = "pin" => r.name \in Name
    /\ r.step # "idle" /\ r.by = "link" => OfLink(r.name)
    /\ r.by = "router" =>
          r.step = "reason" /\ r.offered = {} /\ \E n \in r.scouts : r.name \in SubNames[n]
    /\ r.step = "reason" /\ r.by # "router" => r.scouts = {r.name}
    /\ r.step = "failed" =>
          \/ r.excused \/ r.name \in lapsed \cup Cased \cup (Named \ Name)
          \/ r.name = "DEFAULT" /\ link.allowed = <<>>
Equipped(r) ==
    /\ r.offered \subseteq tried
    /\ r.step = "scouts" => r.excused
    /\ r.step = "register" => Assigned(r) \subseteq r.late \cup Ids(r.found) \cup Ids(r.offered)
    /\ r.step = "reason" /\ r.by # "router" /\ ~r.excused =>
          Assigned(r) \subseteq r.late \cup Ids(r.offered)

Owned ==
    /\ CastingTyped /\ Registers
    /\ \A n \in Name : live[n] = 0 => n \in lapsed
    /\ \A c \in Conversation : Led(cast[c]) /\ Equipped(cast[c])

LEMMA CastingStarts == CastingInit => Owned
<1> SUFFICES ASSUME CastingInit PROVE Owned
  OBVIOUS
<1>1. NoTool \in [name : ToolName \cup {""}, of : SUBSET (Name \X Nat), revision : Nat]
  BY DEF NoTool
<1>2. NoCast \in Castings
  BY DEF NoCast, Castings, Names
<1>3. CastingTyped
  BY <1>1, <1>2 DEF CastingInit, CastingTyped, NoTool, HostAction, NoAction
<1>4. Registers
  BY DEF CastingInit, Registers, NoAction, HostAction, Shadowed
<1>5. Led(NoCast) /\ Equipped(NoCast)
  BY DEF NoCast, Led, Equipped
<1> QED
  BY <1>3, <1>4, <1>5 DEF CastingInit, Owned

\* selectSpirit stays within the Link.
LEMMA SelectedAreOfLink ==
  ASSUME link \in Links, NEW n \in Selected(link)
  PROVE  OfLink(n) /\ n \in Names
<1> DEFINE allowed == link.allowed
<1>0. allowed \in Seq(ToSet(allowed)) /\ \A i \in DOMAIN allowed : allowed[i] \in ToSet(allowed)
  BY LinksAssumption DEF ToSet
<1>1. allowed # <<>> => Head(allowed) \in Named
  BY <1>0 DEF Named
<1>2. link.default \in Named
  BY DEF Named
<1>3. \A a \in Picks(link) \ {Nobody} : OfLink(a)
  <2> TAKE a \in Picks(link) \ {Nobody}
  <2>1. CASE a \in ToSet(allowed)
    BY <2>1 DEF OfLink, Named
  <2>2. CASE IsValidSpirit(a, allowed)
    <3>1. PICK i \in DOMAIN allowed :
             a = allowed[i] \/ (a \in Cased /\ SameName[a] = allowed[i])
      BY <2>2 DEF IsValidSpirit
    <3>2. allowed[i] \in Named
      BY <1>0, <3>1 DEF Named
    <3> QED
      BY <3>1, <3>2 DEF OfLink
  <2>3. a \in ToSet(allowed) \/ IsValidSpirit(a, allowed)
    <3>1. CASE Pathfinder(link) = DefaultPathfinder
      BY <3>1 DEF Picks
    <3>2. CASE Pathfinder(link) # DefaultPathfinder
      BY <3>2 DEF Picks
    <3> QED
      BY <3>1, <3>2
  <2> QED
    BY <2>1, <2>2, <2>3
<1>4. CASE Len(allowed) = 1
  <2>0. allowed # <<>>
    BY <1>0, <1>4
  <2>1. n = Head(allowed)
    BY <1>4, <2>0 DEF Selected
  <2> QED
    BY <1>1, <2>0, <2>1 DEF OfLink, Names
<1>5. CASE Len(allowed) # 1 /\ allowed = <<>>
  <2>1. n = link.default \/ n = "DEFAULT"
    BY <1>5 DEF Selected
  <2> QED
    BY <1>2, <1>5, <2>1 DEF OfLink, Names
<1>6. CASE Len(allowed) # 1 /\ allowed # <<>>
  <2>1. n = Fallback(link) \/ n \in Picks(link) \ {Nobody}
    BY <1>6 DEF Selected
  <2>2. Fallback(link) \in Named
    BY <1>1, <1>2, <1>6 DEF Fallback
  <2> QED
    BY <1>3, <2>1, <2>2 DEF OfLink, Names
<1> QED
  BY <1>4, <1>5, <1>6

LEMMA RegistersStay ==
  ASSUME Registers, UNCHANGED <<registry, tried>>
  PROVE  Registers'
<1>1. \A e \in tried : Shadowed(e) => e.name \in OwnActions \/ \E f \in tried' \ {e} : f.name = e.name
  BY DEF Shadowed
<1> QED
  BY <1>1 DEF Registers, Shadowed, Behind

\* Only turns move, and nothing that the others go by.
LEMMA OneTurnMoves ==
  ASSUME Owned, UNCHANGED <<live, newest, tools, registry, link, lapsed, tried>>,
         NEW c \in Conversation, NEW r \in Castings, Goes(c, r), Led(r), Equipped(r),
         pinned' \in [Conversation -> Name \cup {Nobody}]
  PROVE  Owned'
<1>0. Owned /\ r \in Castings /\ Led(r) /\ Equipped(r)
  OBVIOUS
<1>1. \A d \in Conversation : cast'[d] = IF d = c THEN r ELSE cast[d]
  BY <1>0 DEF Goes, Owned, CastingTyped
<1>2. cast' \in [Conversation -> Castings]
  BY <1>0 DEF Goes, Owned, CastingTyped
<1>3. Castings' = Castings
  BY DEF Castings, Names, Named
<1>4. CastingTyped'
  BY <1>0, <1>2, <1>3 DEF Owned, CastingTyped
<1>5. Registers'
  BY <1>0, RegistersStay DEF Owned
<1>6. ASSUME NEW d \in Conversation PROVE (Led(cast[d]) /\ Equipped(cast[d]))'
  <2>1. Led(cast'[d]) /\ Equipped(cast'[d])
    BY <1>0, <1>1 DEF Owned
  <2> QED
    BY <2>1 DEF Led, Equipped, OfLink, Named, Assigned
<1> QED
  BY <1>0, <1>4, <1>5, <1>6 DEF Owned

LEMMA Selects ==
  ASSUME Owned, NEW c \in Conversation, SelectSpirit(c)
  PROVE  Owned'
<1>0. /\ Owned /\ UNCHANGED <<live, newest, tools, registry, link, lapsed, tried, pinned>>
      /\ pinned \in [Conversation -> Name \cup {Nobody}] /\ link \in Links
  BY DEF SelectSpirit, Owned, CastingTyped
<1>1. CASE pinned[c] # Nobody /\ Goes(c, [NoCast EXCEPT !.step = "load", !.name = pinned[c], !.by = "pin"])
  <2> DEFINE r == [NoCast EXCEPT !.step = "load", !.name = pinned[c], !.by = "pin"]
  <2>1. pinned[c] \in Name
    BY <1>0, <1>1
  <2>2. r \in Castings
    BY <2>1 DEF NoCast, Castings, Names
  <2>3. Led(r) /\ Equipped(r)
    BY <2>1 DEF NoCast, Led, Equipped
  <2>4. Goes(c, r)
    BY <1>1
  <2> HIDE DEF r
  <2> QED
    BY <1>0, <2>2, <2>3, <2>4, OneTurnMoves
<1>2. ASSUME NEW n \in Selected(link), Goes(c, [NoCast EXCEPT !.step = "load", !.name = n])
      PROVE  Owned'
  <2> DEFINE r == [NoCast EXCEPT !.step = "load", !.name = n]
  <2>1. OfLink(n) /\ n \in Names
    BY <1>0, SelectedAreOfLink
  <2>2. r \in Castings
    BY <2>1 DEF NoCast, Castings
  <2>3. Led(r) /\ Equipped(r)
    BY <2>1 DEF NoCast, Led, Equipped
  <2>4. Goes(c, r)
    BY <1>2
  <2> HIDE DEF r
  <2> QED
    BY <1>0, <2>2, <2>3, <2>4, OneTurnMoves
<1> QED
  BY <1>1, <1>2 DEF SelectSpirit

LEMMA Loads ==
  ASSUME Owned, NEW c \in Conversation, LoadSpirit(c)
  PROVE  Owned'
<1> DEFINE v == InUse(cast[c].name)
           r == [cast[c] EXCEPT !.version = v, !.step = IF v = 0 THEN "failed" ELSE "find"]
           lost == [cast[c] EXCEPT !.step = "failed", !.excused = TRUE]
<1>0. /\ Owned /\ UNCHANGED <<live, newest, tools, registry, link, lapsed, tried, pinned>>
      /\ pinned \in [Conversation -> Name \cup {Nobody}]
      /\ cast[c] \in Castings /\ cast[c].step = "load" /\ Led(cast[c]) /\ Equipped(cast[c])
  BY DEF LoadSpirit, Owned, CastingTyped
<1>1. v \in Nat /\ (v # 0 => cast[c].name \in Name)
      /\ (v = 0 /\ cast[c].name \in Name => cast[c].name \in lapsed)
  BY <1>0 DEF InUse, Owned, CastingTyped
<1>2. cast[c].by \in {"pin", "link"}
  BY <1>0 DEF Castings, Led
<1> HIDE DEF v
<1>3. r \in Castings /\ lost \in Castings
  BY <1>0, <1>1 DEF Castings
<1>4. Led(r) /\ Equipped(r)
  <2>1. Led(r)
    <3>1. CASE v = 0
      BY <1>0, <1>1, <1>2, <3>1 DEF Castings, Led, OfLink
    <3>2. CASE v # 0
      BY <1>0, <1>1, <1>2, <3>2 DEF Castings, Led
    <3> QED
      BY <3>1, <3>2
  <2>2. Equipped(r)
    BY <1>0 DEF Castings, Equipped
  <2> QED
    BY <2>1, <2>2
<1>5. Led(lost) /\ Equipped(lost)
  BY <1>0, <1>2 DEF Castings, Led, Equipped
<1>6. Goes(c, r) \/ Goes(c, lost)
  BY DEF LoadSpirit, v
<1> HIDE DEF r, lost
<1> QED
  BY <1>0, <1>3, <1>4, <1>5, <1>6, OneTurnMoves

LEMMA Finds ==
  ASSUME Owned, NEW c \in Conversation, FindTools(c)
  PROVE  Owned'
<1> DEFINE all == {Entry(i) : i \in Assigned(cast[c])}
           r == [cast[c] EXCEPT !.step = "register", !.found = all]
           lost == [cast[c] EXCEPT !.step = "scouts", !.excused = TRUE]
<1>0. /\ Owned /\ UNCHANGED <<live, newest, tools, registry, link, lapsed, tried, pinned>>
      /\ pinned \in [Conversation -> Name \cup {Nobody}]
      /\ cast[c] \in Castings /\ cast[c].step = "find" /\ Led(cast[c]) /\ Equipped(cast[c])
  BY DEF FindTools, Owned, CastingTyped
<1>1. all \subseteq Entries
  <2> SUFFICES ASSUME NEW i \in Assigned(cast[c]) PROVE Entry(i) \in Entries
    OBVIOUS
  <2>1. i \in Tool /\ tools[i].of # {}
    BY DEF Assigned
  <2>2. /\ tools[i] \in [name : ToolName \cup {""}, of : SUBSET (Name \X Nat), revision : Nat]
        /\ tools[i].name \in ToolName /\ tools[i].revision \in Nat
    BY <1>0, <2>1 DEF Owned, CastingTyped
  <2>3. /\ tools[i].name \in ToolName /\ tools[i].revision \in Nat /\ i \in Tool
    BY <2>1, <2>2
  <2>4. [name |-> tools[i].name, id |-> i, revision |-> tools[i].revision] \in Entries
    BY <2>3 DEF Entries
  <2> QED
    BY <2>4 DEF Entry
<1>2. Assigned(cast[c]) \subseteq Ids(all)
  <2> SUFFICES ASSUME NEW i \in Assigned(cast[c]) PROVE \E e \in all : e.id = i
    BY DEF Ids
  <2>1. Entry(i) \in all
    OBVIOUS
  <2>2. Entry(i).id = i
    BY DEF Entry
  <2> QED
    BY <2>1, <2>2
<1> HIDE DEF all
<1>3. r \in Castings /\ lost \in Castings
  BY <1>0, <1>1 DEF Castings
<1>4. Led(r) /\ Led(lost)
  BY <1>0 DEF Castings, Led
<1>5. Equipped(r)
  <2>1. Assigned(r) = Assigned(cast[c]) /\ r.step = "register" /\ r.offered = cast[c].offered
        /\ r.found = all
    BY <1>0 DEF Castings, Assigned
  <2> QED
    BY <1>0, <1>2, <2>1 DEF Equipped
<1>6. Equipped(lost)
  BY <1>0 DEF Castings, Equipped
<1>7. Goes(c, r) \/ Goes(c, lost)
  BY DEF FindTools, all
<1> HIDE DEF r, lost
<1> QED
  BY <1>0, <1>3, <1>4, <1>5, <1>6, <1>7, OneTurnMoves

LEMMA RoutesTurn ==
  ASSUME Owned, NEW c \in Conversation, EnrichAndRoute(c)
  PROVE  Owned'
<1> DEFINE r == [cast[c] EXCEPT !.step = "reason", !.scouts = {cast[c].name}]
<1>0. /\ Owned /\ UNCHANGED <<live, newest, tools, registry, link, lapsed, tried, pinned>>
      /\ pinned \in [Conversation -> Name \cup {Nobody}] /\ live \in [Name -> Nat]
      /\ cast[c] \in Castings /\ Led(cast[c]) /\ Equipped(cast[c])
      /\ cast[c].step = "scouts" \/ (cast[c].step = "register" /\ cast[c].found = {})
  BY DEF EnrichAndRoute, Owned, CastingTyped
<1>1. cast[c].name \in Name /\ cast[c].by # "router"
  BY <1>0 DEF Led
<1>2. CASE Goes(c, r)
  <2>1. r \in Castings
    BY <1>0, <1>1 DEF Castings
  <2>2. Led(r)
    BY <1>0, <1>1 DEF Castings, Led
  <2>3. Assigned(r) = Assigned(cast[c]) /\ r.step = "reason" /\ r.offered = cast[c].offered
        /\ r.late = cast[c].late /\ r.excused = cast[c].excused
    BY <1>0 DEF Castings, Assigned
  <2>4. Ids({}) = {}
    BY DEF Ids
  <2>5. Equipped(r)
    BY <1>0, <2>3, <2>4 DEF Equipped
  <2> HIDE DEF r
  <2> QED
    BY <1>0, <1>2, <2>1, <2>2, <2>5, OneTurnMoves
<1>3. ASSUME NEW n \in SubNames[cast[c].name],
             Goes(c, [cast[c] EXCEPT !.step = "reason", !.name = n, !.version = live[n],
                                     !.by = "router", !.offered = {}, !.scouts = {cast[c].name}])
      PROVE  Owned'
  <2> DEFINE s == [cast[c] EXCEPT !.step = "reason", !.name = n, !.version = live[n],
                                  !.by = "router", !.offered = {}, !.scouts = {cast[c].name}]
  <2>1. n \in Name
    BY <1>1, SubNamesAssumption
  <2>2. s \in Castings
    BY <1>0, <1>1, <2>1 DEF Castings, Names
  <2>3. Led(s) /\ Equipped(s)
    BY <1>0, <2>1 DEF Castings, Led, Equipped
  <2>4. Goes(c, s)
    BY <1>3
  <2> HIDE DEF s
  <2> QED
    BY <1>0, <2>2, <2>3, <2>4, OneTurnMoves
<1> QED
  BY <1>2, <1>3 DEF EnrichAndRoute

LEMMA Finishes ==
  ASSUME Owned, NEW c \in Conversation, FinishTurn(c)
  PROVE  Owned'
<1>0. /\ Owned /\ UNCHANGED <<live, newest, tools, registry, link, lapsed, tried>>
      /\ pinned \in [Conversation -> Name \cup {Nobody}] /\ Goes(c, NoCast)
  BY DEF FinishTurn, Owned, CastingTyped
<1>1. pinned' \in [Conversation -> Name \cup {Nobody}]
  BY <1>0 DEF FinishTurn
<1>2. NoCast \in Castings
  BY DEF NoCast, Castings, Names
<1>3. Led(NoCast) /\ Equipped(NoCast)
  BY DEF NoCast, Led, Equipped
<1> QED
  BY <1>0, <1>1, <1>2, <1>3, OneTurnMoves

\* A registration shadows those of its name, or is shadowed by what is there.
LEMMA Enters ==
  ASSUME Owned, NEW c \in Conversation, RegisterTool(c)
  PROVE  Owned'
<1>0. /\ Owned /\ UNCHANGED <<live, newest, tools, link, lapsed, pinned>>
      /\ cast[c] \in Castings /\ cast[c].step = "register" /\ Led(cast[c]) /\ Equipped(cast[c])
      /\ registry \in [ToolName -> [id : Tool \cup {"none", "host"}, revision : Nat]]
      /\ tried \subseteq Entries
  BY DEF RegisterTool, Owned, CastingTyped
<1>1. PICK e \in cast[c].found :
         /\ Goes(c, [cast[c] EXCEPT !.found = @ \ {e}, !.offered = @ \cup {e}])
         /\ registry' = IF registry[e.name] = NoAction
                        THEN [registry EXCEPT ![e.name] = [id |-> e.id, revision |-> e.revision]]
                        ELSE registry
         /\ tried' = tried \cup {e}
  BY DEF RegisterTool
<1> DEFINE r == [cast[c] EXCEPT !.found = @ \ {e}, !.offered = @ \cup {e}]
<1>2. e \in Entries /\ e.name \in ToolName /\ e.id \in Tool /\ e.revision \in Nat
  BY <1>0, <1>1 DEF Castings, Entries
<1>3. r \in Castings
  BY <1>0, <1>2 DEF Castings
<1>4. Led(r)
  BY <1>0 DEF Castings, Led
<1>5. /\ Assigned(r) = Assigned(cast[c]) /\ r.step = "register" /\ r.late = cast[c].late
      /\ r.found = cast[c].found \ {e} /\ r.offered = cast[c].offered \cup {e}
  BY <1>0 DEF Castings, Assigned
<1>6. Ids(cast[c].found) \cup Ids(cast[c].offered) = Ids(r.found) \cup Ids(r.offered)
  BY <1>1, <1>5 DEF Ids
<1>7. cast' = [cast EXCEPT ![c] = r] /\ cast \in [Conversation -> Castings]
  BY <1>0, <1>1 DEF Goes, Owned, CastingTyped
<1> HIDE DEF r
<1>8. \A d \in Conversation : cast'[d] = IF d = c THEN r ELSE cast[d]
  BY <1>7
<1>9. CastingTyped'
  <2>1. cast' \in [Conversation -> Castings] /\ Castings' = Castings
    BY <1>0, <1>3, <1>7 DEF Castings, Names, Named
  <2>2. registry' \in [ToolName -> [id : Tool \cup {"none", "host"}, revision : Nat]]
    BY <1>0, <1>1, <1>2
  <2>3. tried' \subseteq Entries
    BY <1>0, <1>1, <1>2
  <2> QED
    BY <1>0, <2>1, <2>2, <2>3 DEF Owned, CastingTyped
<1>10. Registers'
  <2>1. \A f \in Entries : f.name = e.name /\ Behind(f) = Behind(e) => f = e
    BY <1>2 DEF Entries, Behind
  <2>2. ASSUME NEW n \in ToolName, registry'[n] # NoAction
        PROVE  n \in OwnActions \/ \E f \in tried' : f.name = n /\ registry'[n] = Behind(f)
    <3>1. CASE registry'[n] = registry[n]
      BY <1>0, <1>1, <2>2, <3>1 DEF Owned, Registers
    <3>2. CASE registry'[n] # registry[n]
      <4>1. n = e.name /\ registry'[n] = Behind(e)
        BY <1>0, <1>1, <1>2, <3>2 DEF Behind
      <4> QED
        BY <1>1, <4>1
    <3> QED
      BY <3>1, <3>2
  <2>3. ASSUME NEW f \in tried' PROVE Shadowed(f)' \/ registry'[f.name] = Behind(f)
    <3>1. CASE f # e /\ f.name = e.name
      BY <1>1, <3>1 DEF Shadowed
    <3>2. CASE f # e /\ f.name # e.name
      <4>1. f \in tried /\ f.name \in ToolName /\ registry'[f.name] = registry[f.name]
        BY <1>0, <1>1, <2>3, <3>2 DEF Entries
      <4>2. Shadowed(f) => Shadowed(f)'
        BY <1>1 DEF Shadowed
      <4> QED
        BY <1>0, <4>1, <4>2 DEF Owned, Registers
    <3>3. CASE f = e
      <4>1. CASE registry[e.name] = NoAction
        BY <1>0, <1>1, <1>2, <3>3, <4>1 DEF Behind
      <4>2. CASE registry[e.name] # NoAction
        <5>1. registry'[e.name] = registry[e.name]
          BY <1>1, <4>2
        <5>2. e.name \in OwnActions
              \/ \E g \in tried : g.name = e.name /\ registry[e.name] = Behind(g)
          BY <1>0, <1>2, <4>2 DEF Owned, Registers
        <5> QED
          BY <1>1, <3>3, <5>1, <5>2 DEF Shadowed
      <4> QED
        BY <4>1, <4>2
    <3> QED
      BY <3>1, <3>2, <3>3
  <2>4. \A f : Behind(f)' = Behind(f)
    BY DEF Behind
  <2> QED
    BY <2>2, <2>3 DEF Registers, Behind
<1>11. ASSUME NEW d \in Conversation PROVE (Led(cast[d]) /\ Equipped(cast[d]))'
  <2>1. cast[c].offered \subseteq tried /\ r.offered \subseteq tried'
    BY <1>0, <1>1, <1>5 DEF Equipped
  <2>2. CASE d = c
    <3>1. cast'[d] = r
      BY <1>8, <2>2
    <3>2. Led(cast'[d]) /\ Assigned(cast'[d]) = Assigned(r)
      BY <1>4, <3>1
    <3>3. /\ cast'[d].offered \subseteq tried' /\ cast'[d].step = "register"
          /\ Assigned(cast'[d]) \subseteq
                cast'[d].late \cup Ids(cast'[d].found) \cup Ids(cast'[d].offered)
      BY <1>0, <1>5, <1>6, <2>1, <3>1, <3>2 DEF Equipped
    <3> QED
      BY <1>0, <3>2, <3>3 DEF Led, Equipped, OfLink, Named, Assigned, Ids
  <2>3. CASE d # c
    <3>1. cast'[d] = cast[d] /\ Led(cast[d]) /\ Equipped(cast[d])
      BY <1>0, <1>8, <2>3 DEF Owned
    <3> QED
      BY <1>0, <1>1, <3>1 DEF Led, Equipped, OfLink, Named, Assigned
  <2> QED
    BY <2>2, <2>3
<1> QED
  BY <1>0, <1>9, <1>10, <1>11 DEF Owned

\* The lists of the turns stay; a tool that is saved under them is late.
LEMMA ToolsChange ==
  ASSUME Owned, NEW i \in Tool, SaveTool(i) \/ DeleteTool(i)
  PROVE  Owned'
<1> DEFINE Record == [name : ToolName \cup {""}, of : SUBSET (Name \X Nat), revision : Nat]
<1>0. /\ Owned /\ UNCHANGED <<live, newest, registry, link, pinned, lapsed, tried>>
      /\ tools \in [Tool -> Record] /\ live \in [Name -> Nat] /\ cast \in [Conversation -> Castings]
  BY DEF SaveTool, DeleteTool, Owned, CastingTyped
<1>1. PICK t \in Record : tools' = [tools EXCEPT ![i] = t] /\ (t.of # {} => t.name \in ToolName)
                          /\ (t.of # {} => SaveTool(i))
  <2>1. CASE SaveTool(i)
    <3>1. PICK n \in ToolName, s \in Name :
             tools' = [tools EXCEPT ![i] = [name |-> n, of |-> {<<s, live[s]>>},
                                            revision |-> @.revision + 1]]
      BY <2>1 DEF SaveTool
    <3> DEFINE t == [name |-> n, of |-> {<<s, live[s]>>}, revision |-> tools[i].revision + 1]
    <3>2. tools[i] \in Record
      BY <1>0
    <3>3. tools[i].revision \in Nat /\ tools[i].revision + 1 \in Nat
      <4>1. \A x \in Record : x.revision \in Nat
        OBVIOUS
      <4> HIDE DEF Record
      <4> QED
        BY <3>2, <4>1
    <3>4. <<s, live[s]>> \in Name \X Nat
      BY <1>0
    <3>5. t \in Record /\ t.name = n
      BY <3>3, <3>4
    <3>6. tools' = [tools EXCEPT ![i] = t]
      BY <3>1
    <3> HIDE DEF t
    <3> QED
      BY <2>1, <3>5, <3>6
  <2>2. CASE DeleteTool(i)
    <3>1. tools' = [tools EXCEPT ![i] = [tools[i] EXCEPT !.of = {}]]
      BY <2>2 DEF DeleteTool
    <3>2. [tools[i] EXCEPT !.of = {}] \in Record /\ [tools[i] EXCEPT !.of = {}].of = {}
      BY <1>0
    <3> QED
      BY <3>1, <3>2
  <2> QED
    BY <2>1, <2>2
<1>2. \A d \in Conversation :
         /\ cast'[d] \in Castings
         /\ cast'[d] = cast[d] \/ cast'[d] = [cast[d] EXCEPT !.late = @ \cup {i}]
         /\ cast[d].step \in {"register", "scouts", "reason"} /\ t.of # {} => i \in cast'[d].late
  <2>1. CASE SaveTool(i)
    <3> TAKE d \in Conversation
    <3>0. cast[d] \in Castings
      BY <1>0
    <3>1. cast'[d] = IF cast[d].step \in {"register", "scouts", "reason"}
                     THEN [cast[d] EXCEPT !.late = @ \cup {i}] ELSE cast[d]
      BY <2>1 DEF SaveTool
    <3>2. /\ [cast[d] EXCEPT !.late = @ \cup {i}] \in Castings
          /\ i \in [cast[d] EXCEPT !.late = @ \cup {i}].late
      BY <3>0 DEF Castings
    <3> QED
      BY <3>0, <3>1, <3>2
  <2>2. CASE DeleteTool(i)
    <3> TAKE d \in Conversation
    <3>1. cast'[d] = cast[d] /\ cast[d] \in Castings
      BY <1>0, <2>2 DEF DeleteTool
    <3>2. CASE t.of = {}
      BY <3>1, <3>2
    <3>3. CASE t.of # {}
      BY <1>1, <2>1, <3>3
    <3> QED
      BY <3>2, <3>3
  <2> QED
    BY <2>1, <2>2
<1>3. cast' \in [Conversation -> Castings]
  <2>1. CASE SaveTool(i)
    <3>1. cast' = [c \in Conversation |->
                    IF cast[c].step \in {"register", "scouts", "reason"}
                    THEN [cast[c] EXCEPT !.late = @ \cup {i}] ELSE cast[c]]
      BY <2>1 DEF SaveTool
    <3>2. \A d \in Conversation : cast'[d] \in Castings
      BY <1>2
    <3> QED
      BY <3>1, <3>2
  <2>2. CASE DeleteTool(i)
    BY <1>0, <2>2 DEF DeleteTool
  <2> QED
    BY <2>1, <2>2
<1>4. CastingTyped'
  <2>1. Castings' = Castings
    BY <1>0 DEF Castings, Names, Named
  <2>2. tools' \in [Tool -> Record]
    BY <1>0, <1>1
  <2>3. \A j \in Tool : tools'[j].of # {} => tools'[j].name \in ToolName
    BY <1>0, <1>1 DEF Owned, CastingTyped
  <2>4. CastingTyped /\ registry' = registry /\ link' = link /\ pinned' = pinned /\ tried' = tried
        /\ live' = live /\ newest' = newest
    BY <1>0 DEF Owned
  <2> HIDE DEF Record
  <2>5. cast' \in [Conversation -> Castings']
    BY <1>3, <2>1
  <2> QED
    BY <2>2, <2>3, <2>4, <2>5 DEF CastingTyped, Entries, Record
<1>5. Registers'
  BY <1>0, RegistersStay DEF Owned
<1>6. ASSUME NEW d \in Conversation PROVE (Led(cast[d]) /\ Equipped(cast[d]))'
  <2>0. cast[d] \in Castings /\ cast'[d] \in Castings /\ Led(cast[d]) /\ Equipped(cast[d])
    BY <1>0, <1>2 DEF Owned
  <2>1. /\ cast'[d].step = cast[d].step /\ cast'[d].name = cast[d].name
        /\ cast'[d].version = cast[d].version /\ cast'[d].by = cast[d].by
        /\ cast'[d].found = cast[d].found /\ cast'[d].offered = cast[d].offered
        /\ cast'[d].scouts = cast[d].scouts /\ cast'[d].excused = cast[d].excused
        /\ cast[d].late \subseteq cast'[d].late
    <3>1. CASE cast'[d] = cast[d]
      BY <3>1
    <3>2. CASE cast'[d] = [cast[d] EXCEPT !.late = @ \cup {i}]
      BY <2>0, <3>2 DEF Castings
    <3> QED
      BY <1>2, <3>1, <3>2
  <2>2. Assigned(cast[d])' \subseteq Assigned(cast[d]) \cup (IF t.of = {} THEN {} ELSE {i})
    BY <1>0, <1>1, <2>1 DEF Assigned
  <2>3. Led(cast[d])'
    BY <1>0, <2>0, <2>1 DEF Led, OfLink, Named
  <2>4. cast[d].step \in {"register", "reason"} =>
           Assigned(cast[d])' \subseteq Assigned(cast[d]) \cup cast'[d].late
    BY <1>2, <2>2
  <2>5. Equipped(cast[d])'
    <3>1. /\ cast'[d].offered \subseteq tried'
          /\ cast'[d].step = "scouts" => cast'[d].excused
      BY <1>0, <2>0, <2>1 DEF Equipped
    <3>2. cast'[d].step = "register" =>
             Assigned(cast[d])' \subseteq
                cast'[d].late \cup Ids(cast'[d].found) \cup Ids(cast'[d].offered)
      BY <2>0, <2>1, <2>4 DEF Equipped
    <3>3. cast'[d].step = "reason" /\ cast'[d].by # "router" /\ ~cast'[d].excused =>
             Assigned(cast[d])' \subseteq cast'[d].late \cup Ids(cast'[d].offered)
      BY <2>0, <2>1, <2>4 DEF Equipped
    <3> QED
      BY <3>1, <3>2, <3>3 DEF Equipped, Ids
  <2> QED
    BY <2>3, <2>5
<1> QED
  BY <1>0, <1>4, <1>5, <1>6 DEF Owned

\* Of a Spirit only what is in use changes, and turns know their version.
LEMMA SpiritsChange ==
  ASSUME Owned, NEW n \in Name, EditSpirit(n) \/ RetireSpirit(n) \/ ActivateSpirit(n)
  PROVE  Owned'
<1>0. /\ Owned /\ UNCHANGED <<tools, registry, link, pinned, cast, tried>>
      /\ live \in [Name -> Nat] /\ newest \in [Name -> Nat] /\ lapsed \subseteq lapsed'
  BY DEF EditSpirit, RetireSpirit, ActivateSpirit, Owned, CastingTyped
<1>1. /\ live' \in [Name -> Nat] /\ newest' \in [Name -> Nat]
      /\ \A m \in Name : live'[m] = 0 => m \in lapsed'
  <2>1. CASE EditSpirit(n)
    BY <1>0, <2>1 DEF EditSpirit, Owned
  <2>2. CASE RetireSpirit(n)
    BY <1>0, <2>2 DEF RetireSpirit, Owned
  <2>3. CASE ActivateSpirit(n)
    BY <1>0, <2>3 DEF ActivateSpirit, Owned
  <2> QED
    BY <2>1, <2>2, <2>3
<1>2. CastingTyped'
  BY <1>0, <1>1 DEF Owned, CastingTyped, Castings, Names, Named
<1>3. Registers'
  BY <1>0, RegistersStay DEF Owned
<1>4. ASSUME NEW d \in Conversation PROVE (Led(cast[d]) /\ Equipped(cast[d]))'
  <2>1. Led(cast[d]) /\ Equipped(cast[d])
    BY <1>0 DEF Owned
  <2>2. Led(cast[d])'
    BY <1>0, <2>1 DEF Led, OfLink, Named
  <2>3. Equipped(cast[d])'
    BY <1>0, <2>1 DEF Equipped, Assigned, Ids
  <2> QED
    BY <2>2, <2>3
<1> QED
  BY <1>0, <1>1, <1>2, <1>3, <1>4 DEF Owned

LEMMA Restarts ==
  ASSUME Owned, Restart
  PROVE  Owned'
<1>0. /\ Owned /\ UNCHANGED <<live, newest, tools, link, pinned, lapsed>> /\ tried' = {}
      /\ cast' = [c \in Conversation |-> NoCast]
      /\ registry' = [n \in ToolName |-> IF n \in OwnActions THEN HostAction ELSE NoAction]
  BY DEF Restart
<1>1. NoCast \in Castings /\ Castings' = Castings
  BY <1>0 DEF NoCast, Castings, Names, Named
<1>2. CastingTyped'
  BY <1>0, <1>1 DEF Owned, CastingTyped, HostAction, NoAction
<1>3. Registers'
  BY <1>0 DEF Registers, NoAction, HostAction
<1>4. ASSUME NEW d \in Conversation PROVE (Led(cast[d]) /\ Equipped(cast[d]))'
  BY <1>0 DEF NoCast, Led, Equipped
<1> QED
  BY <1>0, <1>2, <1>3, <1>4 DEF Owned

LEMMA OwnedHolds == CastingSpec => []Owned
<1>1. Owned /\ UNCHANGED castingVars => Owned'
  <2> SUFFICES ASSUME Owned, UNCHANGED castingVars PROVE Owned'
    OBVIOUS
  <2>1. UNCHANGED <<live, newest, tools, registry, link, pinned, cast, lapsed, tried>>
    BY DEF castingVars
  <2>2. CastingTyped'
    BY <2>1 DEF Owned, CastingTyped, Castings, Names, Named
  <2>3. Registers'
    BY <2>1, RegistersStay DEF Owned
  <2>4. ASSUME NEW d \in Conversation PROVE (Led(cast[d]) /\ Equipped(cast[d]))'
    BY <2>1 DEF Owned, Led, OfLink, Named, Equipped, Assigned, Ids
  <2> QED
    BY <2>1, <2>2, <2>3, <2>4 DEF Owned
<1>2. Owned /\ [CastingNext]_castingVars => Owned'
  <2> SUFFICES ASSUME Owned, [CastingNext]_castingVars PROVE Owned'
    OBVIOUS
  <2>1. CASE CastingNext
    BY <2>1, SpiritsChange, ToolsChange, Restarts, Selects, Loads, Finds, Enters, RoutesTurn, Finishes
       DEF CastingNext
  <2> QED
    BY <1>1, <2>1
<1> QED
  BY <1>2, CastingStarts, PTL DEF CastingSpec

\* However operators edit Spirits and HTTP tools while turns run, in whatever order the turns of the
\* process load them and register the tools, and whenever it restarts: a turn reasons as a Spirit that
\* its pin, its Link or its router gives it, with the tools of that Spirit's version, each registered
\* under its name unless another came first; and it fails to find one for the reasons that
\* CastIsOwn lists only (pipeline_step_agent.go, pipeline_step_http_tools.go, action_registry.go).
THEOREM CastsAreOwn == CastingSpec => []CastIsOwn
<1>1. Owned => CastIsOwn
  <2> SUFFICES ASSUME Owned PROVE CastIsOwn
    OBVIOUS
  <2> SUFFICES ASSUME NEW c \in Conversation
               PROVE  LET r == cast[c] IN
       /\ r.step = "reason" =>
             /\ \/ r.by = "pin" \/ (r.by = "link" /\ OfLink(r.name))
                \/ r.by = "router" /\ \E n \in r.scouts : r.name \in SubNames[n]
             /\ r.by # "router" => r.scouts = {r.name}
             /\ r.by = "router" => r.offered = {}
             /\ \A e \in r.offered :
                   Shadowed(e) \/ registry[e.name] = [id |-> e.id, revision |-> e.revision]
             /\ r.by # "router" /\ ~r.excused =>
                   Assigned(r) \subseteq r.late \cup {e.id : e \in r.offered}
       /\ r.step = "failed" =>
             \/ r.excused \/ r.name \in lapsed \cup Cased \cup (Named \ Name)
             \/ r.name = "DEFAULT" /\ link.allowed = <<>>
    BY DEF CastIsOwn
  <2>1. cast[c] \in Castings /\ Led(cast[c]) /\ Equipped(cast[c]) /\ Registers
    BY DEF Owned, CastingTyped
  <2>2. cast[c].by \in {"pin", "link", "router"}
    BY <2>1 DEF Castings
  <2>3. \A e \in cast[c].offered : Shadowed(e) \/ registry[e.name] = Behind(e)
    BY <2>1 DEF Equipped, Registers
  <2> QED
    BY <2>1, <2>2, <2>3 DEF Led, Equipped, Behind, Ids
<1> QED
  BY <1>1, OwnedHolds, PTL

-----------------------------------------------------------------------------
(* Generation: indices in order, and the answer that a stream carries. *)

\* Indices up to one of them.
LEMMA UpToFinite ==
  ASSUME NEW S \in SUBSET Nat, IsFiniteSet(S), NEW i \in Nat
  PROVE  /\ IsFiniteSet({k \in S : k <= i})
         /\ Cardinality({k \in S : k <= i}) \in Nat /\ Cardinality(S) \in Nat
         /\ Cardinality({k \in S : k <= i}) <= Cardinality(S)
<1> DEFINE T == {k \in S : k <= i}
<1>1. T \in SUBSET S
  OBVIOUS
<1> HIDE DEF T
<1>2. IsFiniteSet(T) /\ Cardinality(T) <= Cardinality(S)
  BY <1>1, FS_Subset
<1>3. Cardinality(T) \in Nat /\ Cardinality(S) \in Nat
  BY <1>2, FS_CardinalityType
<1> QED
  BY <1>2, <1>3 DEF T

\* In order there are as many.
LEMMA OrderIsSeq ==
  ASSUME NEW S \in SUBSET Nat, IsFiniteSet(S)
  PROVE  /\ Cardinality(S) \in Nat
         /\ Ascending(S) \in Seq({Ascending(S)[j] : j \in 1..Cardinality(S)})
         /\ Len(Ascending(S)) = Cardinality(S) /\ DOMAIN Ascending(S) = 1..Cardinality(S)
<1> DEFINE n == Cardinality(S)
           X == {Ascending(S)[j] : j \in 1..n}
<1>1. n \in Nat
  BY FS_CardinalityType
<1>2. Ascending(S) \in [1..n -> X]
  BY DEF Ascending
<1> HIDE DEF X, n
<1>3. Ascending(S) \in Seq(X)
  BY <1>1, <1>2
<1>4. Len(Ascending(S)) = n
  BY <1>1, <1>2, <1>3, LenProperties
<1> QED
  BY <1>1, <1>2, <1>3, <1>4 DEF X, n

\* Of the indices up to n there are none after those of all that are up to n.
LEMMA OrderOfFirst ==
  ASSUME NEW S \in SUBSET Nat, IsFiniteSet(S), NEW n \in Nat,
         NEW j \in 1..Cardinality({k \in S : k <= n})
  PROVE  Ascending({k \in S : k <= n})[j] = Ascending(S)[j]
<1> DEFINE T == {k \in S : k <= n}
           upto(A, i) == {k \in A : k <= i}
<1>1. T \in SUBSET S /\ T \in SUBSET Nat
  OBVIOUS
<1>2. /\ IsFiniteSet(T) /\ Cardinality(T) \in Nat /\ Cardinality(S) \in Nat
      /\ Cardinality(T) <= Cardinality(S)
  BY UpToFinite, Zenon
<1>3. j \in 1..Cardinality(S) /\ j <= Cardinality(T) /\ j \in Nat
  <2> HIDE DEF T
  <2>1. j \in 1..Cardinality(T)
    BY DEF T
  <2> QED
    BY <1>2, <2>1
<1>4. {i \in T : Cardinality(upto(T, i)) = j} = {i \in S : Cardinality(upto(S, i)) = j}
  <2>1. ASSUME NEW i \in T PROVE upto(T, i) = upto(S, i)
    <3>1. ASSUME NEW k \in S PROVE k <= i => k <= n
      <4>1. i \in Nat /\ i <= n /\ k \in Nat
        OBVIOUS
      <4> HIDE DEF T, upto
      <4> QED
        BY <4>1
    <3> QED
      BY <3>1, Zenon
  <2>2. ASSUME NEW i \in S, i \notin T PROVE Cardinality(upto(S, i)) # j
    <3>1. T \in SUBSET upto(S, i) /\ i \notin T /\ i \in upto(S, i)
      <4>1. ASSUME NEW k \in T PROVE k <= i
        <5>1. k \in Nat /\ i \in Nat /\ k <= n /\ ~(i <= n)
          BY <2>2
        <5> HIDE DEF T, upto
        <5> QED
          BY <5>1
      <4>2. i \in Nat /\ i <= i
        OBVIOUS
      <4> QED
        BY <1>1, <2>2, <4>1, <4>2, Zenon
    <3>2. IsFiniteSet(upto(S, i)) /\ Cardinality(upto(S, i)) \in Nat
      BY UpToFinite
    <3> HIDE DEF upto, T
    <3>3. Cardinality(T) < Cardinality(upto(S, i))
      BY <1>2, <3>1, <3>2, FS_Subset
    <3> QED
      BY <1>2, <1>3, <3>2, <3>3
  <2> HIDE DEF upto
  <2> QED
    BY <1>1, <2>1, <2>2
<1>5. (CHOOSE i \in T : Cardinality(upto(T, i)) = j) = (CHOOSE i \in S : Cardinality(upto(S, i)) = j)
  <2> HIDE DEF upto, T
  <2> DEFINE A == {i \in T : Cardinality(upto(T, i)) = j}
             B == {i \in S : Cardinality(upto(S, i)) = j}
  <2>1. (CHOOSE i \in T : Cardinality(upto(T, i)) = j) = CHOOSE i : i \in A
    OBVIOUS
  <2>2. (CHOOSE i \in S : Cardinality(upto(S, i)) = j) = CHOOSE i : i \in B
    OBVIOUS
  <2> QED
    BY <1>4, <2>1, <2>2
<1> QED
  BY <1>3, <1>5 DEF Ascending

\* One that comes after all others is the last.
LEMMA OrderOfMore ==
  ASSUME NEW T \in SUBSET Nat, IsFiniteSet(T), NEW x \in Nat, \A k \in T : k < x
  PROVE  Ascending(T \cup {x}) = Append(Ascending(T), x)
<1> DEFINE S == T \cup {x}
           upto(A, i) == {k \in A : k <= i}
           n == Cardinality(T)
<1>1. S \in SUBSET Nat /\ x \notin T /\ x \in S
  OBVIOUS
<1>2. n \in Nat /\ IsFiniteSet(S) /\ Cardinality(S) = n + 1
  BY <1>1, FS_AddElement, FS_CardinalityType
<1>3. T = {k \in S : k <= x - 1} /\ (x = 0 => T = {})
  <2>1. ASSUME NEW k \in Nat PROVE (k <= x - 1 <=> k < x) /\ ~(x <= x - 1) /\ ~(k < 0)
    OBVIOUS
  <2>2. \A k \in T : k <= x - 1
    BY <2>1
  <2>3. ~(x <= x - 1)
    OBVIOUS
  <2>4. T = {k \in S : k <= x - 1}
    BY <1>1, <2>2, <2>3, Zenon
  <2>5. x = 0 => T = {}
    BY <2>1, Zenon
  <2> QED
    BY <2>4, <2>5
<1>4. ASSUME NEW j \in 1..n PROVE Ascending(S)[j] = Ascending(T)[j]
  <2>1. x # 0 /\ x - 1 \in Nat
    <3>1. n # 0
      BY <1>2
    <3>2. T # {}
      BY <3>1, FS_EmptySet
    <3>3. x # 0
      BY <1>3, <3>2, Zenon
    <3> HIDE DEF S, upto, n
    <3> QED
      BY <3>3
  <2> HIDE DEF S
  <2> QED
    BY <1>1, <1>2, <1>3, <2>1, OrderOfFirst
<1>5. Ascending(S)[n + 1] = x
  <2>1. ASSUME NEW i \in S PROVE Cardinality(upto(S, i)) = n + 1 <=> i = x
    <3>1. CASE i = x
      <4>1. \A k \in S : k <= x
        <5>1. ASSUME NEW k \in Nat, k < x PROVE k <= x
          BY <5>1
        <5>2. x <= x
          OBVIOUS
        <5> QED
          BY <5>1, <5>2, Zenon
      <4>2. upto(S, x) = S
        BY <4>1
      <4> HIDE DEF S, upto
      <4> QED
        BY <1>2, <3>1, <4>2
    <3>2. CASE i # x
      <4>1. upto(S, i) \in SUBSET T
        BY <3>2
      <4> HIDE DEF S, upto
      <4>2. Cardinality(upto(S, i)) <= n
        BY <4>1, FS_Subset
      <4>3. Cardinality(upto(S, i)) \in Nat
        BY <4>1, FS_Subset, FS_CardinalityType
      <4> QED
        BY <1>2, <3>2, <4>2, <4>3
    <3> QED
      BY <3>1, <3>2
  <2>2. (CHOOSE i \in S : Cardinality(upto(S, i)) = n + 1) = x
    <3> HIDE DEF S, upto, n
    <3> QED
      BY <1>1, <2>1
  <2>3. n + 1 \in 1..Cardinality(S)
    <3> HIDE DEF S, n
    <3> QED
      BY <1>2
  <2> HIDE DEF S, n
  <2> QED
    BY <2>2, <2>3 DEF Ascending
<1> HIDE DEF S, n
<1> DEFINE X == {Ascending(T)[j] : j \in 1..n} \cup {x}
<1>6. Ascending(T) \in Seq(X) /\ Len(Ascending(T)) = n
  <2>1. Ascending(T) \in [1..n -> X]
    BY DEF Ascending, n
  <2> HIDE DEF X
  <2> QED
    BY <1>2, <2>1, OrderIsSeq DEF n
<1>7. x \in X
  OBVIOUS
<1>8. /\ DOMAIN Append(Ascending(T), x) = 1..(n + 1) /\ DOMAIN Ascending(S) = 1..(n + 1)
      /\ Append(Ascending(T), x) \in Seq(X) /\ Append(Ascending(T), x)[n + 1] = x
      /\ \A j \in 1..n : Append(Ascending(T), x)[j] = Ascending(T)[j]
  <2> HIDE DEF X
  <2>1. Append(Ascending(T), x) \in Seq(X) /\ Len(Append(Ascending(T), x)) = n + 1
    BY <1>2, <1>6, <1>7, AppendProperties
  <2>2. DOMAIN Ascending(S) = 1..(n + 1)
    BY <1>2 DEF Ascending
  <2> QED
    BY <1>2, <1>6, <1>7, <2>1, <2>2, AppendProperties, LenProperties
<1>9. \A j \in 1..(n + 1) : Ascending(S)[j] = Append(Ascending(T), x)[j]
  BY <1>2, <1>4, <1>5, <1>8
<1>10. Ascending(S) = [j \in DOMAIN Ascending(S) |-> Ascending(S)[j]]
  BY DEF Ascending
<1>11. Append(Ascending(T), x) = [j \in 1..(n + 1) |-> Append(Ascending(T), x)[j]]
  <2> HIDE DEF X
  <2>1. Append(Ascending(T), x) \in [1..Len(Append(Ascending(T), x)) -> X]
    BY <1>8, LenProperties
  <2>2. DOMAIN Append(Ascending(T), x) = 1..Len(Append(Ascending(T), x))
    BY <1>8, LenProperties
  <2> QED
    BY <1>8, <2>1, <2>2
<1> QED
  BY <1>8, <1>9, <1>10, <1>11 DEF S

\* What arrived of an answer has the first of its texts.
LEMMA FirstAreFirst ==
  ASSUME NEW parts, NEW n \in Nat, NEW m \in Nat, DOMAIN parts = 1..m, n <= m, NEW kind
  PROVE  IsPrefix(Ascending({i \in 1..n : parts[i] = kind}), Positions(parts, kind))
<1> DEFINE S == {i \in DOMAIN parts : parts[i] = kind}
           T == {i \in 1..n : parts[i] = kind}
           U == {k \in S : k <= n}
<1>1. T = U
  <2>1. ASSUME NEW k PROVE k \in 1..n <=> k \in 1..m /\ k <= n
    OBVIOUS
  <2> QED
    BY <2>1
<1>2. S \in SUBSET Nat /\ U \in SUBSET Nat
  OBVIOUS
<1>3. IsFiniteSet(S)
  <2>1. S \in SUBSET (1..m)
    OBVIOUS
  <2>2. m \in Int /\ 1 \in Int
    OBVIOUS
  <2> HIDE DEF S
  <2> QED
    BY <2>1, <2>2, FS_Interval, FS_Subset
<1> HIDE DEF S, T
<1>4. IsFiniteSet(U) /\ Cardinality(U) \in Nat /\ Cardinality(S) \in Nat /\ Cardinality(U) <= Cardinality(S)
  BY <1>2, <1>3, UpToFinite, Zenon
<1>5. \A j \in 1..Cardinality(U) : Ascending(U)[j] = Ascending(S)[j]
  BY <1>2, <1>3, OrderOfFirst
<1> DEFINE X == {Ascending(S)[j] : j \in 1..Cardinality(S)}
<1> HIDE DEF U
<1>6. /\ Len(Ascending(U)) = Cardinality(U) /\ Len(Ascending(S)) = Cardinality(S)
      /\ Ascending(S) \in Seq(X) /\ DOMAIN Ascending(U) = 1..Cardinality(U)
      /\ Ascending(U) \in Seq({Ascending(U)[j] : j \in 1..Cardinality(U)})
  BY <1>2, <1>3, <1>4, OrderIsSeq
<1>7. \A j \in 1..Cardinality(U) : Ascending(S)[j] \in X /\ Ascending(U)[j] \in X
  BY <1>4, <1>5
<1> DEFINE u == Ascending(U)
           s == Ascending(S)
           c == Cardinality(U)
<1> HIDE DEF X
<1>8. SubSeq(s, 1, c) = u /\ SubSeq(u, 1, c) = u
  <2>1. /\ SubSeq(s, 1, c) \in Seq(X) /\ Len(SubSeq(s, 1, c)) = c
        /\ \A j \in 1..c : SubSeq(s, 1, c)[j] = s[j]
    <3>1. \A i \in 1..c : s[i] \in X
      BY <1>7
    <3> HIDE DEF s, c
    <3>2. c \in Nat
      BY <1>4 DEF c
    <3> QED
      BY <3>1, <3>2, SubSeqProperties
  <2>2. /\ SubSeq(u, 1, c) \in Seq(X) /\ Len(SubSeq(u, 1, c)) = c
        /\ \A j \in 1..c : SubSeq(u, 1, c)[j] = u[j]
    <3>1. \A i \in 1..c : u[i] \in X
      BY <1>7
    <3> HIDE DEF u, c
    <3>2. c \in Nat
      BY <1>4 DEF c
    <3> QED
      BY <3>1, <3>2, SubSeqProperties
  <2>3. u \in Seq(X)
    BY <1>4, <1>6, <1>7
  <2>4. Len(u) = c /\ \A j \in 1..c : u[j] = s[j]
    BY <1>5, <1>6
  <2> HIDE DEF u, s, c
  <2> QED
    BY <2>1, <2>2, <2>3, <2>4, SeqEqual
<1>9. IsPrefix(Ascending(U), Ascending(S))
  BY <1>4, <1>6, <1>8 DEF IsPrefix
<1> QED
  BY <1>1, <1>9 DEF Positions, S, T

TextsIn(parts, n) == {i \in 1..n : parts[i] = "text"}

\* How the response of the loop comes from the answer.
Carried ==
    \/ got = Buffered(answer.parts, answer.finish)
    \/ gap = "quiet" /\ service # "ollama"
    \/ demand.streamed /\ answer.bare
       /\ got = [Buffered(answer.parts, answer.finish) EXCEPT !.stop = "complete"]

\* What was passed on are the texts that arrived; who streams can; what came of it is the answer.
Generated ==
    /\ service \in Provider /\ (service = "bedrock" => ~demand.streamed)
    /\ answer.parts \in Seq({"text", "call", "broken"})
    /\ answer.finish = "none" => answer.parts = << >> /\ (answer.bare \/ point = "new")
    /\ answer.bare => service = "gemini"
    /\ sent \in 0..Len(answer.parts) /\ gap \in {"none", "noticed", "quiet"}
    /\ point = "new" => sent = 0
    /\ point = "streaming" => demand.streamed
    /\ shown = Ascending(TextsIn(answer.parts, sent))
    /\ point = "done" /\ got # Refusal => Carried

LEMMA AscendingEmpty == Ascending({}) = << >>
  BY FS_EmptySet DEF Ascending

\* Each step keeps it.
LEMMA GenerationStarts == GenerationInit => Generated
<1> SUFFICES ASSUME GenerationInit PROVE Generated
  OBVIOUS
<1>1. answer.parts = << >> /\ ~answer.bare /\ TextsIn(answer.parts, 0) = {}
  BY DEF GenerationInit, NoAnswer, TextsIn
<1>2. << >> \in Seq({"text", "call", "broken"}) /\ 0 \in 0..Len(answer.parts)
  BY <1>1
<1> QED
  BY <1>1, <1>2, AscendingEmpty DEF GenerationInit, Generated

LEMMA Asks == Generated /\ AskModel => Generated'
<1> SUFFICES ASSUME Generated, AskModel PROVE Generated'
  OBVIOUS
<1>1. /\ point = "new" /\ answer' \in Sayable /\ UNCHANGED <<service, demand, sent, gap, shown, got>>
      /\ point' = IF demand.streamed THEN "streaming" ELSE "asked"
  BY DEF AskModel
<1>2. /\ answer'.parts \in SeqOf({"text", "call", "broken"}, MaxParts)
      /\ answer'.finish = "none" => answer'.parts = << >> /\ answer'.bare
      /\ answer'.bare => service = "gemini"
  BY <1>1 DEF Sayable
<1>3. answer'.parts \in Seq({"text", "call", "broken"}) /\ 0 \in 0..Len(answer'.parts)
  <2>1. PICK m \in 0..MaxParts : answer'.parts \in [1..m -> {"text", "call", "broken"}]
    BY <1>2 DEF SeqOf
  <2>2. answer'.parts \in Seq({"text", "call", "broken"})
    BY <2>1, PartsAssumption
  <2> QED
    BY <2>2, LenProperties
<1>4. TextsIn(answer.parts, 0) = {} /\ TextsIn(answer'.parts, 0) = {}
  BY DEF TextsIn
<1> QED
  BY <1>1, <1>2, <1>3, <1>4 DEF Generated

LEMMA Buffers == Generated /\ GenerateResponse => Generated'
<1> SUFFICES ASSUME Generated, GenerateResponse PROVE Generated'
  OBVIOUS
<1>1. /\ point' = "done" /\ point = "asked"
      /\ got' \in {Buffered(answer.parts, answer.finish), Refusal}
      /\ UNCHANGED <<service, demand, answer, sent, gap, shown>>
  BY DEF GenerateResponse
<1>2. Buffered(answer.parts, answer.finish)' = Buffered(answer.parts, answer.finish)
  BY <1>1 DEF Buffered, OpenAIResponse, AnthropicResponse, GeminiResponse, GeminiParsed, BedrockResponse,
     OllamaResponse
<1>3. got' # Refusal => Carried'
  BY <1>1, <1>2 DEF Carried
<1> QED
  BY <1>1, <1>3 DEF Generated

LEMMA PartArrives == Generated /\ StreamPart => Generated'
<1> SUFFICES ASSUME Generated, StreamPart PROVE Generated'
  OBVIOUS
<1> DEFINE T == TextsIn(answer.parts, sent)
<1>1. /\ point = "streaming" /\ sent < Len(answer.parts) /\ sent' = sent + 1
      /\ shown' = IF answer.parts[sent + 1] = "text" THEN Append(shown, sent + 1) ELSE shown
      /\ UNCHANGED <<service, demand, answer, point, gap, got>>
  BY DEF StreamPart
<1>2. sent \in Nat /\ Len(answer.parts) \in Nat /\ sent' \in 0..Len(answer.parts)
  BY <1>1, LenProperties DEF Generated
<1>3. TextsIn(answer.parts, sent + 1) =
         IF answer.parts[sent + 1] = "text" THEN T \cup {sent + 1} ELSE T
  <2>1. \A i : i \in 1..(sent + 1) <=> i \in 1..sent \/ i = sent + 1
    BY <1>2
  <2> QED
    BY <2>1 DEF TextsIn
<1>4. T \in SUBSET Nat /\ IsFiniteSet(T) /\ \A i \in T : i < sent + 1
  <2>1. T \in SUBSET (1..sent) /\ \A i \in 1..sent : i \in Nat /\ i < sent + 1
    BY <1>2 DEF TextsIn
  <2>2. IsFiniteSet(1..sent)
    BY <1>2, FS_Interval
  <2> HIDE DEF T
  <2> QED
    BY <2>1, <2>2, FS_Subset
<1>5. Ascending(T \cup {sent + 1}) = Append(Ascending(T), sent + 1)
  <2> HIDE DEF T
  <2>1. sent + 1 \in Nat
    BY <1>2
  <2> QED
    BY <1>4, <2>1, OrderOfMore
<1>6. shown' = Ascending(TextsIn(answer.parts, sent'))
  BY <1>1, <1>3, <1>5 DEF Generated
<1> QED
  BY <1>1, <1>2, <1>6 DEF Generated

\* The whole stream came, and no error: the Done event says what a response would have said.
LEMMA DoneIsBuffered ==
  ASSUME Generated, point = "streaming", gap = "none", sent = Len(answer.parts),
         ~answer.bare
  PROVE  StreamDone = Buffered(answer.parts, answer.finish)
<1>1. Arrived = answer.parts /\ FinishSeen = answer.finish
  <2>1. SubSeq(answer.parts, 1, Len(answer.parts)) = answer.parts
    BY SubSeqFull DEF Generated
  <2> QED
    BY <2>1 DEF Arrived, FinishSeen
<1>2. service \in {"openai", "anthropic", "gemini", "ollama"}
  BY ServiceAssumption DEF Generated
<1>3. answer.finish # "none"
  BY DEF Generated
<1> QED
  BY <1>1, <1>2, <1>3 DEF StreamDone, Buffered, OpenAIDone, AnthropicDone, GeminiDone, OllamaDone,
     GeminiResponse

\* A response that is none has the texts of the answer for its content.
LEMMA ContentIsTexts ==
  ASSUME service \in Provider, NEW parts, NEW finish, Buffered(parts, finish) # Refusal
  PROVE  [Buffered(parts, finish) EXCEPT !.content = Positions(parts, "text")] = Buffered(parts, finish)
<1>1. \E stop : Buffered(parts, finish) = Response(parts, stop)
  BY ServiceAssumption DEF Buffered, OpenAIResponse, AnthropicResponse, GeminiResponse, GeminiParsed,
     BedrockResponse, OllamaResponse
<1> QED
  BY <1>1 DEF Response

\* The reason why Gemini stopped is not seen: all else is.
LEMMA BareIsComplete ==
  ASSUME Generated, point = "streaming", gap = "none", sent = Len(answer.parts), answer.bare
  PROVE  LET whole == Buffered(answer.parts, answer.finish)
             r == [StreamDone EXCEPT !.content = Positions(answer.parts, "text")]
         IN  r = whole \/ r = [whole EXCEPT !.stop = "complete"]
<1>1. Arrived = answer.parts
  BY SubSeqFull DEF Generated, Arrived
<1>2. StreamDone = GeminiParsed(answer.parts, "none") /\ service = "gemini"
  BY <1>1 DEF Generated, StreamDone, GeminiDone
<1>3. CASE answer.finish = "none"
  <2>1. answer.parts = << >> /\ ToSet(answer.parts) = {}
    BY <1>3 DEF Generated, ToSet
  <2>2. \A kind : Positions(answer.parts, kind) = << >>
    <3>1. \A kind : {i \in DOMAIN answer.parts : answer.parts[i] = kind} = {}
      BY <2>1
    <3> QED
      BY <3>1, AscendingEmpty DEF Positions
  <2>3. StreamDone = [content |-> << >>, calls |-> << >>, stop |-> "complete"]
    BY <1>2, <2>1, <2>2 DEF GeminiParsed, Response, GeminiStop
  <2>4. Buffered(answer.parts, answer.finish) = Refusal
    BY <1>2, <1>3 DEF Buffered, GeminiResponse
  <2> QED
    BY <2>2, <2>3, <2>4 DEF Refusal
<1>4. CASE answer.finish # "none"
  <2>1. Buffered(answer.parts, answer.finish) = GeminiParsed(answer.parts, answer.finish)
    BY <1>2, <1>4 DEF Buffered, GeminiResponse
  <2> QED
    BY <1>2, <2>1 DEF GeminiParsed, Response, GeminiStop
<1> QED
  BY <1>3, <1>4

LEMMA StreamEnds == Generated /\ AssembleStream => Generated'
<1> SUFFICES ASSUME Generated, AssembleStream PROVE Generated'
  OBVIOUS
<1>1. /\ point = "streaming" /\ point' = "done" /\ (sent = Len(answer.parts) \/ gap # "none")
      /\ UNCHANGED <<service, demand, answer, sent, gap, shown>>
      /\ \/ gap # "noticed" /\ StreamDone # Refusal /\ got' = [StreamDone EXCEPT !.content = shown]
         \/ got' = Refusal
  BY DEF AssembleStream
<1>2. ASSUME got' # Refusal, ~(gap = "quiet" /\ service # "ollama")
      PROVE  \/ got' = Buffered(answer.parts, answer.finish)
             \/ demand.streamed /\ answer.bare
                /\ got' = [Buffered(answer.parts, answer.finish) EXCEPT !.stop = "complete"]
  <2>1. gap # "noticed" /\ StreamDone # Refusal /\ got' = [StreamDone EXCEPT !.content = shown]
    BY <1>1, <1>2
  <2>2. gap # "quiet"
    BY <1>2, <2>1 DEF StreamDone, OllamaDone
  <2>3. gap = "none" /\ sent = Len(answer.parts)
    BY <1>1, <2>1, <2>2 DEF Generated
  <2>4. shown = Positions(answer.parts, "text")
    BY <2>3, LenProperties DEF Generated, Positions, TextsIn
  <2>5. CASE ~answer.bare
    <3>1. StreamDone = Buffered(answer.parts, answer.finish)
      BY <1>1, <2>3, <2>5, DoneIsBuffered
    <3> QED
      BY <2>1, <2>4, <3>1, ContentIsTexts DEF Generated
  <2>6. CASE answer.bare
    BY <1>1, <2>1, <2>3, <2>4, <2>6, BareIsComplete DEF Generated
  <2> QED
    BY <2>5, <2>6
<1>3. Buffered(answer.parts, answer.finish)' = Buffered(answer.parts, answer.finish)
  BY <1>1 DEF Buffered, OpenAIResponse, AnthropicResponse, GeminiResponse, GeminiParsed, BedrockResponse,
     OllamaResponse
<1> QED
  BY <1>1, <1>2, <1>3 DEF Generated, Carried

LEMMA GeneratedHolds == GenerationSpec => []Generated
<1>1. Generated /\ [GenerationNext]_generationVars => Generated'
  <2>1. CASE StreamBreaks
    BY <2>1 DEF Generated, Carried, StreamBreaks
  <2>2. CASE UNCHANGED generationVars
    BY <2>2 DEF generationVars, Generated, Carried, Buffered, OpenAIResponse, AnthropicResponse, GeminiResponse,
       GeminiParsed, BedrockResponse, OllamaResponse
  <2> QED
    BY <2>1, <2>2, Asks, Buffers, PartArrives, StreamEnds DEF GenerationNext
<1> QED
  BY <1>1, GenerationStarts, PTL DEF GenerationSpec

\* Whatever a model answers, in however many parts, and wherever its stream breaks off: what the loop
\* takes for the answer is what a buffered call returns of it, and what the user has seen is its
\* beginning, with the exceptions that AnswersAreWhole names (assembleStream; GenerateStream of the
\* Oracles).
THEOREM AnswersStayWhole == GenerationSpec => []AnswersAreWhole
<1>1. Generated => AnswersAreWhole
  <2> SUFFICES ASSUME Generated PROVE AnswersAreWhole
    OBVIOUS
  <2>1. DOMAIN answer.parts = 1..Len(answer.parts) /\ Len(answer.parts) \in Nat
    BY LenProperties DEF Generated
  <2>2. sent \in Nat /\ sent <= Len(answer.parts)
    BY <2>1 DEF Generated
  <2>3. IsPrefix(shown, Positions(answer.parts, "text"))
    BY <2>1, <2>2, FirstAreFirst DEF Generated, TextsIn
  <2> QED
    BY <2>3 DEF Generated, Carried, AnswersAreWhole
<1> QED
  BY <1>1, GeneratedHolds, PTL
=============================================================================
