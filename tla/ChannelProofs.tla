---------------------------- MODULE ChannelProofs ---------------------------
(* What passes through channels that repeat, lose and doubt: the messages    *)
(* that come in as webhooks, with their files, and those that a turn sends.  *)
EXTENDS Ingress, Outbound, Media, Dialect, FiniteSetTheorems, SequenceTheorems,
        WellFoundedInduction, TLAPS

-----------------------------------------------------------------------------
(* Ingress: a key stands for a turn, and an answer for what was done. *)

How == {"waiting", "running", "done", "failed"}
Serving == {NoRequest} \cup UNION {[hook : {w}, todo : [PulsesOf(w) -> How]] : w \in Webhook}

InTurn(p) == \E d \in Handler : p \in Todo(d, "running")
\* It had its turn or is in it, or a task will begin it.
Taken(p) == handled[p] > 0 \/ p \in spoilt \/ executing[p] > 0 \/ InTurn(p)
Minded(p) == Taken(p) \/ tasks[p] > 0

Served ==
    /\ serving \in [Handler -> Serving] /\ mode \in {"sync", "async"}
    /\ {tasks, executing, handled} \subseteq [Posted -> Nat]
    /\ seen \subseteq Posted /\ acked \subseteq Webhook

\* A key is recorded by a turn, and a request ticks off what is minded.
Recorded ==
    /\ \A p \in seen : Taken(p)
    /\ \A d \in Handler : /\ \A p \in Todo(d, "done") : Minded(p)
                          /\ Todo(d, "failed") \subseteq spoilt
                          /\ mode = "async" => Todo(d, "running") = {}
    /\ \A w \in acked : \A p \in PulsesOf(w) : Minded(p)

\* While its key stands for it, a Pulse is in one turn or had one.
OnceOnly(p) ==
    /\ p \notin seen => handled[p] = 0 /\ executing[p] = 0 /\ ~InTurn(p)
    /\ InTurn(p) => handled[p] = 0 /\ executing[p] = 0
    /\ handled[p] + executing[p] <= 1
    /\ \A d, e \in Handler : p \in Todo(d, "running") \cap Todo(e, "running") => d = e

Received == Served /\ Recorded /\ (Keyed => \A p \in Posted \ admitted : OnceOnly(p))

LEMMA PulsesArePosted == \A w \in Webhook : PulsesOf(w) \subseteq Posted \ Own
<1> SUFFICES ASSUME NEW w \in Webhook, NEW p \in PulsesOf(w) PROVE p \in Posted \ Own
  OBVIOUS
<1>1. Carries[w] \in Seq(Posted)
  BY PayloadAssumption
<1>2. PICK i \in DOMAIN Carries[w] : p = Carries[w][i] /\ Carries[w][i] \notin Own
  BY DEF PulsesOf
<1> QED
  BY <1>1, <1>2

\* Every message of a webhook is in a Pulse, which is named for the first one of its sender.
LEMMA MessagesAreCovered ==
  ASSUME NEW w \in Webhook, NEW m \in Messages(w)
  PROVE  \E p \in PulsesOf(w) : m \in MessagesOf(p)
<1> DEFINE s == Carries[w]
           read == {i \in DOMAIN s : s[i] \notin Own}
           same == {i \in read : Sender[s[i]] = Sender[m]}
<1>1. s \in Seq(Posted) /\ ToSet(s) = {s[i] : i \in DOMAIN s} /\ DOMAIN s \subseteq Nat
  BY PayloadAssumption DEF ToSet
<1>2. PICK i \in read : s[i] = m
  BY <1>1 DEF Messages
<1>3. m \in Posted \ Own /\ m \in ToSet(s)
  BY <1>1, <1>2
<1>4. CASE receptor # "whatsapp_360dialog"
  <2>1. m \in PulsesOf(w)
    BY <1>2, <1>4 DEF PulsesOf
  <2> QED
    BY <1>4, <2>1 DEF MessagesOf
<1>5. CASE receptor = "whatsapp_360dialog"
  <2>1. same \subseteq Nat /\ i \in same
    BY <1>1, <1>2
  <2>2. PICK k \in same : \A j \in same : ~(<<j, k>> \in OpToRel(<, Nat))
    <3> HIDE DEF same
    <3> QED
      BY <2>1, NatLessThanWellFounded, WFMin
  <2>3. \A j \in same : ~(j < k)
    BY <2>1, <2>2 DEF OpToRel
  <2>4. k \in read /\ Sender[s[k]] = Sender[m] /\ \A j \in read : j < k => Sender[s[j]] # Sender[s[k]]
    BY <2>3
  <2>5. s[k] \in PulsesOf(w)
    BY <2>4, <1>5 DEF PulsesOf
  <2>6. s[k] \in ToSet(s)
    BY <1>1, <2>4
  <2>7. Grouped(m, s[k])
    BY <1>3, <2>4, <2>6 DEF Grouped
  <2> QED
    BY <1>3, <1>5, <2>5, <2>7 DEF MessagesOf
<1> QED
  BY <1>4, <1>5

\* One Pulse of a request goes on.
Marked(d, p, how) ==
    /\ serving' \in [Handler -> Serving']
    /\ Todo(d, how)' = Todo(d, how) \cup {p}
    /\ \A h \in How \ {how} : Todo(d, h)' = Todo(d, h) \ {p}
    /\ \A e \in Handler \ {d}, h \in How : Todo(e, h)' = Todo(e, h)
LEMMA MarkMarks ==
  ASSUME Served, NEW d \in Handler, NEW h \in How, NEW p \in Todo(d, h), NEW how \in How,
         Mark(d, p, how), UNCHANGED receptor
  PROVE  Marked(d, p, how)
<1>1. \A w : PulsesOf(w)' = PulsesOf(w)
  BY DEF PulsesOf
<1>2. Serving' = Serving
  BY <1>1 DEF Serving
<1>3. serving[d] \in Serving /\ serving[d] # NoRequest /\ p \in DOMAIN serving[d].todo
  BY DEF Served, Todo, NoRequest
<1>4. PICK w \in Webhook : serving[d] \in [hook : {w}, todo : [PulsesOf(w) -> How]]
  BY <1>3 DEF Serving
<1> DEFINE r == [serving[d] EXCEPT !.todo[p] = how]
<1>5. /\ r \in [hook : {w}, todo : [PulsesOf(w) -> How]]
      /\ r.todo = [serving[d].todo EXCEPT ![p] = how]
  BY <1>3, <1>4
<1>6. serving' = [serving EXCEPT ![d] = r]
  BY DEF Mark
<1> HIDE DEF r
<1>7. serving' \in [Handler -> Serving]
  BY <1>5, <1>6 DEF Served, Serving
<1>8. serving'[d] = r /\ \A e \in Handler \ {d} : serving'[e] = serving[e]
  BY <1>6 DEF Served
<1>9. /\ DOMAIN serving[d].todo = PulsesOf(w) /\ DOMAIN r.todo = PulsesOf(w)
      /\ r.todo[p] = how /\ \A q \in PulsesOf(w) \ {p} : r.todo[q] = serving[d].todo[q]
      /\ p \in PulsesOf(w)
  BY <1>3, <1>4, <1>5
<1>10. /\ Todo(d, how)' = Todo(d, how) \cup {p}
       /\ \A k \in How \ {how} : Todo(d, k)' = Todo(d, k) \ {p}
  BY <1>8, <1>9 DEF Todo
<1>11. \A e \in Handler \ {d}, k \in How : Todo(e, k)' = Todo(e, k)
  BY <1>8 DEF Todo
<1> QED
  BY <1>2, <1>7, <1>10, <1>11 DEF Marked

\* A request ends.
Cleared(d) ==
    /\ serving' \in [Handler -> Serving'] /\ \A h \in How : Todo(d, h)' = {}
    /\ \A e \in Handler \ {d}, h \in How : Todo(e, h)' = Todo(e, h)
LEMMA EndClears ==
  ASSUME Served, NEW d \in Handler, serving' = [serving EXCEPT ![d] = NoRequest], UNCHANGED receptor
  PROVE  Cleared(d)
<1>1. \A w : PulsesOf(w)' = PulsesOf(w)
  BY DEF PulsesOf
<1>2. Serving' = Serving
  BY <1>1 DEF Serving
<1>3. serving' \in [Handler -> Serving] /\ serving'[d] = NoRequest
      /\ \A e \in Handler \ {d} : serving'[e] = serving[e]
  BY DEF Served, Serving
<1>4. DOMAIN NoRequest.todo = {}
  BY DEF NoRequest
<1> QED
  BY <1>2, <1>3, <1>4 DEF Cleared, Todo

LEMMA IngressStarts == IngressInit => Received
<1> SUFFICES ASSUME IngressInit PROVE Received
  OBVIOUS
<1>1. \A d \in Handler, h \in How : Todo(d, h) = {}
  BY DEF IngressInit, Todo, NoRequest
<1>2. Served
  BY DEF IngressInit, Served, Serving
<1>3. Recorded /\ \A p \in Posted : OnceOnly(p)
  BY <1>1 DEF IngressInit, Recorded, OnceOnly, InTurn, How
<1> QED
  BY <1>2, <1>3 DEF Received

\* What the idempotency check lets through, and what it records.
LEMMA CheckedIs ==
  ASSUME NEW p \in Posted, NEW fresh \in BOOLEAN, Checked(p, fresh)
  PROVE  /\ seen \subseteq seen' /\ seen' \subseteq seen \cup {p}
         /\ admitted \subseteq admitted'
         /\ ~fresh => p \in seen /\ seen' = seen
         /\ Keyed /\ fresh /\ p \notin admitted' => p \notin seen /\ p \in seen'
  BY DEF Checked

LEMMA IngressStep == Received /\ [IngressNext]_ingressVars => Received'
<1> SUFFICES ASSUME Received, [IngressNext]_ingressVars PROVE Received'
  OBVIOUS
<1>20. Served /\ Recorded /\ (Keyed => \A p \in Posted \ admitted : OnceOnly(p))
  BY DEF Received
<1>21. UNCHANGED receptor
  BY DEF IngressNext, ingressVars, Receive, Start, EndTurnOf, Dispatch, DispatchFails, ProcessEvent,
         IngestAsyncEvent, ServerDies, ExecuteTask, HandleExecuteEvent
<1>22. (Keyed' <=> Keyed) /\ \A w : PulsesOf(w)' = PulsesOf(w)
  BY <1>21 DEF Keyed, PulsesOf
<1>23. \A d \in Handler, h \in How : Todo(d, h) \subseteq Posted
  <2> SUFFICES ASSUME NEW d \in Handler, NEW h \in How, NEW p \in Todo(d, h) PROVE p \in Posted
    OBVIOUS
  <2>1. serving[d] \in Serving /\ serving[d] # NoRequest /\ p \in DOMAIN serving[d].todo
    BY <1>20 DEF Served, Todo, NoRequest
  <2>2. PICK w \in Webhook : serving[d] \in [hook : {w}, todo : [PulsesOf(w) -> How]]
    BY <2>1 DEF Serving
  <2> QED
    BY <2>1, <2>2, PulsesArePosted
<1>24. {"waiting", "running", "done", "failed"} = How
  BY DEF How
\* A request that ends leaves nothing undone but what a webhook that is not acked will repeat.
<1>25. ASSUME NEW d \in Handler, Cleared(d), UNCHANGED <<mode, seen, handled, executing, admitted>>,
              acked' \in SUBSET Webhook, \A w \in acked' : \A p \in PulsesOf(w) : Minded(p),
              tasks' \in [Posted -> Nat], \A p \in Posted : tasks'[p] >= tasks[p],
              spoilt' = spoilt \cup Todo(d, "running")
       PROVE  Received'
  <2>1. Served'
    BY <1>20, <1>25 DEF Served, Cleared
  <2>2. \A p \in Posted : /\ InTurn(p)' => InTurn(p)
                          /\ InTurn(p) => InTurn(p)' \/ p \in spoilt'
    BY <1>24, <1>25 DEF InTurn, Cleared
  <2>3. \A p \in Posted : (Taken(p) => Taken(p)') /\ (Minded(p) => Minded(p)')
    BY <1>20, <1>25, <2>2 DEF Taken, Minded, Served
  <2>4. Recorded'
    BY <1>20, <1>22, <1>23, <1>24, <1>25, <2>3, PulsesArePosted DEF Recorded, Cleared, Served
  <2>5. \A p \in Posted : OnceOnly(p) => OnceOnly(p)'
    BY <1>24, <1>25, <2>2 DEF OnceOnly, Cleared
  <2> QED
    BY <1>20, <1>22, <1>25, <2>1, <2>4, <2>5 DEF Received
<1>26. ASSUME NEW d \in Handler, NEW status, Respond(d, status), serving[d] # NoRequest,
              Todo(d, "waiting") = {}, Todo(d, "running") = {},
              UNCHANGED <<mode, tasks, executing, seen, handled, spoilt, admitted>>
       PROVE  Received'
  <2>1. PICK w \in Webhook : serving[d] \in [hook : {w}, todo : [PulsesOf(w) -> How]]
    BY <1>20, <1>26 DEF Served, Serving
  <2>2. ASSUME NEW p \in PulsesOf(w) PROVE Minded(p)
    <3>1. p \in Todo(d, "done") \/ p \in Todo(d, "failed")
      BY <1>26, <2>1 DEF Todo, How
    <3> QED
      BY <1>20, <3>1 DEF Recorded, Minded, Taken
  <2>3. Cleared(d)
    BY <1>20, <1>21, <1>26, EndClears DEF Respond
  <2>4. acked' \subseteq acked \cup {w}
    BY <1>26, <2>1 DEF Respond
  <2> QED
    BY <1>20, <1>25, <1>26, <2>2, <2>3, <2>4 DEF Served, Recorded
<1>1. ASSUME NEW d \in Handler, NEW w \in Webhook, Receive(d, w) PROVE Received'
  <2> DEFINE r == [hook |-> w, todo |-> [p \in PulsesOf(w) |-> "waiting"]]
  <2>1. serving' = [serving EXCEPT ![d] = r]
    BY <1>1 DEF Receive
  <2>2. r \in [hook : {w}, todo : [PulsesOf(w) -> How]] /\ r.todo = [p \in PulsesOf(w) |-> "waiting"]
    BY DEF How
  <2>3. Serving' = Serving
    BY <1>22 DEF Serving
  <2> HIDE DEF r
  <2>4. /\ serving' \in [Handler -> Serving'] /\ serving'[d] = r
        /\ \A e \in Handler \ {d} : serving'[e] = serving[e]
    BY <1>20, <2>1, <2>2, <2>3 DEF Served, Serving
  <2>5. /\ \A h \in How \ {"waiting"} : Todo(d, h)' = {} /\ Todo(d, h) = {}
        /\ \A e \in Handler \ {d}, h \in How : Todo(e, h)' = Todo(e, h)
    BY <1>1, <2>2, <2>4 DEF Todo, Receive, NoRequest
  <2>6. Todo(d, "running") = {} /\ Todo(d, "running")' = {} /\ Todo(d, "done")' = {} /\ Todo(d, "failed")' = {}
    BY <2>5 DEF How
  <2>7. \A e \in Handler : Todo(e, "running")' = Todo(e, "running")
    BY <1>24, <2>5, <2>6
  <2>8. UNCHANGED <<mode, acked, tasks, executing, seen, handled, spoilt, admitted>>
    BY <1>1 DEF Receive
  <2>9. \A p : /\ InTurn(p)' <=> InTurn(p)
               /\ Taken(p)' <=> Taken(p)
               /\ Minded(p)' <=> Minded(p)
    BY <2>7, <2>8 DEF InTurn, Taken, Minded
  <2>10. Served'
    BY <1>20, <2>4, <2>8 DEF Served
  <2>11. Recorded'
    BY <1>20, <1>22, <1>24, <2>5, <2>6, <2>8, <2>9 DEF Recorded
  <2>12. \A p : OnceOnly(p) => OnceOnly(p)'
    BY <2>7, <2>8, <2>9 DEF OnceOnly
  <2> QED
    BY <1>20, <1>22, <2>8, <2>10, <2>11, <2>12 DEF Received
<1>2. ASSUME NEW d \in Handler, NEW p \in Posted, Start(d, p) PROVE Received'
  <2>1. PICK fresh \in BOOLEAN : Checked(p, fresh) /\ Mark(d, p, IF fresh THEN "running" ELSE "done")
    BY <1>2 DEF Start
  <2> DEFINE how == IF fresh THEN "running" ELSE "done"
  <2>2. p \in Todo(d, "waiting") /\ how \in How /\ how # "waiting"
    BY <1>2 DEF Start, How
  <2>3. Marked(d, p, how)
    BY <1>20, <1>21, <1>24, <2>1, <2>2, MarkMarks
  <2>4. UNCHANGED <<mode, acked, tasks, executing, handled, spoilt>> /\ mode = "sync"
    BY <1>2 DEF Start
  <2>5. p \notin Todo(d, "running")
    BY <2>2 DEF Todo
  <2>6. \A e \in Handler : Todo(e, "running")' =
            IF fresh /\ e = d THEN Todo(e, "running") \cup {p} ELSE Todo(e, "running")
    BY <1>24, <2>3, <2>5 DEF Marked
  <2>7. \A q : InTurn(q)' <=> InTurn(q) \/ (fresh /\ q = p)
    BY <2>6 DEF InTurn
  <2>8. \A q : (Taken(q) => Taken(q)') /\ (Minded(q) => Minded(q)')
    BY <2>4, <2>7 DEF Taken, Minded
  <2>9. /\ seen \subseteq seen' /\ seen' \subseteq seen \cup {p} /\ admitted \subseteq admitted'
        /\ ~fresh => p \in seen /\ seen' = seen
        /\ Keyed /\ fresh /\ p \notin admitted' => p \notin seen /\ p \in seen'
    BY <2>1, CheckedIs
  <2>10. Served'
    BY <1>20, <2>3, <2>4, <2>9 DEF Served, Marked
  <2>11. fresh => Taken(p)'
    BY <2>7 DEF Taken
  <2>12. \A e \in Handler : /\ \A q \in Todo(e, "done")' : q \in Todo(e, "done") \/ (q = p /\ ~fresh)
                            /\ Todo(e, "failed")' \subseteq Todo(e, "failed")
    BY <1>24, <2>3 DEF Marked
  <2>13. Recorded'
    BY <1>20, <1>22, <2>4, <2>8, <2>9, <2>11, <2>12 DEF Recorded, Minded
  <2>14. ASSUME NEW q \in Posted \ admitted', Keyed PROVE OnceOnly(q)'
    <3>1. OnceOnly(q)
      BY <1>20, <2>9, <2>14
    <3>2. CASE ~fresh \/ q # p
      <4>1. \A e \in Handler : q \in Todo(e, "running")' <=> q \in Todo(e, "running")
        BY <2>6, <3>2
      <4> QED
        BY <2>4, <2>7, <2>9, <3>1, <3>2, <4>1 DEF OnceOnly
    <3>3. CASE fresh /\ q = p
      <4>1. p \notin seen /\ p \in seen' /\ handled[p] = 0 /\ executing[p] = 0 /\ ~InTurn(p)
        BY <2>9, <2>14, <3>1, <3>3 DEF OnceOnly
      <4>2. \A e \in Handler : p \in Todo(e, "running")' => e = d
        BY <2>6, <4>1 DEF InTurn
      <4> QED
        BY <2>4, <3>3, <4>1, <4>2 DEF OnceOnly
    <3> QED
      BY <3>2, <3>3
  <2> QED
    BY <1>22, <2>10, <2>13, <2>14 DEF Received
<1>3. ASSUME NEW d \in Handler, NEW p \in Posted, EndTurnOf(d, p) PROVE Received'
  <2>1. PICK how \in {"done", "failed"} : /\ Mark(d, p, how)
                                          /\ how = "done" => Succeeds(p)
                                          /\ how = "failed" => Fails(p)
    BY <1>3 DEF EndTurnOf
  <2>2. p \in Todo(d, "running") /\ how \in How /\ how # "running"
    BY <1>3 DEF EndTurnOf, How
  <2>3. Marked(d, p, how)
    BY <1>20, <1>21, <1>24, <2>1, <2>2, MarkMarks
  <2>4. UNCHANGED <<mode, acked, tasks, executing, seen, admitted>>
    BY <1>3 DEF EndTurnOf
  <2>5. \A e \in Handler : Todo(e, "running")' =
            IF e = d THEN Todo(e, "running") \ {p} ELSE Todo(e, "running")
    BY <1>24, <2>2, <2>3 DEF Marked
  <2>6. /\ handled' \in [Posted -> Nat] /\ spoilt \subseteq spoilt'
        /\ \A q \in Posted : handled'[q] = IF q = p /\ how = "done" THEN handled[q] + 1 ELSE handled[q]
        /\ how = "failed" => p \in spoilt'
    BY <1>20, <2>1 DEF Succeeds, Fails, Served
  <2>7. \A q \in Posted : /\ InTurn(q)' => InTurn(q)
                          /\ q # p => (InTurn(q) => InTurn(q)')
    BY <2>5 DEF InTurn
  <2>8. handled'[p] > 0 \/ p \in spoilt'
    BY <1>20, <2>1, <2>6 DEF Served
  <2>9. \A q \in Posted : (Taken(q) => Taken(q)') /\ (Minded(q) => Minded(q)')
    BY <1>20, <2>4, <2>6, <2>7, <2>8 DEF Taken, Minded, Served
  <2>10. Served'
    BY <1>20, <2>3, <2>4, <2>6 DEF Served, Marked
  <2>11. \A e \in Handler : /\ \A q \in Todo(e, "done")' : q \in Todo(e, "done") \/ (q = p /\ how = "done")
                            /\ \A q \in Todo(e, "failed")' : q \in Todo(e, "failed") \/ (q = p /\ how = "failed")
    BY <1>24, <2>3 DEF Marked
  <2>12. Recorded'
    BY <1>20, <1>22, <1>23, <1>24, <2>4, <2>5, <2>6, <2>8, <2>9, <2>11, PulsesArePosted
       DEF Recorded, Minded, Taken, Served
  <2>13. ASSUME NEW q \in Posted \ admitted, Keyed PROVE OnceOnly(q)'
    <3>1. OnceOnly(q)
      BY <1>20, <2>13
    <3>2. CASE q # p
      <4>1. \A e \in Handler : q \in Todo(e, "running")' <=> q \in Todo(e, "running")
        BY <2>5, <3>2
      <4>2. handled'[q] = handled[q] /\ (InTurn(q)' <=> InTurn(q))
        BY <2>6, <2>7, <3>2
      <4> QED
        BY <2>4, <3>1, <4>1, <4>2 DEF OnceOnly
    <3>3. CASE q = p
      <4>1. InTurn(p) /\ p \in seen /\ handled[p] = 0 /\ executing[p] = 0
        BY <2>2, <3>1, <3>3 DEF InTurn, OnceOnly
      <4>2. \A e \in Handler : p \notin Todo(e, "running")'
        BY <2>2, <2>5, <3>1, <3>3 DEF OnceOnly
      <4>3. ~InTurn(p)' /\ handled'[p] <= 1 /\ handled'[p] \in Nat
        BY <2>6, <4>1, <4>2 DEF InTurn
      <4> QED
        BY <2>4, <3>3, <4>1, <4>2, <4>3 DEF OnceOnly
    <3> QED
      BY <3>2, <3>3
  <2> QED
    BY <1>22, <2>4, <2>10, <2>12, <2>13 DEF Received
<1>4. ASSUME NEW d \in Handler, NEW p \in Posted, Dispatch(d, p) PROVE Received'
  <2>1. p \in Todo(d, "waiting") /\ Marked(d, p, "done") /\ mode = "async"
    BY <1>4, <1>20, <1>21, <1>24, MarkMarks DEF Dispatch
  <2>2. UNCHANGED <<mode, acked, executing, seen, handled, spoilt, admitted>>
    BY <1>4 DEF Dispatch
  <2>3. /\ tasks' \in [Posted -> Nat] /\ tasks'[p] > 0 /\ \A q \in Posted : tasks'[q] >= tasks[q]
    BY <1>4, <1>20 DEF Dispatch, Served
  <2>4. \A e \in Handler : Todo(e, "running")' = Todo(e, "running")
    BY <1>20, <1>24, <2>1 DEF Marked, Recorded
  <2>5. \A q \in Posted : /\ InTurn(q)' <=> InTurn(q)
                          /\ Taken(q)' <=> Taken(q)
                          /\ Minded(q) => Minded(q)'
    BY <1>20, <2>2, <2>3, <2>4 DEF InTurn, Taken, Minded, Served
  <2>6. Served'
    BY <1>20, <2>1, <2>2, <2>3 DEF Served, Marked
  <2>7. \A e \in Handler : /\ \A q \in Todo(e, "done")' : q \in Todo(e, "done") \/ q = p
                           /\ Todo(e, "failed")' \subseteq Todo(e, "failed")
    BY <1>24, <2>1 DEF Marked
  <2>8. Recorded'
    BY <1>20, <1>22, <1>23, <1>24, <2>2, <2>3, <2>4, <2>5, <2>7, PulsesArePosted
       DEF Recorded, Minded, Served
  <2>9. \A q \in Posted : OnceOnly(q) => OnceOnly(q)'
    BY <2>2, <2>4, <2>5 DEF OnceOnly
  <2> QED
    BY <1>20, <1>22, <2>2, <2>6, <2>8, <2>9 DEF Received
<1>5. ASSUME NEW d \in Handler, NEW p \in Posted, DispatchFails(d, p) PROVE Received'
  <2>1. Cleared(d)
    BY <1>5, <1>20, <1>21, EndClears DEF DispatchFails
  <2>2. tasks' \in [Posted -> Nat] /\ \A q \in Posted : tasks'[q] >= tasks[q]
    <3>1. PICK lost \in {0, 1} : tasks' = [tasks EXCEPT ![p] = @ + lost]
      BY <1>5 DEF DispatchFails
    <3> QED
      BY <1>20, <3>1 DEF Served
  <2>3. Todo(d, "running") = {}
    BY <1>5, <1>20 DEF DispatchFails, Recorded
  <2> QED
    BY <1>5, <1>20, <1>25, <2>1, <2>2, <2>3 DEF DispatchFails, Served, Recorded
<1>6. ASSUME NEW d \in Handler, ProcessEvent(d) PROVE Received'
  BY <1>6, <1>26 DEF ProcessEvent
<1>7. ASSUME NEW d \in Handler, IngestAsyncEvent(d) PROVE Received'
  BY <1>7, <1>20, <1>26 DEF IngestAsyncEvent, Recorded
<1>8. ASSUME NEW d \in Handler, ServerDies(d) PROVE Received'
  <2>1. Cleared(d)
    BY <1>8, <1>20, <1>21, EndClears DEF ServerDies
  <2> QED
    BY <1>8, <1>20, <1>25, <2>1 DEF ServerDies, Served, Recorded
\* The Keeper leaves the requests alone.
<1>27. ASSUME NEW p \in Posted, UNCHANGED <<serving, mode, acked>>,
              tasks' \in [Posted -> Nat], executing' \in [Posted -> Nat], handled' \in [Posted -> Nat],
              seen \subseteq seen', seen' \subseteq seen \cup {p},
              spoilt \subseteq spoilt', admitted \subseteq admitted',
              \A q \in Posted \ {p} : /\ tasks'[q] = tasks[q] /\ executing'[q] = executing[q]
                                      /\ handled'[q] = handled[q],
              Taken(p)',
              Keyed /\ p \notin admitted' =>
                  /\ handled'[p] + executing'[p] <= 1 /\ p \in seen'
                  /\ InTurn(p) => handled'[p] = 0 /\ executing'[p] = 0
       PROVE  Received'
  <2>1. \A d \in Handler, h \in How : Todo(d, h)' = Todo(d, h)
    BY <1>27 DEF Todo
  <2>2. \A q : InTurn(q)' <=> InTurn(q)
    BY <1>24, <2>1 DEF InTurn
  <2>3. \A q \in Posted : (Taken(q) => Taken(q)') /\ (Minded(q) => Minded(q)')
    BY <1>27, <2>2 DEF Taken, Minded
  <2>4. Serving' = Serving
    BY <1>22 DEF Serving
  <2>5. Served'
    BY <1>20, <1>27, <2>4 DEF Served
  <2>6. Recorded'
    BY <1>20, <1>22, <1>23, <1>24, <1>27, <2>1, <2>3, PulsesArePosted DEF Recorded, Served
  <2>7. ASSUME NEW q \in Posted \ admitted', Keyed PROVE OnceOnly(q)'
    <3>1. OnceOnly(q)
      BY <1>20, <1>27, <2>7
    <3>2. CASE q # p
      BY <1>24, <1>27, <2>1, <2>2, <3>1, <3>2 DEF OnceOnly
    <3>3. CASE q = p
      BY <1>24, <1>27, <2>1, <2>2, <2>7, <3>1, <3>3 DEF OnceOnly
    <3> QED
      BY <3>2, <3>3
  <2> QED
    BY <1>22, <2>5, <2>6, <2>7 DEF Received
<1>9. ASSUME NEW p \in Posted, ExecuteTask(p) PROVE Received'
  <2>1. PICK fresh \in BOOLEAN :
           /\ Checked(p, fresh)
           /\ IF fresh THEN executing' = [executing EXCEPT ![p] = @ + 1] /\ UNCHANGED tasks
                       ELSE Gone(p) /\ UNCHANGED executing
    BY <1>9 DEF ExecuteTask
  <2>2. UNCHANGED <<serving, mode, acked, handled, spoilt>>
    BY <1>9 DEF ExecuteTask
  <2>3. /\ seen \subseteq seen' /\ seen' \subseteq seen \cup {p} /\ admitted \subseteq admitted'
        /\ ~fresh => p \in seen /\ seen' = seen
        /\ Keyed /\ fresh /\ p \notin admitted' => p \notin seen /\ p \in seen'
    BY <2>1, CheckedIs
  <2>4. /\ tasks' \in [Posted -> Nat] /\ executing' \in [Posted -> Nat] /\ handled' \in [Posted -> Nat]
        /\ \A q \in Posted \ {p} : tasks'[q] = tasks[q] /\ executing'[q] = executing[q]
                                   /\ handled'[q] = handled[q]
        /\ executing'[p] = IF fresh THEN executing[p] + 1 ELSE executing[p]
    BY <1>20, <2>1, <2>2 DEF Served, Gone
  <2>5. InTurn(p)' <=> InTurn(p)
    BY <2>2 DEF InTurn, Todo
  <2>6. Taken(p)'
    BY <1>20, <2>2, <2>3, <2>4, <2>5 DEF Taken, Recorded, Served
  <2>7. Keyed /\ p \notin admitted' =>
           /\ handled'[p] + executing'[p] <= 1 /\ p \in seen'
           /\ InTurn(p) => handled'[p] = 0 /\ executing'[p] = 0
    BY <1>20, <2>2, <2>3, <2>4 DEF OnceOnly
  <2> QED
    BY <1>27, <2>2, <2>3, <2>4, <2>6, <2>7
<1>10. ASSUME NEW p \in Posted, HandleExecuteEvent(p) PROVE Received'
  <2>1. /\ UNCHANGED <<serving, mode, acked, seen, admitted>> /\ executing[p] > 0
        /\ executing' = [executing EXCEPT ![p] = @ - 1] /\ (Gone(p) \/ UNCHANGED tasks)
        /\ Succeeds(p) \/ Fails(p)
    BY <1>10 DEF HandleExecuteEvent
  <2>2. /\ tasks' \in [Posted -> Nat] /\ executing' \in [Posted -> Nat] /\ handled' \in [Posted -> Nat]
        /\ \A q \in Posted \ {p} : tasks'[q] = tasks[q] /\ executing'[q] = executing[q]
                                   /\ handled'[q] = handled[q]
        /\ executing'[p] = executing[p] - 1 /\ spoilt \subseteq spoilt'
        /\ (handled'[p] = handled[p] /\ p \in spoilt') \/ handled'[p] = handled[p] + 1
    BY <1>20, <2>1 DEF Served, Gone, Succeeds, Fails
  <2>3. Taken(p)'
    BY <1>20, <2>2 DEF Taken, Served
  <2>4. Keyed /\ p \notin admitted => OnceOnly(p) /\ p \in seen /\ ~InTurn(p)
    BY <1>20, <2>1 DEF OnceOnly
  <2>5. Keyed /\ p \notin admitted' =>
           /\ handled'[p] + executing'[p] <= 1 /\ p \in seen'
           /\ InTurn(p) => handled'[p] = 0 /\ executing'[p] = 0
    BY <1>20, <2>1, <2>2, <2>4 DEF OnceOnly, Served
  <2> QED
    BY <1>27, <2>1, <2>2, <2>3, <2>5
<1>11. CASE UNCHANGED ingressVars
  <2>1. /\ UNCHANGED <<serving, mode, acked, tasks, executing, handled, seen, spoilt, admitted>>
        /\ \A d, h : Todo(d, h)' = Todo(d, h)
    BY <1>11 DEF ingressVars, Todo
  <2>2. \A p : (InTurn(p)' <=> InTurn(p)) /\ (Taken(p)' <=> Taken(p)) /\ (Minded(p)' <=> Minded(p))
    BY <2>1 DEF InTurn, Taken, Minded
  <2>3. Served'
    BY <1>20, <1>22, <2>1 DEF Served, Serving
  <2>4. Recorded'
    BY <1>20, <1>22, <2>1, <2>2 DEF Recorded
  <2>5. \A p : OnceOnly(p) => OnceOnly(p)'
    BY <2>1, <2>2 DEF OnceOnly
  <2> QED
    BY <1>20, <1>22, <2>1, <2>3, <2>4, <2>5 DEF Received
<1> QED
  BY <1>1, <1>2, <1>3, <1>4, <1>5, <1>6, <1>7, <1>8, <1>9, <1>10, <1>11 DEF IngressNext

\* Whatever a webhook carries, however often it and the tasks made of it are repeated, and by
\* however many goroutines they are served: each message of a webhook that was answered with 2xx
\* has had its turn, is in it or waits for it, and no message whose key was recorded has two
\* (event_handler.go, async_ingestion_service.go, pipeline_step_idempotency.go).
THEOREM MessagesHandledOnce == IngressSpec => []HandledExactlyOnce
<1>1. Received => HandledExactlyOnce
  <2> SUFFICES ASSUME Received PROVE HandledExactlyOnce
    OBVIOUS
  <2>1. ASSUME NEW w \in acked, NEW m \in Messages(w)
        PROVE  \E p \in PulsesOf(w) :
                  m \in MessagesOf(p) /\ (handled[p] > 0 \/ p \in spoilt \/ UnderWay(p))
    <3>1. w \in Webhook
      BY DEF Received, Served
    <3>2. PICK p \in PulsesOf(w) : m \in MessagesOf(p)
      BY <3>1, MessagesAreCovered
    <3>3. Minded(p)
      BY DEF Received, Recorded
    <3> QED
      BY <3>2, <3>3 DEF Minded, Taken, InTurn, UnderWay
  <2>2. ASSUME Keyed, NEW p \in Posted \ admitted PROVE handled[p] <= 1
    BY <2>2 DEF Received, OnceOnly, Served
  <2> QED
    BY <2>1, <2>2 DEF HandledExactlyOnce
<1> QED
  BY <1>1, IngressStarts, IngressStep, PTL DEF IngressSpec

-----------------------------------------------------------------------------
(* Outbound: what reaches the user is set against what the client knows. *)

Message == [call : Sends, status : {"queued", "sent", "undelivered", "blocked"}]
Sending == [call : Sends, by : {"none", "voice", "send_whatsapp_message", "send_to_contact"},
            at : {"none", "send", "poll"}, attempt : Nat]
UnderWayTo(c) == sending.at # "none" /\ sending.call = c

Typed ==
    /\ messages \in Seq(Message) /\ sending \in Sending
    /\ unconfirmed \in [Sends -> Nat] /\ reported \in [Sends -> {"none", "delivered", "failed"}]

\* Calls are numbered one after the other, the Voice comes last and once.
InOrder ==
    /\ Called = 1..Cardinality(Called)
    /\ sending.at # "none" =>
          /\ reported[sending.call] = "none"
          /\ sending.call = IF sending.by = "voice" THEN 0 ELSE Cardinality(Called) + 1
          /\ sending.by = "voice" => phase = "responding"
    /\ phase # "ended" => reported[0] = "none"

\* A message belongs to a call that was reported or is under way.
Attributed ==
    /\ \A i \in DOMAIN messages :
          reported[messages[i].call] # "none" \/ UnderWayTo(messages[i].call)
    /\ \A c \in Sends : reported[c] = "delivered" => \E i \in DOMAIN messages : messages[i].call = c
    /\ sending.at = "poll" => messages # <<>> /\ messages[Len(messages)].call = sending.call

\* All but the message that is being polled.
Settled(c) ==
    IF sending.at = "poll" /\ sending.call = c THEN Reaching(c) \ {Len(messages)} ELSE Reaching(c)
Explained ==
    \A c \in Sends :
       Cardinality(Settled(c)) <= unconfirmed[c] + (IF reported[c] = "delivered" THEN 1 ELSE 0)

Sent == Typed /\ InOrder /\ Attributed /\ Explained

LEMMA IndicesAreFinite ==
  ASSUME NEW m \in Seq(Message), NEW S \in SUBSET DOMAIN m
  PROVE  IsFiniteSet(S) /\ Cardinality(S) \in Nat
<1>1. DOMAIN m = 1..Len(m) /\ 1 \in Int /\ Len(m) \in Int
  OBVIOUS
<1>2. IsFiniteSet(1..Len(m))
  BY <1>1, FS_Interval
<1> QED
  BY <1>1, <1>2, FS_Subset, FS_CardinalityType

LEMMA ReachingIsFinite ==
  ASSUME messages \in Seq(Message), NEW c, NEW S \in SUBSET Reaching(c)
  PROVE  /\ IsFiniteSet(S) /\ Cardinality(S) \in Nat /\ Cardinality(Reaching(c)) \in Nat
         /\ Cardinality(S) <= Cardinality(Reaching(c)) /\ IsFiniteSet(Reaching(c))
<1>1. Reaching(c) \subseteq DOMAIN messages
  BY DEF Reaching
<1>2. IsFiniteSet(Reaching(c))
  BY <1>1, IndicesAreFinite
<1> QED
  BY <1>2, FS_Subset, FS_CardinalityType

\* Without the message that is polled there is one less at the most.
LEMMA OneIsPolled ==
  ASSUME messages \in Seq(Message), NEW c
  PROVE  /\ Cardinality(Reaching(c)) \in Nat /\ Cardinality(Reaching(c) \ {Len(messages)}) \in Nat
         /\ Cardinality(Reaching(c)) <= Cardinality(Reaching(c) \ {Len(messages)}) + 1
<1> DEFINE n == Len(messages)
           S == Reaching(c)
<1>1. IsFiniteSet(S) /\ Cardinality(S) \in Nat /\ Cardinality(S \ {n}) \in Nat
  BY ReachingIsFinite
<1> HIDE DEF n, S
<1>2. Cardinality(S \ {n}) = IF n \in S THEN Cardinality(S) - 1 ELSE Cardinality(S)
  BY <1>1, FS_RemoveElement
<1>3. Cardinality(S) <= Cardinality(S \ {n}) + 1
  BY <1>1, <1>2
<1> QED
  BY <1>1, <1>3 DEF n, S

LEMMA CalledIsFinite == IsFiniteSet(Called) /\ Cardinality(Called) \in Nat /\ Called \subseteq 1..MaxSends
<1>1. Called \subseteq 1..MaxSends
  BY SendsAssumption DEF Called, Sends
<1>2. IsFiniteSet(1..MaxSends)
  BY SendsAssumption, FS_Interval
<1> QED
  BY <1>1, <1>2, FS_Subset, FS_CardinalityType

LEMMA OutboundStarts == OutboundInit => Sent
<1> SUFFICES ASSUME OutboundInit PROVE Sent
  OBVIOUS
<1>1. 0 \in Sends /\ NotSending \in Sending
  BY SendsAssumption DEF Sends, NotSending, Sending
<1>2. Typed
  BY <1>1 DEF OutboundInit, Typed
<1>3. Called = {} /\ Cardinality(Called) = 0
  BY FS_EmptySet DEF Called, OutboundInit
<1>4. InOrder
  BY <1>1, <1>3 DEF OutboundInit, InOrder, NotSending
<1>5. \A c \in Sends : Settled(c) = {}
  BY DEF OutboundInit, Settled, Reaching, NotSending
<1>6. Explained
  <2>1. ASSUME NEW c \in Sends PROVE /\ Cardinality(Settled(c)) = 0 /\ unconfirmed[c] = 0
                                    /\ reported[c] = "none"
    BY <1>5, FS_EmptySet DEF OutboundInit
  <2> QED
    BY <2>1 DEF Explained
<1>7. Attributed
  BY DEF Attributed, OutboundInit, NotSending
<1> QED
  BY <1>2, <1>4, <1>6, <1>7 DEF Sent

\* The channel changes the status of a message, to one with which it reaches nobody or that of before.
LEMMA StatusChanges ==
  ASSUME Sent, NEW i \in DOMAIN messages, NEW status \in {"sent", "undelivered", "blocked"},
         messages' = [messages EXCEPT ![i].status = status],
         messages[i].status \in {"queued", "sent"},
         UNCHANGED <<phase, sending, unconfirmed, reported>>
  PROVE  Sent'
<1> DEFINE m == [messages[i] EXCEPT !.status = status]
<1>1. messages[i] \in Message /\ messages \in Seq(Message)
  BY DEF Sent, Typed
<1>2. m \in Message /\ m.call = messages[i].call /\ m.status = status
  BY <1>1 DEF Message
<1>3. messages' = [messages EXCEPT ![i] = m]
  OBVIOUS
<1> HIDE DEF m
<1>4. /\ messages' \in Seq(Message) /\ Len(messages') = Len(messages)
      /\ DOMAIN messages' = DOMAIN messages
      /\ \A j \in DOMAIN messages : messages'[j] = IF j = i THEN m ELSE messages[j]
  BY <1>1, <1>2, <1>3
<1>5. \A j \in DOMAIN messages : messages'[j].call = messages[j].call
  BY <1>2, <1>4
<1>6. ASSUME NEW c PROVE Reaching(c)' \subseteq Reaching(c)
  BY <1>2, <1>4, <1>5 DEF Reaching
<1>7. ASSUME NEW c \in Sends PROVE Cardinality(Settled(c)') <= Cardinality(Settled(c))
                                   /\ Cardinality(Settled(c)') \in Nat /\ Cardinality(Settled(c)) \in Nat
  <2>1. Settled(c)' \subseteq Settled(c) /\ Settled(c) \subseteq Reaching(c)
    BY <1>4, <1>6 DEF Settled
  <2>2. IsFiniteSet(Settled(c))
    BY <1>1, <2>1, ReachingIsFinite
  <2> QED
    BY <2>1, <2>2, FS_Subset, FS_CardinalityType
<1>8. Explained'
  BY <1>7 DEF Sent, Explained, Typed
<1>9. Called' = Called
  BY DEF Called
<1>10. InOrder'
  BY <1>9 DEF Sent, InOrder
<1>11. Attributed'
  <2>1. \A c : UnderWayTo(c)' <=> UnderWayTo(c)
    BY DEF UnderWayTo
  <2>2. messages # <<>> => messages' # <<>> /\ Len(messages) \in DOMAIN messages
    BY <1>1, <1>4
  <2> QED
    BY <1>4, <1>5, <2>1, <2>2 DEF Sent, Attributed
<1> QED
  BY <1>4, <1>8, <1>10, <1>11 DEF Sent, Typed

\* What else a step makes of the messages when it ends an attempt at a call, or begins the next.
Kept(c) ==
    /\ messages' \in Seq(Message) /\ unconfirmed' \in [Sends -> Nat]
    /\ \A i \in DOMAIN messages' :
          messages'[i].call = c \/ \E j \in DOMAIN messages : messages[j].call = messages'[i].call
    /\ \A j \in DOMAIN messages : \E i \in DOMAIN messages' : messages[j].call = messages'[i].call
    /\ \A d \in Sends \ {c} : Reaching(d)' \subseteq Reaching(d) /\ unconfirmed'[d] = unconfirmed[d]

LEMMA OthersAreExplained ==
  ASSUME Sent, sending.at # "none", NEW c, c = sending.call, Kept(c), NEW d \in Sends \ {c},
         sending'.at # "poll"
  PROVE  /\ Cardinality(Settled(d)') <= unconfirmed'[d] + (IF reported[d] = "delivered" THEN 1 ELSE 0)
<1>1. Settled(d) = Reaching(d) /\ Settled(d)' = Reaching(d)'
  BY DEF Settled
<1>2. Cardinality(Reaching(d)') <= Cardinality(Reaching(d)) /\ Cardinality(Reaching(d)) \in Nat
      /\ Cardinality(Reaching(d)') \in Nat
  BY ReachingIsFinite DEF Kept, Sent, Typed
<1>3. Cardinality(Reaching(d)) <= unconfirmed[d] + (IF reported[d] = "delivered" THEN 1 ELSE 0)
      /\ unconfirmed[d] \in Nat /\ unconfirmed'[d] = unconfirmed[d]
  BY <1>1 DEF Sent, Explained, Kept, Typed
<1> QED
  BY <1>1, <1>2, <1>3

\* The turn learns how a call ended.
LEMMA CallEnds ==
  ASSUME Sent, sending.at # "none", NEW c, c = sending.call, Kept(c), NEW how \in {"delivered", "failed"},
         reported' = [reported EXCEPT ![sending.call] = how], sending' = NotSending,
         phase' \in {phase, "ended"}, sending.by = "voice" => phase' = "ended",
         Cardinality(Reaching(c)') <= unconfirmed'[c] + (IF how = "delivered" THEN 1 ELSE 0),
         how = "delivered" => \E i \in DOMAIN messages' : messages'[i].call = c
  PROVE  Sent'
<1>1. /\ c \in Sends /\ NotSending \in Sending /\ NotSending.at = "none"
      /\ reported' \in [Sends -> {"none", "delivered", "failed"}]
      /\ reported'[c] = how /\ \A d \in Sends \ {c} : reported'[d] = reported[d]
      /\ 0 \in Sends /\ Sends \subseteq Nat
  BY SendsAssumption DEF Sent, Typed, Sending, NotSending, Sends
<1>2. Typed'
  BY <1>1 DEF Typed, Kept
<1>3. /\ reported[c] = "none" /\ sending.by = "voice" <=> c = 0
      /\ c # 0 => c = Cardinality(Called) + 1
  BY CalledIsFinite DEF Sent, InOrder
<1>4. Called' = 1..Cardinality(Called')
  <2>1. Called = 1..Cardinality(Called) /\ Cardinality(Called) \in Nat
    BY CalledIsFinite DEF Sent, InOrder
  <2>2. CASE c = 0
    <3>1. Called' = Called
      BY <1>1, <2>2 DEF Called
    <3> QED
      BY <2>1, <3>1
  <2>3. CASE c # 0
    <3>1. Called' = Called \cup {c}
      <4>1. c > 0 /\ reported'[c] # "none"
        BY <1>1, <2>3
      <4>2. \A d \in Sends : reported'[d] # "none" <=> reported[d] # "none" \/ d = c
        BY <1>1, <4>1
      <4> QED
        BY <1>1, <4>1, <4>2 DEF Called
    <3>2. Called' = 1..c /\ c \in Nat
      BY <1>3, <2>1, <2>3, <3>1
    <3>3. Cardinality(1..c) = c
      BY <1>3, <2>1, <2>3, <3>2, FS_Interval
    <3> QED
      BY <3>2, <3>3
  <2> QED
    BY <2>2, <2>3
<1>5. InOrder'
  <2>1. phase' # "ended" => reported'[0] = "none"
    BY <1>1, <1>3 DEF Sent, InOrder
  <2> QED
    BY <1>1, <1>4, <2>1 DEF InOrder
<1>6. Attributed'
  <2>1. ASSUME NEW i \in DOMAIN messages' PROVE messages'[i].call \in Sends
    <3>1. messages'[i] \in Message
      BY DEF Kept
    <3> QED
      BY <3>1 DEF Message
  <2>2. ASSUME NEW i \in DOMAIN messages' PROVE reported'[messages'[i].call] # "none"
    <3>1. CASE messages'[i].call = c
      BY <1>1, <3>1
    <3>2. CASE messages'[i].call # c
      <4>1. PICK j \in DOMAIN messages : messages[j].call = messages'[i].call
        BY <3>2 DEF Kept
      <4>2. reported[messages[j].call] # "none"
        BY <3>2, <4>1 DEF Sent, Attributed, UnderWayTo
      <4> QED
        BY <1>1, <2>1, <3>2, <4>1, <4>2
    <3> QED
      BY <3>1, <3>2
  <2>3. ASSUME NEW d \in Sends, reported'[d] = "delivered"
        PROVE  \E i \in DOMAIN messages' : messages'[i].call = d
    <3>1. CASE d = c
      BY <1>1, <2>3, <3>1
    <3>2. CASE d # c
      <4>1. PICK j \in DOMAIN messages : messages[j].call = d
        BY <1>1, <2>3, <3>2 DEF Sent, Attributed
      <4> QED
        BY <4>1 DEF Kept
    <3> QED
      BY <3>1, <3>2
  <2> QED
    BY <1>1, <2>2, <2>3 DEF Attributed
<1>7. Explained'
  <2> SUFFICES ASSUME NEW d \in Sends
               PROVE  Cardinality(Settled(d)') <= unconfirmed'[d] + (IF reported'[d] = "delivered" THEN 1 ELSE 0)
    BY DEF Explained
  <2>1. CASE d = c
    <3>1. Settled(d)' = Reaching(d)'
      BY <1>1 DEF Settled
    <3>2. reported'[d] = how /\ Cardinality(Reaching(d)') <= unconfirmed'[d] + (IF how = "delivered" THEN 1 ELSE 0)
      BY <1>1, <2>1
    <3> QED
      BY <3>1, <3>2
  <2>2. CASE d # c
    BY <1>1, <2>2, OthersAreExplained
  <2> QED
    BY <2>1, <2>2
<1> QED
  BY <1>2, <1>5, <1>6, <1>7 DEF Sent

\* Or the call is tried once more.
LEMMA CallGoesOn ==
  ASSUME Sent, sending.at # "none", NEW c, c = sending.call, Kept(c), UNCHANGED <<reported, phase>>,
         sending' = [sending EXCEPT !.at = "send", !.attempt = @ + 1],
         Cardinality(Reaching(c)') <= unconfirmed'[c]
  PROVE  Sent'
<1>1. /\ sending' \in Sending /\ sending'.at = "send" /\ sending'.call = c /\ sending'.by = sending.by
      /\ c \in Sends
  <2>1. sending \in Sending
    BY DEF Sent, Typed
  <2>2. sending.attempt + 1 \in Nat
    BY <2>1 DEF Sending
  <2> QED
    BY <2>1, <2>2 DEF Sending
<1>2. Typed'
  BY <1>1 DEF Typed, Kept, Sent
<1>3. Called' = Called
  BY DEF Called
<1>4. InOrder'
  BY <1>1, <1>3 DEF Sent, InOrder
<1>5. Attributed'
  BY <1>1 DEF Sent, Attributed, UnderWayTo, Kept
<1>6. Explained'
  <2> SUFFICES ASSUME NEW d \in Sends
               PROVE  Cardinality(Settled(d)') <= unconfirmed'[d] + (IF reported'[d] = "delivered" THEN 1 ELSE 0)
    BY DEF Explained
  <2>1. CASE d = c
    <3>1. Settled(d)' = Reaching(d)' /\ reported[d] = "none"
      BY <1>1, <2>1 DEF Settled, Sent, InOrder
    <3>2. Cardinality(Reaching(d)') <= unconfirmed'[d] /\ unconfirmed'[d] \in Nat
      BY <2>1 DEF Kept
    <3>3. Cardinality(Reaching(d)') \in Nat
      <4>1. Reaching(d)' \subseteq DOMAIN messages' /\ messages' \in Seq(Message)
        BY DEF Reaching, Kept
      <4> QED
        BY <4>1, IndicesAreFinite
    <3> QED
      BY <3>1, <3>2, <3>3
  <2>2. CASE d # c
    BY <1>1, <2>2, OthersAreExplained
  <2> QED
    BY <2>1, <2>2
<1> QED
  BY <1>2, <1>4, <1>5, <1>6 DEF Sent

LEMMA FailureIsExplained ==
  ASSUME Sent, sending.at # "none", NEW c, c = sending.call, Kept(c), NEW error, Failed(error),
         Cardinality(Reaching(c)') <= unconfirmed'[c]
  PROVE  Sent'
<1>1. \/ /\ sending' = [sending EXCEPT !.at = "send", !.attempt = @ + 1]
         /\ UNCHANGED <<phase, reported, terminal>>
      \/ GiveUp(error)
  BY DEF Failed
<1>2. CASE GiveUp(error)
  <2>1. /\ reported' = [reported EXCEPT ![sending.call] = "failed"] /\ sending' = NotSending
        /\ phase' \in {phase, "ended"} /\ (sending.by = "voice" => phase' = "ended")
    BY <1>2 DEF GiveUp
  <2>2. sending.call \in Sends /\ unconfirmed'[c] \in Nat
    BY DEF Sent, Typed, Sending, Kept
  <2>3. Cardinality(Reaching(c)') <= unconfirmed'[c] + 0
    BY <2>2
  <2> QED
    BY <2>1, <2>3, CallEnds
<1> QED
  BY <1>1, <1>2, CallGoesOn

\* The channel has the message.
LEMMA AcceptReaches ==
  ASSUME Sent, Accept, sending.at # "none", NEW c, c = sending.call
  PROVE  /\ messages' \in Seq(Message) /\ Len(messages') = Len(messages) + 1 /\ messages' # <<>>
         /\ messages'[Len(messages')].call = c
         /\ \A i \in DOMAIN messages : i \in DOMAIN messages' /\ messages'[i] = messages[i]
         /\ \A i \in DOMAIN messages' : i \in DOMAIN messages \/ messages'[i].call = c
         /\ \A d \in Sends \ {c} : Reaching(d)' = Reaching(d)
         /\ Reaching(c)' = Reaching(c) \cup {Len(messages')}
         /\ Len(messages') \notin Reaching(c)
         /\ Cardinality(Reaching(c)') = Cardinality(Reaching(c)) + 1
<1> DEFINE m == [call |-> sending.call, status |-> "queued"]
<1>1. m \in Message /\ m.call = c /\ m.status = "queued" /\ messages \in Seq(Message)
  BY DEF Sent, Typed, Sending, Message
<1>2. messages' = Append(messages, m)
  BY DEF Accept
<1> HIDE DEF m
<1>3. /\ messages' \in Seq(Message) /\ Len(messages') = Len(messages) + 1
      /\ DOMAIN messages' = DOMAIN messages \cup {Len(messages')} /\ Len(messages') \notin DOMAIN messages
      /\ \A i \in DOMAIN messages : messages'[i] = messages[i]
      /\ messages'[Len(messages')] = m
  BY <1>1, <1>2
<1>4. /\ \A d \in Sends \ {c} : Reaching(d)' = Reaching(d)
      /\ Reaching(c)' = Reaching(c) \cup {Len(messages')}
      /\ Len(messages') \notin Reaching(c)
  <2> DEFINE n == Len(messages')
  <2>1. /\ n \in DOMAIN messages' /\ messages'[n].call = c /\ messages'[n].status = "queued"
        /\ n \notin DOMAIN messages /\ DOMAIN messages' = DOMAIN messages \cup {n}
        /\ \A i \in DOMAIN messages : messages'[i] = messages[i]
    BY <1>1, <1>3
  <2> HIDE DEF n
  <2>2. ASSUME NEW d PROVE Reaching(d)' = Reaching(d) \cup (IF d = c THEN {n} ELSE {})
    BY <2>1 DEF Reaching
  <2>3. n \notin Reaching(c)
    BY <2>1 DEF Reaching
  <2> QED
    BY <2>2, <2>3 DEF n
<1>5. Cardinality(Reaching(c)') = Cardinality(Reaching(c)) + 1
  BY <1>1, <1>4, ReachingIsFinite, FS_AddElement
<1> QED
  BY <1>1, <1>3, <1>4, <1>5

LEMMA AcceptKeeps ==
  ASSUME Sent, Accept, sending.at # "none", NEW c, c = sending.call, unconfirmed' \in [Sends -> Nat],
         \A d \in Sends \ {c} : unconfirmed'[d] = unconfirmed[d]
  PROVE  Kept(c)
  BY AcceptReaches DEF Kept

LEMMA OutboundStep == Sent /\ [OutboundNext]_outboundVars => Sent'
<1> SUFFICES ASSUME Sent, [OutboundNext]_outboundVars PROVE Sent'
  OBVIOUS
<1>0. PICK c : c = sending.call
  OBVIOUS
<1>20. /\ Typed /\ InOrder /\ Attributed /\ Explained
       /\ messages \in Seq(Message) /\ c \in Sends /\ unconfirmed[c] \in Nat
       /\ 0 \in Sends /\ Sends \subseteq Nat
  BY <1>0, SendsAssumption DEF Sent, Typed, Sending, Sends
\* At "send" all that reaches the user is explained, and so it is once a message is given up.
<1>21. sending.at = "send" => Cardinality(Reaching(c)) <= unconfirmed[c]
  <2> SUFFICES ASSUME sending.at = "send" PROVE Cardinality(Reaching(c)) <= unconfirmed[c]
    OBVIOUS
  <2>1. reported[c] = "none" /\ Settled(c) = Reaching(c)
    BY <1>0, <1>20 DEF Settled, InOrder
  <2>2. Cardinality(Settled(c)) <= unconfirmed[c] + (IF reported[c] = "delivered" THEN 1 ELSE 0)
    BY <1>20 DEF Explained
  <2>3. Cardinality(Reaching(c)) \in Nat
    BY <1>20, ReachingIsFinite
  <2> QED
    BY <1>20, <2>1, <2>2, <2>3
<1>22. sending.at = "poll" =>
          /\ Cardinality(Reaching(c) \ {Len(messages)}) <= unconfirmed[c]
          /\ Cardinality(Reaching(c)) <= unconfirmed[c] + 1
  <2> SUFFICES ASSUME sending.at = "poll"
               PROVE  /\ Cardinality(Reaching(c) \ {Len(messages)}) <= unconfirmed[c]
                      /\ Cardinality(Reaching(c)) <= unconfirmed[c] + 1
    OBVIOUS
  <2>1. reported[c] = "none" /\ Settled(c) = Reaching(c) \ {Len(messages)}
    BY <1>0, <1>20 DEF Settled, InOrder
  <2>2. Cardinality(Settled(c)) <= unconfirmed[c] + (IF reported[c] = "delivered" THEN 1 ELSE 0)
    BY <1>20 DEF Explained
  <2>3. /\ Cardinality(Reaching(c)) <= Cardinality(Reaching(c) \ {Len(messages)}) + 1
        /\ Cardinality(Reaching(c)) \in Nat /\ Cardinality(Reaching(c) \ {Len(messages)}) \in Nat
    BY <1>20, OneIsPolled
  <2> QED
    BY <1>20, <2>1, <2>2, <2>3
<1>23. Cardinality(Reaching(c)) \in Nat
  BY <1>20, ReachingIsFinite
<1>24. ASSUME UNCHANGED messages, unconfirmed' \in [Sends -> Nat],
              \A d \in Sends \ {c} : unconfirmed'[d] = unconfirmed[d]
       PROVE  Kept(c) /\ Reaching(c)' = Reaching(c)
  <2>1. \A d : Reaching(d)' = Reaching(d)
    BY <1>24 DEF Reaching
  <2>2. messages' = messages
    BY <1>24
  <2> QED
    BY <1>20, <1>24, <2>1, <2>2 DEF Kept
<1>25. Lost => /\ unconfirmed' \in [Sends -> Nat] /\ unconfirmed'[c] = unconfirmed[c] + 1
               /\ \A d \in Sends \ {c} : unconfirmed'[d] = unconfirmed[d]
  BY <1>20 DEF Lost, Typed
\* A new call.
<1>26. ASSUME NEW new \in Sending, new.at = "send", sending' = new, sending.at = "none",
              reported[new.call] = "none",
              UNCHANGED <<messages, unconfirmed, reported, phase>>,
              new.call = IF new.by = "voice" THEN 0 ELSE Cardinality(Called) + 1,
              new.by = "voice" => phase = "responding"
       PROVE  Sent'
  <2>1. Typed'
    BY <1>20, <1>26 DEF Typed
  <2>2. Called' = Called
    BY <1>26 DEF Called
  <2>3. InOrder'
    BY <1>20, <1>26, <2>2 DEF InOrder
  <2>4. Attributed'
    BY <1>20, <1>26 DEF Attributed, UnderWayTo
  <2>5. \A d \in Sends : Settled(d)' = Settled(d)
    BY <1>26 DEF Settled, Reaching
  <2>6. Explained'
    BY <1>20, <1>26, <2>5 DEF Explained
  <2> QED
    BY <2>1, <2>3, <2>4, <2>6 DEF Sent
<1>1. ASSUME NEW by \in {"send_whatsapp_message", "send_to_contact"}, CallSend(by) PROVE Sent'
  <2> DEFINE n == Cardinality(Called) + 1
             new == [call |-> n, by |-> by, at |-> "send", attempt |-> 1]
  <2>1. n \in Sends /\ n \in Nat /\ n > 0 /\ n \notin Called
    BY <1>1, <1>20, CalledIsFinite, SendsAssumption DEF CallSend, InOrder, Sends
  <2>2. reported[n] = "none"
    BY <1>20, <2>1 DEF Called, Typed
  <2>3. new \in Sending /\ new.at = "send" /\ new.call = n /\ new.by # "voice"
    BY <2>1 DEF Sending
  <2>4. sending' = new /\ sending.at = "none" /\ UNCHANGED <<messages, unconfirmed, reported, phase>>
    BY <1>1 DEF CallSend, NotSending
  <2> HIDE DEF new
  <2> QED
    BY <1>26, <2>2, <2>3, <2>4
<1>2. CASE Refused
  <2>1. PICK error \in {"business", "infrastructure"} : Failed(Class(error))
    BY <1>2 DEF Refused
  <2>2. sending.at = "send" /\ UNCHANGED <<messages, unconfirmed>>
    BY <1>2 DEF Refused
  <2>3. Kept(c) /\ Cardinality(Reaching(c)') <= unconfirmed'[c]
    BY <1>20, <1>21, <1>24, <2>2 DEF Typed
  <2> QED
    BY <1>0, <2>1, <2>2, <2>3, FailureIsExplained
<1>3. CASE CreateMessage
  <2>1. /\ sending.at = "send" /\ Accept /\ UNCHANGED <<phase, unconfirmed, reported>>
        /\ sending' = [sending EXCEPT !.at = "poll"]
    BY <1>3 DEF CreateMessage
  <2>2. /\ sending' \in Sending /\ sending'.at = "poll" /\ sending'.call = c /\ sending'.by = sending.by
    BY <1>0, <1>20, <2>1 DEF Typed, Sending
  <2>3. /\ messages' \in Seq(Message) /\ messages' # <<>> /\ messages'[Len(messages')].call = c
        /\ \A i \in DOMAIN messages : i \in DOMAIN messages' /\ messages'[i] = messages[i]
        /\ \A i \in DOMAIN messages' : i \in DOMAIN messages \/ messages'[i].call = c
        /\ \A d \in Sends \ {c} : Reaching(d)' = Reaching(d)
        /\ Reaching(c)' = Reaching(c) \cup {Len(messages')}
        /\ Len(messages') \notin Reaching(c)
    BY <1>0, <2>1, AcceptReaches
  <2>4. Typed'
    BY <1>20, <2>1, <2>2, <2>3 DEF Typed
  <2>5. Called' = Called
    BY <2>1 DEF Called
  <2>6. InOrder'
    BY <1>20, <2>1, <2>2, <2>5 DEF InOrder
  <2>7. Attributed'
    <3>1. \A d : UnderWayTo(d)' <=> UnderWayTo(d)
      BY <2>1, <2>2 DEF UnderWayTo
    <3>2. UnderWayTo(c) /\ UNCHANGED reported
      BY <1>0, <2>1 DEF UnderWayTo
    <3>3. \A i \in DOMAIN messages' : \/ i \in DOMAIN messages /\ messages'[i] = messages[i]
                                     \/ messages'[i].call = c
      BY <2>3
    <3>6. /\ \A i \in DOMAIN messages :
                reported[messages[i].call] # "none" \/ UnderWayTo(messages[i].call)
          /\ \A d \in Sends : reported[d] = "delivered" => \E i \in DOMAIN messages : messages[i].call = d
      BY <1>20 DEF Attributed
    <3>4. (\A i \in DOMAIN messages :
              reported[messages[i].call] # "none" \/ UnderWayTo(messages[i].call))'
      BY <3>1, <3>2, <3>3, <3>6
    <3>5. \A d \in Sends : reported'[d] = "delivered" => \E i \in DOMAIN messages' : messages'[i].call = d
      BY <2>3, <3>2, <3>6
    <3>7. sending'.at = "poll" => messages' # <<>> /\ messages'[Len(messages')].call = sending'.call
      BY <2>2, <2>3
    <3> QED
      BY <3>4, <3>5, <3>7 DEF Attributed
  <2>8. \A d \in Sends : Settled(d)' = Settled(d)
    BY <2>1, <2>2, <2>3 DEF Settled
  <2>9. Explained'
    BY <1>20, <2>1, <2>8 DEF Explained
  <2> QED
    BY <2>4, <2>6, <2>7, <2>9 DEF Sent
<1>4. CASE Post
  <2>1. sending.at = "send" /\ Accept /\ Report("delivered") /\ UNCHANGED unconfirmed
    BY <1>4 DEF Post
  <2>2. /\ Kept(c) /\ Cardinality(Reaching(c)') = Cardinality(Reaching(c)) + 1
        /\ messages' \in Seq(Message) /\ messages' # <<>> /\ messages'[Len(messages')].call = c
    <3>1. /\ Cardinality(Reaching(c)') = Cardinality(Reaching(c)) + 1
          /\ messages' \in Seq(Message) /\ messages' # <<>> /\ messages'[Len(messages')].call = c
      BY <1>0, <2>1, AcceptReaches
    <3>2. unconfirmed' \in [Sends -> Nat] /\ \A d \in Sends \ {c} : unconfirmed'[d] = unconfirmed[d]
      BY <1>20, <2>1 DEF Typed
    <3>3. Kept(c)
      BY <1>0, <2>1, <3>2, AcceptKeeps
    <3> QED
      BY <3>1, <3>3
  <2>3. Cardinality(Reaching(c)') <= unconfirmed'[c] + 1 /\ \E i \in DOMAIN messages' : messages'[i].call = c
    BY <1>20, <1>21, <1>23, <2>1, <2>2
  <2> QED
    BY <1>0, <2>1, <2>2, <2>3, CallEnds DEF Report
<1>5. CASE AnswerLost
  <2>1. sending.at = "send" /\ Lost /\ Failed(Class("infrastructure"))
    BY <1>5 DEF AnswerLost
  <2>2. CASE Accept
    <3>1. Kept(c) /\ Cardinality(Reaching(c)') = Cardinality(Reaching(c)) + 1
      BY <1>0, <1>25, <2>1, <2>2, AcceptReaches, AcceptKeeps
    <3>2. Cardinality(Reaching(c)') <= unconfirmed'[c]
      BY <1>20, <1>21, <1>23, <1>25, <2>1, <3>1
    <3> QED
      BY <1>0, <2>1, <3>1, <3>2, FailureIsExplained
  <2>3. CASE UNCHANGED messages
    <3>1. Kept(c) /\ Reaching(c)' = Reaching(c)
      BY <1>24, <1>25, <2>1, <2>3
    <3>2. Cardinality(Reaching(c)') <= unconfirmed'[c]
      BY <1>20, <1>21, <1>23, <1>25, <2>1, <3>1
    <3> QED
      BY <1>0, <2>1, <3>1, <3>2, FailureIsExplained
  <2> QED
    BY <1>5, <2>2, <2>3 DEF AnswerLost
<1>6. CASE PollStatus
  <2>1. sending.at = "poll" /\ UNCHANGED <<messages, unconfirmed>>
    BY <1>6 DEF PollStatus
  <2>2. Kept(c) /\ Reaching(c)' = Reaching(c)
    BY <1>20, <1>24, <2>1 DEF Typed
  <2>3. /\ Len(messages) \in DOMAIN messages /\ messages[Len(messages)].call = c
        /\ messages[Len(messages)] \in Message
    BY <1>0, <1>20, <2>1 DEF Attributed
  <2>4. PICK status \in {Polled, "unreadable"} :
          \/ Verdict(status) = "ok" /\ Report("delivered")
          \/ Verdict(status) = "wait" /\ UNCHANGED <<sending, phase, reported>>
          \/ Verdict(status) \notin {"ok", "wait"} /\ Failed(Class(Verdict(status)))
    BY <1>6 DEF PollStatus
  <2>5. CASE Report("delivered")
    BY <1>0, <1>22, <2>1, <2>2, <2>3, <2>5, CallEnds DEF Report
  <2>6. CASE UNCHANGED <<sending, phase, reported>>
    <3>1. \A d \in Sends : Settled(d)' = Settled(d)
      BY <2>1, <2>6 DEF Settled, Reaching
    <3>2. Called' = Called
      BY <2>6 DEF Called
    <3> QED
      BY <1>20, <2>1, <2>6, <3>1, <3>2 DEF Sent, Typed, InOrder, Attributed, UnderWayTo, Explained
  <2>7. CASE Verdict(status) \notin {"ok", "wait"} /\ Failed(Class(Verdict(status)))
    <3>1. status \in {"undelivered", "blocked"}
      BY <2>7 DEF Verdict
    <3>2. messages[Len(messages)].status \in {"undelivered", "blocked"}
      BY <2>4, <3>1 DEF Polled
    <3>3. Reaching(c) \ {Len(messages)} = Reaching(c)
      BY <3>2 DEF Reaching
    <3>4. Cardinality(Reaching(c)') <= unconfirmed'[c]
      BY <1>22, <2>1, <2>2, <3>3
    <3> QED
      BY <1>0, <2>1, <2>2, <2>7, <3>4, FailureIsExplained
  <2> QED
    BY <2>4, <2>5, <2>6, <2>7
<1>7. CASE PollTimeout
  <2>1. sending.at = "poll" /\ Lost /\ Failed(Class("infrastructure")) /\ UNCHANGED messages
    BY <1>7 DEF PollTimeout
  <2>2. Kept(c) /\ Reaching(c)' = Reaching(c)
    BY <1>24, <1>25, <2>1
  <2>3. Cardinality(Reaching(c)') <= unconfirmed'[c]
    BY <1>20, <1>22, <1>23, <1>25, <2>1, <2>2
  <2> QED
    BY <1>0, <2>1, <2>2, <2>3, FailureIsExplained
<1>27. ASSUME UNCHANGED <<sending, messages, unconfirmed, reported>>,
              sending.at # "none" => UNCHANGED phase,
              phase = "ended" => phase' = "ended"
       PROVE  Sent'
  <2>1. \A d \in Sends : Settled(d)' = Settled(d)
    BY <1>27 DEF Settled, Reaching
  <2>2. Called' = Called
    BY <1>27 DEF Called
  <2> QED
    BY <1>20, <1>27, <2>1, <2>2 DEF Sent, Typed, InOrder, Attributed, UnderWayTo, Explained
<1>8. CASE ReasoningTimeout
  BY <1>8, <1>27 DEF ReasoningTimeout
<1>9. CASE EndReasoning
  BY <1>9, <1>27 DEF EndReasoning, NotSending
<1>10. CASE SendResponse
  <2> DEFINE new == [call |-> 0, by |-> "voice", at |-> "send", attempt |-> 1]
  <2>1. new \in Sending /\ new.at = "send" /\ new.call = 0 /\ new.by = "voice"
    BY <1>20 DEF Sending
  <2>2. CASE sending' = new /\ UNCHANGED phase
    <3> HIDE DEF new
    <3> QED
      BY <1>10, <1>20, <1>26, <2>1, <2>2 DEF SendResponse, NotSending, InOrder
  <2>3. CASE phase' = "ended" /\ UNCHANGED sending
    BY <1>10, <1>27, <2>3 DEF SendResponse, NotSending
  <2> QED
    BY <1>10, <2>2, <2>3 DEF SendResponse
<1>11. CASE Progress
  BY <1>11, StatusChanges DEF Progress
<1>12. CASE Bounce
  BY <1>12, StatusChanges DEF Bounce
<1>13. CASE UNCHANGED outboundVars
  BY <1>13, <1>27 DEF outboundVars
<1> QED
  BY <1>1, <1>2, <1>3, <1>4, <1>5, <1>6, <1>7, <1>8, <1>9, <1>10, <1>11, <1>12, <1>13 DEF OutboundNext

\* With any number of calls and attempts, whatever the channel does with the messages: a user
\* gets no second copy, and none of a message that counts as failed, but by an attempt whose
\* fate the client did not learn (tool_executor.go, executeOne; twilio/client.go,
\* waitForTerminalStatus; pipeline_step_delivery.go).
THEOREM CopiesAreExplained == OutboundSpec => []NoCopyUnexplained
<1>1. Sent => NoCopyUnexplained
  <2> SUFFICES ASSUME Sent, NEW d \in Sends
               PROVE  /\ Cardinality(Reaching(d)) <= unconfirmed[d] + 1
                      /\ reported[d] = "failed" => Cardinality(Reaching(d)) <= unconfirmed[d]
                      /\ reported[d] = "delivered" => \E i \in DOMAIN messages : messages[i].call = d
    BY DEF NoCopyUnexplained
  <2>1. /\ Cardinality(Reaching(d)) \in Nat /\ Cardinality(Reaching(d) \ {Len(messages)}) \in Nat
        /\ Cardinality(Reaching(d)) <= Cardinality(Reaching(d) \ {Len(messages)}) + 1
        /\ unconfirmed[d] \in Nat
    BY OneIsPolled DEF Sent, Typed
  <2>2. Cardinality(Settled(d)) <= unconfirmed[d] + (IF reported[d] = "delivered" THEN 1 ELSE 0)
    BY DEF Sent, Explained
  <2>3. CASE sending.at = "poll" /\ sending.call = d
    <3>1. reported[d] = "none"
      BY <2>3 DEF Sent, InOrder
    <3> QED
      BY <2>1, <2>2, <2>3, <3>1 DEF Settled
  <2>4. CASE ~(sending.at = "poll" /\ sending.call = d)
    <3>1. Settled(d) = Reaching(d)
      BY <2>4 DEF Settled
    <3> QED
      BY <2>1, <2>2, <3>1 DEF Sent, Attributed
  <2> QED
    BY <2>3, <2>4
<1> QED
  BY <1>1, OutboundStarts, OutboundStep, PTL DEF OutboundSpec

-----------------------------------------------------------------------------
(* Media: the files of a message, from their download to each call of the model. *)

KeptFile == [type : FileKind, id : BOOLEAN, data : BOOLEAN, url : BOOLEAN]

MediaTyped ==
    /\ setup \in Setup /\ artifacts \in Seq(KeptFile)
    /\ place \in {"arrived", "pushed", "stored", "described", "coalesced", "asked", "refused"}

\* What is read of an artifact is its bytes, or those of a file nobody could download.
Sources == \A i \in DOMAIN artifacts : artifacts[i].url /\ artifacts[i].id => artifacts[i].data

Read == Documents \cup Audios \cup Images
\* The entries of the Lens stand for the artifacts, or are gone.
Described ==
    /\ joined => entries = {}
    /\ ~joined => entries = {<<"text", i>> : i \in Read \ mute} \cup
                            {<<"notice", i>> : i \in IF "notices" \in setup.lens
                                                     THEN VideoNotices \cup DownloadNotices ELSE {}}

Shown ==
    /\ MediaTyped /\ Sources
    /\ place \in {"described", "coalesced", "asked"} => Described
    /\ place \in {"arrived", "pushed", "stored"} => ~joined
    /\ place = "asked" => lastCall.seen = Attached(lastCall.round)

LEMMA MediaStarts == MediaInit => Shown
  BY DEF MediaInit, Shown, MediaTyped, Sources

\* The artifact of a file.
LEMMA FilesAreKept ==
  ASSUME setup \in Setup, NEW kind \in FileKind, NEW data \in BOOLEAN,
         NEW a \in Artifacts(kind, data)
  PROVE  a \in KeptFile /\ (a.url /\ a.id => a.data)
<1>1. setup.channel \in {"twilio", "dialog360", "telegram", "slack", "host"}
  BY SetupAssumption DEF Setups
<1>2. a \in {TwilioArtifact(kind, data), SlackArtifact(kind, data), HostArtifact(kind, data)}
            \cup Dialog360Artifacts(kind, data) \cup TelegramArtifacts(kind, data)
  BY <1>1 DEF Artifacts
<1>3. a = HostArtifact(kind, data) \/ \E type \in FileKind : a = Artifact(type, data)
  BY <1>2 DEF TwilioArtifact, SlackArtifact, Dialog360Artifacts, TelegramArtifacts, FileKind
<1>4. HostArtifact(kind, data) \in KeptFile /\ ~HostArtifact(kind, data).id
  BY DEF HostArtifact, KeptFile
<1>5. \A type \in FileKind : Artifact(type, data) \in KeptFile /\ ~Artifact(type, data).url
  BY DEF Artifact, KeptFile
<1> QED
  BY <1>3, <1>4, <1>5

LEMMA Downloads ==
  ASSUME Shown, NEW kind \in FileKind, NEW data \in BOOLEAN, Download(kind, data)
  PROVE  Shown'
<1>1. /\ setup \in Setup /\ artifacts \in Seq(KeptFile) /\ Sources
      /\ setup' = setup /\ place' = place /\ place = "arrived"
  BY DEF Shown, MediaTyped, Download
<1>2. ASSUME NEW a \in Artifacts(kind, data), artifacts' = Append(artifacts, a)
      PROVE  artifacts' \in Seq(KeptFile) /\ Sources'
  <2>1. a \in KeptFile /\ (a.url /\ a.id => a.data)
    BY <1>1, FilesAreKept
  <2>2. artifacts' \in Seq(KeptFile)
    BY <1>1, <1>2, <2>1
  <2>3. \A i \in DOMAIN artifacts' : 
           artifacts'[i] = a \/ (i \in DOMAIN artifacts /\ artifacts'[i] = artifacts[i])
    BY <1>1, <1>2, <2>1
  <2> QED
    BY <1>1, <2>1, <2>2, <2>3 DEF Sources
<1>3. artifacts' = artifacts => artifacts' \in Seq(KeptFile) /\ Sources'
  BY <1>1 DEF Sources
<1> QED
  BY <1>1, <1>2, <1>3 DEF Download, Shown, MediaTyped

LEMMA Stores ==
  ASSUME Shown, MediaVault
  PROVE  Shown'
<1>1. /\ setup \in Setup /\ artifacts \in Seq(KeptFile) /\ Sources
      /\ setup' = setup /\ place' = "stored" /\ ~joined'
  BY DEF Shown, MediaTyped, MediaVault
<1>2. PICK stored \in SUBSET {i \in DOMAIN artifacts : setup.vault /\ artifacts[i].data} :
         artifacts' = [i \in DOMAIN artifacts |->
                         IF i \in stored THEN [artifacts[i] EXCEPT !.url = TRUE] ELSE artifacts[i]]
  BY DEF MediaVault
<1>3. \A i \in DOMAIN artifacts : artifacts'[i] \in KeptFile
                                  /\ (artifacts'[i].url /\ artifacts'[i].id => artifacts'[i].data)
  <2> TAKE i \in DOMAIN artifacts
  <2>1. artifacts[i] \in KeptFile /\ (artifacts[i].url /\ artifacts[i].id => artifacts[i].data)
    BY <1>1 DEF Sources
  <2>2. i \in stored => artifacts[i].data
    BY <1>2
  <2>3. artifacts'[i] = IF i \in stored THEN [artifacts[i] EXCEPT !.url = TRUE] ELSE artifacts[i]
    BY <1>2
  <2> QED
    BY <2>1, <2>2, <2>3 DEF KeptFile
<1>4. DOMAIN artifacts' = 1..Len(artifacts) /\ Len(artifacts) \in Nat
  BY <1>1, <1>2
<1>5. artifacts' \in Seq(KeptFile)
  BY <1>1, <1>2, <1>3, <1>4
<1>6. Sources'
  BY <1>1, <1>3, <1>4 DEF Sources
<1> QED
  BY <1>1, <1>5, <1>6 DEF Shown, MediaTyped

\* Nothing that the entries stand for changes any more.
LEMMA SameSources ==
  ASSUME UNCHANGED <<setup, artifacts>>
  PROVE  /\ (setup \in Setup)' = (setup \in Setup) /\ Sources' = Sources
         /\ Read' = Read /\ VideoNotices' = VideoNotices /\ DownloadNotices' = DownloadNotices
         /\ Attachments' = Attachments
  BY DEF Sources, Read, Documents, Audios, Images, Has, VideoNotices, DownloadNotices, Attachments,
         Supports

LEMMA Describes ==
  ASSUME Shown, MediaProcessing
  PROVE  Shown'
<1>1. /\ MediaTyped /\ Sources /\ UNCHANGED <<setup, artifacts, joined>> /\ place' = "described"
      /\ ~joined
  BY DEF Shown, MediaProcessing
<1>2. Described'
  BY <1>1, SameSources DEF MediaProcessing, Described, Read
<1> QED
  BY <1>1, <1>2, SameSources DEF Shown, MediaTyped

LEMMA Coalesces ==
  ASSUME Shown, MessageCoalescing
  PROVE  Shown'
<1>1. /\ MediaTyped /\ Sources /\ Described
      /\ UNCHANGED <<setup, artifacts, mute>> /\ place' = "coalesced"
  BY DEF Shown, MessageCoalescing
<1>2. (joined' /\ entries' = {}) \/ UNCHANGED <<joined, entries>>
  BY DEF MessageCoalescing
<1>3. Described'
  BY <1>1, <1>2, SameSources DEF Described
<1> QED
  BY <1>1, <1>3, SameSources DEF Shown, MediaTyped

LEMMA Calls ==
  ASSUME Shown, NEW round \in {"first", "results", "note"}, CallModel(round)
  PROVE  Shown'
<1>1. /\ MediaTyped /\ Sources /\ Described
      /\ UNCHANGED <<setup, artifacts, mute, entries, joined, words>> /\ place' = "asked"
      /\ lastCall' = [round |-> round, seen |-> Attached(round)]
  BY DEF Shown, CallModel
<1>2. Described'
  BY <1>1, SameSources DEF Described
<1>3. Attached(round)' = Attached(round)
  <2>1. \A r : LastIsUser(r)' = LastIsUser(r)
    BY <1>1 DEF LastIsUser
  <2>2. \A r : AttachedImages(r)' = AttachedImages(r)
    BY <1>1, <2>1, SameSources DEF AttachedImages
  <2> QED
    BY <1>1, <2>2, SameSources
       DEF Attached, OpenAIAttached, AnthropicAttached, BedrockAttached, GeminiAttached
<1> QED
  BY <1>1, <1>2, <1>3, SameSources DEF Shown, MediaTyped

\* What reads nothing of the media.
LEMMA Others ==
  ASSUME Shown, \/ \E text \in BOOLEAN : Convert(text)
                \/ OtherPushes
                \/ UNCHANGED mediaVars
  PROVE  Shown'
<1>1. /\ MediaTyped /\ Sources
      /\ UNCHANGED <<setup, artifacts, mute, entries, joined, lastCall>>
  BY DEF Shown, Convert, OtherPushes, mediaVars
<1>2. Described' = Described
  BY <1>1, SameSources DEF Described
<1>3. CASE \E text \in BOOLEAN : Convert(text)
  BY <1>1, <1>3, SameSources DEF Convert, Shown, MediaTyped
<1>4. CASE OtherPushes
  BY <1>1, <1>2, <1>4, SameSources DEF OtherPushes, Shown, MediaTyped
<1>5. CASE UNCHANGED mediaVars
  <2>1. Attached(lastCall.round)' = Attached(lastCall.round)
    BY <1>5, SameSources
       DEF mediaVars, Attached, OpenAIAttached, AnthropicAttached, BedrockAttached, GeminiAttached,
           AttachedImages, LastIsUser
  <2> QED
    BY <1>1, <1>2, <1>5, <2>1, SameSources DEF mediaVars, Shown, MediaTyped
<1> QED
  BY <1>3, <1>4, <1>5

LEMMA ShownHolds == MediaSpec => []Shown
<1>1. Shown /\ [MediaNext]_mediaVars => Shown'
  <2> SUFFICES ASSUME Shown, [MediaNext]_mediaVars PROVE Shown'
    OBVIOUS
  <2>1. CASE MediaNext
    BY <2>1, Downloads, Others, Stores, Describes, Coalesces, Calls DEF MediaNext
  <2>2. CASE UNCHANGED mediaVars
    BY <2>2, Others
  <2> QED
    BY <2>1, <2>2
<1> QED
  BY <1>1, MediaStarts, PTL DEF MediaSpec

\* What a provider attaches has bytes, or a URL.
LEMMA AttachedAre ==
  ASSUME MediaTyped, NEW round
  PROVE  /\ Attached(round) \subseteq Attachments
         /\ \A i \in DOMAIN artifacts :
               /\ artifacts[i].type = "image" /\ artifacts[i].data /\ setup.vision
               /\ LastIsUser(round)
               => i \in Attached(round)
<1>1. /\ setup.provider \in {"openai", "anthropic", "gemini", "bedrock", "ollama"}
      /\ setup.provider = "ollama" => ~setup.vision
  BY SetupAssumption DEF MediaTyped, Setups
<1>2. \A i \in DOMAIN artifacts :
         artifacts[i].type = "image" /\ artifacts[i].data /\ setup.vision => i \in Attachments
  BY DEF Attachments, Supports
<1>3. /\ AttachedImages(round) \subseteq Attachments
      /\ \A i \in Attachments :
            artifacts[i].type = "image" /\ LastIsUser(round) => i \in AttachedImages(round)
  BY DEF AttachedImages
<1>4. CASE setup.provider = "openai" \/ setup.provider = "anthropic"
  <2>1. Attached(round) = AttachedImages(round)
    BY <1>4 DEF Attached, OpenAIAttached, AnthropicAttached
  <2> QED
    BY <1>2, <1>3, <2>1
<1>5. CASE setup.provider = "bedrock"
  <2>1. Attached(round) = BedrockAttached(round)
    BY <1>5 DEF Attached
  <2> QED
    BY <1>2, <1>3, <2>1 DEF BedrockAttached
<1>6. CASE setup.provider = "gemini"
  <2>1. Attached(round) = GeminiAttached(round)
    BY <1>6 DEF Attached
  <2> QED
    BY <1>2, <2>1 DEF GeminiAttached
<1>7. CASE setup.provider = "ollama"
  <2>1. Attached(round) = {}
    BY <1>7 DEF Attached
  <2> QED
    BY <1>1, <1>7, <2>1
<1> QED
  BY <1>1, <1>4, <1>5, <1>6, <1>7

\* For any number of files of a message, whatever a channel downloads, a Vault stores and a Lens
\* reads, and however the turn goes on: at each call of the model it sees what ArtifactsReachTheModel
\* asks for, by its own eyes or in the words of the Lens (pipeline_step_media.go, media/lens.go,
\* ReasoningService.callLLM and the attachments of the Oracles).
THEOREM ArtifactsAreShown == MediaSpec => []ArtifactsReachTheModel
<1>1. Shown => ArtifactsReachTheModel
  <2> SUFFICES ASSUME Shown, place = "asked" PROVE ArtifactsReachTheModel
    BY DEF ArtifactsReachTheModel
  <2>1. /\ MediaTyped /\ Sources /\ Described
        /\ lastCall.seen = Attached(lastCall.round)
    BY DEF Shown
  <2>2. setup.lens # {} => "notices" \in setup.lens
    BY <2>1, SetupAssumption DEF MediaTyped
  <2>3. \A i \in DOMAIN artifacts : artifacts[i] \in KeptFile
    BY <2>1 DEF MediaTyped
  <2>4. ASSUME NEW i \in DOMAIN artifacts, ~Vanished(i) PROVE Told(i)
    <3>1. ~joined /\ setup.lens # {} /\ artifacts[i].id
          /\ (artifacts[i].data => i \notin mute /\ i \in Read)
      BY <2>4 DEF Vanished, Read
    <3>2. CASE artifacts[i].data
      <4>1. <<"text", i>> \in entries
        BY <2>1, <3>1, <3>2 DEF Described
      <4> QED
        BY <4>1 DEF Told
    <3>3. CASE ~artifacts[i].data
      <4>1. i \in VideoNotices \cup DownloadNotices
        BY <3>1, <3>3 DEF VideoNotices, DownloadNotices
      <4>2. <<"notice", i>> \in entries
        BY <2>1, <2>2, <3>1, <4>1 DEF Described
      <4> QED
        BY <4>2 DEF Told
    <3> QED
      BY <3>2, <3>3
  <2>5. lastCall.round = "first" /\ (words \/ entries # {}) => LastIsUser(lastCall.round)
    BY DEF LastIsUser
  <2>6. ASSUME NEW i \in lastCall.seen PROVE <<"notice", i>> \notin entries
    <3>1. i \in Attachments /\ i \in DOMAIN artifacts
      BY <2>1, <2>6, AttachedAre DEF Attachments
    <3>2. artifacts[i].type # "video" /\ (artifacts[i].data \/ artifacts[i].url)
      BY <3>1 DEF Attachments, Supports
    <3>3. i \notin VideoNotices \cup DownloadNotices
      BY <2>1, <3>1, <3>2 DEF VideoNotices, DownloadNotices, Sources
    <3> QED
      BY <2>1, <3>3 DEF Described
  <2> QED
    BY <2>1, <2>4, <2>5, <2>6, AttachedAre DEF ArtifactsReachTheModel
<1> QED
  BY <1>1, ShownHolds, PTL

-----------------------------------------------------------------------------
(* Dialect: an answer, its results and what the provider makes of them. *)

Ids == {<<a>> : a \in Action} \cup {<<a, n>> : a \in Action, n \in Nat}
NumberedCalls == [name : Action, id : Ids, of : Nat]
LoopMessages == [role : {"user", "assistant", "tool"}, text : BOOLEAN, calls : Seq(NumberedCalls)]

\* An answer calls something, each call has an id of its name and number, and no two have a number.
Answered(t, i) ==
    LET calls == t[i].calls IN
    /\ calls # << >>
    /\ \A k \in 1..Len(calls) : calls[k].id = CallId(calls[k].name, calls[k].of)
    /\ \A k, l \in 1..Len(calls) : calls[k].of = calls[l].of => k = l

\* It is followed by its results and by no other, before the next answer.
Resulting(t, i, f) ==
    LET n == Len(t[i].calls) IN
    /\ i + n <= Len(t) /\ (i + n < Len(t) => t[i + n + 1].role = "assistant")
    /\ displaced \/ \A m \in 1..n : f[m] = m
    /\ \A m \in 1..n :
          /\ t[i + m].role = "tool" /\ t[i + m].calls = <<t[i].calls[f[m]]>>
          /\ blank \/ t[i + m].text
Followed(t, i) ==
    LET n == Len(t[i].calls) IN \E f \in Bijection(1..n, 1..n) : Resulting(t, i, f)

Talked(t) ==
    /\ t \in Seq(LoopMessages) /\ t # << >>
    /\ \A i \in 1..Len(t) : t[i].role = "user" => t[i].calls = << >>
    /\ \A i \in 1..Len(t) : t[i].role = "assistant" =>
          Answered(t, i) /\ (i = Len(t) \/ Followed(t, i))

Spelled ==
    /\ provider \in Oracles /\ {displaced, blank} \subseteq BOOLEAN /\ serial \in Nat
    /\ Talked(talk) /\ ResultsReachCalls

-----------------------------------------------------------------------------

Image(g, W) == {g[j] : j \in W}

LEMMA ImagesCount ==
  ASSUME NEW n \in Nat, NEW W \in SUBSET (1..n), NEW g,
         \A j, k \in 1..n : g[j] = g[k] => j = k
  PROVE  /\ IsFiniteSet(W) /\ Cardinality(W) \in Nat
         /\ Cardinality(Image(g, W)) = Cardinality(W)
<1> DEFINE G == Image(g, W)
           h == [j \in W |-> g[j]]
<1>1. IsFiniteSet(W)
  <2>1. IsFiniteSet(1..n)
    BY FS_Interval
  <2> QED
    BY <2>1, FS_Subset
<1>2. h \in Bijection(W, G)
  <2>1. h \in [W -> G]
    BY DEF Image
  <2>2. \A j, k \in W : h[j] = h[k] => j = k
    OBVIOUS
  <2>3. \A x \in G : \E j \in W : h[j] = x
    BY DEF Image
  <2> HIDE DEF h, G
  <2> QED
    BY <2>1, <2>2, <2>3 DEF Bijection, Injection, Surjection, IsInjective
<1>3. ExistsBijection(W, G)
  BY <1>2 DEF ExistsBijection
<1> QED
  BY <1>1, <1>3, FS_Bijection, FS_CardinalityType

\* The messages sent as one with a message are it and the results after it, if it is one.
LEMMA RunIs ==
  ASSUME NEW i \in DOMAIN talk, NEW j \in Run(talk, i), talk \in Seq(LoopMessages)
  PROVE  /\ j \in DOMAIN talk /\ i <= j
         /\ j # i => talk[j].role = "tool" /\ talk[i].role = "tool" /\ provider = "gemini"
<1>1. j \in DOMAIN talk /\ i <= j /\ \A k \in i + 1..j : Joins(talk, k)
  BY DEF Run
<1>2. i \in Nat /\ j \in Nat
  BY <1>1
<1>3. ASSUME j # i
      PROVE  talk[j].role = "tool" /\ talk[i].role = "tool" /\ provider = "gemini"
  <2>1. j \in i + 1..j /\ i + 1 \in i + 1..j /\ (i + 1) - 1 = i
    BY <1>1, <1>2, <1>3
  <2>2. Joins(talk, j) /\ Joins(talk, i + 1)
    BY <1>1, <2>1
  <2> QED
    BY <2>1, <2>2 DEF Joins
<1> QED
  BY <1>1, <1>3

LEMMA RunHasIt ==
  ASSUME NEW i \in DOMAIN talk, talk \in Seq(LoopMessages)
  PROVE  i \in Run(talk, i)
<1>1. i \in Nat /\ i + 1..i = {}
  OBVIOUS
<1> QED
  BY <1>1 DEF Run

-----------------------------------------------------------------------------
(* What a message becomes *)

Ref(c) == IF provider = "anthropic" THEN c.id ELSE IF provider = "gemini" THEN <<c.name>> ELSE << >>
UseBlock(c, k) == [nth |-> k, kind |-> "use", ref |-> c.id, of |-> c.of]
DoneBlock(c) == [nth |-> 1, kind |-> "result", ref |-> Ref(c), of |-> c.of]

LEMMA BlocksOfResult ==
  ASSUME NEW m, NEW c, m.role = "tool", m.calls = <<c>>,
         provider \in {"anthropic", "gemini", "ollama"}, provider = "anthropic" => m.text
  PROVE  /\ Blocks(m) # {}
         /\ \A x \in Blocks(m) : x.kind # "use"
         /\ \A x : (x \in Blocks(m) /\ x.kind = "result") <=> x = DoneBlock(c)
<1>1. m.calls[1] = c
  OBVIOUS
<1>2. CASE provider = "anthropic"
  <2>1. Blocks(m) = Text(m) \cup ResultBlock(m, c.id)
    BY <1>1, <1>2 DEF Blocks, AnthropicBlocks, Unless
  <2>2. ResultBlock(m, c.id) = {DoneBlock(c)} /\ DoneBlock(c).kind = "result"
    BY <1>1, <1>2 DEF ResultBlock, DoneBlock, Ref
  <2>3. \A x \in Text(m) : x.kind = "text"
    BY DEF Text
  <2> QED
    BY <2>1, <2>2, <2>3
<1>3. CASE provider = "gemini"
  <2>1. Blocks(m) = ResultBlock(m, <<c.name>>)
    BY <1>1, <1>3 DEF Blocks, GeminiBlocks
  <2>2. ResultBlock(m, <<c.name>>) = {DoneBlock(c)} /\ DoneBlock(c).kind = "result"
    BY <1>1, <1>3 DEF ResultBlock, DoneBlock, Ref
  <2> QED
    BY <2>1, <2>2
<1>4. CASE provider = "ollama"
  <2>1. Blocks(m) = ResultBlock(m, << >>)
    BY <1>1, <1>4 DEF Blocks, OllamaBlocks
  <2>2. ResultBlock(m, << >>) = {DoneBlock(c)} /\ DoneBlock(c).kind = "result"
    BY <1>1, <1>4 DEF ResultBlock, DoneBlock, Ref
  <2> QED
    BY <2>1, <2>2
<1> QED
  BY <1>2, <1>3, <1>4

LEMMA BlocksOfSpoken ==
  ASSUME NEW m, m.role # "tool", provider \in {"anthropic", "gemini", "ollama"}
  PROVE  /\ \A x : (x \in Blocks(m) /\ x.kind = "use")
               <=> \E k \in DOMAIN m.calls : x = UseBlock(m.calls[k], k)
         /\ \A x \in Blocks(m) : x.kind # "result"
<1>1. Blocks(m) = Text(m) \cup Uses(m)
  BY DEF Blocks, AnthropicBlocks, GeminiBlocks, OllamaBlocks, Spoken
<1>2. \A x \in Text(m) : x.kind = "text"
  BY DEF Text
<1>3. \A x : x \in Uses(m) <=> \E k \in DOMAIN m.calls : x = UseBlock(m.calls[k], k)
  BY DEF Uses, UseBlock
<1>4. \A x \in Uses(m) : x.kind = "use"
  BY DEF Uses
<1> QED
  BY <1>1, <1>2, <1>3, <1>4

LEMMA BlocksOfAny ==
  ASSUME NEW m, m.role = "tool", provider \in {"anthropic", "gemini", "ollama"}
  PROVE  \A x \in Blocks(m) : x.kind # "use"
<1>1. \A x \in Text(m) : x.kind = "text"
  BY DEF Text
<1>2. \A ref : \A x \in ResultBlock(m, ref) : x.kind = "result"
  BY DEF ResultBlock
<1>3. Blocks(m) \subseteq Text(m) \cup UNION {ResultBlock(m, ref) : ref \in {m.calls[1].id,
         <<m.calls[1].name>>, << >>}}
  BY DEF Blocks, AnthropicBlocks, GeminiBlocks, OllamaBlocks, Unless
<1> QED
  BY <1>1, <1>2, <1>3

-----------------------------------------------------------------------------
(* The blocks of a request for an answer *)

Sendable ==
    \/ provider = "anthropic" /\ ~blank
    \/ provider \in {"gemini", "ollama"} /\ ~displaced

LEMMA MessageOf ==
  ASSUME talk \in Seq(LoopMessages), NEW i \in DOMAIN talk
  PROVE  /\ i \in Nat /\ talk[i].role \in {"user", "assistant", "tool"}
         /\ talk[i].calls \in Seq(NumberedCalls) /\ Len(talk[i].calls) \in Nat
         /\ DOMAIN talk[i].calls = 1..Len(talk[i].calls)
<1>1. i \in Nat /\ talk[i] \in LoopMessages
  OBVIOUS
<1>2. talk[i].role \in {"user", "assistant", "tool"} /\ talk[i].calls \in Seq(NumberedCalls)
  BY <1>1 DEF LoopMessages
<1> QED
  BY <1>1, <1>2

LEMMA RequestIs ==
  ASSUME NEW i
  PROVE  /\ i \in DOMAIN Request(talk)
               <=> i \in DOMAIN talk /\ Blocks(talk[i]) # {} /\ ~Joins(talk, i)
         /\ i \in DOMAIN Request(talk) =>
               /\ Request(talk)[i].role = WireRole(talk[i])
               /\ \A x : x \in Request(talk)[i].blocks <=>
                     \E j \in Run(talk, i) : \E y \in Blocks(talk[j]) : x = <<j, y>>
<1> DEFINE R(k) == [role |-> WireRole(talk[k]), blocks
              |-> UNION {{j} \X Blocks(talk[j]) : j \in Run(talk, k)}]
           D == {j \in DOMAIN talk : Blocks(talk[j]) # {} /\ ~Joins(talk, j)}
<1>1. Request(talk) = [k \in D |-> R(k)]
  BY DEF Request
<1>2. i \in D <=> i \in DOMAIN talk /\ Blocks(talk[i]) # {} /\ ~Joins(talk, i)
  OBVIOUS
<1>3. R(i).role = WireRole(talk[i])
  OBVIOUS
<1>4. \A x : x \in R(i).blocks <=> \E j \in Run(talk, i) : \E y \in Blocks(talk[j]) : x = <<j, y>>
  <2>1. R(i).blocks = UNION {{j} \X Blocks(talk[j]) : j \in Run(talk, i)}
    OBVIOUS
  <2>2. \A j, x : x \in {j} \X Blocks(talk[j]) <=> \E y \in Blocks(talk[j]) : x = <<j, y>>
    OBVIOUS
  <2> DEFINE P(j) == {j} \X Blocks(talk[j])
  <2>3. \A x : x \in UNION {P(j) : j \in Run(talk, i)} <=> \E j \in Run(talk, i) : x \in P(j)
    <3> HIDE DEF P
    <3> QED
      OBVIOUS
  <2>4. \A x : x \in R(i).blocks <=> \E j \in Run(talk, i) : x \in P(j)
    BY <2>1, <2>3
  <2> HIDE DEF R
  <2> QED
    BY <2>2, <2>4
<1> HIDE DEF R, D
<1>5. DOMAIN Request(talk) = D
  BY <1>1
<1>6. i \in D => Request(talk)[i] = R(i)
  BY <1>1
<1> QED
  BY <1>2, <1>3, <1>4, <1>5, <1>6

UseOf(i, k) == <<i, UseBlock(talk[i].calls[k], k)>>

\* Only answers call, each what it calls in order.
LEMMA UsesAre ==
  ASSUME Talked(talk), Sendable, NEW i \in DOMAIN Request(talk)
  PROVE  /\ i \in DOMAIN talk
         /\ talk[i].role # "assistant" => Kind(Request(talk), i, "use") = {}
         /\ talk[i].role = "assistant" =>
               \A x : x \in Kind(Request(talk), i, "use") <=>
                  \E k \in 1..Len(talk[i].calls) : x = UseOf(i, k)
<1>1. talk \in Seq(LoopMessages) /\ provider \in {"anthropic", "gemini", "ollama"}
  BY DEF Talked, Sendable
<1>2. i \in DOMAIN talk
  BY RequestIs
<1>3. /\ talk[i].role \in {"user", "assistant", "tool"} /\ DOMAIN talk[i].calls = 1..Len(talk[i].calls)
      /\ talk[i].role = "user" => talk[i].calls = << >>
  BY <1>1, <1>2, MessageOf DEF Talked
<1>4. \A x : x \in Kind(Request(talk), i, "use") <=>
         \E j \in Run(talk, i) : \E y \in Blocks(talk[j]) : x = <<j, y>> /\ y.kind = "use"
  <2>1. \A x : x \in Kind(Request(talk), i, "use")
           <=> x \in Request(talk)[i].blocks /\ x[2].kind = "use"
    BY DEF Kind
  <2>2. \A x : x \in Request(talk)[i].blocks <=>
           \E j \in Run(talk, i) : \E y \in Blocks(talk[j]) : x = <<j, y>>
    BY RequestIs
  <2> QED
    BY <2>1, <2>2
<1>5. i \in Run(talk, i)
  BY <1>1, <1>2, RunHasIt
<1>6. CASE talk[i].role = "tool"
  <2>1. \A j \in Run(talk, i) : talk[j].role = "tool"
    BY <1>1, <1>2, <1>6, RunIs
  <2>2. \A j \in Run(talk, i) : \A y \in Blocks(talk[j]) : y.kind # "use"
    BY <1>1, <2>1, BlocksOfAny
  <2> QED
    BY <1>2, <1>4, <1>6, <2>2
<1>7. CASE talk[i].role # "tool"
  <2>1. \A j \in Run(talk, i) : j = i
    BY <1>1, <1>2, <1>7, RunIs
  <2>2. \A y : (y \in Blocks(talk[i]) /\ y.kind = "use") <=>
           \E k \in DOMAIN talk[i].calls : y = UseBlock(talk[i].calls[k], k)
    BY <1>1, <1>7, BlocksOfSpoken
  <2>3. \A x : x \in Kind(Request(talk), i, "use") <=>
           \E k \in 1..Len(talk[i].calls) : x = UseOf(i, k)
    BY <1>3, <1>4, <1>5, <2>1, <2>2 DEF UseOf
  <2>4. CASE talk[i].role = "user"
    <3>1. 1..Len(talk[i].calls) = {}
      BY <1>3, <2>4
    <3> QED
      BY <1>2, <2>3, <2>4, <3>1
  <2> QED
    BY <1>2, <1>3, <1>7, <2>3, <2>4
<1> QED
  BY <1>6, <1>7

DoneOf(i, m, f) == <<i + m, DoneBlock(talk[i].calls[f[m]])>>

\* The messages of an answer's results, and what is sent of them.
LEMMA FollowsIt ==
  ASSUME Talked(talk), Sendable, NEW i \in DOMAIN talk, talk[i].role = "assistant",
         NEW f \in Bijection(1..Len(talk[i].calls), 1..Len(talk[i].calls)), Resulting(talk, i, f),
         NEW m \in 1..Len(talk[i].calls)
  PROVE  /\ i + m \in DOMAIN talk /\ talk[i + m].role = "tool"
         /\ Blocks(talk[i + m]) # {}
         /\ \A x : (x \in Blocks(talk[i + m]) /\ x.kind = "result")
                      <=> x = DoneBlock(talk[i].calls[f[m]])
         /\ provider = "gemini" => (Joins(talk, i + m) <=> m # 1)
         /\ provider # "gemini" => ~Joins(talk, i + m)
<1> DEFINE n == Len(talk[i].calls)
<1>1. talk \in Seq(LoopMessages) /\ i \in Nat /\ n \in Nat /\ talk[i].calls \in Seq(NumberedCalls)
  BY MessageOf DEF Talked
<1>2. provider \in {"anthropic", "gemini", "ollama"} /\ (provider = "anthropic" => ~blank)
  BY DEF Sendable
<1>3. /\ i + n <= Len(talk)
      /\ \A l \in 1..n : /\ talk[i + l].role = "tool" /\ talk[i + l].calls = <<talk[i].calls[f[l]]>>
                         /\ blank \/ talk[i + l].text
  BY DEF Resulting
<1>4. i + m \in DOMAIN talk /\ talk[i + m].role = "tool"
  BY <1>1, <1>3
<1>5. /\ Blocks(talk[i + m]) # {}
      /\ \A x : (x \in Blocks(talk[i + m]) /\ x.kind = "result")
            <=> x = DoneBlock(talk[i].calls[f[m]])
  BY <1>2, <1>3, <1>4, BlocksOfResult
<1>6. m = 1 => ~Joins(talk, i + m)
  <2>1. m = 1 => (i + m) - 1 = i
    BY <1>1
  <2> QED
    BY <2>1 DEF Joins
<1>7. ASSUME m # 1, provider = "gemini"
      PROVE  Joins(talk, i + m)
  <2>1. m - 1 \in 1..n /\ (i + m) - 1 = i + (m - 1) /\ i + m > 1
    BY <1>1, <1>7
  <2> QED
    BY <1>3, <1>4, <1>7, <2>1 DEF Joins
<1>8. provider # "gemini" => ~Joins(talk, i + m)
  BY DEF Joins
<1> QED
  BY <1>4, <1>5, <1>6, <1>7, <1>8

LEMMA NextAnswer ==
  ASSUME Talked(talk), Sendable, NEW i \in DOMAIN talk, talk[i].role = "assistant"
  PROVE  i \in DOMAIN Request(talk) /\ Request(talk)[i].role = "assistant" /\ talk[i].calls # << >>
<1>1. talk \in Seq(LoopMessages) /\ provider \in {"anthropic", "gemini", "ollama"}
  BY DEF Talked, Sendable
<1>2. talk[i].calls # << >> /\ talk[i].calls \in Seq(NumberedCalls)
  BY <1>1, MessageOf DEF Talked, Answered
<1>3. 1 \in DOMAIN talk[i].calls
  BY <1>2
<1>4. UseBlock(talk[i].calls[1], 1) \in Blocks(talk[i])
  BY <1>1, <1>3, BlocksOfSpoken
<1>5. ~Joins(talk, i)
  BY DEF Joins
<1>6. i \in DOMAIN Request(talk)
  BY <1>4, <1>5, RequestIs
<1> QED
  BY <1>2, <1>6, RequestIs DEF WireRole

\* The result blocks of the message that a result starts.
LEMMA DoneIn ==
  ASSUME NEW l \in DOMAIN Request(talk)
  PROVE  \A x : x \in Kind(Request(talk), l, "result") <=>
            \E j \in Run(talk, l) : \E y \in Blocks(talk[j]) : x = <<j, y>> /\ y.kind = "result"
<1>1. \A x : x \in Kind(Request(talk), l, "result")
         <=> x \in Request(talk)[l].blocks /\ x[2].kind = "result"
  BY DEF Kind
<1>2. \A x : x \in Request(talk)[l].blocks <=>
         \E j \in Run(talk, l) : \E y \in Blocks(talk[j]) : x = <<j, y>>
  BY RequestIs
<1> QED
  BY <1>1, <1>2

\* What the provider looks at for the calls of an answer are the results of those, in the
\* order in which they were made.
LEMMA ResultsAre ==
  ASSUME Talked(talk), Sendable, NEW i \in DOMAIN talk, talk[i].role = "assistant",
         NEW f \in Bijection(1..Len(talk[i].calls), 1..Len(talk[i].calls)), Resulting(talk, i, f)
  PROVE  \A x : x \in ResultsAfter(Request(talk), i) <=>
            \E m \in 1..Len(talk[i].calls) : x = DoneOf(i, m, f)
<1> DEFINE n == Len(talk[i].calls)
           sent == Request(talk)
<1>1. talk \in Seq(LoopMessages) /\ i \in Nat /\ n \in Nat /\ n >= 1
  BY MessageOf, NextAnswer DEF Talked
<1>2. i + n <= Len(talk) /\ (i + n < Len(talk) => talk[i + n + 1].role = "assistant")
  BY DEF Resulting
<1>3. \A m \in 1..n :
         /\ i + m \in DOMAIN talk /\ talk[i + m].role = "tool" /\ Blocks(talk[i + m]) # {}
         /\ \A x : (x \in Blocks(talk[i + m]) /\ x.kind = "result")
               <=> x = DoneBlock(talk[i].calls[f[m]])
         /\ provider = "gemini" => (Joins(talk, i + m) <=> m # 1)
         /\ provider # "gemini" => ~Joins(talk, i + m)
  BY FollowsIt
<1>4. \A m \in 1..n : (provider # "gemini" \/ m = 1)
         => i + m \in DOMAIN sent /\ sent[i + m].role # "assistant"
  BY <1>3, RequestIs DEF WireRole
<1>5. i + n < Len(talk) => i + n + 1 \in DOMAIN sent /\ sent[i + n + 1].role = "assistant"
  BY <1>1, <1>2, NextAnswer
<1>6. DOMAIN sent \subseteq 1..Len(talk)
  BY <1>1, RequestIs
<1>7. \A m \in 1..n : \A y : (\E b \in Blocks(talk[i + m]) : y = <<i + m, b>> /\ b.kind = "result")
         <=> y = DoneOf(i, m, f)
  <2> SUFFICES ASSUME NEW m \in 1..n
               PROVE  \A y : (\E b \in Blocks(talk[i + m]) : y = <<i + m, b>> /\ b.kind = "result")
                         <=> y = DoneOf(i, m, f)
    OBVIOUS
  <2>1. \A b : (b \in Blocks(talk[i + m]) /\ b.kind = "result") <=> b = DoneBlock(talk[i].calls[f[m]])
    BY <1>3
  <2>2. DoneOf(i, m, f) = <<i + m, DoneBlock(talk[i].calls[f[m]])>>
    BY DEF DoneOf
  <2> QED
    BY <2>1, <2>2, Zenon
<1>8. CASE provider # "gemini"
  <2>1. \A j : j \in TurnAfter(sent, i) <=> \E m \in 1..n : j = i + m
    <3>1. ASSUME NEW j \in TurnAfter(sent, i)
          PROVE  \E m \in 1..n : j = i + m
      <4>1. j \in DOMAIN sent /\ i < j /\ \A k \in DOMAIN sent : i < k /\ k <= j
               => sent[k].role # "assistant"
        BY DEF TurnAfter
      <4>2. j \in Nat /\ j <= Len(talk)
        BY <1>1, <1>6, <4>1
      <4>3. j <= i + n
        <5>1. SUFFICES ASSUME j > i + n PROVE FALSE
          BY <1>1, <4>2
        <5>2. i + n < Len(talk) /\ i < i + n + 1 /\ i + n + 1 <= j
          BY <1>1, <4>2, <5>1
        <5> QED
          BY <1>5, <4>1, <5>2
      <4>4. j - i \in 1..n /\ j = i + (j - i)
        BY <1>1, <4>1, <4>2, <4>3
      <4> QED
        BY <4>4
    <3>2. ASSUME NEW m \in 1..n
          PROVE  i + m \in TurnAfter(sent, i)
      <4>1. i + m \in DOMAIN sent /\ i < i + m
        BY <1>1, <1>4, <1>8
      <4>2. ASSUME NEW k \in DOMAIN sent, i < k, k <= i + m
            PROVE  sent[k].role # "assistant"
        <5>1. k - i \in 1..n /\ k = i + (k - i)
          BY <1>1, <1>6, <4>2
        <5> QED
          BY <1>4, <1>8, <5>1
      <4> HIDE DEF sent, n
      <4> QED
        BY <1>8, <4>1, <4>2 DEF TurnAfter
    <3> QED
      BY <3>1, <3>2
  <2>2. ASSUME NEW m \in 1..n
        PROVE  \A y : y \in Kind(sent, i + m, "result") <=> y = DoneOf(i, m, f)
    <3>1. i + m \in DOMAIN sent /\ i + m \in DOMAIN talk
      BY <1>3, <1>4, <1>8
    <3>2. \A j : j \in Run(talk, i + m) <=> j = i + m
      BY <1>1, <1>8, <3>1, RunIs, RunHasIt
    <3>3. \A y : y \in Kind(sent, i + m, "result") <=>
             \E j \in Run(talk, i + m) : \E b \in Blocks(talk[j]) : y = <<j, b>> /\ b.kind = "result"
      BY <3>1, DoneIn
    <3> HIDE DEF sent, n
    <3> QED
      BY <1>7, <3>2, <3>3
  <2>3. \A x : x \in ResultsAfter(sent, i)
           <=> \E j \in TurnAfter(sent, i) : x \in Kind(sent, j, "result")
    BY DEF ResultsAfter
  <2> HIDE DEF sent, n
  <2>4. \A x : x \in ResultsAfter(sent, i) <=> \E m \in 1..n : x = DoneOf(i, m, f)
    BY <2>1, <2>2, <2>3
  <2> QED
    BY <2>4 DEF sent, n
<1>9. CASE provider = "gemini"
  <2>1. i + 1 \in DOMAIN sent /\ i + 1 \in DOMAIN talk /\ sent[i + 1].role # "assistant"
    BY <1>1, <1>3, <1>4
  <2>2. \A j : j \in TurnAfter(sent, i) <=> j = i + 1
    <3>1. ASSUME NEW j \in TurnAfter(sent, i)
          PROVE  j = i + 1
      <4>1. j \in DOMAIN sent /\ i < j /\ \A k \in DOMAIN sent : i < k /\ k <= j => k = j
        BY <1>9 DEF TurnAfter
      <4>2. i < i + 1 /\ i + 1 <= j
        BY <1>1, <1>6, <4>1
      <4> QED
        BY <2>1, <4>1, <4>2
    <3>2. i + 1 \in TurnAfter(sent, i)
      <4>1. ASSUME NEW k \in DOMAIN sent, i < k, k <= i + 1
            PROVE  k = i + 1
        BY <1>1, <1>6, <4>1
      <4>2. i < i + 1
        BY <1>1
      <4> HIDE DEF sent, n
      <4> QED
        BY <2>1, <4>1, <4>2 DEF TurnAfter
    <3> QED
      BY <3>1, <3>2
  <2>3. \A j : j \in Run(talk, i + 1) <=> \E m \in 1..n : j = i + m
    <3>1. ASSUME NEW j \in Run(talk, i + 1)
          PROVE  \E m \in 1..n : j = i + m
      <4>1. j \in DOMAIN talk /\ i + 1 <= j /\ \A k \in (i + 1) + 1..j : Joins(talk, k)
        BY DEF Run
      <4>2. j \in Nat /\ j <= Len(talk)
        BY <1>1, <4>1
      <4>3. j <= i + n
        <5>1. SUFFICES ASSUME j > i + n PROVE FALSE
          BY <1>1, <4>2
        <5>2. i + n < Len(talk) /\ i + n + 1 \in (i + 1) + 1..j
          BY <1>1, <4>2, <5>1
        <5>3. Joins(talk, i + n + 1) /\ talk[i + n + 1].role = "assistant"
          BY <1>2, <4>1, <5>2
        <5> QED
          BY <5>3 DEF Joins
      <4>4. j - i \in 1..n /\ j = i + (j - i)
        BY <1>1, <4>1, <4>2, <4>3
      <4> QED
        BY <4>4
    <3>2. ASSUME NEW m \in 1..n
          PROVE  i + m \in Run(talk, i + 1)
      <4>1. i + m \in DOMAIN talk /\ i + 1 <= i + m
        BY <1>1, <1>3
      <4>2. ASSUME NEW k \in (i + 1) + 1..i + m
            PROVE  Joins(talk, k)
        <5>1. k - i \in 1..n /\ k = i + (k - i) /\ k - i # 1
          BY <1>1, <4>2
        <5> QED
          BY <1>3, <1>9, <5>1
      <4> QED
        BY <4>1, <4>2 DEF Run
    <3> QED
      BY <3>1, <3>2
  <2>4. \A y : y \in Kind(sent, i + 1, "result") <=>
           \E j \in Run(talk, i + 1) : \E b \in Blocks(talk[j]) : y = <<j, b>> /\ b.kind = "result"
    BY <2>1, DoneIn
  <2>5. \A x : x \in ResultsAfter(sent, i)
           <=> \E j \in TurnAfter(sent, i) : x \in Kind(sent, j, "result")
    BY DEF ResultsAfter
  <2> HIDE DEF sent, n
  <2>6. \A x : x \in ResultsAfter(sent, i) <=>
           \E m \in 1..n : \E b \in Blocks(talk[i + m]) : x = <<i + m, b>> /\ b.kind = "result"
    BY <2>2, <2>3, <2>4, <2>5
  <2>7. \A x : x \in ResultsAfter(sent, i) <=> \E m \in 1..n : x = DoneOf(i, m, f)
    BY <1>7, <2>6
  <2> QED
    BY <2>7 DEF sent, n
<1> QED
  BY <1>8, <1>9

-----------------------------------------------------------------------------
(* Counting *)

\* The n blocks of a set, in the order in which they are sent.
Listed(X, g, n) ==
    /\ \A x : x \in X <=> \E j \in 1..n : x = g[j]
    /\ \A j, l \in 1..n :
          (g[j][1] < g[l][1] \/ (g[j][1] = g[l][1] /\ g[j][2].nth <= g[l][2].nth)) <=> j <= l

Alike(g, k) == {j \in 1..k : g[j][2].ref = g[k][2].ref}

\* Blocks in a row: those up to the k-th are the first k, and so of those with its reference.
LEMMA Counted ==
  ASSUME NEW n \in Nat, NEW g, NEW X, NEW k \in 1..n, Listed(X, g, n)
  PROVE  /\ Cardinality(UpTo(X, g[k])) = Cardinality(1..k)
         /\ Cardinality(UpTo(SameRef(X, g[k]), g[k])) = Cardinality(Alike(g, k))
<1> DEFINE W == {j \in 1..k : g[j][2].ref = g[k][2].ref}
           Le(x, y) == x[1] < y[1] \/ (x[1] = y[1] /\ x[2].nth <= y[2].nth)
<1>0. \A x : x \in X <=> \E j \in 1..n : x = g[j]
  BY DEF Listed
<1>1. \A j, l \in 1..n : Le(g[j], g[l]) <=> j <= l
  BY DEF Listed
<1>2. \A j, l \in 1..n : g[j] = g[l] => j = l
  <2> HIDE DEF Le
  <2>1. ASSUME NEW j \in 1..n, NEW l \in 1..n, g[j] = g[l]
        PROVE  j = l
    <3>1. Le(g[j], g[l]) /\ Le(g[l], g[j])
      BY <1>1, <2>1
    <3>2. j <= l /\ l <= j
      BY <1>1, <3>1
    <3> QED
      BY <3>2
  <2> QED
    BY <2>1
<1>3. \A j : j \in 1..k <=> j \in 1..n /\ j <= k
  OBVIOUS
<1>4. \A x : x \in UpTo(X, g[k]) <=> \E j \in 1..k : x = g[j]
  <2>1. \A x : x \in UpTo(X, g[k]) <=> x \in X /\ Le(x, g[k])
    BY DEF UpTo
  <2> HIDE DEF Le
  <2> QED
    BY <1>0, <1>1, <1>3, <2>1
<1>5. \A x : x \in UpTo(SameRef(X, g[k]), g[k]) <=> \E j \in W : x = g[j]
  <2>1. \A x : x \in UpTo(SameRef(X, g[k]), g[k]) <=> x \in X /\ x[2].ref = g[k][2].ref /\ Le(x, g[k])
    BY DEF UpTo, SameRef
  <2>2. \A j : j \in W <=> j \in 1..k /\ g[j][2].ref = g[k][2].ref
    OBVIOUS
  <2> HIDE DEF Le, W
  <2> QED
    BY <1>0, <1>1, <1>3, <2>1, <2>2
<1>6. W \subseteq 1..n /\ 1..k \subseteq 1..n
  OBVIOUS
<1> HIDE DEF W
<1>7. UpTo(X, g[k]) = Image(g, 1..k) /\ UpTo(SameRef(X, g[k]), g[k]) = Image(g, W)
  BY <1>4, <1>5 DEF Image
<1>8. Cardinality(Image(g, 1..k)) = Cardinality(1..k) /\ Cardinality(Image(g, W)) = Cardinality(W)
  BY <1>2, <1>6, ImagesCount
<1> QED
  BY <1>7, <1>8 DEF W, Alike

\* The number of those before it with its name tells a call from the others of the name.
LEMMA CountTells ==
  ASSUME NEW n \in Nat, NEW r, NEW k \in 1..n, NEW m \in 1..n, r[m] = r[k],
         Cardinality({j \in 1..m : r[j] = r[m]}) = Cardinality({j \in 1..k : r[j] = r[k]})
  PROVE  m = k
<1> DEFINE W(l) == {j \in 1..l : r[j] = r[l]}
<1>1. ASSUME NEW a \in 1..n, NEW b \in 1..n, r[a] = r[b], a < b, Cardinality(W(a)) = Cardinality(W(b))
      PROVE  FALSE
  <2>1. W(a) \subseteq W(b)
    BY <1>1
  <2>2. b \in W(b) /\ b \notin W(a)
    BY <1>1
  <2>3. IsFiniteSet(W(b))
    <3>1. IsFiniteSet(1..b) /\ W(b) \subseteq 1..b
      BY FS_Interval
    <3> HIDE DEF W
    <3> QED
      BY <3>1, FS_Subset
  <2> HIDE DEF W
  <2>4. W(a) = W(b)
    BY <1>1, <2>1, <2>3, FS_Subset
  <2> QED
    BY <2>2, <2>4
<1>2. m < k \/ k < m \/ m = k
  OBVIOUS
<1>3. Cardinality(W(m)) = Cardinality(W(k))
  OBVIOUS
<1> HIDE DEF W
<1> QED
  BY <1>1, <1>2, <1>3

-----------------------------------------------------------------------------
(* Each call of a request is followed by its own result *)

LEMMA SentInOrder ==
  ASSUME Talked(talk), Pending = << >>, Sendable, NEW i \in DOMAIN Request(talk)
  PROVE  EachResult(Request(talk), i)
<1> DEFINE n == Len(talk[i].calls)
           calls == talk[i].calls
           sent == Request(talk)
           uses == Kind(sent, i, "use")
           results == ResultsAfter(sent, i)
<1>1. i \in DOMAIN talk /\ talk \in Seq(LoopMessages)
  BY UsesAre DEF Talked
<1>2. SUFFICES ASSUME talk[i].role = "assistant", NEW k \in 1..n
               PROVE  \E r \in results :
                         Understood(uses, results, UseOf(i, k)) = {r} /\ r[2].of = UseOf(i, k)[2].of
  <2>1. CASE talk[i].role # "assistant"
    <3>1. uses = {}
      BY <2>1, UsesAre
    <3> HIDE DEF uses, sent
    <3>2. EachResult(sent, i)
      BY <3>1 DEF EachResult, uses
    <3> QED
      BY <3>2 DEF sent
  <2>2. CASE talk[i].role = "assistant"
    <3>1. \A x : x \in uses <=> \E k \in 1..n : x = UseOf(i, k)
      BY <2>2, UsesAre
    <3>2. \A k \in 1..n : \E r \in results :
             Understood(uses, results, UseOf(i, k)) = {r} /\ r[2].of = UseOf(i, k)[2].of
      BY <1>2, <2>2
    <3> HIDE DEF uses, sent, results, n
    <3>3. \A u \in uses : \E r \in results : Understood(uses, results, u) = {r} /\ r[2].of = u[2].of
      BY <3>1, <3>2
    <3>4. EachResult(sent, i)
      BY <3>3 DEF EachResult, uses, results
    <3> QED
      BY <3>4 DEF sent
  <2> QED
    BY <2>1, <2>2
<1>3. /\ n \in Nat /\ i \in Nat /\ Answered(talk, i) /\ calls # << >>
      /\ i = Len(talk) \/ Followed(talk, i)
  BY <1>1, <1>2, MessageOf DEF Talked, Answered
<1>4. i # Len(talk)
  BY <1>2, <1>3 DEF Pending
<1>5. PICK f \in Bijection(1..n, 1..n) : Resulting(talk, i, f)
  BY <1>3, <1>4 DEF Followed
<1>6. /\ \A x : x \in results <=> \E m \in 1..n : x = DoneOf(i, m, f)
      /\ \A x : x \in uses <=> \E j \in 1..n : x = UseOf(i, j)
  BY <1>1, <1>2, <1>5, ResultsAre, UsesAre
<1>7. /\ \A m \in 1..n : f[m] \in 1..n
      /\ \A l, m \in 1..n : f[l] = f[m] => l = m
      /\ \A j \in 1..n : \E m \in 1..n : f[m] = j
  BY <1>5 DEF Bijection, Injection, Surjection, IsInjective
<1>8. /\ \A j \in 1..n : calls[j].id = CallId(calls[j].name, calls[j].of)
      /\ \A j, l \in 1..n : calls[j].of = calls[l].of => j = l
  BY <1>3 DEF Answered
<1>9. \A j \in 1..n : /\ UseOf(i, j)[1] = i /\ UseOf(i, j)[2].nth = j
                      /\ UseOf(i, j)[2].ref = calls[j].id /\ UseOf(i, j)[2].of = calls[j].of
  BY DEF UseOf, UseBlock
<1>10. \A m \in 1..n : /\ DoneOf(i, m, f)[1] = i + m /\ DoneOf(i, m, f)[2].nth = 1
                       /\ DoneOf(i, m, f)[2].ref = Ref(calls[f[m]])
                       /\ DoneOf(i, m, f)[2].of = calls[f[m]].of
  BY DEF DoneOf, DoneBlock
<1>11. CASE provider = "anthropic"
  <2>1. PICK m \in 1..n : f[m] = k
    BY <1>7
  <2>2. \A x : x \in Understood(uses, results, UseOf(i, k))
           <=> x \in results /\ x[2].ref = calls[k].id
    <3> HIDE DEF uses, results, n, calls
    <3> QED
      BY <1>2, <1>9, <1>11 DEF Understood
  <2>3. \A l \in 1..n : DoneOf(i, l, f)[2].ref = calls[f[l]].id
    BY <1>10, <1>11 DEF Ref
  <2>4. \A j \in 1..n : calls[j].id = calls[k].id => j = k
    <3>1. \A j \in 1..n : calls[j].id = <<calls[j].name, calls[j].of>>
      BY <1>8, <1>11 DEF CallId
    <3> QED
      BY <1>2, <1>8, <3>1
  <2> HIDE DEF uses, results, n, calls
  <2>5. \A x : x \in Understood(uses, results, UseOf(i, k)) <=> x = DoneOf(i, m, f)
    <3>1. \A l \in 1..n : calls[f[l]].id = calls[k].id => l = m
      <4>1. \A l \in 1..n : calls[f[l]].id = calls[k].id => f[l] = k
        BY <1>7, <2>4
      <4> QED
        BY <1>7, <2>1, <4>1
    <3>2. DoneOf(i, m, f)[2].ref = calls[k].id
      BY <2>1, <2>3
    <3>3. \A l \in 1..n : DoneOf(i, l, f)[2].ref = calls[k].id => l = m
      BY <2>3, <3>1
    <3> QED
      BY <1>6, <2>2, <3>2, <3>3
  <2>6. Understood(uses, results, UseOf(i, k)) = {DoneOf(i, m, f)}
    BY <2>5, Zenon
  <2> QED
    BY <1>2, <1>6, <1>9, <1>10, <2>1, <2>6
<1>12. CASE provider \in {"gemini", "ollama"}
  <2> DEFINE U == [j \in 1..n |-> UseOf(i, j)]
             D == [j \in 1..n |-> DoneOf(i, j, f)]
             N == [j \in 1..n |-> <<calls[j].name>>]
             W(l) == {j \in 1..l : N[j] = N[l]}
  <2>1. \A m \in 1..n : f[m] = m
    BY <1>5, <1>12 DEF Resulting, Sendable
  <2>2. \A j \in 1..n : U[j] = UseOf(i, j) /\ D[j] = DoneOf(i, j, f) /\ N[j] = <<calls[j].name>>
    OBVIOUS
  <2> HIDE DEF U, D, N, uses, results, n, calls
  <2>3. /\ \A x : x \in uses <=> \E j \in 1..n : x = U[j]
        /\ \A x : x \in results <=> \E j \in 1..n : x = D[j]
    BY <1>6, <2>2
  <2>4. /\ \A j, l \in 1..n : (U[j][1] < U[l][1] \/ (U[j][1] = U[l][1] /\ U[j][2].nth <= U[l][2].nth)) <=> j <= l
        /\ \A j, l \in 1..n : (D[j][1] < D[l][1] \/ (D[j][1] = D[l][1] /\ D[j][2].nth <= D[l][2].nth)) <=> j <= l
    <3>1. \A j \in 1..n : U[j][1] = i /\ U[j][2].nth = j /\ D[j][1] = i + j /\ D[j][2].nth = 1
      BY <1>9, <1>10, <2>2
    <3>2. i \in Nat /\ n \in Nat
      BY <1>3
    <3>3. \A j, l \in 1..n :
             (U[j][1] < U[l][1] \/ (U[j][1] = U[l][1] /\ U[j][2].nth <= U[l][2].nth)) <=> j <= l
      BY <3>1, <3>2
    <3>4. \A j, l \in 1..n :
             (D[j][1] < D[l][1] \/ (D[j][1] = D[l][1] /\ D[j][2].nth <= D[l][2].nth)) <=> j <= l
      BY <3>1, <3>2
    <3> QED
      BY <3>3, <3>4
  <2>5. \A l \in 1..n :
           /\ Cardinality(UpTo(uses, U[l])) = Cardinality(1..l)
           /\ Cardinality(UpTo(results, D[l])) = Cardinality(1..l)
           /\ Cardinality(UpTo(SameRef(uses, U[l]), U[l])) = Cardinality(Alike(U, l))
           /\ Cardinality(UpTo(SameRef(results, D[l]), D[l])) = Cardinality(Alike(D, l))
    <3> SUFFICES ASSUME NEW l \in 1..n
                 PROVE  /\ Cardinality(UpTo(uses, U[l])) = Cardinality(1..l)
                        /\ Cardinality(UpTo(results, D[l])) = Cardinality(1..l)
                        /\ Cardinality(UpTo(SameRef(uses, U[l]), U[l])) = Cardinality(Alike(U, l))
                        /\ Cardinality(UpTo(SameRef(results, D[l]), D[l])) = Cardinality(Alike(D, l))
      OBVIOUS
    <3>0. Listed(uses, U, n) /\ Listed(results, D, n)
      BY <2>3, <2>4 DEF Listed
    <3>1. /\ Cardinality(UpTo(uses, U[l])) = Cardinality(1..l)
          /\ Cardinality(UpTo(SameRef(uses, U[l]), U[l])) = Cardinality(Alike(U, l))
      BY <1>3, <3>0, Counted
    <3>2. /\ Cardinality(UpTo(results, D[l])) = Cardinality(1..l)
          /\ Cardinality(UpTo(SameRef(results, D[l]), D[l])) = Cardinality(Alike(D, l))
      BY <1>3, <3>0, Counted
    <3> QED
      BY <3>1, <3>2
  <2>6. D[k] \in results /\ D[k][2].of = UseOf(i, k)[2].of /\ UseOf(i, k) = U[k]
    BY <1>2, <1>9, <1>10, <2>1, <2>2, <2>3
  <2>7. CASE provider = "gemini"
    <3>1. \A l \in 1..n : U[l][2].ref = N[l] /\ D[l][2].ref = N[l]
      BY <1>8, <1>9, <1>10, <2>1, <2>2, <2>7 DEF CallId, Ref
    <3>2. \A l \in 1..n : Alike(U, l) = W(l) /\ Alike(D, l) = W(l)
      <4>1. \A l \in 1..n : \A j \in 1..l : j \in 1..n
        BY <1>3
      <4> QED
        BY <3>1, <4>1 DEF Alike
    <3> HIDE DEF W
    <3>3. \A x : x \in Understood(uses, results, U[k]) <=>
             /\ x \in results /\ x[2].ref = U[k][2].ref
             /\ Cardinality(UpTo(SameRef(results, x), x)) = Cardinality(UpTo(SameRef(uses, U[k]),
                   U[k]))
      BY <2>7 DEF Understood
    <3>4. \A m \in 1..n : N[m] = N[k] /\ Cardinality(W(m)) = Cardinality(W(k)) => m = k
      BY <1>2, <1>3, CountTells DEF W
    <3>5. \A m \in 1..n : D[m] \in Understood(uses, results, U[k]) <=> m = k
      <4>1. \A l \in 1..n :
               /\ Cardinality(UpTo(SameRef(uses, U[l]), U[l])) = Cardinality(W(l))
               /\ Cardinality(UpTo(SameRef(results, D[l]), D[l])) = Cardinality(W(l))
        BY <2>5, <3>2
      <4>2. \A m \in 1..n : D[m] \in Understood(uses, results, U[k]) <=>
               N[m] = N[k] /\ Cardinality(W(m)) = Cardinality(W(k))
        BY <1>2, <2>3, <3>1, <3>3, <4>1
      <4> QED
        BY <1>2, <3>4, <4>2
    <3>6. \A x : x \in Understood(uses, results, U[k]) <=> x = D[k]
      BY <1>2, <2>3, <3>3, <3>5
    <3>7. Understood(uses, results, U[k]) = {D[k]}
      BY <3>6, Zenon
    <3> QED
      BY <2>6, <3>7
  <2>8. CASE provider = "ollama"
    <3>1. \A x : x \in Understood(uses, results, U[k]) <=>
             x \in results /\ Cardinality(UpTo(results, x)) = Cardinality(UpTo(uses, U[k]))
      BY <2>8 DEF Understood
    <3>2. \A m \in 1..n : Cardinality(1..m) = m
      BY <1>3, FS_Interval
    <3>3. \A m \in 1..n : D[m] \in Understood(uses, results, U[k]) <=> m = k
      BY <1>2, <2>3, <2>5, <3>1, <3>2
    <3>4. \A x : x \in Understood(uses, results, U[k]) <=> x = D[k]
      BY <1>2, <2>3, <3>1, <3>3
    <3>5. Understood(uses, results, U[k]) = {D[k]}
      BY <3>4, Zenon
    <3> QED
      BY <2>6, <3>5
  <2> QED
    BY <1>12, <2>7, <2>8
<1> QED
  BY <1>11, <1>12 DEF Sendable

-----------------------------------------------------------------------------
(* Every step of the dialogue *)

\* EachResult with the provider as a parameter.
EachResultBy(p, sent, i) ==
    LET uses == Kind(sent, i, "use")
        turn == {j \in DOMAIN sent : i < j /\ \A k \in DOMAIN sent :
                   i < k /\ k <= j => sent[k].role # "assistant" /\ (p = "gemini" => k = j)}
        results == UNION {Kind(sent, j, "result") : j \in turn}
    IN \A u \in uses : \E r \in results :
          /\ {x \in results :
                CASE p = "gemini" ->
                       /\ x[2].ref = u[2].ref
                       /\ Cardinality(UpTo(SameRef(results, x), x)) = Cardinality(UpTo(SameRef(uses,
                             u), u))
                  [] p = "ollama" -> Cardinality(UpTo(results, x)) = Cardinality(UpTo(uses, u))
                  [] OTHER -> x[2].ref = u[2].ref} = {r}
          /\ r[2].of = u[2].of

ReachBy(p, sent, d, b) ==
    \/ p = "anthropic" /\ b
    \/ p \in {"gemini", "ollama"} /\ d
    \/ p \in {"openai", "bedrock"}
    \/ \A i \in DOMAIN sent : EachResultBy(p, sent, i)

LEMMA EachIsBy ==
  ASSUME NEW sent, NEW i
  PROVE  EachResult(sent, i) <=> EachResultBy(provider, sent, i)
BY DEF EachResult, EachResultBy, ResultsAfter, TurnAfter, Understood

LEMMA ReachIsBy == ResultsReachCalls <=> ReachBy(provider, wire, displaced, blank)
BY EachIsBy DEF ResultsReachCalls, ReachBy

LEMMA ReachIsByNext == ResultsReachCalls' <=> ReachBy(provider', wire', displaced', blank')
BY DEF ResultsReachCalls, ReachBy, EachResult, EachResultBy, ResultsAfter, TurnAfter, Understood

LEMMA RequestReaches ==
  ASSUME Talked(talk), Pending = << >>, provider \in Oracles
  PROVE  ReachBy(provider, Request(talk), displaced, blank)
<1>1. CASE Sendable
  <2>1. \A i \in DOMAIN Request(talk) : EachResultBy(provider, Request(talk), i)
    BY <1>1, SentInOrder, EachIsBy
  <2> QED
    BY <2>1 DEF ReachBy
<1>2. CASE ~Sendable
  BY <1>2, OraclesAssumption DEF Sendable, ReachBy
<1> QED
  BY <1>1, <1>2

LEMMA SpelledInit == DialectInit => Spelled
<1> SUFFICES ASSUME DialectInit PROVE Spelled
  OBVIOUS
<1>1. talk = <<User>> /\ User \in LoopMessages /\ User.role = "user" /\ User.calls = << >>
  BY DEF DialectInit, User, LoopMessages
<1>2. Talked(talk)
  BY <1>1 DEF Talked
<1>3. ResultsReachCalls
  BY DEF DialectInit, ResultsReachCalls
<1> QED
  BY <1>2, <1>3 DEF Spelled, DialectInit

\* Answers remain followed by their results when the talk goes on.
LEMMA FollowedStays ==
  ASSUME Talked(talk), NEW i \in 1..Len(talk), talk[i].role = "assistant", Followed(talk, i),
         provider' = provider, talk' \in Seq(LoopMessages), Len(talk') > Len(talk),
         \A j \in 1..Len(talk) : talk'[j] = talk[j],
         talk'[Len(talk) + 1].role = "assistant" \/ talk[Len(talk)].role = "assistant",
         displaced => displaced', blank => blank'
  PROVE  Followed(talk, i)'
<1> DEFINE n == Len(talk[i].calls)
<1>1. PICK f \in Bijection(1..n, 1..n) : Resulting(talk, i, f)
  BY DEF Followed
<1>2. /\ i \in DOMAIN talk /\ talk \in Seq(LoopMessages) /\ i \in Nat /\ n \in Nat /\ n >= 1
      /\ Len(talk) \in Nat /\ Len(talk') \in Nat
  <2>1. talk \in Seq(LoopMessages) /\ i \in DOMAIN talk /\ talk[i].calls # << >>
    BY DEF Talked, Answered
  <2>2. talk[i].calls \in Seq(NumberedCalls) /\ Len(talk[i].calls) # 0
    BY <2>1, MessageOf
  <2> QED
    BY <2>1, <2>2
<1>3. /\ i + n <= Len(talk) /\ (i + n < Len(talk) => talk[i + n + 1].role = "assistant")
      /\ displaced \/ \A m \in 1..n : f[m] = m
      /\ \A m \in 1..n : /\ talk[i + m].role = "tool" /\ talk[i + m].calls = <<talk[i].calls[f[m]]>>
                         /\ blank \/ talk[i + m].text
  BY <1>1 DEF Resulting
<1>4. talk'[i] = talk[i]
  OBVIOUS
<1>5. \A m \in 1..n : talk'[i + m] = talk[i + m]
  <2>1. \A m \in 1..n : i + m \in 1..Len(talk)
    <3> HIDE DEF n
    <3>1. i + n <= Len(talk)
      BY <1>3
    <3> QED
      BY <1>2, <3>1
  <2> HIDE DEF n
  <2> QED
    BY <2>1
<1>6. talk'[i + n + 1].role = "assistant"
  <2>1. CASE i + n < Len(talk)
    <3>1. i + n + 1 \in 1..Len(talk)
      BY <1>2, <2>1
    <3> QED
      BY <1>3, <2>1, <3>1
  <2>2. CASE i + n = Len(talk)
    <3>1. talk[Len(talk)].role = "tool"
      <4>1. n \in 1..n
        BY <1>2
      <4>2. talk[i + n].role = "tool"
        BY <1>3, <4>1
      <4> QED
        BY <2>2, <4>2
    <3> QED
      BY <2>2, <3>1
  <2>3. i + n < Len(talk) \/ i + n = Len(talk)
    <3> HIDE DEF n
    <3>1. i + n <= Len(talk)
      BY <1>3
    <3>2. i \in Nat /\ n \in Nat /\ Len(talk) \in Nat
      BY <1>2
    <3> QED
      BY <3>1, <3>2
  <2> QED
    BY <2>1, <2>2, <2>3
<1>7. Resulting(talk, i, f)'
  <2>1. i + n <= Len(talk')
    BY <1>2, <1>3
  <2> HIDE DEF n
  <2>2. /\ i + n <= Len(talk') /\ (i + n < Len(talk') => talk'[i + n + 1].role = "assistant")
        /\ displaced' \/ \A m \in 1..n : f[m] = m
        /\ \A m \in 1..n : /\ talk'[i + m].role = "tool" /\ talk'[i + m].calls = <<talk'[i].calls[f[m]]>>
                           /\ blank' \/ talk'[i + m].text
    BY <1>3, <1>4, <1>5, <1>6, <2>1
  <2>3. n = Len(talk'[i].calls)
    BY <1>4 DEF n
  <2> QED
    BY <2>2, <2>3 DEF Resulting
<1>8. f \in Bijection(1..Len(talk'[i].calls), 1..Len(talk'[i].calls))
  BY <1>1, <1>4
<1> QED
  BY <1>7, <1>8 DEF Followed

\* The last message, when nothing is pending, is no answer.
LEMMA NothingPending ==
  ASSUME Talked(talk)
  PROVE  Pending = << >> <=> talk[Len(talk)].role # "assistant"
<1>1. talk \in Seq(LoopMessages) /\ talk # << >> /\ Len(talk) \in 1..Len(talk)
  BY DEF Talked
<1>2. talk[Len(talk)].role = "assistant" => talk[Len(talk)].calls # << >>
  BY <1>1 DEF Talked, Answered
<1> QED
  BY <1>2 DEF Pending

\* The calls of an answer are named and numbered.
LEMMA NewCalls ==
  ASSUME serial \in Nat, NEW n \in Nat, NEW names \in [1..n -> Action]
  PROVE  /\ ToolCalls(names) \in Seq(NumberedCalls) /\ Len(ToolCalls(names)) = n
         /\ \A k \in 1..n : /\ ToolCalls(names)[k].id = CallId(ToolCalls(names)[k].name, ToolCalls(names)[k].of)
                            /\ ToolCalls(names)[k].of = serial + k
<1> DEFINE C(k) == [name |-> names[k], id |-> CallId(names[k], serial + k), of |-> serial + k]
<1>1. ToolCalls(names) = [k \in 1..n |-> C(k)]
  BY DEF ToolCalls
<1>2. \A k \in 1..n : C(k) \in NumberedCalls
  <2> SUFFICES ASSUME NEW k \in 1..n PROVE C(k) \in NumberedCalls
    OBVIOUS
  <2>1. names[k] \in Action /\ serial + k \in Nat
    OBVIOUS
  <2>2. CallId(names[k], serial + k) \in Ids
    BY <2>1 DEF CallId, Ids
  <2> QED
    BY <2>1, <2>2 DEF NumberedCalls
<1>3. \A k \in 1..n : C(k).id = CallId(C(k).name, C(k).of) /\ C(k).of = serial + k
  OBVIOUS
<1> HIDE DEF C
<1>4. [k \in 1..n |-> C(k)] \in [1..n -> NumberedCalls]
  BY <1>2
<1>5. ToolCalls(names) \in Seq(NumberedCalls) /\ Len(ToolCalls(names)) = n
  BY <1>1, <1>4
<1>6. \A k \in 1..n : ToolCalls(names)[k] = C(k)
  BY <1>1
<1> QED
  BY <1>3, <1>5, <1>6

LEMMA AskSpells == Spelled /\ Ask => Spelled'
<1> SUFFICES ASSUME Spelled, Ask PROVE Spelled'
  OBVIOUS
<1>1. /\ Talked(talk) /\ Pending = << >> /\ provider \in Oracles /\ serial \in Nat
      /\ wire' = Request(talk) /\ provider' = provider /\ displaced' = displaced /\ blank' = blank
  BY DEF Spelled, Ask
<1>2. PICK n \in 1..MaxBatch, text \in BOOLEAN : \E names \in [1..n -> Action] :
         /\ talk' = Append(talk, [role |-> "assistant", text |-> text, calls |-> ToolCalls(names)])
         /\ serial' = serial + n
  BY DEF Ask
<1>3. PICK names \in [1..n -> Action] :
         /\ talk' = Append(talk, [role |-> "assistant", text |-> text, calls |-> ToolCalls(names)])
         /\ serial' = serial + n
  BY <1>2
<1> PICK calls : calls = ToolCalls(names)
  OBVIOUS
<1> DEFINE msg == [role |-> "assistant", text |-> text, calls |-> calls]
<1>4. n \in Nat /\ n >= 1
  BY BatchAssumption
<1>5. /\ calls \in Seq(NumberedCalls) /\ Len(calls) = n
      /\ \A k \in 1..n : /\ calls[k].id = CallId(calls[k].name, calls[k].of)
                         /\ calls[k].of = serial + k
  BY <1>1, <1>4, NewCalls
<1>6. /\ msg \in LoopMessages /\ msg.role = "assistant" /\ msg.calls = calls
      /\ calls # << >>
  <2>1. calls # << >>
    BY <1>4, <1>5
  <2> QED
    BY <1>5, <2>1 DEF LoopMessages
<1>7. talk \in Seq(LoopMessages) /\ talk # << >> /\ talk' = Append(talk, msg)
  BY <1>1, <1>3 DEF Talked
<1> HIDE DEF msg
<1>8. /\ talk' \in Seq(LoopMessages) /\ Len(talk') = Len(talk) + 1 /\ talk' # << >> /\ Len(talk) \in Nat
      /\ \A j \in 1..Len(talk) : talk'[j] = talk[j]
      /\ talk'[Len(talk) + 1] = msg
  BY <1>6, <1>7
<1>9. \A i \in 1..Len(talk') : i \in 1..Len(talk) \/ i = Len(talk')
  BY <1>8
<1>10. \A i \in 1..Len(talk) : talk[i].role = "assistant" => Answered(talk, i) /\ Followed(talk, i)
  BY <1>1, <1>7, NothingPending DEF Talked
<1>11. \A i \in 1..Len(talk) : talk'[i].role = "assistant" => Answered(talk, i)' /\ Followed(talk, i)'
  <2> SUFFICES ASSUME NEW i \in 1..Len(talk), talk'[i].role = "assistant"
               PROVE  Answered(talk, i)' /\ Followed(talk, i)'
    OBVIOUS
  <2>1. talk'[i] = talk[i]
    BY <1>8
  <2>2. Answered(talk, i)'
    BY <1>1, <1>10, <2>1 DEF Answered, CallId
  <2>3. Len(talk') > Len(talk) /\ talk'[Len(talk) + 1].role = "assistant"
    BY <1>6, <1>8
  <2>4. Followed(talk, i)'
    BY <1>1, <1>8, <1>10, <2>1, <2>3, FollowedStays
  <2> QED
    BY <2>2, <2>4
<1>12. ASSUME NEW i, i = Len(talk')
       PROVE  Answered(talk, i)'
  <2>1. talk'[i].calls = calls
    BY <1>6, <1>8, <1>12
  <2>2. \A k, l \in 1..n : serial + k = serial + l => k = l
    BY <1>1
  <2>3. \A k \in 1..n : calls[k].id = CallId(calls[k].name, calls[k].of)'
    BY <1>1, <1>5 DEF CallId
  <2> QED
    BY <1>5, <1>6, <2>1, <2>2, <2>3 DEF Answered
<1>13. \A i \in 1..Len(talk') : talk'[i].role = "user" => talk'[i].calls = << >>
  <2>1. \A i \in 1..Len(talk) : talk[i].role = "user" => talk[i].calls = << >>
    BY <1>1 DEF Talked
  <2> QED
    BY <1>6, <1>8, <1>9, <2>1
<1>14. \A i \in 1..Len(talk') : talk'[i].role = "assistant" =>
          Answered(talk, i)' /\ (i = Len(talk') \/ Followed(talk, i)')
  BY <1>9, <1>11, <1>12
<1>15. Talked(talk)'
  BY <1>8, <1>13, <1>14 DEF Talked
<1>16. ResultsReachCalls'
  BY <1>1, RequestReaches, ReachIsByNext
<1>17. serial' \in Nat
  BY <1>1, <1>3, <1>4
<1> QED
  BY <1>1, <1>15, <1>16, <1>17 DEF Spelled

LEMMA ExecuteSpells == Spelled /\ Execute => Spelled'
<1> SUFFICES ASSUME Spelled, Execute PROVE Spelled'
  OBVIOUS
<1> DEFINE last == Len(talk)
<1>1. /\ Talked(talk) /\ Pending # << >> /\ provider \in Oracles /\ serial \in Nat
      /\ {displaced, blank} \subseteq BOOLEAN /\ ResultsReachCalls
      /\ provider' = provider /\ wire' = wire /\ serial' = serial
  BY DEF Spelled, Execute
<1>2. /\ talk \in Seq(LoopMessages) /\ talk # << >> /\ last \in 1..Len(talk) /\ last \in Nat
      /\ talk[last].role = "assistant" /\ Pending = talk[last].calls
  <2>1. talk \in Seq(LoopMessages) /\ talk # << >> /\ last \in 1..Len(talk) /\ last \in Nat
    BY <1>1 DEF Talked
  <2>2. talk[last].role = "assistant"
    BY <1>1, NothingPending
  <2> QED
    BY <2>1, <2>2 DEF Pending
<1>3. PICK calls : calls = Pending
  OBVIOUS
<1>4. PICK n : n = Len(calls)
  OBVIOUS
<1>5. calls \in Seq(NumberedCalls) /\ DOMAIN calls = 1..n /\ n \in Nat /\ n >= 1 /\ calls = talk[last].calls
  <2>1. calls \in Seq(NumberedCalls) /\ calls # << >>
    BY <1>1, <1>2, <1>3, MessageOf
  <2> QED
    BY <1>2, <1>3, <1>4, <2>1
<1>6. PICK skipped \in SUBSET DOMAIN Pending, empty \in SUBSET DOMAIN Pending :
         \E order \in Orders(Pending, skipped) :
            /\ talk' = talk \o [i \in DOMAIN order |->
                  [role |-> "tool", text |-> order[i] \notin empty, calls |-> <<Pending[order[i]]>>]]
            /\ displaced' = (displaced \/ order # [i \in DOMAIN Pending |-> i])
            /\ blank' = (blank \/ empty # {})
  BY DEF Execute
<1>7. PICK order \in Orders(Pending, skipped) :
         /\ talk' = talk \o [i \in DOMAIN order |->
               [role |-> "tool", text |-> order[i] \notin empty, calls |-> <<Pending[order[i]]>>]]
         /\ displaced' = (displaced \/ order # [i \in DOMAIN Pending |-> i])
         /\ blank' = (blank \/ empty # {})
  BY <1>6
<1>8. order \in Bijection(1..n, 1..n) /\ order \in [1..n -> 1..n]
  <2>1. order \in Bijection(1..n, 1..n)
    BY <1>3, <1>5, <1>7 DEF Orders
  <2> QED
    BY <2>1 DEF Bijection, Injection
<1> DEFINE M(i) == [role |-> "tool", text |-> order[i] \notin empty, calls |-> <<calls[order[i]]>>]
           batch == [i \in 1..n |-> M(i)]
<1>9. talk' = talk \o batch
  BY <1>3, <1>7, <1>8
<1>10. \A i \in 1..n : M(i) \in LoopMessages /\ M(i).role = "tool" /\ M(i).calls = <<calls[order[i]]>>
                       /\ (empty = {} => M(i).text)
  <2> SUFFICES ASSUME NEW i \in 1..n
               PROVE  M(i) \in LoopMessages /\ M(i).role = "tool" /\ M(i).calls = <<calls[order[i]]>>
                      /\ (empty = {} => M(i).text)
    OBVIOUS
  <2>1. calls[order[i]] \in NumberedCalls
    BY <1>5, <1>8
  <2>2. <<calls[order[i]]>> \in Seq(NumberedCalls)
    BY <2>1
  <2> QED
    BY <2>2 DEF LoopMessages
<1> HIDE DEF M
<1>11. batch \in Seq(LoopMessages) /\ Len(batch) = n /\ \A i \in 1..n : batch[i] = M(i)
  <2>1. batch \in [1..n -> LoopMessages]
    BY <1>10
  <2> QED
    BY <1>5, <2>1
<1> HIDE DEF batch
<1>12. /\ talk' \in Seq(LoopMessages) /\ Len(talk') = Len(talk) + n /\ talk' # << >> /\ Len(talk) \in Nat
       /\ \A j \in 1..Len(talk) : talk'[j] = talk[j]
       /\ \A m \in 1..n : talk'[Len(talk) + m] = M(m)
  <2>1. /\ talk' \in Seq(LoopMessages) /\ Len(talk') = Len(talk) + n /\ Len(talk) \in Nat
    <3>1. talk \o batch \in Seq(LoopMessages) /\ Len(talk \o batch) = Len(talk) + Len(batch)
      BY <1>2, <1>11, ConcatProperties
    <3> QED
      BY <1>2, <1>9, <1>11, <3>1
  <2>2. \A j \in 1..Len(talk) : talk'[j] = talk[j]
    BY <1>2, <1>9, <1>11
  <2>3. \A m \in 1..n : talk'[Len(talk) + m] = batch[m]
    <3> SUFFICES ASSUME NEW m \in 1..n PROVE talk'[Len(talk) + m] = batch[m]
      OBVIOUS
    <3>1. Len(talk) + m \in 1..Len(talk) + Len(batch) /\ Len(talk) + m > Len(talk)
             /\ (Len(talk) + m) - Len(talk) = m
      BY <1>5, <1>11, <2>1
    <3> QED
      BY <1>2, <1>9, <1>11, <3>1
  <2>4. talk' # << >>
    BY <1>5, <2>1
  <2> QED
    BY <1>11, <2>1, <2>2, <2>3, <2>4
<1>13. \A i \in 1..Len(talk') : i \in 1..Len(talk) \/ \E m \in 1..n : i = Len(talk) + m
  <2> SUFFICES ASSUME NEW i \in 1..Len(talk'), i \notin 1..Len(talk)
               PROVE  \E m \in 1..n : i = Len(talk) + m
    OBVIOUS
  <2>1. i - Len(talk) \in 1..n /\ i = Len(talk) + (i - Len(talk))
    BY <1>5, <1>12
  <2> QED
    BY <2>1
<1>14. displaced \in BOOLEAN /\ blank \in BOOLEAN /\ displaced' \in BOOLEAN /\ blank' \in BOOLEAN
       /\ (displaced => displaced') /\ (blank => blank')
       /\ (~displaced' => order = [i \in DOMAIN Pending |-> i]) /\ (~blank' => empty = {})
  BY <1>1, <1>7
<1>15. \A i \in 1..Len(talk) : talk[i].role = "assistant" => Answered(talk, i)' /\ Followed(talk, i)'
  <2> SUFFICES ASSUME NEW i \in 1..Len(talk), talk[i].role = "assistant"
               PROVE  Answered(talk, i)' /\ Followed(talk, i)'
    OBVIOUS
  <2>1. talk'[i] = talk[i]
    BY <1>12
  <2>2. Answered(talk, i) /\ (i = Len(talk) \/ Followed(talk, i))
    BY <1>1 DEF Talked
  <2>3. Answered(talk, i)'
    BY <1>1, <2>1, <2>2 DEF Answered, CallId
  <2>4. CASE i # Len(talk)
    <3>1. Len(talk') > Len(talk)
      BY <1>5, <1>12
    <3> QED
      BY <1>1, <1>2, <1>12, <1>14, <2>2, <2>3, <2>4, <3>1, FollowedStays
  <2>5. CASE i = Len(talk)
    <3>1. talk'[i].calls = calls /\ i \in Nat
      BY <1>2, <1>5, <2>1, <2>5
    <3>2. i + n = Len(talk')
      BY <1>12, <2>5
    <3>3. \A m \in 1..n : talk'[i + m] = M(m)
      BY <1>12, <2>5
    <3>4. displaced' \/ \A m \in 1..n : order[m] = m
      BY <1>3, <1>5, <1>14
    <3>5. \A m \in 1..n : /\ talk'[i + m].role = "tool" /\ talk'[i + m].calls = <<calls[order[m]]>>
                          /\ blank' \/ talk'[i + m].text
      BY <1>10, <1>14, <3>3
    <3>6. i + n <= Len(talk') /\ ~(i + n < Len(talk'))
      BY <1>5, <1>12, <3>2
    <3>7. Resulting(talk, i, order)'
      BY <1>4, <3>1, <3>4, <3>5, <3>6 DEF Resulting
    <3>8. Followed(talk, i)'
      BY <1>4, <1>8, <3>1, <3>7 DEF Followed
    <3> QED
      BY <2>3, <3>8
  <2> QED
    BY <2>4, <2>5
<1>16. \A i \in 1..Len(talk') : talk'[i].role = "user" => talk'[i].calls = << >>
  <2>1. \A i \in 1..Len(talk) : talk[i].role = "user" => talk[i].calls = << >>
    BY <1>1 DEF Talked
  <2> QED
    BY <1>10, <1>12, <1>13, <2>1
<1>17. \A i \in 1..Len(talk') : talk'[i].role = "assistant" =>
          Answered(talk, i)' /\ (i = Len(talk') \/ Followed(talk, i)')
  <2>1. \A m \in 1..n : talk'[Len(talk) + m].role = "tool"
    BY <1>10, <1>12
  <2>2. \A i \in 1..Len(talk') : talk'[i].role = "assistant"
           => i \in 1..Len(talk) /\ talk[i].role = "assistant"
    BY <1>12, <1>13, <2>1
  <2> QED
    BY <1>15, <2>2
<1>18. Talked(talk)'
  BY <1>12, <1>16, <1>17 DEF Talked
<1>19. ResultsReachCalls'
  <2>1. ReachBy(provider, wire, displaced, blank)
    BY <1>1, ReachIsBy
  <2>2. ReachBy(provider', wire', displaced', blank')
    BY <1>1, <1>14, <2>1 DEF ReachBy
  <2> QED
    BY <2>2, ReachIsByNext
<1> QED
  BY <1>1, <1>14, <1>18, <1>19 DEF Spelled

LEMMA SameTalkSpells ==
  ASSUME Spelled, talk' = talk, provider' = provider, serial' = serial,
         displaced' = displaced, blank' = blank, wire' = wire \/ (wire' = Request(talk) /\ Pending = << >>)
  PROVE  Spelled'
<1>1. Talked(talk)'
  <2>1. \A i : Answered(talk, i) => Answered(talk, i)'
    BY DEF Answered, CallId
  <2>2. \A i : Followed(talk, i) => Followed(talk, i)'
    <3> SUFFICES ASSUME NEW i, Followed(talk, i) PROVE Followed(talk, i)'
      OBVIOUS
    <3>1. PICK f \in Bijection(1..Len(talk[i].calls), 1..Len(talk[i].calls)) : Resulting(talk, i, f)
      BY DEF Followed
    <3>2. Resulting(talk, i, f)'
      BY <3>1 DEF Resulting
    <3>3. f \in Bijection(1..Len(talk'[i].calls), 1..Len(talk'[i].calls))
      BY <3>1
    <3> QED
      BY <3>2, <3>3 DEF Followed
  <2> QED
    BY <2>1, <2>2 DEF Spelled, Talked
<1>2. ReachBy(provider', wire', displaced', blank')
  BY ReachIsBy, RequestReaches DEF Spelled
<1>3. ResultsReachCalls'
  BY <1>2, ReachIsByNext
<1> QED
  BY <1>1, <1>3 DEF Spelled

\* In every request each call is followed by its own result and by no other: convertMessages of
\* the Oracles, of those with ids unless a result was empty, of the others unless a call was
\* answered before its turn.
THEOREM ResultsMeetCalls == DialectSpec => []ResultsReachCalls
<1>1. DialectInit => Spelled
  BY SpelledInit
<1>2. Spelled /\ [DialectNext]_dialectVars => Spelled'
  <2> SUFFICES ASSUME Spelled, [DialectNext]_dialectVars PROVE Spelled'
    OBVIOUS
  <2>1. CASE Ask
    BY <2>1, AskSpells
  <2>2. CASE Execute
    BY <2>2, ExecuteSpells
  <2>3. CASE AskLast
    BY <2>3, SameTalkSpells DEF AskLast
  <2>4. CASE UNCHANGED dialectVars
    BY <2>4, SameTalkSpells DEF dialectVars
  <2> QED
    BY <2>1, <2>2, <2>3, <2>4 DEF DialectNext
<1>3. Spelled => ResultsReachCalls
  BY DEF Spelled
<1> QED
  BY <1>1, <1>2, <1>3, PTL DEF DialectSpec
=============================================================================
