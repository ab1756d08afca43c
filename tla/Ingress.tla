------------------------------- MODULE Ingress -------------------------------
(* Webhooks of a channel on their way to turns: the receptor makes Pulses    *)
(* of a payload, the synchronous endpoint runs them at once and answers with *)
(* a status, the asynchronous one hands them to the Keeper, and both the     *)
(* channel and the Keeper repeat what was not answered with 2xx.  A turn is  *)
(* its idempotency check and its outcome; module Weave has the rest.         *)
EXTENDS Naturals, Sequences, FiniteSets, SequencesExt, Functions

CONSTANTS
    Receptor,       \* receptors: of "whatsapp_360dialog", "whatsapp_twilio", "telegram", "slack",
                    \* "api_default"
    Webhook,        \* payloads
    Carries,        \* [Webhook -> Seq(Posted)]: the messages of its first entry and change
    Sender,         \* [Posted -> who wrote it]
    Own,            \* messages of bots, and updates that are no message
    Handler,        \* goroutines that serve a request
    MaxExecuting,   \* bound: tasks executed at once
    MaxConcurrent,  \* MaxConcurrentEvents
    MaxDeliveries,  \* bound: deliveries, of all webhooks
    MaxMishaps      \* bound: errors, lost answers, crashes

VARIABLES
    receptor,    \* the receptor of the Link
    mode,        \* the endpoint: "sync" or "async"
    serving,     \* [Handler -> its webhook and [Pulse -> how far it is]]
    delivered,   \* [Webhook -> deliveries so far]
    acked,       \* webhooks answered with 2xx
    tasks,       \* [Pulse -> its tasks in the Keeper]
    executing,   \* [Pulse -> its tasks that run]
    seen,        \* the idempotency store
    handled,     \* [Pulse -> turns that ended well]
    spoilt,      \* Pulses with a turn that failed or died
    admitted,    \* Pulses let through without being recorded
    mishaps      \* mishaps that may still happen

ingressVars == <<receptor, mode, serving, delivered, acked, tasks, executing, seen, handled,
                 spoilt, admitted, mishaps>>

Posted == DOMAIN Sender

ASSUME PayloadAssumption == Carries \in [Webhook -> Seq(Posted)]

NoRequest == [hook |-> "none", todo |-> <<>>]

-----------------------------------------------------------------------------
(* Receptors: a Pulse is named for its first message *)

\* 360dialog: the messages of one sender become one Pulse.  The others read one message.
PulsesOf(w) ==
    LET read == {i \in DOMAIN Carries[w] : Carries[w][i] \notin Own}
        first(i) == \A j \in read : j < i => Sender[Carries[w][j]] # Sender[Carries[w][i]]
    IN {Carries[w][i] : i \in {j \in read : receptor = "whatsapp_360dialog" => first(j)}}

Grouped(m, p) == Sender[m] = Sender[p] /\ \E w \in Webhook : {m, p} \subseteq ToSet(Carries[w])

\* Whom a Pulse stands for.
MessagesOf(p) == IF receptor = "whatsapp_360dialog" THEN {m \in Posted \ Own : Grouped(m, p)} ELSE {p}

\* wamid, MessageSid, event_id, update_id; callers of the API may leave theirs out.
Keyed == receptor # "api_default"

\* Only WhatsApp's Cloud API batches.
Fits(w) == Len(Carries[w]) = 1 \/ receptor = "whatsapp_360dialog"

IngressInit ==
    /\ receptor \in Receptor /\ mode \in {"sync", "async"}
    /\ serving = [d \in Handler |-> NoRequest] /\ delivered = [w \in Webhook |-> 0] /\ acked = {}
    /\ tasks = [p \in Posted |-> 0] /\ executing = [p \in Posted |-> 0]
    /\ seen = {} /\ handled = [p \in Posted |-> 0] /\ spoilt = {} /\ admitted = {}
    /\ mishaps = MaxMishaps

Mishap == mishaps > 0 /\ mishaps' = mishaps - 1

-----------------------------------------------------------------------------
(* A turn *)

\* IdempotencyStep: the key is recorded before the work; an error of the store lets it through.
Checked(p, fresh) ==
    \/ /\ fresh = (~Keyed \/ p \notin seen)
       /\ seen' = IF Keyed THEN seen \cup {p} ELSE seen
       /\ UNCHANGED <<admitted, mishaps>>
    \/ Keyed /\ Mishap /\ fresh /\ admitted' = admitted \cup {p} /\ UNCHANGED seen

Succeeds(p) == handled' = [handled EXCEPT ![p] = @ + 1] /\ UNCHANGED spoilt
Fails(p) == spoilt' = spoilt \cup {p} /\ UNCHANGED handled

-----------------------------------------------------------------------------
(* The channel and the endpoints *)

\* A delivery, or a repetition, also while the last one is being served.  A payload without
\* Pulses, or one that the receptor refuses, is answered 4xx.
Receive(d, w) ==
    /\ serving[d] = NoRequest /\ Fits(w) /\ w \notin acked
    /\ SumFunction(delivered) < MaxDeliveries /\ delivered' = [delivered EXCEPT ![w] = @ + 1]
    /\ PulsesOf(w) # {}
    /\ serving' = [serving EXCEPT ![d] =
                     [hook |-> w, todo |-> [p \in PulsesOf(w) |-> "waiting"]]]
    /\ UNCHANGED <<receptor, mode, acked, tasks, executing, seen, handled, spoilt, admitted, mishaps>>

Mark(d, p, how) == serving' = [serving EXCEPT ![d].todo[p] = how]
Todo(d, how) == {p \in DOMAIN serving[d].todo : serving[d].todo[p] = how}

\* A goroutine of ProcessMultipleEventsByKey gets its slot; a duplicate counts as a success.
Start(d, p) ==
    /\ mode = "sync" /\ p \in Todo(d, "waiting") /\ Cardinality(Todo(d, "running")) < MaxConcurrent
    /\ \E fresh \in BOOLEAN : Checked(p, fresh) /\ Mark(d, p, IF fresh THEN "running" ELSE "done")
    /\ UNCHANGED <<receptor, mode, delivered, acked, tasks, executing, handled, spoilt>>

EndTurnOf(d, p) ==
    /\ mode = "sync" /\ p \in Todo(d, "running")
    /\ \/ Succeeds(p) /\ Mark(d, p, "done")
       \/ Fails(p) /\ Mark(d, p, "failed")
    /\ UNCHANGED <<receptor, mode, delivered, acked, tasks, executing, seen, admitted, mishaps>>

\* 200, 207 or 422.
BatchHTTPStatus(succeeded, failed) ==
    IF failed = {} THEN 200 ELSE IF succeeded = {} THEN 422 ELSE 207

Respond(d, status) ==
    /\ serving' = [serving EXCEPT ![d] = NoRequest]
    /\ \/ acked' = (IF status < 300 THEN acked \cup {serving[d].hook} ELSE acked)
          /\ UNCHANGED mishaps
       \/ Mishap /\ UNCHANGED acked

ProcessEvent(d) ==
    /\ mode = "sync" /\ serving[d] # NoRequest
    /\ Todo(d, "waiting") = {} /\ Todo(d, "running") = {}
    /\ Respond(d, BatchHTTPStatus(Todo(d, "done"), Todo(d, "failed")))
    /\ UNCHANGED <<receptor, mode, delivered, tasks, executing, seen, handled, spoilt, admitted>>

\* Ingest: one task after the other.
Dispatch(d, p) ==
    /\ mode = "async" /\ p \in Todo(d, "waiting") /\ Mark(d, p, "done")
    /\ tasks' = [tasks EXCEPT ![p] = @ + 1]
    /\ UNCHANGED <<receptor, mode, delivered, acked, executing, seen, handled, spoilt, admitted,
                   mishaps>>

\* Faulty: the loop goes on after an error.
DispatchFailsQuietly(d, p) ==
    /\ mode = "async" /\ p \in Todo(d, "waiting") /\ Mishap
    /\ \E lost \in {0, 1} : tasks' = [tasks EXCEPT ![p] = @ + lost]
    /\ Mark(d, p, "done")
    /\ UNCHANGED <<receptor, mode, delivered, acked, executing, seen, handled, spoilt, admitted>>

\* The first error is answered 500; the task may have been created, those before it were.
DispatchFails(d, p) ==
    /\ mode = "async" /\ p \in Todo(d, "waiting") /\ Mishap
    /\ \E lost \in {0, 1} : tasks' = [tasks EXCEPT ![p] = @ + lost]
    /\ serving' = [serving EXCEPT ![d] = NoRequest]
    /\ UNCHANGED <<receptor, mode, delivered, acked, executing, seen, handled, spoilt, admitted>>

IngestAsyncEvent(d) ==
    /\ mode = "async" /\ serving[d] # NoRequest /\ Todo(d, "waiting") = {} /\ Respond(d, 200)
    /\ UNCHANGED <<receptor, mode, delivered, tasks, executing, seen, handled, spoilt, admitted>>

\* The process dies while it serves a request: the channel gets no answer.
ServerDies(d) ==
    /\ serving[d] # NoRequest /\ Mishap /\ serving' = [serving EXCEPT ![d] = NoRequest]
    /\ spoilt' = spoilt \cup Todo(d, "running")
    /\ UNCHANGED <<receptor, mode, delivered, acked, tasks, executing, seen, handled, admitted>>

-----------------------------------------------------------------------------
(* The Keeper *)

Gone(p) == tasks' = [tasks EXCEPT ![p] = IF @ > 0 THEN @ - 1 ELSE 0]

\* A task is delivered to HandleExecuteEvent, perhaps a second time; a duplicate is answered 200.
ExecuteTask(p) ==
    /\ tasks[p] > 0 /\ SumFunction(executing) < MaxExecuting
    /\ \E fresh \in BOOLEAN :
          /\ Checked(p, fresh)
          /\ IF fresh THEN executing' = [executing EXCEPT ![p] = @ + 1] /\ UNCHANGED tasks
                      ELSE Gone(p) /\ UNCHANGED executing
    /\ UNCHANGED <<receptor, mode, serving, delivered, acked, handled, spoilt>>

\* Success and final errors are answered 200; after a retriable one, or a crash, the task stays.
HandleExecuteEvent(p) ==
    /\ executing[p] > 0 /\ executing' = [executing EXCEPT ![p] = @ - 1]
    /\ \/ Succeeds(p) /\ Gone(p)
       \/ Fails(p) /\ Gone(p)
       \/ Fails(p) /\ UNCHANGED tasks
    /\ UNCHANGED <<receptor, mode, serving, delivered, acked, seen, admitted, mishaps>>

IngressNext ==
    \/ \E d \in Handler :
          \/ \E w \in Webhook : Receive(d, w)
          \/ \E p \in Posted : Start(d, p) \/ EndTurnOf(d, p) \/ Dispatch(d, p) \/ DispatchFails(d, p)
          \/ ProcessEvent(d) \/ IngestAsyncEvent(d) \/ ServerDies(d)
    \/ \E p \in Posted : ExecuteTask(p) \/ HandleExecuteEvent(p)

IngressSpec == IngressInit /\ [][IngressNext]_ingressVars

-----------------------------------------------------------------------------
(* Properties *)

IngressTypeOK ==
    /\ receptor \in Receptor /\ mode \in {"sync", "async"} /\ acked \subseteq Webhook
    /\ \A d \in Handler :
          \/ serving[d] = NoRequest
          \/ /\ serving[d].hook \in Webhook
             /\ DOMAIN serving[d].todo = PulsesOf(serving[d].hook)
    /\ \A w \in Webhook : delivered[w] \in 0..MaxDeliveries
    /\ seen \cup spoilt \cup admitted \subseteq Posted /\ mishaps \in 0..MaxMishaps
    /\ executing \in [Posted -> 0..MaxExecuting]
    /\ DOMAIN tasks = Posted /\ DOMAIN handled = Posted

UnderWay(p) ==
    \/ tasks[p] > 0 \/ executing[p] > 0
    \/ \E d \in Handler : p \in Todo(d, "running")
Messages(w) == ToSet(Carries[w]) \ Own

\* However often a channel repeats a webhook and the Keeper a task, every message of a webhook
\* that was answered with 2xx had its turn, is in it or waits in the Keeper, and no message gets two.
\* A turn that failed or died is not made up for (its key is recorded, so the repetition is taken
\* for a duplicate); a key that could not be recorded, or that the caller left out, allows more.
HandledExactlyOnce ==
    /\ \A w \in acked : \A m \in Messages(w) :
          \E p \in PulsesOf(w) :
             m \in MessagesOf(p) /\ (handled[p] > 0 \/ p \in spoilt \/ UnderWay(p))
    /\ Keyed => \A p \in Posted \ admitted : handled[p] <= 1
=============================================================================
