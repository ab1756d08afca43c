------------------------------ MODULE Outbound ------------------------------
(* What a turn sends to its user: delivery Actions, which the executor      *)
(* repeats after infrastructure errors, and the Voice, which answers when    *)
(* no Action did.  Each message goes through a client that has its own idea  *)
(* of success: Twilio polls the status of a message until it is terminal,    *)
(* the others trust the answer to their one request.                         *)
EXTENDS Naturals, Sequences, FiniteSets

CONSTANTS
    Client,       \* of "twilio", "dialog360", "chat" (Telegram, Slack)
    SendAttempts, \* ActionRetryConfig.MaxAttempts
    MaxSends      \* bound: delivery Actions the model calls in the turn

ASSUME SendsAssumption == MaxSends \in Nat

VARIABLES
    client,       \* behind the Voice of the Link and the delivery Actions
    phase,        \* of the turn: "reasoning", "responding", "ended"
    sending,      \* the message under way: who sends it, where it is, its attempt, its class of error
    messages,     \* what the channel accepted: [call, status], in order
    unconfirmed,  \* [call -> attempts whose fate the client did not learn]
    reported,     \* [call -> what the turn was told: "none", "delivered", "failed"]
    terminal,     \* Actions were taken away after a critical infrastructure error
    timedOut      \* the context of the Reasoning step is done

outboundVars == <<client, phase, sending, messages, unconfirmed, reported, terminal, timedOut>>

Sends == 0..MaxSends   \* 0 is the Voice's own
NotSending == [call |-> 0, by |-> "none", at |-> "none", attempt |-> 0]
Called == {c \in Sends : c > 0 /\ reported[c] # "none"}

OutboundInit ==
    /\ client \in Client /\ phase = "reasoning" /\ sending = NotSending /\ messages = <<>>
    /\ unconfirmed = [c \in Sends |-> 0] /\ reported = [c \in Sends |-> "none"]
    /\ terminal = FALSE /\ timedOut = FALSE

-----------------------------------------------------------------------------
(* Clients *)

\* Faulty: an error of the status request is an error of the message.
VerdictStrict(status) ==
    IF status = "unreadable" THEN "infrastructure"
    ELSE CASE status = "sent" -> "ok"
           [] status = "blocked" -> "business"
           [] status = "undelivered" -> "infrastructure"
           [] OTHER -> "wait"

\* terminalStatuses ("sent" stands for "delivered" and "read", too), failedStatuses and
\* permanentCodes; a status that cannot be read is no verdict.
Verdict(status) ==
    CASE status = "sent" -> "ok"
      [] status = "blocked" -> "business"
      [] status = "undelivered" -> "infrastructure"
      [] OTHER -> "wait"

\* The channel goes on with a message it accepted.
Progress ==
    \E i \in DOMAIN messages :
        /\ messages[i].status = "queued"
        /\ messages' = [messages EXCEPT ![i].status = "sent"]
        /\ UNCHANGED <<client, phase, sending, unconfirmed, reported, terminal, timedOut>>

\* Or fails it, also after "sent".
Bounce ==
    \E i \in DOMAIN messages, how \in {"undelivered", "blocked"} :
        /\ messages[i].status \in {"queued", "sent"}
        /\ messages' = [messages EXCEPT ![i].status = how]
        /\ UNCHANGED <<client, phase, sending, unconfirmed, reported, terminal, timedOut>>

Accept == messages' = Append(messages, [call |-> sending.call, status |-> "queued"])

\* classifyTwilioError, errorFrom; Telegram's and Slack's errors are of no class.  send_to_contact
\* makes an infrastructure error of every error of its Voice.
Class(error) ==
    IF sending.by = "send_to_contact" THEN "infrastructure"
    ELSE IF client = "chat" THEN "other" ELSE error

-----------------------------------------------------------------------------
(* The executor and the step of the Voice *)

\* The turn learns how the message ended; a delivered one makes ResponseDelivered true.
Report(how) ==
    /\ reported' = [reported EXCEPT ![sending.call] = how] /\ sending' = NotSending
    /\ phase' = IF sending.by = "voice" THEN "ended" ELSE phase

\* handleActionError: after a critical infrastructure error a conversational Spirit loses its
\* Actions, another one its turn.
GiveUp(error) ==
    /\ reported' = [reported EXCEPT ![sending.call] = "failed"] /\ sending' = NotSending
    /\ \/ UNCHANGED <<terminal, phase>> /\ sending.by # "voice"
       \/ sending.by = "voice" /\ phase' = "ended" /\ UNCHANGED terminal
       \/ sending.by # "voice" /\ error = "infrastructure" /\ terminal' = TRUE /\ UNCHANGED phase
       \/ sending.by # "voice" /\ error # "business" /\ phase' = "ended" /\ UNCHANGED terminal

\* executeOne: infrastructure errors are tried again while there are attempts and time.
Failed(error) ==
    IF /\ sending.by # "voice" /\ error = "infrastructure"
       /\ sending.attempt < SendAttempts /\ ~timedOut
    THEN /\ sending' = [sending EXCEPT !.at = "send", !.attempt = @ + 1]
         /\ UNCHANGED <<phase, reported, terminal>>
    ELSE GiveUp(error)

Lost == unconfirmed' = [unconfirmed EXCEPT ![sending.call] = @ + 1]

\* The model calls a delivery Action.
CallSend(by) ==
    /\ phase = "reasoning" /\ sending = NotSending /\ ~terminal /\ ~timedOut
    /\ Cardinality(Called) < MaxSends
    /\ sending' = [call |-> Cardinality(Called) + 1, by |-> by, at |-> "send", attempt |-> 1]
    /\ UNCHANGED <<client, phase, messages, unconfirmed, reported, terminal, timedOut>>

\* Validate, a template that is not mapped, a number the channel does not take, no permission, a
\* rate limit: nothing is sent.
Refused ==
    /\ sending.at = "send" /\ \E error \in {"business", "infrastructure"} : Failed(Class(error))
    /\ UNCHANGED <<client, messages, unconfirmed, timedOut>>

\* CreateMessage: Twilio has the message and names it.
CreateMessage ==
    /\ sending.at = "send" /\ client = "twilio" /\ Accept
    /\ sending' = [sending EXCEPT !.at = "poll"]
    /\ UNCHANGED <<client, phase, unconfirmed, reported, terminal, timedOut>>

\* The others have it with their 2xx.
Post ==
    /\ sending.at = "send" /\ client # "twilio" /\ ~timedOut /\ Accept /\ Report("delivered")
    /\ UNCHANGED <<client, unconfirmed, terminal, timedOut>>

\* The request timed out, or its answer was lost: the message may be under way.
AnswerLost ==
    /\ sending.at = "send" /\ Lost /\ Failed(Class("infrastructure"))
    /\ (Accept \/ UNCHANGED messages)
    /\ UNCHANGED <<client, timedOut>>

Polled == messages[Len(messages)].status

\* One tick of waitForTerminalStatus.
PollStatus ==
    /\ sending.at = "poll"
    /\ \E status \in {Polled, "unreadable"} :
          LET v == Verdict(status) IN
          CASE v = "ok" -> Report("delivered") /\ UNCHANGED terminal
            [] v = "wait" -> UNCHANGED <<sending, phase, reported, terminal>>
            [] OTHER -> Failed(Class(v))
    /\ UNCHANGED <<client, messages, unconfirmed, timedOut>>

\* deliveryTimeout, or the end of the context.
PollTimeout ==
    /\ sending.at = "poll" /\ Lost /\ Failed(Class("infrastructure"))
    /\ UNCHANGED <<client, messages, timedOut>>

ReasoningTimeout ==
    /\ phase = "reasoning" /\ ~timedOut /\ timedOut' = TRUE
    /\ UNCHANGED <<client, phase, sending, messages, unconfirmed, reported, terminal>>

\* The loop ends with an answer; out of time the turn fails.
EndReasoning ==
    /\ phase = "reasoning" /\ sending = NotSending
    /\ phase' = IF timedOut THEN "ended" ELSE "responding"
    /\ UNCHANGED <<client, sending, messages, unconfirmed, reported, terminal, timedOut>>

\* ResponseDelivery: only when no Action delivered, and once; its error is logged.
SendResponse ==
    /\ phase = "responding" /\ sending = NotSending
    /\ IF \E c \in Sends : reported[c] = "delivered"
       THEN phase' = "ended" /\ UNCHANGED sending
       ELSE /\ sending' = [call |-> 0, by |-> "voice", at |-> "send", attempt |-> 1]
            /\ UNCHANGED phase
    /\ UNCHANGED <<client, messages, unconfirmed, reported, terminal, timedOut>>

OutboundNext ==
    \/ \E by \in {"send_whatsapp_message", "send_to_contact"} :
          (by = "send_whatsapp_message" => client # "chat") /\ CallSend(by)
    \/ Refused \/ CreateMessage \/ Post \/ AnswerLost \/ PollStatus \/ PollTimeout
    \/ ReasoningTimeout \/ EndReasoning \/ SendResponse \/ Progress \/ Bounce

OutboundSpec == OutboundInit /\ [][OutboundNext]_outboundVars

-----------------------------------------------------------------------------
(* Properties *)

OutboundTypeOK ==
    /\ client \in Client /\ phase \in {"reasoning", "responding", "ended"}
    /\ sending.call \in Sends /\ sending.attempt \in 0..SendAttempts
    /\ sending.at \in {"none", "send", "poll"}
    /\ \A i \in DOMAIN messages :
          /\ messages[i].call \in Sends
          /\ messages[i].status \in {"queued", "sent", "undelivered", "blocked"}
    /\ \A c \in Sends :
          /\ unconfirmed[c] \in 0..SendAttempts /\ reported[c] \in {"none", "delivered", "failed"}

Reaching(c) == {i \in DOMAIN messages :
                   messages[i].call = c /\ messages[i].status \notin {"undelivered", "blocked"}}

\* The user gets no message twice, and none that the turn takes for failed, except for attempts
\* whose fate the client did not learn; and what the turn takes for delivered, so that the Voice
\* keeps silent, was accepted by the channel (executeOne, waitForTerminalStatus,
\* ResponseDeliveryStep).
NoCopyUnexplained ==
    \A c \in Sends :
       /\ Cardinality(Reaching(c)) <= unconfirmed[c] + 1
       /\ reported[c] = "failed" => Cardinality(Reaching(c)) <= unconfirmed[c]
       /\ reported[c] = "delivered" => \E i \in DOMAIN messages : messages[i].call = c
=============================================================================
