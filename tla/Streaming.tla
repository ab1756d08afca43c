------------------------------ MODULE Streaming ------------------------------
(* A streamed turn: the goroutine of the provider, the reasoning loop that   *)
(* forwards what it generates, the Reasoning step that reads the loop, the   *)
(* pipeline, and the handler that writes frames to the client.  Between them *)
(* are a channel without a buffer and two with one.                          *)
EXTENDS Naturals, Sequences, SequencesExt

CONSTANTS
    EventBuffer,  \* streamEventBuffer
    FrameBuffer,  \* streamFrameBuffer
    ModelCalls,   \* calls of the model in a turn (MaxIterations)
    MaxDeltas,    \* bound: pieces of one answer
    PayloadPulses \* bound: Pulses of the payload

VARIABLES
    oracle,    \* the provider's goroutine: pieces left to send, and what comes after them
    loop,      \* the reasoning loop's goroutine: where it is, its call and the event it emits
    produced,  \* events the turn has produced, in order
    events,    \* the channel of ExecuteStream
    runner,    \* the goroutine of the pipeline: where it is, the frame it emits, its result
    sse,       \* the channel of ProcessEventByKeyStream
    writer,    \* the handler: where it is, and which Pulse it streams
    received,  \* frames of this Pulse the client got
    expired,   \* the Reasoning step's context is done: its timeout, or the client left
    gone       \* the client left and a write failed: streamCtx is cancelled

streamVars ==
    <<oracle, loop, produced, events, runner, sse, writer, received, expired, gone>>

Nothing == <<"none", 0>>
Done == <<"done", 0>>
Error == <<"error", 0>>
Terminal == {Done, Error}
Silent == [left |-> 0, end |-> "none"]
Loop(at, call, emits) == [at |-> at, call |-> call, emits |-> emits]
Runner(at, emits, result) == [at |-> at, emits |-> emits, result |-> result]

NoLoop == Loop("think", 0, Nothing)
NoRunner == Runner("before", Nothing, FALSE)

StreamInit ==
    /\ oracle = Silent /\ loop = NoLoop /\ produced = 0 /\ events = <<>> /\ runner = NoRunner
    /\ sse = <<>> /\ received = <<>> /\ expired = FALSE
    /\ gone = FALSE /\ writer = [at |-> "reading", pulse |-> 1]

-----------------------------------------------------------------------------
(* The pipeline up to Reasoning, and the reasoning loop *)

\* ExecuteStream starts the loop, or a step before failed or found a duplicate.  A turn that its
\* conditions or a spent budget skip does not reason, nor does a notifier, whose message may
\* come without a call of the model: there is no ReasoningResult after it.
StartReasoning ==
    /\ runner.at = "before"
    /\ runner' \in {Runner("read", Nothing, FALSE), Runner("after", Nothing, FALSE),
                   Runner("last", Done, TRUE), Runner("last", Error, FALSE)}
    /\ UNCHANGED <<oracle, loop, produced, events, sse, writer, received, expired, gone>>

Emit(e) == loop' = [loop EXCEPT !.emits = e]
Ends(e) == loop' = Loop("last", loop.call, e)

Generating(ends) == oracle' \in [left : 0..MaxDeltas, end : ends]
\* The calls of the model: for an iteration, for the answer of a draft, and the last of all.
Calling == {"assemble", "redraft", "synthesis"}

\* invokeProvider: GenerateStream, or GenerateResponse of a provider that cannot stream.
Generate ==
    /\ loop.at = "think" /\ runner.at = "read"
    /\ loop' = Loop("assemble", loop.call + 1, Nothing)
    /\ Generating({"tools", "final", "error"})
    /\ UNCHANGED <<produced, events, runner, sse, writer, received, expired, gone>>

Numbered(kind) == produced' = produced + 1 /\ Emit(<<kind, produced + 1>>)

\* The provider sends a piece, which assembleStream receives and emits.
Delta ==
    /\ loop.at \in Calling /\ loop.emits = Nothing /\ oracle.left > 0
    /\ Numbered("delta") /\ oracle' = [oracle EXCEPT !.left = @ - 1]
    /\ UNCHANGED <<events, runner, sse, writer, received, expired, gone>>

\* The provider's terminal event, and its channel closes.  Its request fails with the context.
\* An answer ends the turn, unless a gate sends it back, or the draft model gave it: the
\* primary one is then to give it again.
GenerateEnds ==
    /\ loop.at = "assemble" /\ loop.emits = Nothing /\ (oracle.left = 0 \/ expired)
    /\ \/ /\ oracle.left = 0 /\ oracle.end = "tools" /\ oracle' = Silent
          /\ loop' = Loop("act", loop.call, Nothing)
       \/ /\ oracle.left = 0 /\ oracle.end = "final" /\ oracle' = Silent
          /\ Ends(Done) \/ loop' = Loop("next", loop.call, Nothing)
       \/ /\ oracle.left = 0 /\ oracle.end = "final" /\ Generating({"final"})
          /\ loop' = Loop("redraft", loop.call, Nothing)
       \/ (oracle.end = "error" \/ expired) /\ oracle' = Silent /\ Ends(Error)
    /\ UNCHANGED <<produced, events, runner, sse, writer, received, expired, gone>>

\* What such a call adds ends the turn, even when it fails: the draft answers it then, or the
\* fallback message.  A gate may send back the answer of a draft.
SynthesisEnds ==
    /\ loop.at \in {"redraft", "synthesis"} /\ loop.emits = Nothing
    /\ oracle.left = 0 \/ expired
    /\ oracle' = Silent
    /\ Ends(Done) \/ (loop.at = "redraft" /\ loop' = Loop("next", loop.call, Nothing))
    /\ UNCHANGED <<produced, events, runner, sse, writer, received, expired, gone>>

\* executeIterationActions: the Actions are announced and executed.
Act ==
    /\ loop.at = "act"
    /\ produced' = produced + 1
    /\ loop' = Loop("acted", loop.call, <<"tool_status", produced + 1>>)
    /\ UNCHANGED <<oracle, events, runner, sse, writer, received, expired, gone>>

Synthesize == loop' = Loop("synthesis", loop.call, Nothing) /\ Generating({"final"})

\* A peer answered the turn; the Actions were too many or a critical one failed; the turn
\* stalled; or it goes on.
ActionsEnd ==
    /\ loop.at = "acted" /\ loop.emits = Nothing
    /\ \/ /\ Ends(Done) \/ Ends(Error) \/ loop' = Loop("next", loop.call, Nothing)
          /\ UNCHANGED oracle
       \/ Synthesize
    /\ UNCHANGED <<produced, events, runner, sse, writer, received, expired, gone>>

\* The next iteration; after the last, handleMaxIterations has a synthesis, or an error when
\* stall detection is off.
NextCall ==
    /\ loop.at = "next"
    /\ IF loop.call < ModelCalls
       THEN loop' = Loop("think", loop.call, Nothing) /\ UNCHANGED oracle
       ELSE Synthesize \/ (Ends(Error) /\ UNCHANGED oracle)
    /\ UNCHANGED <<produced, events, runner, sse, writer, received, expired, gone>>

-----------------------------------------------------------------------------
(* Channels: emit sends, or gives up once its context is done; both may be possible. *)

\* Faulty: what does not fit is dropped.
SentNonBlocking(channel, size, e, over, channel2) ==
    channel2 = IF Len(channel) < size THEN Append(channel, e) ELSE channel

Sent(channel, size, e, over, channel2) ==
    \/ Len(channel) < size /\ channel2 = Append(channel, e)
    \/ over /\ channel2 = channel

\* The event of the loop; after the terminal one the channel is closed.
EmitEvent ==
    /\ loop.emits # Nothing /\ Sent(events, EventBuffer, loop.emits, expired, events')
    /\ IF loop.at = "last" THEN loop' = Loop("closed", loop.call, Nothing) ELSE Emit(Nothing)
    /\ UNCHANGED <<oracle, produced, runner, sse, writer, received, expired, gone>>

\* executeStreaming passes an event to the sink, keeps the result, or returns the error at once.
ReadEvent ==
    /\ runner.at = "read" /\ runner.emits = Nothing
    /\ \/ /\ events # <<>> /\ events' = Tail(events)
          /\ runner' = CASE Head(events) = Done -> [runner EXCEPT !.result = TRUE]
                       [] Head(events) = Error -> Runner("last", Error, FALSE)
                       [] OTHER -> [runner EXCEPT !.emits = Head(events)]
       \/ events = <<>> /\ loop.at = "closed" /\ runner' = [runner EXCEPT !.at = "after"]
          /\ UNCHANGED events
    /\ UNCHANGED <<oracle, loop, produced, sse, writer, received, expired, gone>>

\* The steps after Reasoning work on what was assembled, or fail.  Without a result, when the
\* terminal event was given up or the turn did not reason, the log line of
\* runProcessingPipeline panics.
Assembled ==
    /\ runner.at = "after"
    /\ runner' \in {IF runner.result THEN Runner("last", Done, TRUE) ELSE Runner("panic", Nothing, FALSE),
                  Runner("last", Error, FALSE)}
    /\ UNCHANGED <<oracle, loop, produced, events, sse, writer, received, expired, gone>>

\* The sink's frame, or the last one, after which the channel is closed.
EmitFrame ==
    /\ runner.emits # Nothing /\ Sent(sse, FrameBuffer, runner.emits, gone, sse')
    /\ runner' = IF runner.at = "last" THEN [runner EXCEPT !.at = "closed", !.emits = Nothing]
                                   ELSE [runner EXCEPT !.emits = Nothing]
    /\ UNCHANGED <<oracle, loop, produced, events, writer, received, expired, gone>>

-----------------------------------------------------------------------------
(* The handler *)

\* A frame is written and flushed; the first write that fails ends the handler and cancels.
WriteFrame ==
    /\ writer.at = "reading" /\ sse # <<>> /\ runner.at # "panic" /\ sse' = Tail(sse)
    /\ \/ received' = Append(received, Head(sse)) /\ UNCHANGED <<writer, gone, expired>>
       \/ /\ writer' = [writer EXCEPT !.at = "ended"] /\ gone' = TRUE /\ expired' = TRUE
          /\ UNCHANGED received
    /\ UNCHANGED <<oracle, loop, produced, events, runner>>

\* The channel is closed: the next Pulse of the payload, or the end of the response.
NextPulse ==
    /\ writer.at = "reading" /\ sse = <<>> /\ runner.at = "closed"
    /\ UNCHANGED gone
    /\ IF writer.pulse < PayloadPulses
       THEN /\ writer' = [writer EXCEPT !.pulse = @ + 1]
            /\ oracle' = Silent /\ loop' = NoLoop /\ produced' = 0 /\ events' = <<>>
            /\ runner' = NoRunner /\ sse' = <<>> /\ received' = <<>> /\ expired' = FALSE
       ELSE /\ writer' = [writer EXCEPT !.at = "ended"]
            /\ UNCHANGED <<oracle, loop, produced, events, runner, sse, received, expired>>

\* The timeout of the Reasoning step.
Timeout ==
    /\ runner.at = "read" /\ ~expired /\ expired' = TRUE
    /\ UNCHANGED <<oracle, loop, produced, events, runner, sse, writer, received, gone>>

Work ==
    \/ StartReasoning \/ Generate \/ Delta \/ GenerateEnds \/ SynthesisEnds \/ Act \/ ActionsEnd
    \/ NextCall \/ EmitEvent \/ ReadEvent \/ Assembled \/ EmitFrame

StreamNext == Work \/ WriteFrame \/ NextPulse \/ Timeout

StreamSpec == StreamInit /\ [][StreamNext]_streamVars

-----------------------------------------------------------------------------
(* Properties *)

Events(kinds) ==
    {<<k, n>> : k \in kinds, n \in 1..(ModelCalls * (2 * MaxDeltas + 1) + MaxDeltas)}

StreamTypeOK ==
    /\ oracle.left \in 0..MaxDeltas /\ oracle.end \in {"none", "tools", "final", "error"}
    /\ loop.at \in Calling \cup {"think", "act", "acted", "next", "last", "closed"}
    /\ loop.call \in 0..ModelCalls /\ Len(events) <= EventBuffer /\ Len(sse) <= FrameBuffer
    /\ runner.at \in {"before", "read", "after", "last", "closed", "panic"}
    /\ \A s \in {events, sse, received} :
          ToSet(s) \subseteq Events({"delta", "tool_status"}) \cup Terminal
    /\ writer.at \in {"reading", "ended"} /\ writer.pulse \in 1..PayloadPulses

\* The client reads every event of a turn in the order in which it was produced, and then one
\* terminal frame, the last: "the turn ends with one AgentStreamDone (carrying the assembled
\* answer) or AgentStreamError" (ProcessEventByKeyStream).  Unless it left, or the Reasoning step
\* ran out of time, which may cost it pieces in between; an error frame may then come without
\* them, and a terminal event that is given up ends the process.  So does, whatever the client
\* does, a turn that did not reason: its stream has no terminal frame (see SkippedIsReported).
StreamIsWhole ==
    /\ \A i, j \in DOMAIN received : i < j =>
          /\ received[i] \notin Terminal
          /\ received[j] \notin Terminal => received[i][2] < received[j][2]
    /\ writer.at = "reading" /\ runner.at = "closed" /\ sse = <<>> =>
          /\ received # <<>> /\ Last(received) \in Terminal
          /\ ~expired => \A n \in 1..produced : \E i \in DOMAIN received : received[i][2] = n
    /\ runner.at = "panic" => expired \/ loop = NoLoop
=============================================================================
