----------------------------- MODULE Generation -----------------------------
(* One call of a model through an Oracle, buffered or streamed: what the     *)
(* request lets the model answer, how each provider's client turns the       *)
(* answer into an OracleResponse, and how assembleStream rebuilds the same   *)
(* response from the events of a stream that may break off.                  *)
EXTENDS Naturals, Sequences, SequencesExt, FiniteSets

CONSTANTS
    Provider,   \* of "openai", "anthropic", "gemini", "bedrock", "ollama"
    MaxParts    \* bound: parts of an answer

VARIABLES
    service,    \* the provider of the call
    demand,     \* [tools, format, streamed]: what the loop asks for
    answer,     \* [parts, finish, bare]: what the model says, why it stopped, and whether the
                \* chunk of the stream that says why has no Content
    point,      \* "new", "asked", "streaming", "done"
    sent,       \* parts that arrived on the stream
    gap,        \* how the stream ended early: "none", "noticed", "quiet"
    shown,      \* indices of the texts passed on as deltas
    got         \* the OracleResponse of the loop, or NoResponse, or Refusal

generationVars == <<service, demand, answer, point, sent, gap, shown, got>>

ASSUME ServiceAssumption ==
    Provider \subseteq {"openai", "anthropic", "gemini", "bedrock", "ollama"}
ASSUME PartsAssumption == MaxParts \in Nat

NoResponse == [content |-> <<>>, calls |-> <<>>, stop |-> "none"]
Refusal    == [content |-> <<>>, calls |-> <<>>, stop |-> "error"]
NoAnswer   == [parts |-> <<>>, finish |-> "none", bare |-> FALSE]

GenerationInit ==
    /\ service \in Provider /\ point = "new" /\ answer = NoAnswer /\ sent = 0 /\ gap = "none"
    /\ demand \in [tools : BOOLEAN, format : BOOLEAN, streamed : BOOLEAN]
    \* finalizeStructured offers no Actions, and no stream; Bedrock's Oracle is not a
    \* StreamingOracle: invokeProvider buffers.
    /\ demand.format => ~demand.tools /\ ~demand.streamed
    /\ service = "bedrock" => ~demand.streamed
    /\ shown = <<>> /\ got = NoResponse

-----------------------------------------------------------------------------
(* Requests: what the model is offered *)

OpenAIOffer    == [tools |-> demand.tools, json |-> demand.format, forced |-> FALSE]
\* addResponseFormat forces a tool of the schema's shape, instead of any other.
AnthropicOffer == [tools |-> demand.tools /\ ~demand.format, json |-> FALSE, forced |-> demand.format]
GeminiOffer    == [tools |-> demand.tools, json |-> demand.format, forced |-> FALSE]
\* No structured output: finalizeStructured asks for it in words.
BedrockOffer   == [tools |-> demand.tools, json |-> FALSE, forced |-> FALSE]
OllamaOffer    == [tools |-> demand.tools, json |-> demand.format, forced |-> FALSE]

Offer == CASE service = "openai" -> OpenAIOffer
           [] service = "anthropic" -> AnthropicOffer
           [] service = "gemini" -> GeminiOffer
           [] service = "bedrock" -> BedrockOffer
           [] service = "ollama" -> OllamaOffer

\* What a service may answer: a forced tool is called, tools may be; Gemini and Ollama stop with
\* "stop" after calls.  A limit, or a filter, can end an answer anywhere, and cut the arguments of
\* its last call short where the service hands them on as text.  With Gemini the reason may come
\* in a chunk without Content, and a blocked prompt has not even a candidate.
Sayable ==
    {a \in [parts : SeqOf({"text", "call", "broken"}, MaxParts),
            finish : {"stop", "length", "tool", "filter", "none"}, bare : BOOLEAN] :
        LET kinds == ToSet(a.parts) IN
        /\ Offer.forced => a.parts = <<"call">> /\ a.finish = "tool"
        /\ Offer.json => a.parts = <<"text">> \/ (a.parts = <<>> /\ a.finish \in {"filter", "none"})
        /\ "call" \in kinds => Offer.tools \/ Offer.forced
        /\ "broken" \in kinds =>
              /\ Offer.tools /\ service \in {"openai", "anthropic"}
              /\ a.finish \in {"length", "filter"}
              /\ \A i \in DOMAIN a.parts : a.parts[i] = "broken" => i = Len(a.parts)
        /\ a.finish = "tool" <=> /\ "call" \in kinds /\ service \notin {"gemini", "ollama"}
                                /\ a.finish \notin {"length", "filter"}
        /\ a.finish = "filter" => service # "ollama"
        /\ a.finish = "none" => a.parts = <<>> /\ a.bare
        /\ a.bare => service = "gemini"}

-----------------------------------------------------------------------------
(* Responses *)

\* Indices in order: the j-th is the one up to which there are j.
Ascending(indices) ==
    [j \in 1..Cardinality(indices) |->
        CHOOSE i \in indices : Cardinality({k \in indices : k <= i}) = j]

Positions(parts, kind) == Ascending({i \in DOMAIN parts : parts[i] = kind})
Response(parts, stop) ==
    [content |-> Positions(parts, "text"), calls |-> Positions(parts, "call"), stop |-> stop]

\* normalizeStopReason; what it does not know stays as it is.
OpenAIStop(finish) ==
    CASE finish = "stop" -> "complete" [] finish = "length" -> "length"
      [] finish = "tool" -> "tool_calls" [] finish = "filter" -> "content_filter"
      [] OTHER -> "unknown"
\* A refusal is no reason it knows.
AnthropicStop(finish) ==
    CASE finish = "stop" -> "complete" [] finish = "length" -> "length"
      [] finish = "tool" -> "tool_calls" [] OTHER -> "unknown"
\* What it does not know is complete.
GeminiStop(finish) ==
    CASE finish = "length" -> "length" [] finish = "filter" -> "content_filter"
      [] OTHER -> "complete"
BedrockStop(finish) ==
    CASE finish = "stop" -> "complete" [] finish = "length" -> "length"
      [] finish = "tool" -> "tool_calls" [] finish = "filter" -> "content_filter"
      [] OTHER -> "unknown"
OllamaStop(finish) == IF finish = "length" THEN "length" ELSE "complete"

OpenAIResponse(parts, finish) ==
    IF "broken" \in ToSet(parts) THEN Refusal ELSE Response(parts, OpenAIStop(finish))
AnthropicResponse(parts, finish) ==
    IF "broken" \in ToSet(parts) THEN Refusal ELSE Response(parts, AnthropicStop(finish))
\* Calls make the stop reason tool_calls.
GeminiParsed(parts, finish) ==
    Response(parts, IF "call" \in ToSet(parts) THEN "tool_calls" ELSE GeminiStop(finish))
GeminiResponse(parts, finish) ==
    IF finish = "none" THEN Refusal ELSE GeminiParsed(parts, finish)
BedrockResponse(parts, finish) == Response(parts, BedrockStop(finish))
OllamaResponse(parts, finish) ==
    Response(parts, IF "call" \in ToSet(parts) THEN "tool_calls" ELSE OllamaStop(finish))

Buffered(parts, finish) ==
    CASE service = "openai" -> OpenAIResponse(parts, finish)
      [] service = "anthropic" -> AnthropicResponse(parts, finish)
      [] service = "gemini" -> GeminiResponse(parts, finish)
      [] service = "bedrock" -> BedrockResponse(parts, finish)
      [] service = "ollama" -> OllamaResponse(parts, finish)

\* The model has answered.
AskModel ==
    /\ point = "new" /\ answer' \in Sayable
    /\ point' = IF demand.streamed THEN "streaming" ELSE "asked"
    /\ UNCHANGED <<service, demand, sent, gap, shown, got>>

GenerateResponse ==
    /\ point = "asked" /\ point' = "done" /\ got' \in {Buffered(answer.parts, answer.finish), Refusal}
    /\ UNCHANGED <<service, demand, answer, sent, gap, shown>>

-----------------------------------------------------------------------------
(* Streams: each event is taken by assembleStream before the next is sent *)

\* A part arrives: a text is a delta at once, calls are kept for the end.
StreamPart ==
    /\ point = "streaming" /\ gap = "none" /\ sent < Len(answer.parts) /\ sent' = sent + 1
    /\ shown' = IF answer.parts[sent'] = "text" THEN Append(shown, sent') ELSE shown
    /\ UNCHANGED <<service, demand, answer, point, gap, got>>

\* The connection breaks, or the context ends; without an error when it is closed between two
\* events.
StreamBreaks ==
    /\ point = "streaming" /\ gap = "none" /\ gap' \in {"noticed", "quiet"}
    /\ UNCHANGED <<service, demand, answer, point, sent, shown, got>>

Arrived == SubSeq(answer.parts, 1, sent)
FinishSeen == IF gap = "none" THEN answer.finish ELSE "none"

\* ChatCompletionAccumulator, then parseResponse; without a chunk there is no choice.
OpenAIDone ==
    IF gap = "quiet" /\ sent = 0 THEN Refusal ELSE OpenAIResponse(Arrived, FinishSeen)

AnthropicDone == AnthropicResponse(Arrived, FinishSeen)

\* The finish reason of a chunk without Content is not seen.
GeminiDone ==
    IF gap = "quiet" /\ sent = 0 THEN Refusal
    ELSE GeminiParsed(Arrived, IF answer.bare THEN "none" ELSE FinishSeen)

\* Faulty: the calls of the last chunk only.
OllamaDoneLast ==
    IF gap = "quiet" THEN Refusal
    ELSE LET r == OllamaResponse(Arrived, FinishSeen) IN
         [r EXCEPT !.calls = SelectSeq(@, LAMBDA i : i = sent)]

\* Only a chunk that says done ends the stream well.
OllamaDone == IF gap = "quiet" THEN Refusal ELSE OllamaResponse(Arrived, FinishSeen)

StreamDone == CASE service = "openai" -> OpenAIDone
          [] service = "anthropic" -> AnthropicDone
          [] service = "gemini" -> GeminiDone
          [] service = "ollama" -> OllamaDone

\* The content is what was passed on, the rest is of the Done event.
AssembleStream ==
    /\ point = "streaming" /\ point' = "done"
    /\ sent = Len(answer.parts) \/ gap # "none"
    /\ \/ gap # "noticed" /\ StreamDone # Refusal /\ got' = [StreamDone EXCEPT !.content = shown]
       \* Also a call that was cut short does not parse.
       \/ (gap # "none" \/ StreamDone = Refusal) /\ got' = Refusal
    /\ UNCHANGED <<service, demand, answer, sent, gap, shown>>

GenerationNext == AskModel \/ GenerateResponse \/ StreamPart \/ StreamBreaks \/ AssembleStream

GenerationSpec == GenerationInit /\ [][GenerationNext]_generationVars

-----------------------------------------------------------------------------
(* Properties *)

GenerationTypeOK ==
    /\ service \in Provider /\ point \in {"new", "asked", "streaming", "done"}
    /\ sent \in 0..MaxParts /\ gap \in {"none", "noticed", "quiet"}
    /\ got.stop \in {"none", "error", "complete", "length", "tool_calls", "content_filter", "unknown"}
    /\ ToSet(shown) \cup ToSet(got.content) \cup ToSet(got.calls) \subseteq 1..MaxParts

\* Streamed or not, what the loop takes for the answer of the model is what GenerateResponse makes
\* of it ("matching GenerateResponse", "for the loop to process exactly as a buffered call"): all
\* its texts in order, its calls once each, its stop reason; and what the user has seen of it is
\* its beginning.  Except: a stream of OpenAI, Anthropic or Gemini that is closed without an error
\* counts as the whole answer; and Gemini's, when the reason came without Content, for one that the
\* model completed, though the answer was blocked or cut short.
AnswersAreWhole ==
    /\ IsPrefix(shown, Positions(answer.parts, "text"))
    /\ point = "done" /\ got # Refusal =>
          LET whole == Buffered(answer.parts, answer.finish) IN
          \/ got = whole
          \/ gap = "quiet" /\ service # "ollama"
          \/ demand.streamed /\ answer.bare /\ got = [whole EXCEPT !.stop = "complete"]
=============================================================================
