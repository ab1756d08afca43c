------------------------------- MODULE Dialect -------------------------------
(* What the Oracles make of one conversation: each provider turns the       *)
(* messages of the loop into its own wire format and its answers back.  A   *)
(* call and its result must still belong together on the other side.        *)
(* A message of a request stands at the index of the first message of the   *)
(* loop it is made of; a block has its message and its place in that.       *)
EXTENDS Naturals, Sequences, FiniteSets, Functions

CONSTANTS
    Oracles,     \* of "openai", "anthropic", "bedrock", "gemini", "ollama"
    Action,      \* names of Actions
    MaxBatch,    \* bound: calls of one answer
    MaxAnswers   \* bound: answers with calls

ASSUME OraclesAssumption == Oracles \subseteq {"openai", "anthropic", "bedrock", "gemini", "ollama"}
ASSUME BatchAssumption == MaxBatch \in Nat

VARIABLES
    provider,    \* the Oracle of the Spirit
    talk,        \* the loop's messages (workingContext)
    wire,        \* the messages of the last request
    serial,      \* calls made
    displaced,   \* a batch of results was not in the order of its calls
    blank        \* an Action returned an empty result

dialectVars == <<provider, talk, wire, serial, displaced, blank>>

User == [role |-> "user", text |-> TRUE, calls |-> << >>]

DialectInit ==
    /\ provider \in Oracles /\ talk = <<User>> /\ wire = << >>
    /\ serial = 0 /\ displaced = FALSE /\ blank = FALSE

DialectTypeOK ==
    /\ provider \in Oracles
    /\ \A i \in DOMAIN talk : talk[i].role \in {"user", "assistant", "tool"}
    /\ \A i \in DOMAIN wire :
          /\ i \in DOMAIN talk /\ wire[i].role \in {"user", "assistant", "tool"}
          /\ wire[i].blocks # {}
          /\ \A x \in wire[i].blocks : x[2].kind \in {"text", "use", "result"}
    /\ serial \in 0..MaxBatch * MaxAnswers
    /\ {displaced, blank} \subseteq BOOLEAN

-----------------------------------------------------------------------------
(* Blocks of a message by their places; `of` is the call that a block is, or *)
(* is the result of                                                          *)

Text(m) == IF m.text THEN {[nth |-> 0, kind |-> "text", ref |-> << >>, of |-> 0]} ELSE {}
Uses(m) == {[nth |-> k, kind |-> "use", ref |-> m.calls[k].id, of |-> m.calls[k].of] :
               k \in DOMAIN m.calls}
Spoken(m) == Text(m) \cup Uses(m)

\* A tool message holds the call it answers.
ResultBlock(m, ref) == {[nth |-> 1, kind |-> "result", ref |-> ref, of |-> m.calls[1].of]}
Unless(empty, blocks) == IF empty THEN {} ELSE blocks

\* convertMessage: the result is addressed by ToolName; an empty one is no message at all.
OpenAIBlocks(m) ==
    IF m.role = "tool" THEN Unless(~m.text, ResultBlock(m, <<m.calls[1].name>>)) ELSE Spoken(m)

\* buildContentBlocks: the text of a result goes before its tool_result block.
AnthropicBlocks(m) ==
    IF m.role = "tool" THEN Unless(~m.text, Text(m) \cup ResultBlock(m, m.calls[1].id))
                       ELSE Spoken(m)

\* convertToolResultMessage: by ToolName, empty or not.
BedrockBlocks(m) ==
    IF m.role = "tool" THEN ResultBlock(m, <<m.calls[1].name>>) ELSE Spoken(m)

\* buildMessageParts: function responses have a name and no id.
GeminiBlocks(m) ==
    IF m.role = "tool" THEN ResultBlock(m, <<m.calls[1].name>>) ELSE Spoken(m)

\* chatMessage has neither.
OllamaBlocks(m) ==
    IF m.role = "tool" THEN ResultBlock(m, << >>) ELSE Spoken(m)

Blocks(m) ==
    CASE provider = "openai"    -> OpenAIBlocks(m)
      [] provider = "anthropic" -> AnthropicBlocks(m)
      [] provider = "bedrock"   -> BedrockBlocks(m)
      [] provider = "gemini"    -> GeminiBlocks(m)
      [] provider = "ollama"    -> OllamaBlocks(m)

\* Tool results are sent in a user turn, but for the two with a role of their own.
WireRole(m) ==
    IF m.role = "tool" /\ provider \in {"anthropic", "bedrock", "gemini"} THEN "user" ELSE m.role

\* Faulty: every message is sent by itself.
JoinsNever(messages, i) == FALSE

\* Gemini gets consecutive results as one turn (convertToHistory and splitMessagesForChat,
\* history and SendMessage put together again).
Joins(messages, i) ==
    provider = "gemini" /\ i > 1 /\ messages[i - 1].role = "tool" /\ messages[i].role = "tool"

\* The messages sent as one with message i, those without blocks included.
Run(messages, i) ==
    {j \in DOMAIN messages : i <= j /\ \A k \in i + 1..j : Joins(messages, k)}

\* convertMessages.
Request(messages) ==
    [i \in {j \in DOMAIN messages : Blocks(messages[j]) # {} /\ ~Joins(messages, j)} |->
        [role |-> WireRole(messages[i]),
         blocks |-> UNION {{j} \X Blocks(messages[j]) : j \in Run(messages, i)}]]

-----------------------------------------------------------------------------

\* The answer of the provider, in one piece or as a stream: ids of its own, or the name of
\* the Action where the provider has none.
CallId(name, n) == IF provider \in {"gemini", "ollama"} THEN <<name>> ELSE <<name, n>>

ToolCalls(names) ==
    [i \in DOMAIN names |-> [name |-> names[i], id |-> CallId(names[i], serial + i), of |-> serial + i]]

Answers == Cardinality({i \in DOMAIN talk : talk[i].role = "assistant"})

\* The calls of the last message, to be executed.
Pending == LET last == talk[Len(talk)] IN
           IF last.role = "assistant" THEN last.calls ELSE << >>

\* callLLM: the request goes out; an error of the API or of the parsing ends the turn.
Ask ==
    /\ Pending = << >> /\ Answers < MaxAnswers
    /\ wire' = Request(talk)
    /\ \E n \in 1..MaxBatch, text \in BOOLEAN : \E names \in [1..n -> Action] :
          /\ talk' = Append(talk, [role |-> "assistant", text |-> text, calls |-> ToolCalls(names)])
          /\ serial' = serial + n
    /\ UNCHANGED <<provider, displaced, blank>>

\* processActionCalls: calls that are banned or remembered are answered before the others are
\* executed.
Sooner(k, l, skipped) == IF k \in skipped <=> l \in skipped THEN k < l ELSE k \in skipped
Orders(calls, skipped) ==
    {order \in Bijection(DOMAIN calls, DOMAIN calls) :
        \A m, n \in DOMAIN calls : m < n => Sooner(order[m], order[n], skipped)}

Execute ==
    /\ Pending # << >>
    /\ \E skipped \in SUBSET DOMAIN Pending, empty \in SUBSET DOMAIN Pending :
       \E order \in Orders(Pending, skipped) :
          /\ talk' = talk \o [i \in DOMAIN order |->
                [role |-> "tool", text |-> order[i] \notin empty, calls |-> <<Pending[order[i]]>>]]
          /\ displaced' = (displaced \/ order # [i \in DOMAIN Pending |-> i])
          /\ blank' = (blank \/ empty # {})
    /\ UNCHANGED <<provider, wire, serial>>

\* The last request of the turn, answered with text only.
AskLast ==
    /\ Pending = << >> /\ Answers = MaxAnswers
    /\ wire' = Request(talk)
    /\ UNCHANGED <<provider, talk, serial, displaced, blank>>

DialectNext == Ask \/ Execute \/ AskLast

DialectSpec == DialectInit /\ [][DialectNext]_dialectVars
-----------------------------------------------------------------------------
(* Properties *)

Kind(sent, i, kind) == {x \in sent[i].blocks : x[2].kind = kind}

\* The results a provider looks at for the calls of message i: those of the turn that follows,
\* to which all messages before the next answer belong, but for Gemini only the one.
TurnAfter(sent, i) ==
    {j \in DOMAIN sent : i < j /\ \A k \in DOMAIN sent :
        i < k /\ k <= j => sent[k].role # "assistant" /\ (provider = "gemini" => k = j)}
ResultsAfter(sent, i) == UNION {Kind(sent, j, "result") : j \in TurnAfter(sent, i)}

\* The blocks up to x, in the order in which they are sent.
UpTo(blocks, x) == {y \in blocks : y[1] < x[1] \/ (y[1] = x[1] /\ y[2].nth <= x[2].nth)}
SameRef(blocks, x) == {y \in blocks : y[2].ref = x[2].ref}

\* The results that the provider takes for the one of call u: by id, by name and order, or by
\* order alone.
Understood(uses, results, u) ==
    {r \in results :
       CASE provider = "gemini" ->
              /\ r[2].ref = u[2].ref
              /\ Cardinality(UpTo(SameRef(results, r), r)) = Cardinality(UpTo(SameRef(uses, u), u))
         [] provider = "ollama" -> Cardinality(UpTo(results, r)) = Cardinality(UpTo(uses, u))
         [] OTHER -> r[2].ref = u[2].ref}

EachResult(sent, i) ==
    LET uses == Kind(sent, i, "use")
        results == ResultsAfter(sent, i)
    IN \A u \in uses : \E r \in results :
          Understood(uses, results, u) = {r} /\ r[2].of = u[2].of

\* In every request each call is followed by its own result and by no other, however the calls
\* were batched: of the providers with ids where the id is sent (anthropic) and no result was
\* empty, which drops the message; of the others as long as no call of a batch was answered
\* before its turn, since they go by order (convertMessages of each Oracle).
ResultsReachCalls ==
    \/ provider = "anthropic" /\ blank
    \/ provider \in {"gemini", "ollama"} /\ displaced
    \/ provider \in {"openai", "bedrock"}
    \/ \A i \in DOMAIN wire : EachResult(wire, i)

\* The same of every provider, for results that are not empty and in order: "the provider
\* translates to its native API format", where a result has the id of its call.
CallsAreAnswered == displaced \/ blank \/ \A i \in DOMAIN wire : EachResult(wire, i)
=============================================================================
