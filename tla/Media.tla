-------------------------------- MODULE Media --------------------------------
(* The files of a message on their way to the model: the channel downloads   *)
(* them, the Vault stores them, the Lens describes them in the user message, *)
(* the messages waiting in the Inbox join it, and the provider attaches what *)
(* it takes to the request.                                                  *)
EXTENDS Naturals, Sequences

CONSTANTS
    Setup,      \* [channel, provider, vision, lens, vault]: a channel of "twilio", "dialog360",
                \* "telegram", "slack", "host"; a provider of "openai", "anthropic", "gemini",
                \* "bedrock", "ollama", whose model takes images or not; the Lens, a set of
                \* "notices", "ear", "eye", "extractor", {} without one; whether there is a Vault
    MaxFiles    \* bound: files of a message

Setups == [channel : {"twilio", "dialog360", "telegram", "slack", "host"},
           provider : {"openai", "anthropic", "gemini", "bedrock", "ollama"}, vision : BOOLEAN,
           lens : SUBSET {"notices", "ear", "eye", "extractor"}, vault : BOOLEAN]

\* Every Lens writes notices; Ollama's Oracle takes no images.
ASSUME SetupAssumption ==
    /\ Setup \subseteq Setups
    /\ \A s \in Setup : /\ s.lens # {} => "notices" \in s.lens
                        /\ s.provider = "ollama" => ~s.vision

VARIABLES
    setup,      \* what is configured
    place,      \* "arrived", "pushed", "stored", "described", "coalesced", "asked", "refused"
    files,      \* what the user sent
    words,      \* there is a user message besides the entries of the Lens
    waiting,    \* messages of rejected deliveries in the Inbox
    pushed,     \* the message of this turn is in the Inbox
    artifacts,  \* [type, id, data, url]
    entries,    \* of the Lens in the user message: <<"notice" or "text", index of an artifact>>
    mute,       \* artifacts a tool of the Lens failed on, or found nothing in
    joined,     \* the user message was replaced by the messages of the Inbox
    lastCall    \* the last call of the model: [round, seen], indices of attached artifacts

mediaVars == <<setup, place, files, words, waiting, pushed,
               artifacts, entries, mute, joined, lastCall>>

FileKind == {"image", "audio", "video", "document", "sticker"}

NotAsked == [round |-> "none", seen |-> {}]

MediaInit ==
    /\ setup \in Setup
    /\ place = "arrived" /\ files = <<>> /\ words = FALSE /\ waiting = 0 /\ pushed = FALSE
    /\ artifacts = <<>> /\ entries = {} /\ mute = {} /\ joined = FALSE /\ lastCall = NotAsked

-----------------------------------------------------------------------------
(* Receptors: an artifact for each file, its bytes if they could be fetched *)

Artifact(type, data) == [type |-> type, id |-> TRUE, data |-> data, url |-> FALSE]

\* By the MIME type; a sticker is an image.
TwilioArtifact(kind, data) == Artifact(IF kind = "sticker" THEN "image" ELSE kind, data)
\* By the message type; a type it does not know becomes words.
Dialog360Artifacts(kind, data) == IF kind = "sticker" THEN {} ELSE {Artifact(kind, data)}
\* By the objects of the message; of a sticker there is none that it knows.
TelegramArtifacts(kind, data) == IF kind = "sticker" THEN {} ELSE {Artifact(kind, data)}
\* By the MIME type; a file may come without an address to fetch it from.
SlackArtifact(kind, data) == Artifact(IF kind = "sticker" THEN "image" ELSE kind, data)
\* A Pulse the host builds itself: bytes, or only a URL.
HostArtifact(kind, data) == [type |-> kind, id |-> FALSE, data |-> data, url |-> ~data]

Artifacts(kind, data) ==
    CASE setup.channel = "twilio" -> {TwilioArtifact(kind, data)}
      [] setup.channel = "dialog360" -> Dialog360Artifacts(kind, data)
      [] setup.channel = "telegram" -> TelegramArtifacts(kind, data)
      [] setup.channel = "slack" -> {SlackArtifact(kind, data)}
      [] setup.channel = "host" -> {HostArtifact(kind, data)}

\* A file arrives and is fetched; what the fetch answers is bytes, an error, or nothing.
Download(kind, data) ==
    /\ place = "arrived" /\ Len(files) < MaxFiles
    /\ setup.channel = "host" => kind # "sticker"
    /\ files' = Append(files, kind)
    /\ \/ \E a \in Artifacts(kind, data) : artifacts' = Append(artifacts, a) /\ UNCHANGED words
       \/ Artifacts(kind, data) = {} /\ words' = (words \/ setup.channel = "dialog360")
          /\ UNCHANGED artifacts
    /\ UNCHANGED <<setup, place, waiting, pushed, entries, mute,
                   joined, lastCall>>

\* Text of the user, a caption.  A message without words and artifacts is refused, and a message
\* without words is not pushed to the Inbox.
Convert(text) ==
    /\ place = "arrived" /\ files # <<>>
    /\ words' = (words \/ text)
    /\ place' = IF words' \/ artifacts # <<>> THEN "pushed" ELSE "refused"
    /\ pushed' \in (IF words' THEN BOOLEAN ELSE {FALSE})
    /\ UNCHANGED <<setup, files, waiting, artifacts, entries, mute,
                   joined, lastCall>>

\* A delivery of the session that finds it busy leaves its message, and no artifacts; when it
\* comes does not matter, if it comes before the drain.
OtherPushes ==
    /\ place = "described" /\ waiting < 2
    /\ waiting' = waiting + 1
    /\ UNCHANGED <<setup, place, files, words, pushed, artifacts,
                   entries, mute, joined, lastCall>>

-----------------------------------------------------------------------------
(* Steps of the pipeline *)

\* Faulty: the bytes are in the Vault now.
MediaVaultDropping ==
    /\ place = "pushed" /\ place' = "stored"
    /\ \E stored \in SUBSET {i \in DOMAIN artifacts : setup.vault /\ artifacts[i].data} :
          artifacts' = [i \in DOMAIN artifacts |->
                          IF i \in stored THEN [artifacts[i] EXCEPT !.url = TRUE, !.data = FALSE]
                          ELSE artifacts[i]]
    /\ UNCHANGED <<setup, files, words, waiting, pushed, entries,
                   mute, joined, lastCall>>

\* MediaVaultStep: an artifact that cannot be stored stays without a URL.
MediaVault ==
    /\ place = "pushed" /\ place' = "stored"
    /\ \E stored \in SUBSET {i \in DOMAIN artifacts : setup.vault /\ artifacts[i].data} :
          artifacts' = [i \in DOMAIN artifacts |->
                          IF i \in stored THEN [artifacts[i] EXCEPT !.url = TRUE] ELSE artifacts[i]]
    /\ UNCHANGED <<setup, files, words, waiting, pushed, entries,
                   mute, joined, lastCall>>

VideoNotices == {i \in DOMAIN artifacts : artifacts[i].type = "video"}
DownloadNotices ==
    {i \in DOMAIN artifacts : artifacts[i].type # "video" /\ ~artifacts[i].data /\ artifacts[i].id}

Has(type, tool) ==
    {i \in DOMAIN artifacts : tool \in setup.lens /\ artifacts[i].type = type /\ artifacts[i].data}
Documents == Has("document", "extractor")
Audios    == Has("audio", "ear")
Images    == Has("image", "eye")

\* Processor.Process: notices, then what each tool says; its errors are logged, and an empty text
\* is no entry.
MediaProcessing ==
    /\ place = "stored" /\ place' = "described"
    /\ \E silent \in SUBSET (Documents \cup Audios \cup Images) :
          /\ mute' = silent
          /\ entries' =
                {<<"text", i>> : i \in (Documents \cup Audios \cup Images) \ silent} \cup
                {<<"notice", i>> :
                    i \in IF "notices" \in setup.lens THEN VideoNotices \cup DownloadNotices ELSE {}}
    /\ UNCHANGED <<setup, files, words, waiting, pushed,
                   artifacts, joined, lastCall>>

\* MessageCoalescing: two messages or more replace the user message; one is drained for nothing,
\* and an error of the Inbox leaves it as it is.
MessageCoalescing ==
    /\ place = "described" /\ place' = "coalesced"
    /\ \/ waiting + (IF pushed THEN 1 ELSE 0) > 1
          /\ joined' = TRUE /\ words' = TRUE /\ entries' = {}
       \/ UNCHANGED <<joined, words, entries>>
    /\ UNCHANGED <<setup, files, waiting, pushed, artifacts, mute,
                   lastCall>>

-----------------------------------------------------------------------------
(* The request *)

\* Supports... of the Oracles: PDFs go with Claude's images, everything with Gemini's.
Supports(type) ==
    CASE type = "image" -> setup.vision
      [] type = "audio" -> setup.vision /\ setup.provider = "gemini"
      [] type = "document" -> setup.vision /\ setup.provider \in {"anthropic", "gemini"}
      [] OTHER -> FALSE

\* ConvertToLLMAttachments
Attachments ==
    {i \in DOMAIN artifacts :
        Supports(artifacts[i].type) /\ (artifacts[i].data \/ artifacts[i].url)}

\* The last message of the context: initializeWorkingContext adds none without a user message.
LastIsUser(round) == round # "results" /\ (round = "note" \/ words \/ entries # {})

AttachedImages(round) ==
    {i \in Attachments : LastIsUser(round) /\ artifacts[i].type = "image"}

OpenAIAttached(round)    == AttachedImages(round)
\* Only images, although it supports documents.
AnthropicAttached(round) == AttachedImages(round)
BedrockAttached(round)   == {i \in AttachedImages(round) : artifacts[i].data}
\* Whatever the last message is, also after the results of Actions.
GeminiAttached(round)    == {i \in Attachments : artifacts[i].data}

Attached(round) ==
    CASE setup.provider = "openai" -> OpenAIAttached(round)
      [] setup.provider = "anthropic" -> AnthropicAttached(round)
      [] setup.provider = "bedrock" -> BedrockAttached(round)
      [] setup.provider = "gemini" -> GeminiAttached(round)
      [] setup.provider = "ollama" -> {}

CallModel(round) ==
    /\ place \in {"coalesced", "asked"} /\ place' = "asked"
    /\ (round = "first") = (place = "coalesced")
    /\ lastCall.round # round
    /\ lastCall' = [round |-> round, seen |-> Attached(round)]
    /\ UNCHANGED <<setup, files, words, waiting, pushed, artifacts,
                   entries, mute, joined>>

MediaNext ==
    \/ \E kind \in FileKind, data \in BOOLEAN : Download(kind, data)
    \/ \E text \in BOOLEAN : Convert(text)
    \/ OtherPushes \/ MediaVault \/ MediaProcessing \/ MessageCoalescing
    \/ \E round \in {"first", "results", "note"} : CallModel(round)

MediaSpec == MediaInit /\ [][MediaNext]_mediaVars

-----------------------------------------------------------------------------
(* Properties *)

MediaTypeOK ==
    /\ setup \in Setup
    /\ place \in {"arrived", "pushed", "stored", "described", "coalesced", "asked", "refused"}
    /\ {words, pushed, joined} \subseteq BOOLEAN /\ waiting \in 0..2
    /\ Len(artifacts) <= Len(files) /\ Len(files) <= MaxFiles
    /\ entries \subseteq {"notice", "text"} \X DOMAIN artifacts
    /\ mute \cup lastCall.seen \subseteq DOMAIN artifacts
    /\ lastCall.round \in {"none", "first", "results", "note"}

Told(i) == \E what \in {"notice", "text"} : <<what, i>> \in entries

\* Where the code lets an artifact vanish without a trace: its entry was overwritten by the
\* messages of the Inbox; there is no Lens, or not the tool for it, or the tool found nothing or
\* failed, and the provider does not take it either; only a URL came.
Vanished(i) ==
    \/ joined
    \/ setup.lens = {}
    \/ artifacts[i].data /\ (i \in mute \/ i \notin Documents \cup Audios \cup Images)
    \/ ~artifacts[i].id

\* When the model is first called it sees every artifact of the message, or reads what it says, or
\* why it cannot be had, except where the code drops it; an image that a vision model can be given
\* it always sees, if there is any user message to attach it to.  And it is never told that what
\* it sees could not be downloaded.
ArtifactsReachTheModel ==
    place = "asked" =>
        /\ lastCall.round = "first" =>
              \A i \in DOMAIN artifacts :
                  /\ i \in lastCall.seen \/ Told(i) \/ Vanished(i)
                  /\ artifacts[i].type = "image" /\ artifacts[i].data /\ setup.vision
                        /\ (words \/ entries # {}) => i \in lastCall.seen
        /\ \A i \in lastCall.seen : <<"notice", i>> \notin entries
=============================================================================
