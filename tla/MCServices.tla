----------------------------- MODULE MCServices -----------------------------
(* Small instances of the services that keep a state of their own, side by  *)
(* side: a behaviour is one of its part's, the other parts stand still.     *)
EXTENDS Vigil, Reasoning, Rite, SpiritVersions, LinkCache, Ledger, Imprint, Ingress, Outbound,
        Delegation, Streaming, Media, Assembly, Casting, Lore, Generation, Dialect, TLC

CONSTANTS o1, o2, t1, t2, act, look, send, hand, open, close, toNew, toHome, ghost, home, new

VARIABLE part

AllTools == {"notices", "ear", "eye", "extractor"}
On(chan, oracleOf, vision, lens, vault) ==
    [channel |-> chan, provider |-> oracleOf, vision |-> vision, lens |-> lens, vault |-> vault]

\* Messages of each channel, provider and kind of Lens.
MCSetup == {
    On("twilio", "openai", TRUE, {}, FALSE),
    On("dialog360", "openai", TRUE, AllTools, TRUE),
    On("slack", "anthropic", TRUE, {"notices", "eye"}, TRUE),
    On("telegram", "gemini", TRUE, {"notices"}, TRUE),
    On("telegram", "bedrock", TRUE, AllTools, FALSE),
    On("host", "gemini", TRUE, {}, FALSE),
    On("host", "openai", TRUE, AllTools, FALSE),
    On("twilio", "ollama", FALSE, AllTools, FALSE)}

\* A builder two of whose channels share a Voice.
MCChannel == {
    [name |-> "twilio", voice |-> "whatsapp"], [name |-> "360", voice |-> "whatsapp"],
    [name |-> "telegram", voice |-> "telegram"]}
MCPreset == {
    [lock |-> 10, reasoning |-> 8, settings |-> {"outputGuard"}],
    [lock |-> 6, reasoning |-> 4, settings |-> {"iterations"}]}

\* Two conversations on one Link: of one Spirit, of two with a Pathfinder (one was never
\* created) and without, of none.
MCSameName == "Desk" :> "desk"
MCSubNames == "sales" :> {} @@ "desk" :> {"sales"}
MCLinks == {
    [allowed |-> <<"sales">>, default |-> "", pathfinder |-> "", registered |-> {}],
    [allowed |-> <<"desk", "lost">>, default |-> "", pathfinder |-> "gone",
     registered |-> {"default_llm_pathfinder"}],
    [allowed |-> <<"sales", "desk">>, default |-> "desk", pathfinder |-> "rules", registered |-> {}],
    [allowed |-> <<>>, default |-> "", pathfinder |-> "", registered |-> {}]}

\* A desk that orchestrates a writer and a triage Spirit, which hands off to billing and back.
MCSubSpirits  == "desk" :> {"triage", "billing"} @@ "triage" :> {} @@ "billing" :> {"desk"}
MCTargets     == "desk" :> {} @@ "triage" :> {"billing"} @@ "billing" :> {"triage"}
MCRoutes      == "desk" :> {"triage"} @@ "triage" :> {} @@ "billing" :> {}
MCMaxDepth    == [s \in Spirit |-> 1]
MCMaxHandoffs == [s \in Spirit |-> 2]

\* A batch of two senders, one of whom wrote twice, a single message, and one of a bot.
MCCarries == "w1" :> <<"m1", "m2", "m3">> @@ "w2" :> <<"m4">> @@ "w3" :> <<"b">>
MCSender  == "m1" :> "ana" @@ "m2" :> "bo" @@ "m3" :> "ana" @@ "m4" :> "ana" @@ "b" :> "bot"

\* Two knowledge bases with a document of the same id, and texts without one.
MCSource == {<<"faq", "a">>, <<"news", "a">>, <<"faq", "none">>}

MCSubject == toNew :> new @@ toHome :> home
MCEchoes  == home :> 1 @@ new :> 2

Plain == [durable |-> TRUE, enforce |-> TRUE, parallel |-> FALSE, stream |-> FALSE,
          window |-> 0, keep |-> 0, limit |-> 0, rounds |-> 0, plan |-> FALSE,
          grounding |-> "off", minConfidence |-> 0, format |-> FALSE,
          message |-> TRUE, requests |-> {<<act, send>>, <<look, look>>}]

\* One turn under several configurations of its Spirit.
MCPolicy == {
    Plain,
    [Plain EXCEPT !.enforce = FALSE, !.parallel = TRUE, !.stream = TRUE,
                  !.requests = {<<act, send>>, <<ghost>>}],
    [Plain EXCEPT !.keep = 2, !.limit = 3, !.requests = {<<look, act>>, <<toNew>>}],
    [Plain EXCEPT !.keep = 1, !.limit = 2, !.message = FALSE, !.requests = {<<look>>, <<toNew>>}],
    [Plain EXCEPT !.rounds = 1, !.plan = TRUE, !.grounding = "revise", !.minConfidence = 1,
                  !.requests = {<<open>>, <<close>>}],
    [Plain EXCEPT !.window = 2, !.grounding = "block", !.format = TRUE,
                  !.requests = {<<look>>, <<act>>, <<look, hand>>}],
    [Plain EXCEPT !.durable = FALSE, !.enforce = FALSE, !.requests = {<<act, send>>}]}

ritePart == <<rite, asking, busy, request, verdict, answered, heard>>
versionsPart == <<docs, active, step, current, calls, lapses>>
cachePart == <<repo, cache, up, channel, read, call, writes, excused>>
ledgerPart == <<budget, month, usage, processing, unchecked, pulses>>
ingressPart == <<receptor, mode, serving, delivered, acked, tasks, executing, seen, handled, spoilt,
                 admitted, mishaps>>
outboundPart == <<client, phase, sending, messages, unconfirmed, reported, terminal, timedOut>>
imprintPart == <<imprints, extraction, forgetting, saved, forgotten>>
servicesVars ==
    <<part, vars, reasoningVars, delegationVars, ritePart, versionsPart, cachePart, dialectVars,
      loreVars, ledgerPart, streamVars, ingressPart, outboundPart, imprintPart,
      generationVars, mediaVars, assemblyVars, castingVars>>

ServicesInit ==
    /\ part \in {"vigil", "reasoning", "delegation", "rite", "versions", "cache", "dialect",
                "lore", "ledger", "stream", "ingress", "outbound", "imprint", "generation", "media",
                "assembly", "casting"}
    /\ Init /\ DelegationInit /\ RiteInit /\ VersionsInit /\ CacheInit
    /\ ReasoningInit /\ (part # "reasoning" => policy = Plain)
    /\ DialectInit /\ (part # "dialect" => provider = "openai")
    /\ LoreInit /\ (part # "lore" => store = "mongo")
    /\ LedgerInit /\ (part # "ledger" => budget = [kind |-> "agent", onExceed |-> "block"])
    /\ StreamInit
    /\ IngressInit /\ (part # "ingress" => receptor = "telegram" /\ mode = "sync")
    /\ OutboundInit /\ (part # "outbound" => client = "chat")
    /\ ImprintInit
    /\ GenerationInit
    /\ part # "generation" =>
          service = "openai" /\ demand = [tools |-> FALSE, format |-> FALSE, streamed |-> FALSE]
    /\ MediaInit /\ (part # "media" => setup = On("twilio", "openai", TRUE, {}, FALSE))
    /\ AssemblyInit
    /\ part # "assembly" => given = {"repositories"} /\ oracles = {"openai"}
    /\ CastingInit /\ (part # "casting" => link.allowed = <<"sales">>)

\* Everything of the other parts.
Still(p) ==
    /\ p # "vigil" => UNCHANGED <<seat, at, told, pc, reply, ended, held, silenced, unread, faults>>
    /\ p # "reasoning" => UNCHANGED <<policy, stage, turn, batch, results, tries, cancelled,
                                      checkpoint, outcome, banked, attempts, trouble>>
    /\ p # "delegation" => UNCHANGED delegationVars
    /\ p # "rite" => UNCHANGED ritePart
    /\ p # "versions" => UNCHANGED versionsPart
    /\ p # "cache" => UNCHANGED cachePart
    /\ p # "dialect" => UNCHANGED dialectVars
    /\ p # "lore" => UNCHANGED loreVars
    /\ p # "ledger" => UNCHANGED ledgerPart
    /\ p # "stream" => UNCHANGED streamVars
    /\ p # "ingress" => UNCHANGED ingressPart
    /\ p # "outbound" => UNCHANGED outboundPart
    /\ p # "imprint" => UNCHANGED imprintPart
    /\ p # "generation" => UNCHANGED generationVars
    /\ p # "media" => UNCHANGED mediaVars
    /\ p # "assembly" => UNCHANGED assemblyVars
    /\ p # "casting" => UNCHANGED castingVars

ServicesNext ==
    /\ UNCHANGED part
    /\ \/ part = "vigil" /\ Still("vigil") /\ Next
       \/ part = "reasoning" /\ Still("reasoning") /\ ReasoningNext
       \/ part = "delegation" /\ Still("delegation") /\ DelegationNext
       \/ part = "rite" /\ Still("rite") /\ RiteNext
       \/ part = "versions" /\ Still("versions") /\ VersionsNext
       \/ part = "cache" /\ Still("cache") /\ CacheNext
       \/ part = "dialect" /\ Still("dialect") /\ DialectNext
       \/ part = "lore" /\ Still("lore") /\ LoreNext
       \/ part = "ledger" /\ Still("ledger") /\ LedgerNext
       \/ part = "stream" /\ Still("stream") /\ StreamNext
       \/ part = "ingress" /\ Still("ingress") /\ IngressNext
       \/ part = "outbound" /\ Still("outbound") /\ OutboundNext
       \/ part = "imprint" /\ Still("imprint") /\ ImprintNext
       \/ part = "generation" /\ Still("generation") /\ GenerationNext
       \/ part = "media" /\ Still("media") /\ MediaNext
       \/ part = "assembly" /\ Still("assembly") /\ AssemblyNext
       \/ part = "casting" /\ Still("casting") /\ CastingNext

ServicesSpec == ServicesInit /\ [][ServicesNext]_servicesVars

\* What tells two states apart: ServicesInit gives the variables of the other parts one value each
\* and Still keeps it.
PartView ==
    <<part,
      CASE part = "vigil" -> vars
        [] part = "reasoning" -> reasoningVars
        [] part = "delegation" -> delegationVars
        [] part = "rite" -> ritePart
        [] part = "versions" -> versionsPart
        [] part = "cache" -> cachePart
        [] part = "dialect" -> dialectVars
        [] part = "lore" -> loreVars
        [] part = "ledger" -> ledgerPart
        [] part = "stream" -> streamVars
        [] part = "ingress" -> ingressPart
        [] part = "outbound" -> outboundPart
        [] part = "imprint" -> imprintPart
        [] part = "generation" -> generationVars
        [] part = "media" -> mediaVars
        [] part = "assembly" -> assemblyVars
        [] part = "casting" -> castingVars>>

\* Every variable of the part under way keeps its type.
ServicesTypeOK ==
    /\ part = "vigil" => TypeOK
    /\ part = "reasoning" => ReasoningTypeOK
    /\ part = "delegation" => DelegationTypeOK
    /\ part = "rite" => RiteTypeOK
    /\ part = "versions" => VersionsTypeOK
    /\ part = "cache" => CacheTypeOK
    /\ part = "dialect" => DialectTypeOK
    /\ part = "lore" => LoreTypeOK
    /\ part = "ledger" => LedgerTypeOK
    /\ part = "stream" => StreamTypeOK
    /\ part = "ingress" => IngressTypeOK
    /\ part = "outbound" => OutboundTypeOK
    /\ part = "imprint" => ImprintTypeOK
    /\ part = "generation" => GenerationTypeOK
    /\ part = "media" => MediaTypeOK
    /\ part = "assembly" => AssemblyTypeOK
    /\ part = "casting" => CastingTypeOK
=============================================================================
