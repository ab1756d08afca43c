------------------------------ MODULE Assembly ------------------------------
(* The builder: options given in any order, also between two calls of Build, *)
(* and what of them the engine has.  Times are in units of the margin that   *)
(* Validate asks for between ReasoningTimeout and LockTTL (15 s).            *)
EXTENDS Naturals, Sequences

CONSTANTS
    Required,   \* what validate asks for
    Wired,      \* parts that Build hands over as they are
    Stored,     \* settings the document of the configuration has a field for
    Unstored,   \* policies it has none for
    Budget, Lease, \* values of ReasoningTimeout and LockTTL that callers ask for
    Oracle,     \* names of providers
    Channel,    \* [name, voice]
    Preset,     \* configurations that callers pass, or save through the REST API
    BuilderCalls \* bound: calls of the builder

Setting == Stored \cup Unstored
Configuration == [lock : Nat, reasoning : Nat, settings : SUBSET Setting]

ASSUME TimesAssumption == Budget \cup Lease \subseteq Nat
ASSUME PresetAssumption == Preset \subseteq Configuration
ASSUME LoreAssumption == "lore" \notin Wired

VARIABLES
    given,      \* parts the builder has
    config, explicit, \* of the builder: [lock, reasoning, settings], and lockTTLExplicit
    oracles,    \* providers added
    factory,    \* [providers, default]
    actions,    \* of the action registry: [there, names]
    voices,     \* names in the voice registry of the host
    channels,   \* in the order they were given
    document,   \* the stored configuration
    asked,      \* last settings asked for, 0 if the lock was not: [lock, reasoning, settings]
    overwritten, \* settings that a later WithConfig replaced
    late,       \* providers added when the factory was there
    clashes,    \* calls of Build refused for a Voice
    running,    \* subscriptions to changes of the configuration
    closable,   \* those of engines that Build returned
    building,   \* "idle", or the part of Build that comes next
    weave,      \* the engine: [config, parts, factory, conduit, subscribed, voices, receptors]
    result,     \* of the last call: "none", "built", "refused"
    made        \* calls

settingVars == <<config, explicit, asked, overwritten>>
partVars == <<given, oracles, factory, late, actions, voices, channels>>
assemblyVars ==
    <<settingVars, partVars, document, clashes, running, closable, building, weave, result, made>>

NoFactory == [providers |-> {}, default |-> "none"]
NoWeave == [config |-> "none", parts |-> {}, factory |-> NoFactory, conduit |-> FALSE,
            subscribed |-> FALSE, voices |-> {}, receptors |-> {}]

DefaultWeaveConfig == [lock |-> 10, reasoning |-> 8, settings |-> {}]

AssemblyInit ==
    /\ \E missing \in {{}} \cup {{r} : r \in Required} : given = Required \ missing
    /\ config = DefaultWeaveConfig /\ explicit = FALSE /\ document = DefaultWeaveConfig
    /\ asked = [DefaultWeaveConfig EXCEPT !.lock = 0] /\ overwritten = {}
    /\ \E o \in Oracle : oracles = {o}
    /\ factory = NoFactory /\ late = {} /\ actions = [there |-> FALSE, names |-> {}]
    /\ voices = {} /\ channels = <<>> /\ clashes = 0
    /\ running = 0 /\ closable = 0
    /\ building = "idle" /\ weave = NoWeave /\ result = "none" /\ made = 0

-----------------------------------------------------------------------------
(* Calls of the builder *)

Call ==
    /\ building = "idle" /\ made < BuilderCalls /\ made' = made + 1
    /\ weave' = NoWeave /\ result' = "none"
    /\ UNCHANGED <<document, clashes, running, closable, building>>

With(p) ==
    /\ Call /\ p \notin given /\ given' = given \cup {p}
    /\ UNCHANGED <<settingVars, oracles, factory, late, actions, voices, channels>>

WithActionRegistry ==
    /\ Call /\ actions' = [there |-> TRUE, names |-> {}]
    /\ UNCHANGED <<settingVars, given, oracles, factory, late, voices, channels>>

WithVoiceRegistry ==
    /\ Call /\ given' = given \cup {"voices"} /\ voices' = {}
    /\ UNCHANGED <<settingVars, oracles, factory, late, actions, channels>>

WithChannel(c) ==
    /\ Call /\ Len(channels) < 2 /\ channels' = Append(channels, c)
    /\ UNCHANGED <<settingVars, given, oracles, factory, late, actions, voices>>

AddOracle(o) ==
    /\ Call /\ oracles' = oracles \cup {o}
    /\ late' = IF factory = NoFactory THEN late ELSE late \cup ({o} \ factory.providers)
    /\ UNCHANGED <<settingVars, given, factory, actions, voices, channels>>

\* A factory of the host's.
WithOracleFactory(o) ==
    /\ Call /\ factory' = [providers |-> {o}, default |-> o] /\ late' = oracles \ {o}
    /\ UNCHANGED <<settingVars, given, oracles, actions, voices, channels>>

\* WithInputGuard to WithHandoffPolicy, WithMaxIterations and the like.
Tune(s) ==
    /\ Call /\ config' = [config EXCEPT !.settings = @ \cup {s}]
    /\ asked' = [asked EXCEPT !.settings = @ \cup {s}] /\ overwritten' = overwritten \ {s}
    /\ UNCHANGED <<partVars, explicit>>

WithLockTTL(ttl) ==
    /\ Call /\ config' = [config EXCEPT !.lock = ttl] /\ explicit' = TRUE
    /\ asked' = [asked EXCEPT !.lock = ttl] /\ UNCHANGED <<partVars, overwritten>>

\* Faulty: the lock always follows.
WithReasoningTimeoutDeriving(timeout) ==
    /\ Call /\ config' = [config EXCEPT !.reasoning = timeout, !.lock = timeout + 2]
    /\ asked' = [asked EXCEPT !.reasoning = timeout]
    /\ UNCHANGED <<partVars, explicit, overwritten>>

WithReasoningTimeout(timeout) ==
    /\ Call /\ config' = [config EXCEPT !.reasoning = timeout,
                                        !.lock = IF explicit THEN @ ELSE timeout + 2]
    /\ asked' = [asked EXCEPT !.reasoning = timeout]
    /\ UNCHANGED <<partVars, explicit, overwritten>>

WithConfig(c) ==
    /\ Call /\ config' = c /\ explicit' = TRUE
    /\ asked' = [c EXCEPT !.settings = @ \cup asked.settings]
    /\ overwritten' = (overwritten \cup config.settings) \ c.settings
    /\ UNCHANGED partVars

Valid(c) == c.lock > 0 /\ (c.reasoning > 0 => c.lock >= c.reasoning + 1)

\* PUT of the REST API, and configToDocument: what has no field is dropped.
SaveConfig(c) ==
    /\ building = "idle" /\ made < BuilderCalls /\ made' = made + 1
    /\ Valid(c) /\ document' = [c EXCEPT !.settings = @ \cap Stored]
    /\ UNCHANGED <<settingVars, partVars, clashes, running, closable, building, weave, result>>

-----------------------------------------------------------------------------
(* Build *)

Refuse == building' = "idle" /\ result' = "refused" /\ weave' = NoWeave

\* validate
BeginBuild ==
    /\ building = "idle" /\ made < BuilderCalls /\ made' = made + 1
    /\ IF Required \subseteq given /\ (factory # NoFactory \/ oracles # {})
       THEN building' = "factory" /\ result' = "none" /\ weave' = NoWeave
       ELSE Refuse
    /\ UNCHANGED <<settingVars, partVars, document, clashes, running, closable>>

\* buildOracleFactory: it ranges over a map, and the first one is the default.
BuildOracleFactory ==
    /\ building = "factory" /\ building' = "config"
    /\ \/ factory # NoFactory /\ UNCHANGED factory
       \/ factory = NoFactory
          /\ \E o \in oracles : factory' = [providers |-> oracles, default |-> o]
    /\ UNCHANGED <<settingVars, given, oracles, late, actions, voices, channels, document, clashes,
                   running, closable, weave, result, made>>

\* The stored configuration replaces the builder's; it cannot be read.
LoadConfig ==
    /\ building = "config"
    /\ \/ /\ "configRepository" \in given /\ config' = document
          /\ building' = "registry" /\ UNCHANGED <<weave, result>>
       \/ "configRepository" \in given /\ Refuse /\ UNCHANGED config
       \/ /\ "configRepository" \notin given
          /\ building' = "registry" /\ UNCHANGED <<config, weave, result>>
    /\ UNCHANGED <<explicit, asked, overwritten, partVars, document, clashes, running,
                   closable, made>>

\* The action registry is made when Actions of the engine's own need it; then newWeaveWithConfig.
NewWeave ==
    /\ building = "registry"
    /\ actions' = IF ~actions.there /\ given \cap {"rites", "httpTools"} # {}
                  THEN [there |-> TRUE, names |-> {}] ELSE actions
    /\ IF Valid(config)
       THEN /\ weave' = [NoWeave EXCEPT !.config = config, !.factory = factory]
            /\ building' = "links" /\ UNCHANGED result
       ELSE Refuse
    /\ UNCHANGED <<settingVars, given, oracles, factory, late, voices, channels, document, clashes,
                   running, closable, made>>

LoadLinks ==
    /\ building = "links"
    /\ \/ building' = "subscribe" /\ UNCHANGED <<weave, result>>
       \/ "links" \in given /\ Refuse
    /\ UNCHANGED <<settingVars, partVars, document, clashes, running,
                   closable, made>>

\* RegisterAction: an error is logged.
Registered(name) ==
    actions' = IF actions.there THEN [actions EXCEPT !.names = @ \cup {name}] ELSE actions

RegisterRite ==
    IF "rites" \in given THEN Registered("request_rite") ELSE UNCHANGED actions

SubscribeCache ==
    /\ building = "subscribe" /\ building' = "channels" /\ RegisterRite
    /\ running' = IF "pubSub" \in given THEN running + 1 ELSE running
    /\ weave' = [weave EXCEPT !.subscribed = "pubSub" \in given]
    /\ UNCHANGED <<settingVars, given, oracles, factory, late, voices, channels, document, clashes,
                   closable, result, made>>

VoicesOf(n) == {channels[i].voice : i \in 1..n}

\* The host's registry, or one of the engine's own.
Base == IF "voices" \in given THEN voices ELSE {}

\* The channels up to the first whose Voice is there already.
Fitting ==
    {n \in 0..Len(channels) :
        \A i \in 1..n : channels[i].voice \notin Base \cup VoicesOf(i - 1)}

RegisterChannels ==
    /\ building = "channels"
    /\ \E n \in Fitting :
          /\ n + 1 \notin Fitting
          /\ voices' = IF "voices" \in given THEN voices \cup VoicesOf(n) ELSE voices
          /\ IF n = Len(channels)
             THEN /\ building' = "parts" /\ UNCHANGED <<result, clashes>>
                  /\ weave' = [weave EXCEPT !.voices = Base \cup VoicesOf(n),
                                            !.receptors = {channels[i].name : i \in 1..n}]
             ELSE Refuse /\ clashes' = clashes + 1
    /\ UNCHANGED <<settingVars, given, oracles, factory, late, actions, channels, document, running,
                   closable, made>>

\* Parts of their own, and Lore with all of its three.
WireParts ==
    /\ building = "parts" /\ building' = "conduits"
    /\ LET lore == {"loreRepository", "loreStore", "loreEmbedder"} IN
       weave' = [weave EXCEPT !.parts = (given \cap Wired) \cup
                    IF lore \subseteq given THEN {"lore"} ELSE {}]
    /\ UNCHANGED <<settingVars, partVars, document, clashes, running, closable,
                   result, made>>

\* A conduit that does not answer is skipped.
WireConduits ==
    /\ building = "conduits" /\ building' = "idle" /\ result' = "built"
    /\ \/ UNCHANGED <<actions, weave>>
       \/ /\ "conduit" \in given /\ Registered("conduit__find")
          /\ weave' = [weave EXCEPT !.conduit = TRUE]
    /\ closable' = IF weave.subscribed THEN closable + 1 ELSE closable
    /\ UNCHANGED <<settingVars, given, oracles, factory, late, voices, channels, document, clashes,
                   running, made>>

Part == Required \cup Wired \cup
        {"voices", "rites", "httpTools", "conduit", "configRepository", "links", "pubSub",
         "loreRepository", "loreStore", "loreEmbedder"}

AssemblyNext ==
    \/ \E p \in Part \ {"voices"} : With(p)
    \/ WithActionRegistry \/ WithVoiceRegistry
    \/ \E c \in Channel : WithChannel(c)
    \/ \E o \in Oracle : AddOracle(o) \/ WithOracleFactory(o)
    \/ \E s \in Setting : Tune(s)
    \/ \E ttl \in Lease : WithLockTTL(ttl)
    \/ \E timeout \in Budget : WithReasoningTimeout(timeout)
    \/ \E c \in Preset : WithConfig(c) \/ SaveConfig(c)
    \/ BeginBuild \/ BuildOracleFactory \/ LoadConfig \/ NewWeave \/ LoadLinks \/ SubscribeCache
    \/ RegisterChannels \/ WireParts \/ WireConduits

AssemblySpec == AssemblyInit /\ [][AssemblyNext]_assemblyVars

-----------------------------------------------------------------------------
(* Properties *)

AssemblyTypeOK ==
    /\ given \subseteq Part /\ explicit \in BOOLEAN /\ oracles \subseteq Oracle
    /\ {config.settings, asked.settings} \subseteq SUBSET Setting
    /\ late \subseteq oracles /\ overwritten \subseteq Setting
    /\ document.settings \subseteq Stored
    /\ actions.there \in BOOLEAN /\ (~actions.there => actions.names = {})
    /\ building \in {"idle", "factory", "config", "registry", "links", "subscribe", "channels",
                     "parts", "conduits"}
    /\ result \in {"none", "built", "refused"}
    /\ {clashes, running, closable, made} \subseteq 0..BuilderCalls

\* An engine that Build returns has what the caller asked for, in whatever order and however many
\* calls of Build before, except where the code drops it without an error: settings from before a
\* WithConfig, or any with a stored configuration; providers added once the factory was there;
\* tools of a conduit without an action registry; one or two parts of Lore.  Its lock outlives a
\* reasoning cycle, its default provider is one it has, and only a refusal for a Voice leaves a
\* subscription nobody can close.
EngineIsAsAsked ==
    /\ result = "built" =>
        /\ weave.config.lock > weave.config.reasoning
        /\ "configRepository" \notin given =>
              /\ asked.settings \ overwritten \subseteq weave.config.settings
              /\ weave.config.reasoning = asked.reasoning
              /\ asked.lock # 0 => weave.config.lock = asked.lock
        /\ given \cap Wired \subseteq weave.parts
        /\ "lore" \in weave.parts <=>
              {"loreRepository", "loreStore", "loreEmbedder"} \subseteq given
        /\ weave.factory.default \in weave.factory.providers
        /\ oracles \ late \subseteq weave.factory.providers
        /\ "rites" \in given => "request_rite" \in actions.names
        /\ weave.conduit /\ actions.there => "conduit__find" \in actions.names
        /\ \A i \in DOMAIN channels :
              channels[i].voice \in weave.voices /\ channels[i].name \in weave.receptors
    /\ building = "idle" => running <= closable + clashes
=============================================================================
