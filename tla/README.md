# Eywa in TLA+

Specifications of the parts of Eywa in which several actors share state: the session lock, the
pipeline that runs under it, the rituals that re-enter the pipeline later, and the operator seat that
keeps the pipeline out. Every module was written from the Go source; `PROJECT.json` gives, for each
definition, the file and the lines it stands for.

`ORC` below is `src/internal/implementation/orchestrator`.

## 1. The system

A **Pulse** arrives over REST, Pub/Sub or Cloud Tasks, and `Weave.ProcessEventByKey` runs it through a
fixed pipeline of steps. Any number of engine processes share one Redis and one MongoDB; nothing but
the session lock keeps two Pulses of a session apart.

| component | state | operations | correct when |
|---|---|---|---|
| **Bond**, `redis/bond.go` | a Redis key with a ttl per session; in each process a map from lock key to the mutex it acquired last | `AcquireLock`, `ReleaseLock`, `ExtendLock` (heartbeat of `ReasoningStep`), `reapExpired` | turns exclude each other while leases hold; nobody frees or renews another process's lock; every lock comes free |
| **Weave pipeline**, `ORC/engine.go`, `pipeline.go`, `pipeline_step_*.go` | a `ProcessingState` per delivery | the steps in the order of `buildProcessingPipeline`; release on success and on error | the session a turn works on is locked; locks are returned on every path; a Pulse is answered once; nobody waits for ever |
| **Inbox**, `redis/inbox.go` | a Redis list per session | `Push`, `PopAll` | a message turned away as busy is processed with a later one |
| **Idempotency store**, `redis/idempotency.go` | keys with a ttl | `Seen` | redeliveries are dropped, retries are not |
| **Memory and Echo**, `ORC/memory_manager.go`, `redis/memory_repository.go` | a session with a ttl in Redis, an append-only log in Mongo | `GetOrCreate`, `UpdateMemory`, `Save`, `AppendEcho` | no turn overwrites what another one saved |
| **Ritual**, `services/ritual_service.go`, `mongo/ritual_repository.go`, `fiber/schedule_handler.go` | a record per occurrence, a Cloud Tasks task | `Schedule`, `Cancel`, `MarkRunning`, `MarkExecuted`, `MarkFailed`, `HandleExecuteEvent` | an occurrence succeeds once and has one successor; none stays pending with no task |
| **Vigil**, `redis/vigil_repository.go`, `fiber/vigil_handler.go`, `ORC/handoff.go` | one Redis key per session, `<operator>:<unix>` | `takeSeat`, `releaseSeat`, `sendMessage`, `VigilCheck`, `RaiseTakeover` | the seat stays with its operator; no turn speaks over one |
| **Reasoning loop, durable turns, Action executor**, `ORC/reasoning_*.go`, `tool_executor.go` | the working context, counters, bans, memo; a checkpoint per turn | `run`, `executeIterationActions`, `saveCheckpoint`, `resumeFromCheckpoint` | every call has its result before the model goes on; a resumed turn goes on and does not start over |
| **Summon and Handoff**, `ORC/summon_service.go`, `handoff_service.go` | a pinned Spirit per session | `Summon`, `Handoff` | depth bounded; the next turn goes to the Spirit that answered |
| **Rites**, `mongo/rite_repository.go`, `fiber/rite_handler.go` | a record per approval | `request_rite`, `Decide`, the resume Pulse | nobody resumes on a Rite that is pending |
| **Spirits, Links, HTTP tools**, `mongo/*_repository.go`, `ORC/config_cache.go`, `registries/` | versions in Mongo; Links in every process; the registry of Actions of a process | create, update, activate, delete; reload on notification | one active version; the caches converge; a turn runs with what belongs to its Spirit |
| **Builder**, `ORC/builder.go` | the options given so far | `With...`, `Build` | the engine is the one asked for |
| **Oracles**, `providers/*/oracle.go`, `ORC/streaming.go` | none between calls | `GenerateResponse`, `GenerateStream` | results reach their calls; a streamed answer is the buffered one |
| **Lore**, `ORC/engine.go`, `providers/*/lore_store.go` | chunks in a vector store | `IngestLore`, `DeleteLore`, `SearchLore` | a Lore answers with the text ingested last |
| **Imprints**, `pipeline_step_imprint.go`, `actions/imprint_actions.go` | facts per user | extract, remember, forget, prune | facts are kept, once |
| **Ledger**, `pipeline_step_cost.go` | usage per Spirit and month | check before, add after | overrun bounded by the concurrency |
| **Channels**, `channels/`, `fiber/` | none; webhooks and messages under way | receptor, synchronous and asynchronous ingestion, Voices, Vault and Lens | a message gets one turn, its files reach the model, the user gets one answer |

The parts meet in four places: every step of the pipeline after `LockAcquisition` runs under the Bond;
a Keeper task calls the pipeline with the id of its ritual in the metadata, so a ritual competes for
the session with the user's messages; `VigilCheck` reads a key that operators and low-confidence turns
write; and a rejected message survives only in the Inbox, to be drained by a turn that holds the lock.

What is hard to test in it: two turns of one process on one key after a lease ran out; replies lost
with the command applied; process death between any two calls; two sessions locked by two turns in
opposite orders; the same Pulse or task delivered twice, at once or later; a push in the middle of a
drain; records read, and written later by id only. `PROJECT.json` lists these hazards at their lines,
with the property that watches each, or the reason why none does yet.

## 2. The modules

`Bond`, `Weave`, `Ritual` and `Vigil` are the core; Vigil and sixteen other parts make up the composite
`MCServices`. The instances are in `MCBond`, `MCWeave`, `MCRitual`, `MCVigil`, `MCServices` and, for one
run of `Reasoning` by itself, `MCReasoning`.
Proofs are in `BondProofs`, `WeaveProofs`, `RitualProofs`, `VigilProofs`, `ReasoningProofs`,
`RecordProofs` (of `Rite`, `SpiritVersions`, `Ledger`, `Imprint`, `LinkCache`, `Assembly` and `Lore`),
`ChannelProofs` (of `Ingress`, `Outbound`, `Media` and `Dialect`) and `TurnProofs` (of `Delegation`,
`Streaming`, `Casting` and `Generation`).

### Bond and Lease: the distributed lock

`Lease` is what `ports/bond.go` promises: a process holds a key until it returns it or the time it was
granted is over, renewal gives the full time again, nobody takes a key that is held. `Bond` is how
Redis and the processes do it. A *turn* is one pass through the pipeline that needs one key. Its lock
value is random in the code and is the turn itself here. `entries[p]` is the map of process `p`. Calls
are split where the code unlocks `mu` or waits for Redis: `AcquireLock` is `Reap`,
`LockFree`/`LockTaken`/`LockError`, `StoreEntry`; `ExtendLock` is `ExtendRead`,
`ExtendTouch`/`ExtendError`, `ExtendCommit`; `ReleaseLock` is `ReleaseEntry`, `Unlock`/`UnlockError`. The
methods take only a key, so they act for whatever turn the map holds: that is why `hbEntry` and
`released` exist. Redis keys and entries carry their remaining time; `Tick` is the clock of both (Redis
expiry and `time.Now` are taken to advance together). An error reply leaves the command applied or not.
`Crash` empties the map of a process, never a Redis key. `overrun` is history: turns whose key expired
while they were at work. The refinement (`Promise`, `KeepsPromise`) takes the process of the value in
Redis as the holder and the ttl of the key as the time left.

### Weave and Sessions: the pipeline

One *attempt* per delivery, a small state machine over the steps that touch shared state, in the order of
`buildProcessingPipeline` (engine.go:816-941): idempotency, rate limit, push and lock, Vigil, LinkScout with
its second lock, Spirit selection and the Spirit's Scouts, session set-up, drain of the inbox (two Redis
commands), reasoning, save, echo, delivery, release of both locks. Each step has its error outcome as an
action of its own, bounded together by `MaxFaults`; all errors after the lock go to `release`, as in
`runProcessingPipeline`. A message is its Pulse, a memory and an echo log are sets of messages. The lock is
the one `Lease` promises while leases hold: `Orphan` is a value whose owner is gone and which only its ttl
removes. What a turn does between its lock and its answer is a choice of `SelectSpirit` and `Reason`;
`Casting` and `Reasoning` have it in detail. A Scout that ends in an error does not fail the turn, as in
`runScout`. The Link's Scouts may move a turn to another session, whose lock it then takes too; so may those
of the Spirit (`SpiritRekeyOf`), and there the code takes no lock. The sessions that a turn can reach in
this way only are `Unguarded`, and what is said of sessions is said of the others. `ReasonUnconfirmed` is
the Action that sent the answer and was reported as failed: the Voice sends one too, and `unconfirmed`
remembers the Pulse.

`Sessions` is what the pipeline promises to those who talk under one memory key
(`docs/architecture.md:385`): one turn works on a session at a time; it starts on what is remembered,
adds what the user wrote, and what it commits has all that was there. It knows nothing of locks,
inboxes or Scouts. A memory that is gone is put together again, and a session loaded while the stores
fail is `misread`. The refinement (`Serial`, `SessionsAreSerial`) maps `work` to `Work`, the attempts
between `SessionSetup` and `LockRelease` with the session each will save, on the guarded key the Scouts
have led it to; `SaveMemory` is the commit. A turn that fails, or dies, closes without one.

### Ritual: scheduled turns

The records of one session, their tasks, and workers: clients in `Schedule` and `Cancel`, deliveries
in `HandleExecuteEvent`. Every repository call and every call of the Keeper is a step, since the code
updates by id without a condition. A task is delivered any number of times, also at once, until a
delivery answers 200. The lock is one try; a turn of a user may hold it, which is the second disjunct
of `AcquireLock`. Statuses are those of `entities/ritual.go`; the cron expression is abstracted to the
index of the last run that is not after `EndsAt`.

### Vigil: the operator seat

One session, operators, and turns that run one at a time. `takeSeat` is a SETNX and then a `Get`, with
steps of others in between. `Get` splits the value at its first colon, so an id that has one
(`WithColon`; always `system:auto-handoff`) gives an error: the conversion is modelled by that. History
variables say who was told of the seat and when the seat of that moment ended.

### What a turn does

* `Reasoning`: one turn from its first delivery to its last. A call is its signature, the working
  context a sequence of messages that know who wrote them, in which iteration, and which calls they
  make or answer. An iteration is an answer of the Oracle, the execution of its batch (memo, bans,
  retries, parallel or in order), the settlement of the results, topic switch and compression, the
  checkpoint; an answer passes plan, reflection and grounding. `Crash` and `Cancel` come at any step;
  `DeliverPulse` of the next delivery restores what `turnSnapshot` has fields for, and nothing else. A
  Pulse with an empty message adds none (`policy.message`).
* `Delegation`: the Spirits that work on one turn as a tree of frames with the counters of their
  Pulses, and the pin of the session with its failing writes.
* `Casting`: which Spirit a Pulse gets (pin, Link, Pathfinder, router) and which Scouts and HTTP tools,
  while operators edit Spirits and tools and the process restarts.
* `Ledger`: the second half of the pipeline as one budget sees it, with the ways a turn is skipped.
* `Rite`: one approval, operators that decide it, and the session that resumes.

### What goes in and out

* `Ingress`: webhooks, repeated by their channel; the Pulses a receptor makes of them; turns at once or
  through Keeper tasks, repeated too.
* `Media`: the files of a message through channel, Vault, Lens, Inbox and provider.
* `Dialect`: the wire format each provider makes of one conversation; what is compared is which result
  the provider would take for the one of each call.
* `Generation`: one call of a model, buffered or streamed, and how each client reassembles it. A limit or
  a filter ends an answer anywhere; with Gemini the chunk that says so may have no Content.
* `Streaming`: three goroutines, two bounded channels and a client, per streamed turn. The turn may be
  skipped before it reasons; its reasoning ends with an answer, a second answer of the primary model, a
  forced synthesis, a handoff or an error of the Actions, of the model or of the last iteration.
* `Outbound`: delivering Actions with their retries, a client that polls or trusts, and the Voice.

### What is kept

* `SpiritVersions`, `LinkCache`: editors and the documents they write; notifications and reloads.
* `Lore`: ingestions chunk by chunk into stores that key and write differently, and deletions.
* `Imprint`: extractions in the background beside the Actions of other turns.
* `Assembly`: any sequence of options and builds, and what the engine then has.

`MCServices` runs these sixteen parts and Vigil side by side: the variable `part` says whose behaviour
it is, and the others stand still, so the run is the union of their state spaces and no product.

## 3. The runs

All are reproduced with `tlc -workers 2 -config <run>.cfg <module>.tla`.

| run | instance | shows |
|---|---|---|
| `Bond_safety` | 3 turns of one key, two of them in one process, one of those a notifier without a heartbeat, TTL 2 | `MutexWhileLeased`, `ActsForOwnProcess`, `KeepsPromise` (the refinement of `Lease`), `EveryLockIsFreed` |
| `Bond_shared_process` | the same | **violated**: `LeasedTurnsExclude` |
| `Weave_turns` | 3 deliveries of 2 Pulses (one twice), each Pulse moved by the Link's Scouts to the session of the other and one moved on by its Spirit's, 3 sessions, 1 fault | `SessionsAreSerial` (the refinement of `Sessions`), `ConversationKept`, `LocksReturned`, `OneReply`, `EveryAttemptEnds` |
| `Weave_inbox` | 3 Pulses of a session, no fault, atomic drains | **violated**: `BusyIsCoalesced` |
| `Weave_retry` | one Pulse delivered twice, no fault | **violated**: `RetryIsProcessed` |
| `Ritual_life` | 2 deliveries, 1 client, MaxRuns 2, 1 fault | `RunsOnce`, `NoPhantomPending`, `TerminalIsFinal`, `EveryRitualSettles` |
| `Ritual_recurrence` | 2 deliveries, no fault | **violated**: `RecurrenceContinues` |
| `Vigil_auto` | no fault, only the automatic id has a colon | **violated**: `SeatBlocksSpirit` |
| `Dialect_pairing` | all providers, one batch | **violated**: `CallsAreAnswered` |
| `Ledger_skipped` | one turn | **violated**: `SkippedIsReported` |
| `Reasoning_recent` | one turn of 4 iterations, compression that keeps 1 or 2 | **violated**: `RecentKept` |
| `Services` | the seventeen parts, see below | the 22 invariants below and `ServicesTypeOK` |

| part of `Services` | instance | invariants |
|---|---|---|
| Vigil | 2 operators and the automatic id, 2 turns, TTL 2, 1 fault | `SeatIsTheirs`, `HoldingIsBacked`, `TakeoverSilences` |
| Reasoning | 7 policies, one of a Pulse without a message, 4 iterations, 5 Actions, 2 attempts, 1 fault | `CallsAnswered`, `ResumeGoesOn`, `ConversationPinned` |
| Delegation | 3 Spirits, the orchestrator within reach of its own sub-Spirit, depth 1, 2 handoffs, 4 frames, 2 turns | `ChainsBounded`, `AuthorOwnsSession` |
| Casting | 4 Links, 2 Spirits, 2 tools of a name, 2 conversations, 2 changes, 2 turns | `CastIsOwn` |
| Ledger | 2 turns at once, 3 Pulses, 2 months | `OverrunIsBounded` |
| Rite | 3 operators | `ResumedIsDecided` |
| Ingress | 3 receptors, 3 webhooks of 5 messages, 2 deliveries, 2 requests at once, 1 mishap | `HandledExactlyOnce` |
| Media | 8 set-ups, 2 files | `ArtifactsReachTheModel` |
| Dialect | 5 providers, 2 batches of up to 2 calls | `ResultsReachCalls` |
| Generation | 5 providers, answers of 3 parts | `AnswersAreWhole` |
| Streaming | 2 Pulses, 2 calls and the last one, of one piece each, channels of 1 | `StreamIsWhole` |
| Outbound | 3 clients, 3 attempts | `NoCopyUnexplained` |
| SpiritVersions | 3 editors, 3 versions, 5 calls | `OneActiveVersion` |
| LinkCache | 2 processes, 2 writers, 2 writes | `CachesConverge` |
| Lore | 5 stores, 3 sources, 2 ingestions at once, 1 of the 2 Lores deleted and created again | `AnswersAreFresh` |
| Imprint | 2 extractions, room for 1 fact, 3 saves | `FactsAreKeptOnce` |
| Assembly | 4 calls of the builder, 3 channels, 2 of one Voice | `EngineIsAsAsked` |

Deadlock is not checked: every module ends when its turns, deliveries or clients are through.

Several of these invariants have an exception for what the code gives up on purpose or by construction
(a retry after an unknown outcome, a read error taken for an empty answer, a tool of a name that is
taken): the exception names the line of code, is a history variable of the model where it depends on
what happened, and everything outside it is checked. The mutants in `PROJECT.json` show for each
property a plausible mistake in the code that it catches.

**Bounds.** *Bond*: the known hazard needs a late turn, a newer one of its process, and a third of another,
hence 3 and 2; the newer one of the two is the notifier, which has no heartbeat of its own; TTL 2 lets a
renewal come before, at and after expiry; a turn runs once, so the behaviours are finite with no further
bound. *Weave*: a rekeying needs two sessions, a crossing two Pulses, idempotency a redelivery, and a
Spirit's Scouts a third session; `MaxFaults = 1` puts one error, expiry, unconfirmed answer or crash at
every point of every interleaving, and lost locks then interact with the other two attempts. *Ritual*:
`MaxRuns = 2` is the smallest with a successor and an end; a third id is there so that an occurrence too
many could be created. *Vigil*: an operator's seat meets another operator and the automatic takeover, whose
id cannot be read back; one fault fails a `Get` or an `Acquire` at every point of every interleaving.
*Reasoning*: four iterations leave one after a compression that keeps two, and two attempts are a turn and
its resumption, from a checkpoint of any step; the policies pair the features that touch the same state.
*Streaming*: an event can wait in each of the five places of its way, and a turn has more events than
places. *Delegation*: four frames are a chain of one kind that reaches its limit and one call more, and the
alternation of the two kinds. *Ingress*: two deliveries are a webhook and its repetition, also while the
first is being served; the Keeper repeats the tasks of each besides. *Lore*: the Lore that is deleted shares
the id of a document with the one that stays. *Casting*: two changes are an edit under a running turn and a
second tool of the same name. *Lore*, *Imprint*, *LinkCache*, *SpiritVersions*: two calls at once cross at
every step; a third value is the one a crossing leaves behind. *Dialect*: two calls of one Action in a batch
are where order and name alone must pair them. *Assembly*: four calls are an option, a build, another option
and a second build. The `None`, `Orphan` and element names are model values in the core and strings in the
composite. `Services` compares states by `PartView`, the variables of the part under way: those of the other
parts have one initial value each and no step of this part changes them, so that the view leaves no state
out and only spares TLC their comparison. Where one of its bounds is small for the time of a run, the
theorem of section 4 has the property for every value.

**Fairness.** *Bond*: `WF` of the clock and of a goroutine that has a next step; `SF` of
`HeartbeatStop`, since the closed `done` channel of `heartbeat` is always ready whereas the ticker is
ready once in a third of the TTL. How often renewal happens is not assumed, and acquisition of a lock
is not either. *Weave*: `WF` per attempt and per orphaned key; no fault ever has to happen. *Ritual*:
`WF` of every call once it was made, `SF` of the delivery of a queued task: Cloud Tasks retries it
whatever else it delivers in between. The parts of the composite are checked for safety only.

## 4. What is proved

The modules `...Proofs` are checked by TLAPS for all values of the constants, from the assumptions that
the modules name and TLC evaluates. Most say what a constant is: functions of turns, keys and Pulses,
natural numbers for the bounds. The others: a TTL is positive (`Bond`, `Vigil`); `None` and `Orphan` are
nobody's name; the automatic id is no operator's and has a colon (`Vigil`, `handoff.go`); clients are no
deliveries (`Ritual`); the built-in Actions can be called, the echoes of a topic are counted, and a turn
has at least one iteration and one try (`Reasoning`); the turns of a Spirit are finitely many and its
limit is positive, since a limit of zero is no budget (`Ledger`, `pipeline_step_cost.go`); the limits of a
Spirit are natural numbers (`Delegation`); a Link has a list of Spirits (`Casting`); a Lens writes notices
at least, and Ollama's Oracle takes no images (`Media`, `lens.go`, `ollama/oracle.go`); Lore is wired from
its three parts and no part of its own (`Assembly`, `builder.go`); no document has the id of a Lore,
which is a UUID unless the caller gives another (`Lore`, `fiber/lore_handler.go`); the providers are the
five that have an Oracle (`Generation`, `Dialect`, `oracles/factory.go`). `Rite`, `SpiritVersions`,
`LinkCache` and `Streaming` need none: what is said of streams holds for channels of any size and of
none.

| theorem | states |
|---|---|
| `BondProofs!TypeCorrect` | `[]TypeOK` |
| `BondProofs!ActsForOwn` | `ActsForOwnProcess` |
| `BondProofs!PromiseKept` | `KeepsPromise`: `Bond` implements `Lease` |
| `BondProofs!Mutex` | `[]MutexWhileLeased` |
| `BondProofs!ApartExclude` | `OnePerProcess => [](LeasedTurnsExclude)`: exclusion of the turns whose own lease holds, if no process runs two turns of one key |
| `WeaveProofs!TypeCorrect` | `[]TypeOK` |
| `WeaveProofs!SessionsGuarded` | `[]SessionGuarded`: a turn owns the lock of the session it works on, if that is guarded |
| `WeaveProofs!AllLocksReturned` | `[]LocksReturned` |
| `WeaveProofs!AtMostOneReply` | `[]OneReply` |
| `WeaveProofs!SavedIsRecalled` | `[]ConversationKept` |
| `WeaveProofs!SessionsSerial` | `SessionsAreSerial`: `Weave` implements `Sessions` |
| `RitualProofs!TypeCorrect` | `[]TypeOK` |
| `RitualProofs!RunsOnceHolds` | `[]RunsOnce` |
| `RitualProofs!NoPhantomIsPending` | `[]NoPhantomPending` |
| `RitualProofs!TerminalStaysFinal` | `TerminalIsFinal`, an action property |
| `RitualProofs!RecurrenceContinuesAlone` | `OneDelivery => [](faulted = {} => RecurrenceContinues)`: no recurrence ends early, if one delivery is open at a time |
| `VigilProofs!TypeCorrect` | `[]TypeOK` |
| `VigilProofs!SeatKept` | `[]SeatIsTheirs` |
| `VigilProofs!HoldingBacked` | `[]HoldingIsBacked` |
| `VigilProofs!TakeoverIsSilent` | `[]TakeoverSilences` |
| `ReasoningProofs!TypeCorrect` | `[]ReasoningTypeOK` |
| `ReasoningProofs!EveryCallAnswered` | `[]CallsAnswered` |
| `ReasoningProofs!ResumeIsContinuation` | `[]ResumeGoesOn` |
| `ReasoningProofs!AllButOneStay` | `[]KeepsLast(policy.keep - 1)`: compression keeps the latest KeepRecent - 1 iterations |
| `ReasoningProofs!ConversationStays` | `[]ConversationPinned` |
| `RecordProofs!ResumesAreDecided` | `[]ResumedIsDecided` |
| `RecordProofs!OneVersionAnswers` | `[]OneActiveVersion` |
| `RecordProofs!OverrunStaysBounded` | `[]OverrunIsBounded` |
| `RecordProofs!FactsStay` | `[]FactsAreKeptOnce` |
| `RecordProofs!CachesFollow` | `[]CachesConverge` |
| `RecordProofs!EnginesAreAsAsked` | `[]EngineIsAsAsked` |
| `RecordProofs!LoresAnswerFresh` | `[]AnswersAreFresh` |
| `ChannelProofs!MessagesHandledOnce` | `[]HandledExactlyOnce` |
| `ChannelProofs!CopiesAreExplained` | `[]NoCopyUnexplained` |
| `ChannelProofs!ArtifactsAreShown` | `[]ArtifactsReachTheModel` |
| `ChannelProofs!ResultsMeetCalls` | `[]ResultsReachCalls` |
| `TurnProofs!ChainsStayBounded` | `[]ChainsBounded` |
| `TurnProofs!AuthorStaysOwner` | `[]AuthorOwnsSession` |
| `TurnProofs!StreamsAreWhole` | `[]StreamIsWhole` |
| `TurnProofs!CastsAreOwn` | `[]CastIsOwn` |
| `TurnProofs!AnswersStayWhole` | `[]AnswersAreWhole` |

*Bond.* `MutexWhileLeased` is not inductive: it says nothing of the maps, and `ReleaseLock` unlocks what
the map holds. Two invariants carry it. `Attributed`, which holds always: a value stays with its key,
and a map, or what was read from one, holds only values of turns of its process. This and
`TouchesEntry` (a heartbeat that touches has read an entry) give `ActsForOwn`, and `PromiseKept` on top:
each step on Redis is the grant, renewal, return or tick of `Lease` for the process of the value.
`Leased`, as long as nothing is overrun: a turn that owns has its value in Redis, a map entry belongs to
a turn at work, and what `ReleaseLock` took out is the caller's own. Two owners of a key would both be
its value. `ApartExclude` replaces `Leased` by `LeasedOwners`, for the turns that are not overrun: with
one turn per process and key, `Attributed` makes the entry taken out the caller's own for ever. That
theorem and the violated run say together that `ReleaseLock` by key is the one reason why a late turn
can cost the others their exclusion.

*Weave.* `TypeOK` is inductive only with `Loaded`: the drain adds the user turn to a session, which must
have been loaded. The two lock properties follow from `Owners`, the relation of each lock value to the step
of its attempt: between `VigilCheck` and `LockRelease` an attempt has the lock it came for; while `extra`
holds it has the one the Link's Scouts led it to, which is another (`Has`); it works on the session of the
one or the other, or on an unguarded one (`Place`); and it has no third (`HasOnly`). Only a free lock is
taken and only its owner frees one (`LockChanges`), so a step cannot disturb the `Owner` of the others.
`OneReply` needs `Answers`: an attempt past the idempotency check has its Pulse recorded, is alone with it
unless the store failed open, and finds no reply as long as it is one that may still answer and has not,
unless an Action of it has sent one unnoticed (`unconfirmed`). `ConversationKept` compares the echoes with
what was saved, which no step does at once. `Conversation` follows a saved message: it is echoed or its turn
is about to (`Echoed`); a memory, unless it was lost, holds all that was saved (`Remembered`), because the
turn that wrote it had loaded everything (`Based`) and nobody saved in between: by `Owners`, two turns that
work on a guarded session are one (`WorksAlone`). `Including` puts the user turn, and what was drained, into
what is saved. `SessionsSerial` sorts the steps of a turn by what they do to its session: they begin on it,
add to it, commit, end, or leave it alone (`StepWorks`). `WorksAlone` makes each of these a step of
`Sessions` on the one key the turn works on (`WorkIs`, `WorkMoves`), and the guard of the commit is the
invariant `AllDrafted`: a turn at work has all that is remembered, since nobody else writes there.
`SessionGuarded`, that such a turn owns the lock of the session, is why, and is proved on the way.

*Ritual.* `RitualInvariant` has five parts, each on top of those before. `Control`: what a worker knows goes
with where it is, the lock with who works under it. `Known`: every id somebody holds is that of a record,
and nobody else saves a record under an id that is being saved. `Chained`: the runs of the records are 0, 1,
2, ... once each, and a record that has a successor is terminal with no delivery about to write it, which
bounds the occurrences. `Succeeding`: outside the rituals that an error touched, a success has left a
terminal status or its own delivery is about to write it, so no turn starts on a ritual that had one; and a
delivery about to write `running` has no executed record, which is what makes `executed` final although the
code updates by id without a condition: only a delivery with the lock writes it. `Tended`: a pending record
has a queued task, a scheduler about to queue it or to roll it back, or a client about to cancel it, unless
it was `abandoned`, which is less than touched by an error (`faulted`): the write that would have closed the
record failed, or its scheduler died. A `CreateTask` that fails abandons nothing; the rollback after it is
what keeps the invariant. `RecurrenceContinuesAlone` is about what the run `Ritual_recurrence` violates:
with one delivery and as long as nothing failed, `Continuing` holds on top of the five. Until the handler
has answered, the task of an occurrence that succeeded is with its only delivery, and afterwards it is gone,
so nothing marks the record failed or running again; the record of a turn that is over is pending, running
or cancelled; hence `MarkExecuted` writes whatever was not cancelled, and the successor is on its way until
it is there. Violated run and theorem together say that the second delivery is the one reason why, without
an error, a recurrence ends early.

*Vigil.* `Claims`: whoever is between `Acquire` and `Get`, or was told, has the seat unless one ended,
and nobody with a colon in the id was told. `Silent`: a silenced turn whose check could read the seat
went from there to its end, because the seat it met could be parsed, which is the second half of
`Claims`; the others (`unread`) were let through by the check, which fails open.

*Reasoning.* The properties speak of the turn of the process, which a crash loses and a checkpoint brings
back; so the invariant holds of both. `Settled` says of a turn or a snapshot: the history it started from is
whole in front, with what opened the turn behind it (`Pinned`: the user's message, the ledger that replaced
it, or nothing when the Pulse has none), the latest iterations but one are in the context (`Recent`) and
behind every boundary that compression may cut at (`Bounded`), all calls are answered (`Answered`), no more
results are there than calls were counted (`Within`), and what was delivered is known (`Telling`). `Acting`
is the same while a batch runs, one message short. `Remembering`: what a checkpoint says is done, the
snapshot and the running turn both know; and what is pending in the batch they do not. With `Typed` these
are `TurnInvariant`. `OrderIsBijection` is the lemma under `CallsAnswered`: results are appended in another
order than the calls, each once. Compression and topic switches are one lemma each about what the moved
suffix keeps.

*Rite.* `Backed`: an operator whose `Decide` succeeded leaves a decided record, and nothing files a
pending one over it, so whatever the Pulse carries was decided.

*SpiritVersions.* `Versioned`: version 1 exists as soon as any does, so the unique index refuses a second
`Create`. `Exclusive`: between the two writes of an `Update` nothing is active, unless another editor
crossed it, which the property excuses.

*Ledger.* The bound is not inductive, as a turn that passed the check adds later. `Budgeted` reserves it:
the usage of this month and `MaxTokens` for each turn in `Spending` (it passed the check and has not
recorded) stay within the `Allowance`. A turn passes only below the limit, where the reservations of all
turns fit. The months before are closed as they were, those to come are untouched; a turn from last
month records in this one.

*Imprint.* `Remembered`: the ids follow the order of saving (`Archived`); whatever is gone or about to be
pruned has `MaxImprints` newer ones, which stay newer (`Pruned`); an extraction that saves knows every fact
there is, or that it does not (`Aware`). Deletions only help, and a save makes the others unsure.

*Ingress.* `Received`: the key of a Pulse is recorded by a turn (`Taken`), a request ticks a Pulse off when
it is taken or a task will begin it (`Minded`), and answers 2xx when all are ticked off. `OnceOnly`: a Pulse
with a key has no turn before the key is recorded and one after. `MessagesAreCovered`, by the least index of
a message, says that the Pulses of a webhook leave none of its messages out.

*Outbound.* `Sent`: calls are numbered one after the other and the Voice comes last (`InOrder`); a message
belongs to a call that was reported or is under way (`Attributed`); all messages of a call but the one that
is being polled are explained, by unconfirmed attempts and one delivery (`Explained`).

*LinkCache.* `CachesConverge` speaks of quiet states only. `Follows` says of every state what makes it so:
an instance that missed nothing and does not hold the Link has something on its way that brings it: a
call that will announce it, a notification that is still unread, or a handler that has just read the
Link; and a handler that has read something else is not the last. A notification for all Links does not
count while the Link is deleted, since `LoadAll` removes none.

*Delegation.* `Delegated`: the frames are a tree in the order they began (`TreeOf`). `CountsChains`: the
counter of a frame's Pulse passed the check of its caller, and is no less than the calls of any chain
that leads to it; a chain without its last call is one that leads to the caller (`ChainWithout`), so a
Pulse that counts one more keeps this. The pin is that of the last target of the turn (`Pinned`), which
is its author because a turn without failed targets or sub-tasks that hand off is one relay: every target
was called by the one before it, and who has ended answers with the last (`Relay`). That needs `Waits`:
while a target works, or when it has answered, its caller makes no other call.

*Streaming.* `Flowing` stands the events of a turn in one line: what the client has, the channel of frames,
the frame the pipeline holds, the channel of events, what the loop emits. The line is in order, and
unless the time is over no event is missing from it (`InLine`). Who has ended left nothing behind and said
so last (`Loops`, `Runs`); the two channels hand on from one place to the next. Without a result after
the loop, a terminal event was given up or the loop never began, and these are the ends without one.

*Casting.* `Owned`: a turn knows how it got its name, and that a Spirit of it was loaded (`Led`); what is
assigned to its version is among the tools it offers, those it found or those it comes too late for
(`Equipped`). Tools outlive the turn that registered them, so the registry is followed apart
(`Registers`): a registration that did not get its name has a rival, and a name that is taken has one
that took it. A turn may fail on a Spirit that was live when it was named: one without a live version has
lapsed.

*Generation.* `Generated`: what was passed on are the texts that arrived, in order; so it grows by one
(`OrderOfMore`) and is a beginning of the whole (`FirstAreFirst`). `Ascending` enumerates a finite set of
indices where the code filters a slice, which takes no induction to reason about. When the whole stream
came, the Done event of each provider says what its response would have said (`DoneIsBuffered`), but for
the stop reason when Gemini gave it without Content (`BareIsComplete`).

*Media.* `Shown`: each artifact that has a URL and an id has its bytes too (`Sources`), so what the Lens
reads is the file; until a drained message replaces them the entries of the Lens stand for exactly what
it could read (`Described`). The rest is a case per provider.

*Assembly.* `Sound`: between calls the builder has what was asked for (`Settled`); every part of `Build`
leaves behind what those after it rely on (`Begun`), until the next call, when there is no engine any
more; and a subscription belongs to an engine that was returned, to one that was refused for a Voice or
to the one that is being built (`Unclosed`).

*Lore.* `Current`: each chunk is of the source that its fields name, in a number that this was once cut
into (`Placed`); so two sources meet in the stored keys only if their ids do, and then neither is settled
(`Marked`). An ingestion that nothing spoilt is alone with its keys and has written as far as it counts
(`Works`), whatever the store does to replace a chunk. When it is complete it has covered every id of the
source, unless an earlier text had other ones.

*Dialect.* `Spelled`: in the loop every answer but the last is followed by the results of its calls, each
once, then by the next answer (`Talked`). So the results that a provider looks at for an answer are those
(`ResultsAre`): in as many messages, or for Gemini in the one that joins them. With ids one result is
the call's; by name or by order, `Counted` compares how many come before, which tells a call from the
others of its name (`CountTells`). A message of a request stands at its index in the loop where the code
appends to a slice, so neither model nor proof folds.

**Model-checked only.** The liveness properties, which are beyond TLAPS (fairness, ENABLED), and
`ServicesTypeOK`, which puts the types of the parts together. The violated properties are refuted by a
behaviour.

## 5. Where the code and its documents differ

Eight runs end in a counterexample; `PROJECT.json` (`findings`) quotes the lines.

1. `LeasedTurnsExclude`: a late turn releases, by key, the lock of a newer turn of its process.
2. `BusyIsCoalesced`: a message drained alone is dropped (`len(messages) > 1`).
3. `RetryIsProcessed`: the retry that an error asks for is dropped as a duplicate.
4. `RecurrenceContinues`: a second delivery marks a running ritual failed, and its success then
   schedules nothing. With one delivery at a time it holds (`RecurrenceContinuesAlone`).
5. `SeatBlocksSpirit`: the seat of an automatic handoff cannot be parsed, and the check fails open.
6. `CallsAreAnswered`: OpenAI and Bedrock get the name of the Action where the id of the call belongs.
7. `SkippedIsReported`: the summary of a skipped turn dereferences a result that is not there.
8. `RecentKept`: compression with KeepRecent N keeps N - 1 iterations, since the boundary it counts back
   from is the end of the current one (`context_compression.go:41-44`, `docs/reasoning.md:75`). N - 1 it
   does keep (`AllButOneStay`).

Met while reading, with no run of their own.

* *Sessions*: `ports/scout.go:10` says that an error of a Scout halts processing, `runScout` drops it;
  `redis/inbox.go:14-16` calls the drain atomic, it is a pipeline without MULTI; `docs/sub-modules.md:192`
  describes the seat as JSON; `docs/rest-api.md:907` wants an active Vigil for `POST .../echoes`, the
  handler does not ask; `handoff.go:13` says a console claims the automatic seat, `takeSeat` answers 409 for
  it; `engine.go:775-777` keeps `ResponseDelivered` so that a delivery is acknowledged, `HandleExecuteEvent`
  does not look at it; `docs/scaling.md:28` says 503 where the handler answers 422. "Only one Pulse
  processes at a time" (`docs/architecture.md:385`) does not hold of a session that the Scouts of a Spirit
  move a turn into (`pipeline_step_enrichment.go:116-126`): nobody locks it.
* *Turns*: a chain that alternates summons and handoffs has no bound (each child Pulse drops the other
  counter); a budget that blocks sets `ResponseDelivered`, so the message about it is never sent
  (`pipeline_step_cost.go:95-98`); a router's sub-Spirit does not run "as if selected directly"
  (`pipeline_step_orchestrator.go:14`): Scouts, Lore and HTTP tools are those of the orchestrator.
* *Tools and Spirits*: an HTTP tool is registered once per process under its name, whatever is edited later;
  a new version of a Spirit loses its HTTP tools; a Pathfinder's answer in another case is accepted and then
  not found; an edit after an older version was activated leaves no active version, although
  `docs/rest-api.md:434` has the old one preserved.
* *Content*: a quietly closed stream counts as a whole answer, and so does one of Gemini that was blocked or
  cut short when the chunk that says so has no Content (`gemini/oracle.go:212-216`);
  `AnthropicOracle.SupportsDocuments` says yes and the attachments are dropped; a drained Inbox replaces the
  transcripts of the turn's files; the chunks of a document are shared by Lores that use the same id, and a
  shorter text leaves the rest of a longer one.
* *Set-up*: `WithConfig` and a stored configuration discard the settings given before; the default provider
  of several is the one the map yields first.

## 6. What is not modelled

Timing beyond the lease of one key: `Weave` and `Ritual` take the lock as correct while its owner
lives, and `Bond` says when it is. The heartbeat renews the first lock only, and only during reasoning.
Text: prompts, confidence, summaries, embeddings, the cut of a text into chunks; each is a choice or a
value. Filters, guards and model routing of a Link change only their own turn. Authentication, listing
and analytics read. The in-memory stores, the rate limiter's window, MCP, the event bus of the
consoles, the trial runner and observability are left out, for the reasons `PROJECT.json` gives one by
one. The parts of the composite do not interact in it: what they have in common in the system (the
session lock above all) is the subject of `Weave`, and each takes the other side as its choices.

## 7. Plan

1. **Done**: the core with its proofs; `Lease`, which `Bond` implements, and `Sessions`, which `Weave`
   implements; the seventeen parts of the composite; the proofs of the core, of `Reasoning` and of
   fifteen smaller parts.
2. **Composition**: `Ritual` with the idempotency store; `Weave` with the seats of two sessions.
3. **Algorithms** as functions against reference definitions: chunking, the stall tracker, trimming of
   the conversation, the sliding-window limiter.
