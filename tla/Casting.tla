------------------------------- MODULE Casting -------------------------------
(* Who answers a Pulse, and with what: Spirit selection by pin, Link and    *)
(* Pathfinder, loading, its HTTP tools put into the registry of the process, *)
(* its Scouts, and the logic router of an orchestrator, while operators edit *)
(* Spirits and tools.  What a Pathfinder reads of the message is left out.  *)
EXTENDS Naturals, Sequences, SequencesExt

CONSTANTS
    Conversation,  \* their turns run at once, in one process
    Name,          \* names of Spirits
    Cased,         \* the same in another case, as a model may write them
    SameName,      \* [Cased -> Name]
    Nobody,        \* the empty name
    Links,         \* [allowed: a sequence, default, pathfinder: a name, registered: Pathfinders]
    DefaultPathfinder, \* the name of the one that asks a model
    SubNames,      \* [Name -> what its logic router may return], {} if it has none
    Tool,          \* ids of HTTP tools
    ToolName,      \* names of them
    OwnActions,    \* Actions of the host
    MaxVersions,   \* bound: versions of a Spirit
    MaxChanges,    \* bound: changes of Spirits and tools, and restarts
    MaxCasts       \* bound: turns begun

ASSUME SubNamesAssumption == SubNames \in [Name -> SUBSET Name]
ASSUME LinksAssumption == \A l \in Links : l.allowed \in Seq(ToSet(l.allowed))

VARIABLES
    live,      \* [Name -> version in use], 0 for none; every version has an id of its own
    newest,    \* [Name -> last version]
    tools,     \* [Tool -> [name, of, revision]]: its name, the ids in SpiritIDs; NoTool
    registry,  \* [name -> the tool and revision behind it]
    link,      \* of their event type
    pinned,    \* [Conversation -> Spirit of the handoff store]
    cast,      \* [Conversation -> its turn]
    lapsed,    \* names without a version in use at some time
    tried,     \* registrations since the start of the process: [name, id, revision]
    changes,   \* changes of Spirits and tools, and restarts
    casts      \* turns begun

castingVars == <<live, newest, tools, registry, link, pinned, cast, lapsed, tried, changes, casts>>

NoTool == [name |-> "", of |-> {}, revision |-> 0]
NoAction == [id |-> "none", revision |-> 0]
HostAction == [id |-> "host", revision |-> 0]
NoCast == [step |-> "idle", name |-> Nobody, version |-> 0, by |-> "link", found |-> {},
           offered |-> {}, scouts |-> {}, late |-> {}, excused |-> FALSE]

CastingInit ==
    /\ live = [n \in Name |-> 1] /\ newest = live /\ tools = [i \in Tool |-> NoTool]
    /\ registry = [n \in ToolName |-> IF n \in OwnActions THEN HostAction ELSE NoAction]
    /\ link \in Links
    /\ pinned = [c \in Conversation |-> Nobody] /\ cast = [c \in Conversation |-> NoCast]
    /\ lapsed = {} /\ tried = {} /\ changes = 0 /\ casts = 0

-----------------------------------------------------------------------------
(* Operators *)

Change == changes < MaxChanges /\ changes' = changes + 1 /\ UNCHANGED casts

\* A new version is a new document.
EditSpirit(n) ==
    /\ Change /\ live[n] # 0 /\ newest[n] < MaxVersions
    /\ newest' = [newest EXCEPT ![n] = @ + 1] /\ live' = [live EXCEPT ![n] = newest'[n]]
    /\ UNCHANGED <<tools, registry, link, pinned, cast, lapsed, tried>>

RetireSpirit(n) ==
    /\ Change /\ live[n] # 0 /\ live' = [live EXCEPT ![n] = 0] /\ lapsed' = lapsed \cup {n}
    /\ UNCHANGED <<newest, tools, registry, link, pinned, cast, tried>>

\* Activate, also of an older one.
ActivateSpirit(n) ==
    /\ Change /\ \E v \in 1..newest[n] : v # live[n] /\ live' = [live EXCEPT ![n] = v]
    /\ UNCHANGED <<newest, tools, registry, link, pinned, cast, lapsed, tried>>

\* POST or PUT: for the version in use of a Spirit.
SaveTool(i) ==
    /\ Change
    /\ \E n \in ToolName, s \in {x \in Name : live[x] # 0} :
          tools' = [tools EXCEPT ![i] = [name |-> n, of |-> {<<s, live[s]>>},
                                         revision |-> @.revision + 1]]
    /\ cast' = [c \in Conversation |->
                    IF cast[c].step \in {"register", "scouts", "reason"}
                    THEN [cast[c] EXCEPT !.late = @ \cup {i}] ELSE cast[c]]
    /\ UNCHANGED <<live, newest, registry, link, pinned, lapsed, tried>>

DeleteTool(i) ==
    /\ Change /\ tools[i].of # {} /\ tools' = [tools EXCEPT ![i].of = {}]
    /\ UNCHANGED <<live, newest, registry, link, pinned, cast, lapsed, tried>>

\* The registry is in memory; the turns die.
Restart ==
    /\ Change /\ tried # {} /\ tried' = {} /\ cast' = [c \in Conversation |-> NoCast]
    /\ registry' = [n \in ToolName |-> IF n \in OwnActions THEN HostAction ELSE NoAction]
    /\ UNCHANGED <<live, newest, tools, link, pinned, lapsed>>

-----------------------------------------------------------------------------
(* A turn *)

Goes(c, r) == cast' = [cast EXCEPT ![c] = r]

\* Faulty: whatever the model says.
IsValidSpiritAlways(answer, allowed) == TRUE

\* EqualFold
IsValidSpirit(answer, allowed) ==
    \E i \in DOMAIN allowed :
       answer = allowed[i] \/ (answer \in Cased /\ SameName[answer] = allowed[i])

\* The one that the Link names, or else the default one, if it is registered.
Pathfinder(l) == IF l.pathfinder \in l.registered THEN l.pathfinder ELSE DefaultPathfinder

\* What SelectSpirit may return; Nobody for an error, a timeout or an invalid answer.
Picks(l) ==
    {Nobody} \cup
    IF Pathfinder(l) = DefaultPathfinder THEN {a \in Name \cup Cased : IsValidSpirit(a, l.allowed)}
    ELSE ToSet(l.allowed)

Fallback(l) == IF l.default # Nobody THEN l.default ELSE Head(l.allowed)

Selected(l) ==
    CASE Len(l.allowed) = 1 -> {Head(l.allowed)}
      [] l.allowed = <<>> -> {IF l.default # Nobody THEN l.default ELSE "DEFAULT"}
      [] Len(l.allowed) > 1 /\ Pathfinder(l) \notin l.registered -> {Fallback(l)}
      [] OTHER -> {IF a = Nobody THEN Fallback(l) ELSE a : a \in Picks(l)}

SelectSpirit(c) ==
    /\ cast[c].step = "idle" /\ casts < MaxCasts /\ casts' = casts + 1
    /\ \/ /\ pinned[c] # Nobody
          /\ Goes(c, [NoCast EXCEPT !.step = "load", !.name = pinned[c], !.by = "pin"])
       \/ \* no pin, or a lookup that failed
          \E n \in Selected(link) : Goes(c, [NoCast EXCEPT !.step = "load", !.name = n])
    /\ UNCHANGED <<live, newest, tools, registry, link, pinned, lapsed, tried, changes>>

InUse(n) == IF n \in Name THEN live[n] ELSE 0

\* FindActiveByName: any error of the repository is a Spirit not found.
LoadSpirit(c) ==
    LET v == InUse(cast[c].name) IN
    /\ cast[c].step = "load"
    /\ \/ Goes(c, [cast[c] EXCEPT !.version = v, !.step = IF v = 0 THEN "failed" ELSE "find"])
       \/ Goes(c, [cast[c] EXCEPT !.step = "failed", !.excused = TRUE])
    /\ UNCHANGED <<live, newest, tools, registry, link, pinned, lapsed, tried, changes, casts>>

Assigned(r) == {i \in Tool : <<r.name, r.version>> \in tools[i].of}
Entry(i) == [name |-> tools[i].name, id |-> i, revision |-> tools[i].revision]

\* FindBySpiritID goes by the id of the version; an error is logged.
FindTools(c) ==
    LET r == cast[c] IN
    /\ r.step = "find"
    /\ \/ Goes(c, [r EXCEPT !.step = "register", !.found = {Entry(i) : i \in Assigned(r)}])
       \/ Goes(c, [r EXCEPT !.step = "scouts", !.excused = TRUE])
    /\ UNCHANGED <<live, newest, tools, registry, link, pinned, lapsed, tried, changes, casts>>

\* Register keeps what is there; the Spirit may use the name in either case.
RegisterTool(c) ==
    /\ cast[c].step = "register"
    /\ \E e \in cast[c].found :
          /\ Goes(c, [cast[c] EXCEPT !.found = @ \ {e}, !.offered = @ \cup {e}])
          /\ registry' = IF registry[e.name] = NoAction
                         THEN [registry EXCEPT ![e.name] = [id |-> e.id, revision |-> e.revision]]
                         ELSE registry
          /\ tried' = tried \cup {e}
    /\ UNCHANGED <<live, newest, tools, link, pinned, lapsed, changes, casts>>

\* SpiritScout: Scouts, Lore and Imprints of the Spirit loaded so far; then OrchestratorRouting:
\* the sub-Spirit takes the turn over with its own allowed Actions; without a match, or with a
\* name that is not in use, the orchestrator goes on.
EnrichAndRoute(c) ==
    LET r == cast[c] IN
    /\ r.step = "scouts" \/ (r.step = "register" /\ r.found = {})
    /\ \/ Goes(c, [r EXCEPT !.step = "reason", !.scouts = {r.name}])
       \/ \E n \in SubNames[r.name] :
             /\ live[n] # 0
             /\ Goes(c, [r EXCEPT !.step = "reason", !.name = n, !.version = live[n], !.by = "router",
                                  !.offered = {}, !.scouts = {r.name}])
    /\ UNCHANGED <<live, newest, tools, registry, link, pinned, lapsed, tried, changes, casts>>

\* A handoff pins another Spirit (Delegation); ClearActiveSpirit takes the pin away.
FinishTurn(c) ==
    /\ cast[c].step \in {"reason", "failed"} /\ Goes(c, NoCast)
    /\ \/ UNCHANGED pinned
       \/ /\ cast[c].step = "reason"
          /\ \E n \in {Nobody} \cup {x \in Name : live[x] # 0} : pinned' = [pinned EXCEPT ![c] = n]
    /\ UNCHANGED <<live, newest, tools, registry, link, lapsed, tried, changes, casts>>

CastingNext ==
    \/ \E n \in Name : EditSpirit(n) \/ RetireSpirit(n) \/ ActivateSpirit(n)
    \/ \E i \in Tool : SaveTool(i) \/ DeleteTool(i)
    \/ Restart
    \/ \E c \in Conversation :
          SelectSpirit(c) \/ LoadSpirit(c) \/ FindTools(c) \/ RegisterTool(c)
          \/ EnrichAndRoute(c) \/ FinishTurn(c)

CastingSpec == CastingInit /\ [][CastingNext]_castingVars

-----------------------------------------------------------------------------
(* Properties *)

Named == ToSet(link.allowed) \cup {link.default}

\* A name of the Link, in whatever case the model wrote it, or the one for a Link without any.
OfLink(name) ==
    \/ name \in Named \/ (name \in Cased /\ SameName[name] \in Named)
    \/ name = "DEFAULT" /\ link.allowed = <<>>

CastingTypeOK ==
    /\ live \in [Name -> 0..MaxVersions] /\ newest \in [Name -> 1..MaxVersions]
    /\ \A i \in Tool :
          tools[i] # NoTool =>
             tools[i].name \in ToolName /\ tools[i].of \subseteq Name \X (1..MaxVersions)
    /\ \A n \in ToolName : registry[n].id \in Tool \cup {"none", "host"}
    /\ link \in Links /\ pinned \in [Conversation -> Name \cup {Nobody}]
    /\ \A c \in Conversation :
          /\ cast[c].step \in {"idle", "load", "failed", "find", "register", "scouts", "reason"}
          /\ cast[c].name \in Name \cup Cased \cup Named \cup {Nobody, "DEFAULT"}
          /\ cast[c].version \in 0..MaxVersions /\ cast[c].late \subseteq Tool
    /\ lapsed \subseteq Name /\ changes \in 0..MaxChanges /\ casts \in 0..MaxCasts

\* Another tool of the name, another revision, or an Action of the host may have come first.
Shadowed(e) == e.name \in OwnActions \/ \E f \in tried \ {e} : f.name = e.name

\* The Spirit that reasons is one of the Link, the one a handoff pinned, or one that the router
\* of such a Spirit named; with it are the knowledge and the HTTP tools that were assigned to it
\* in this version, and the registry has these tools under their names.  Except that a sub-Spirit
\* gets neither, that the tools of an older version are lost, and that the first tool of a name
\* stays behind it until the process ends (HTTPToolLoadStep, actionRegistry.Register).  A turn
\* without a Spirit named one that was retired or never made, or in another case, or the Link has none.
CastIsOwn ==
    \A c \in Conversation :
       LET r == cast[c] IN
       /\ r.step = "reason" =>
             /\ \/ r.by = "pin" \/ (r.by = "link" /\ OfLink(r.name))
                \/ r.by = "router" /\ \E n \in r.scouts : r.name \in SubNames[n]
             /\ r.by # "router" => r.scouts = {r.name}
             /\ r.by = "router" => r.offered = {}
             /\ \A e \in r.offered :
                   Shadowed(e) \/ registry[e.name] = [id |-> e.id, revision |-> e.revision]
             /\ r.by # "router" /\ ~r.excused =>
                   Assigned(r) \subseteq r.late \cup {e.id : e \in r.offered}
       /\ r.step = "failed" =>
             \/ r.excused \/ r.name \in lapsed \cup Cased \cup (Named \ Name)
             \/ r.name = "DEFAULT" /\ link.allowed = <<>>
=============================================================================
