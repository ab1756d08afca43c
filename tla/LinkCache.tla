------------------------------ MODULE LinkCache ------------------------------
(* The Links in the memory of several instances, the database they are      *)
(* written to, and the Redis channel that tells every instance to reload.   *)
(* One Link; NoLink is its absence.                                         *)
EXTENDS Naturals, Sequences

CONSTANTS
    Instance,   \* engine processes
    Writer,     \* administrative calls under way at once
    Config,     \* the contents a Link may have
    NoLink,
    MaxWrites   \* bound: calls begun

VARIABLES
    repo,      \* the Link in the database
    cache,     \* [Instance -> the Link in its memory]
    up,        \* [Instance -> "down", "loaded" (LoadAll ran) or "subscribed"]
    channel,   \* [Instance -> notifications its subscription has not handled]
    read,      \* [Instance -> what the handler read and did not store yet, in a tuple]
    call,      \* [Writer -> the call: its instance, its Link and what it does next]
    writes,    \* calls begun
    excused    \* instances that a lost notification, an error or a race left behind

cacheVars == <<repo, cache, up, channel, read, call, writes, excused>>

Link == Config \cup {NoLink}
Uncalled == [at |-> NoLink, link |-> NoLink, next |-> "idle"]

CacheInit ==
    /\ repo = NoLink /\ cache = [i \in Instance |-> NoLink]
    /\ up = [i \in Instance |-> "down"]
    /\ channel = [i \in Instance |-> << >>] /\ read = [i \in Instance |-> << >>]
    /\ call = [w \in Writer |-> Uncalled] /\ writes = 0 /\ excused = {}

Advance(w, next) == call' = [call EXCEPT ![w].next = next]

-----------------------------------------------------------------------------
(* An instance *)

\* Build: LoadAll into an empty cache; the subscription is a goroutine of its own.
Load(i) ==
    /\ up[i] = "down" /\ up' = [up EXCEPT ![i] = "loaded"]
    /\ cache' = [cache EXCEPT ![i] = repo]
    /\ excused' = excused \ {i}
    /\ UNCHANGED <<repo, channel, read, call, writes>>

Subscribe(i) ==
    /\ up[i] = "loaded" /\ up' = [up EXCEPT ![i] = "subscribed"]
    /\ UNCHANGED <<repo, cache, channel, read, call, writes, excused>>

\* The process dies, with the calls it was serving: what they wrote is not announced.
Die(i) ==
    /\ up[i] # "down" /\ up' = [up EXCEPT ![i] = "down"]
    /\ channel' = [channel EXCEPT ![i] = << >>] /\ read' = [read EXCEPT ![i] = << >>]
    /\ call' = [w \in Writer |-> IF call[w].at = i THEN Uncalled ELSE call[w]]
    /\ excused' = IF call' = call THEN excused ELSE Instance
    /\ UNCHANGED <<repo, cache, writes>>

\* FindByKey, or FindAll, of the notification at the head of the channel.
HandlerReads(i) ==
    /\ channel[i] # << >> /\ read[i] = << >>
    /\ read' = [read EXCEPT ![i] = <<repo>>]
    /\ UNCHANGED <<repo, cache, up, channel, call, writes, excused>>

\* Faulty: a Link that is gone stays in the cache whatever the notification was.
KeptAlways(i, kind, link) == IF link = NoLink THEN cache[i] ELSE link

\* LoadAll only stores the Links it found: one that is gone stays in the cache.
Kept(i, kind, link) == IF kind = "all" /\ link = NoLink THEN cache[i] ELSE link

HandlerStores(i) ==
    /\ read[i] # << >>
    /\ cache' = [cache EXCEPT ![i] = Kept(i, Head(channel[i]), read[i][1])]
    /\ read' = [read EXCEPT ![i] = << >>]
    /\ channel' = [channel EXCEPT ![i] = Tail(@)]
    /\ UNCHANGED <<repo, up, call, writes, excused>>

\* Any error of FindByKey counts as a Link that is gone; one of FindAll is logged.
HandlerFails(i) ==
    /\ channel[i] # << >> /\ read[i] = << >>
    /\ cache' = [cache EXCEPT ![i] = IF Head(channel[i]) = "all" THEN @ ELSE NoLink]
    /\ channel' = [channel EXCEPT ![i] = Tail(@)]
    /\ excused' = excused \cup {i}
    /\ UNCHANGED <<repo, up, read, call, writes>>

-----------------------------------------------------------------------------
(* Administrative calls *)

\* SaveLink and DeleteLink write the database first; an error, written or not, ends the call.
WriteRepo(w) ==
    /\ call[w].next = "idle" /\ writes < MaxWrites /\ writes' = writes + 1
    /\ \E i \in Instance, l \in Link :
          /\ up[i] # "down" /\ repo' = l
          /\ \/ /\ call' = [call EXCEPT ![w] = [at |-> i, link |-> l, next |-> "cache"]]
                /\ UNCHANGED excused
             \/ excused' = Instance /\ UNCHANGED call
    /\ UNCHANGED <<cache, up, channel, read>>

WriteCache(w) ==
    /\ call[w].next = "cache" /\ Advance(w, "publish one")
    /\ cache' = [cache EXCEPT ![call[w].at] = call[w].link]
    /\ UNCHANGED <<repo, up, channel, read, writes, excused>>

\* ForceReload: LoadAll at this instance, then a notification for all Links.
ReloadReads(w) ==
    /\ call[w].next = "idle" /\ writes < MaxWrites /\ writes' = writes + 1
    /\ \E i \in Instance :
          /\ up[i] # "down"
          /\ call' = [call EXCEPT ![w] = [at |-> i, link |-> repo, next |-> "store"]]
    /\ UNCHANGED <<repo, cache, up, channel, read, excused>>

\* A Link that was deleted meanwhile comes back, and no reload will remove it.
ReloadStores(w) ==
    LET i == call[w].at IN
    /\ call[w].next = "store" /\ Advance(w, "publish all")
    /\ cache' = [cache EXCEPT ![i] = Kept(i, "all", call[w].link)]
    /\ excused' = IF repo = NoLink THEN excused \cup {i} ELSE excused
    /\ UNCHANGED <<repo, up, channel, read, writes>>

Subscribed == {i \in Instance : up[i] = "subscribed"}

\* PUBLISH: in order to whoever is subscribed, the publisher too; an error is logged, and may
\* have reached nobody.
Publish(w) ==
    LET kind == IF call[w].next = "publish all" THEN "all" ELSE "one" IN
    /\ call[w].next \in {"publish one", "publish all"}
    /\ \/ /\ channel' = [i \in Instance |-> IF i \in Subscribed THEN Append(channel[i], kind)
                                                              ELSE channel[i]]
          /\ excused' = excused \cup {i \in Instance : up[i] = "loaded"}
       \/ excused' = Instance /\ UNCHANGED channel
    /\ call' = [call EXCEPT ![w] = Uncalled]
    /\ UNCHANGED <<repo, cache, up, read, writes>>

CacheNext ==
    \/ \E i \in Instance : Load(i) \/ Subscribe(i) \/ Die(i) \/ HandlerReads(i)
                           \/ HandlerStores(i) \/ HandlerFails(i)
    \/ \E w \in Writer : WriteRepo(w) \/ WriteCache(w) \/ ReloadReads(w) \/ ReloadStores(w)
                         \/ Publish(w)

CacheSpec == CacheInit /\ [][CacheNext]_cacheVars
-----------------------------------------------------------------------------
(* Properties *)

CacheTypeOK ==
    /\ repo \in Link /\ cache \in [Instance -> Link]
    /\ up \in [Instance -> {"down", "loaded", "subscribed"}]
    /\ \A i \in Instance : channel[i] \in Seq({"one", "all"}) /\ read[i] \in Seq(Link)
    /\ call \in [Writer -> [at : Instance \cup {NoLink}, link : Link,
                            next : {"idle", "cache", "store", "publish one", "publish all"}]]
    /\ writes \in 0..MaxWrites /\ excused \subseteq Instance

Quiet == (\A w \in Writer : call[w] = Uncalled) /\ (\A i \in Instance : channel[i] = << >>)

\* Once every call has ended and every notification is handled, all instances hold the Link
\* of the database, in whatever order writes, reloads and notifications of several instances
\* crossed (config_cache.go, Subscribe), but for those that missed a notification, met an
\* error, or reloaded a Link while it was deleted: nothing repairs these before a restart.
CachesConverge ==
    Quiet => \A i \in Instance \ excused : up[i] # "down" => cache[i] = repo
=============================================================================
