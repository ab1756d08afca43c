--------------------------- MODULE SpiritVersions ---------------------------
(* The version history of one Spirit: a document per version, a unique      *)
(* index on (name, version), and REST calls that read and write in several  *)
(* steps.  Only Activate and RestoreVersion run in a transaction.           *)
EXTENDS Naturals, FiniteSets

CONSTANTS
    Editor,      \* REST calls that may be under way at once
    MaxVersion,  \* bound: highest version a document gets
    MaxCalls     \* bound: calls begun

VARIABLES
    docs,     \* the documents: records of a version and the call that inserted it
    active,   \* the documents with is_active
    step,     \* [Editor -> what its call does next]
    current,  \* [Editor -> the version of the active document it found]
    calls,    \* calls begun
    lapses    \* what happened: "deleted", "failed" (a call broke off), "crossed" (see Enter)

spiritVars == <<docs, active, step, current, calls, lapses>>

Document == [version : 1..MaxVersion, by : 1..MaxCalls]
Steps == {"idle", "insert first", "deactivate", "insert next", "delete"}

VersionsInit ==
    /\ docs = {} /\ active = {} /\ calls = 0 /\ lapses = {}
    /\ step = [e \in Editor |-> "idle"] /\ current = [e \in Editor |-> 0]

Begin(e) == step[e] = "idle" /\ calls < MaxCalls /\ calls' = calls + 1
Goto(e, to) == step' = [step EXCEPT ![e] = to]

\* A document becomes active while another call stands between the halves of its Update.
Enter(e) ==
    lapses' = lapses \cup (IF \E f \in Editor \ {e} : step[f] = "insert next"
                           THEN {"crossed"} ELSE {})

-----------------------------------------------------------------------------

\* Create looks for an active Spirit of the name: a deactivated one is not found.
CreateFind(e) ==
    /\ Begin(e)
    /\ Goto(e, IF active = {} THEN "insert first" ELSE "idle")
    /\ UNCHANGED <<docs, active, current, lapses>>

\* Faulty: there is no unique index (its creation only logs an error).
InsertUnindexed(e, v) ==
    /\ docs' = docs \cup {[version |-> v, by |-> calls]}
    /\ active' = active \cup {[version |-> v, by |-> calls]}
    /\ Enter(e)

\* InsertOne of an active document; the unique index refuses a version that is there.
Insert(e, v) ==
    IF \E d \in docs : d.version = v
    THEN UNCHANGED <<docs, active, lapses>>
    ELSE /\ docs' = docs \cup {[version |-> v, by |-> calls]}
         /\ active' = active \cup {[version |-> v, by |-> calls]}
         /\ Enter(e)

CreateInsert(e) ==
    /\ step[e] = "insert first" /\ Goto(e, "idle")
    /\ Insert(e, 1)
    /\ UNCHANGED <<current, calls>>

\* Update and Deactivate begin with FindActiveByName.
FindActive(e) ==
    /\ Begin(e)
    /\ \/ active = {} /\ UNCHANGED <<step, current>>
       \/ \E d \in active :
             /\ current' = [current EXCEPT ![e] = d.version]
             /\ \/ d.version < MaxVersion /\ Goto(e, "deactivate")
                \/ Goto(e, "delete")
    /\ UNCHANGED <<docs, active, lapses>>

\* UpdateOne of an active document of the name, whichever it is by now, or of none.
UpdateDeactivate(e) ==
    /\ step[e] = "deactivate" /\ Goto(e, "insert next")
    /\ \/ active = {} /\ UNCHANGED active
       \/ \E d \in active : active' = active \ {d}
    /\ UNCHANGED <<docs, current, calls, lapses>>

\* The version after the one found, whatever versions there are.
UpdateInsert(e) ==
    /\ step[e] = "insert next" /\ Goto(e, "idle")
    /\ Insert(e, current[e] + 1)
    /\ UNCHANGED <<current, calls>>

\* Deactivate of the document found, by id.
DeleteApply(e) ==
    /\ step[e] = "delete" /\ Goto(e, "idle")
    /\ active' = {d \in active : d.version # current[e]}
    /\ lapses' = lapses \cup {"deleted"}
    /\ UNCHANGED <<docs, current, calls>>

\* Activate and RestoreVersion: one transaction makes one version the active one.
Activate(e) ==
    /\ Begin(e)
    /\ \E d \in docs : active' = {d}
    /\ Enter(e)
    /\ UNCHANGED <<docs, step, current>>

\* A database error, or a crash, ends a call before its next write.
BreakOff(e) ==
    /\ step[e] # "idle" /\ Goto(e, "idle")
    /\ lapses' = lapses \cup {"failed"}
    /\ UNCHANGED <<docs, active, current, calls>>

VersionsNext ==
    \E e \in Editor :
       \/ CreateFind(e) \/ CreateInsert(e) \/ FindActive(e) \/ UpdateDeactivate(e)
       \/ UpdateInsert(e) \/ DeleteApply(e) \/ Activate(e) \/ BreakOff(e)

VersionsSpec == VersionsInit /\ [][VersionsNext]_spiritVars
-----------------------------------------------------------------------------
(* Properties *)

VersionsTypeOK ==
    /\ docs \subseteq Document /\ active \subseteq docs
    /\ step \in [Editor -> Steps] /\ current \in [Editor -> 0..MaxVersion]
    /\ calls \in 0..MaxCalls
    /\ lapses \subseteq {"deleted", "failed", "crossed"}

\* Two versions are active at once only if one became active between the two halves of an
\* Update of another call: a turn then gets either (SpiritRepository.Update is no transaction).
OneActiveVersion == "crossed" \notin lapses => Cardinality(active) <= 1
=============================================================================
