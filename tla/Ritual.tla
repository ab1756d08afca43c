-------------------------------- MODULE Ritual --------------------------------
(***************************************************************************)
(* The life of the Rituals of one session (ritual_service.go): records in  *)
(* Mongo, tasks in Cloud Tasks, and the callers that change them: REST     *)
(* clients that schedule and cancel, and deliveries of                     *)
(* POST /internal/execute-event, which run the pipeline under the session  *)
(* lock, mark the record and schedule the next occurrence.                 *)
(* Every repository call is a step: no read-modify-write is atomic.        *)
(***************************************************************************)
EXTENDS Naturals, FiniteSets

CONSTANTS
    Delivery,   \* requests Cloud Tasks may have open at once
    Client,     \* callers of Schedule and Cancel
    MaxRituals, \* bound on the records of a behaviour
    MaxRuns,    \* RecurrenceConfig.MaxRuns; 0 is no limit
    LastRun,    \* the last run index whose cron tick is not after EndsAt
    MaxFaults,  \* bound on errors, crashes and retriable failures in a behaviour
    None        \* no id, no holder

ASSUME CountsAssumption  == {MaxRituals, MaxRuns, LastRun, MaxFaults} \subseteq Nat
ASSUME WorkersAssumption == Delivery \cap Client = {}
ASSUME NoneAssumption    == None \notin 1..MaxRituals \cup Delivery

\* Random in the code: a new ritual takes the first id that is not in use.
Id == 1..MaxRituals

VARIABLES
    status,     \* status[i]: Ritual.Status, "absent" before Save
    run,        \* run[i]: Recurrence.RunCount
    hasKeeper,  \* ids whose record carries its KeeperTaskID
    task,       \* task[i]: the Cloud Tasks task
    lock,       \* the session lock
    pc,         \* where each worker is
    of,         \* of[w]: the ritual the worker handles
    new,        \* new[w]: the ritual it is scheduling
    readKeeper, \* clients whose FindByID returned a record with its KeeperTaskID
    outcome,    \* outcome[d]: how the pipeline of the delivery ended
    successes,  \* history: completed turns of each ritual
    faulted,    \* history: rituals one of whose calls failed or died
    abandoned,  \* history: those of them whose last write, or whose task, nobody will try again
    faults      \* what MaxFaults leaves

records == <<status, run, hasKeeper, task>>
workers == <<new, readKeeper, outcome>>
history == <<successes, faulted, abandoned>>
vars == <<records, lock, pc, of, workers, history, faults>>

Worker == Delivery \cup Client
Status == {"absent", "pending", "running", "executed", "cancelled", "failed"}
Terminal == {"executed", "cancelled", "failed"}

TypeOK ==
    /\ status \in [Id -> Status]
    /\ run \in [Id -> Nat]
    /\ hasKeeper \subseteq Id
    /\ task \in [Id -> {"none", "queued", "gone"}]
    /\ lock \in Delivery \cup {None}
    /\ pc \in [Worker -> {"idle", "lock", "mark", "mark_write", "turn", "exec", "exec_write",
                          "save", "keeper", "rollback", "patch", "release", "fail",
                          "fail_write", "ack", "cancel_keeper", "cancel_write"}]
    /\ of \in [Worker -> Id \cup {None}]
    /\ new \in [Worker -> Id \cup {None}]
    /\ readKeeper \subseteq Client
    /\ outcome \in [Delivery -> {"success", "rejected", "retriable"}]
    /\ successes \in [Id -> Nat]
    /\ faulted \subseteq Id
    /\ abandoned \subseteq Id
    /\ faults \in 0..MaxFaults

Init ==
    /\ status = [i \in Id |-> "absent"]
    /\ run = [i \in Id |-> 0]
    /\ hasKeeper = {}
    /\ task = [i \in Id |-> "none"]
    /\ lock = None
    /\ pc = [w \in Worker |-> "idle"]
    /\ of = [w \in Worker |-> None]
    /\ new = [w \in Worker |-> None]
    /\ readKeeper = {}
    /\ outcome = [d \in Delivery |-> "success"]
    /\ successes = [i \in Id |-> 0]
    /\ faulted = {}
    /\ abandoned = {}
    /\ faults = MaxFaults

\* The worker goes on with its ritual, or returns and forgets it.
GoTo(w, step) == /\ pc' = [pc EXCEPT ![w] = step]
                 /\ of' = IF step = "idle" THEN [of EXCEPT ![w] = None] ELSE of
SetStatus(i, s) == status' = [status EXCEPT ![i] = s]
\* An update whose reply is an error was applied or not.
Unsure(i, s) == UNCHANGED status \/ SetStatus(i, s)
NoFault == UNCHANGED <<faulted, abandoned, faults>>
Fail(i) == faults > 0 /\ faults' = faults - 1 /\ faulted' = faulted \cup ({i} \ {None})
\* The code goes on after the error, or the call is made again.
Spend(i) == Fail(i) /\ UNCHANGED abandoned
\* Nothing repairs it: the record, or what became of its task, stays as the error left it.
Abandon(i) == Fail(i) /\ abandoned' = abandoned \cup {i}
-----------------------------------------------------------------------------
(* Schedule, called by a client for a first occurrence and by MarkExecuted for the next *)

Unused == {i \in Id : status[i] = "absent" /\ \A w \in Worker : new[w] # i}
Fresh(i) == i \in Unused /\ \A j \in Unused : i <= j

BeginSchedule(c) ==
    /\ pc[c] = "idle" /\ Unused = Id
    /\ \E i \in Id : Fresh(i) /\ new' = [new EXCEPT ![c] = i]
    /\ GoTo(c, "save")
    /\ NoFault /\ UNCHANGED <<records, lock, readKeeper, outcome, successes>>

\* Where Schedule returns to: the handler of the client, or the end of the pipeline.
ScheduleReturns(w) ==
    /\ GoTo(w, IF w \in Client THEN "idle" ELSE "release")
    /\ new' = [new EXCEPT ![w] = None]

RunOfNew(w) == IF w \in Client THEN 0 ELSE run[of[w]] + 1

Save(w) ==
    /\ pc[w] = "save"
    /\ SetStatus(new[w], "pending")
    /\ run' = [run EXCEPT ![new[w]] = RunOfNew(w)]
    /\ GoTo(w, "keeper")
    /\ NoFault /\ UNCHANGED <<hasKeeper, task, lock, workers, successes>>

SaveError(w) ==
    /\ pc[w] = "save" /\ Abandon(new[w])
    /\ \/ UNCHANGED <<status, run>>
       \/ /\ SetStatus(new[w], "pending")
          /\ run' = [run EXCEPT ![new[w]] = RunOfNew(w)]
    /\ ScheduleReturns(w)
    /\ UNCHANGED <<hasKeeper, task, lock, readKeeper, outcome, successes>>

CreateTask(w) ==
    /\ pc[w] = "keeper"
    /\ task' = [task EXCEPT ![new[w]] = "queued"]
    /\ GoTo(w, "patch")
    /\ NoFault /\ UNCHANGED <<status, run, hasKeeper, lock, workers, successes>>

\* Faulty: the error is returned with the record as it is.
CreateTaskErrorUnrolled(w) ==
    /\ pc[w] = "keeper" /\ faults > 0 /\ faults' = faults - 1
    /\ task' \in {task, [task EXCEPT ![new[w]] = "queued"]}
    /\ ScheduleReturns(w)
    /\ UNCHANGED <<status, run, hasKeeper, lock, readKeeper, outcome, history>>

\* The task was created or not; the record is cancelled in both cases.
CreateTaskError(w) ==
    /\ pc[w] = "keeper" /\ faults > 0 /\ faults' = faults - 1
    /\ task' \in {task, [task EXCEPT ![new[w]] = "queued"]}
    /\ GoTo(w, "rollback")
    /\ UNCHANGED <<status, run, hasKeeper, lock, workers, history>>

Rollback(w) ==
    /\ pc[w] = "rollback"
    /\ \/ SetStatus(new[w], "cancelled") /\ NoFault
       \/ Unsure(new[w], "cancelled") /\ Abandon(new[w])
    /\ ScheduleReturns(w)
    /\ UNCHANGED <<run, hasKeeper, task, lock, readKeeper, outcome, successes>>

\* UpdateKeeperTaskID, best effort.
Patch(w) ==
    /\ pc[w] = "patch"
    /\ \/ hasKeeper' = hasKeeper \cup {new[w]} /\ NoFault
       \/ UNCHANGED hasKeeper /\ Spend(new[w])
    /\ ScheduleReturns(w)
    /\ UNCHANGED <<status, run, task, lock, readKeeper, outcome, successes>>

-----------------------------------------------------------------------------
(* Cancel: read, delete the task, write; nothing is done if the record is not pending *)

BeginCancel(c) ==
    /\ pc[c] = "idle"
    /\ \E i \in Id : /\ status[i] = "pending"
                     /\ of' = [of EXCEPT ![c] = i]
                     /\ readKeeper' = IF i \in hasKeeper THEN readKeeper \cup {c} ELSE readKeeper
    /\ pc' = [pc EXCEPT ![c] = "cancel_keeper"]
    /\ NoFault /\ UNCHANGED <<records, lock, new, outcome, successes>>

\* DeleteTask by the KeeperTaskID that was read: with none it is an error, and ignored.
DeleteTask(c) ==
    /\ pc[c] = "cancel_keeper"
    /\ LET deleted == IF c \in readKeeper THEN [task EXCEPT ![of[c]] = "gone"] ELSE task
       IN  \/ task' = deleted /\ NoFault
           \/ task' \in {task, deleted} /\ Spend(of[c])
    /\ readKeeper' = readKeeper \ {c}
    /\ GoTo(c, "cancel_write")
    /\ UNCHANGED <<status, run, hasKeeper, lock, new, outcome, successes>>

WriteCancelled(c) ==
    /\ pc[c] = "cancel_write"
    /\ \/ SetStatus(of[c], "cancelled") /\ NoFault
       \/ Unsure(of[c], "cancelled") /\ Abandon(of[c])
    /\ GoTo(c, "idle")
    /\ UNCHANGED <<run, hasKeeper, task, lock, workers, successes>>

-----------------------------------------------------------------------------
(* HandleExecuteEvent.  A task stays queued until a delivery of it answers 200, so that *)
(* it may be delivered again, also while a delivery is in progress.                      *)

Fire(d) ==
    /\ pc[d] = "idle"
    /\ \E i \in Id : task[i] = "queued" /\ of' = [of EXCEPT ![d] = i]
    /\ pc' = [pc EXCEPT ![d] = "lock"]
    /\ NoFault /\ UNCHANGED <<records, lock, workers, successes>>

\* One try: busy while another delivery, or a turn of the user, owns the session.
AcquireLock(d) ==
    /\ pc[d] = "lock"
    /\ \/ lock = None /\ lock' = d /\ GoTo(d, "mark")
       \/ UNCHANGED lock /\ GoTo(d, "fail")
    /\ NoFault /\ UNCHANGED <<records, workers, successes>>

\* LOCK_ACQUISITION_FAILED is retriable: the handler answers 500.
AcquireError(d) ==
    /\ pc[d] = "lock" /\ Spend(of[d])
    /\ GoTo(d, "idle")
    /\ UNCHANGED <<records, lock, workers, successes>>

\* The pipeline ends under the lock.
Return(d, o) == GoTo(d, "release") /\ outcome' = [outcome EXCEPT ![d] = o]

\* Faulty: a terminal record is marked running again.
MarkRunningUnchecked(d) ==
    /\ pc[d] = "mark"
    /\ GoTo(d, "mark_write")
    /\ NoFault /\ UNCHANGED <<records, lock, workers, successes>>

\* VigilCheck may refuse the turn; then MarkRunning's FindByID, where a terminal record
\* is SCHEDULED_TASK_SKIP.
MarkRunning(d) ==
    /\ pc[d] = "mark"
    /\ \/ Return(d, "rejected")
       \/ status[of[d]] \notin Terminal /\ GoTo(d, "mark_write") /\ UNCHANGED outcome
    /\ NoFault /\ UNCHANGED <<records, lock, new, readKeeper, successes>>

UpdateRunning(d) ==
    /\ pc[d] = "mark_write"
    /\ SetStatus(of[d], "running")
    /\ GoTo(d, "turn")
    /\ NoFault /\ UNCHANGED <<run, hasKeeper, task, lock, workers, successes>>

\* "proceeding anyway": the record was not read, or not written.
MarkError(d) ==
    /\ pc[d] \in {"mark", "mark_write"} /\ Spend(of[d])
    /\ IF pc[d] = "mark" THEN UNCHANGED status ELSE Unsure(of[d], "running")
    /\ GoTo(d, "turn")
    /\ UNCHANGED <<run, hasKeeper, task, lock, workers, successes>>

\* The rest of the pipeline: MarkExecuted comes last.
Turn(d) ==
    /\ pc[d] = "turn"
    /\ \/ /\ successes' = [successes EXCEPT ![of[d]] = @ + 1]
          /\ GoTo(d, "exec")
          /\ UNCHANGED outcome
       \/ Return(d, "rejected") /\ UNCHANGED successes
    /\ NoFault /\ UNCHANGED <<records, lock, new, readKeeper>>

TurnError(d) ==
    /\ pc[d] = "turn"
    /\ faults > 0 /\ faults' = faults - 1
    /\ Return(d, "retriable")
    /\ UNCHANGED <<records, lock, new, readKeeper, history>>

\* Faulty: the status is not looked at.
MarkExecutedUnchecked(d) ==
    /\ pc[d] = "exec"
    /\ GoTo(d, "exec_write")
    /\ NoFault /\ UNCHANGED <<records, lock, workers, successes>>

\* MarkExecuted: only a record read as pending or running is written.
MarkExecuted(d) ==
    /\ pc[d] = "exec"
    /\ GoTo(d, IF status[of[d]] \in {"pending", "running"} THEN "exec_write" ELSE "release")
    /\ NoFault /\ UNCHANGED <<records, lock, workers, successes>>

\* scheduleNextOccurrence stops at MaxRuns and at EndsAt.
Recurs(i) == /\ MaxRuns > 0 => run[i] + 1 < MaxRuns
             /\ run[i] + 1 <= LastRun

UpdateExecuted(d) ==
    /\ pc[d] = "exec_write"
    /\ SetStatus(of[d], "executed")
    /\ IF Recurs(of[d])
       THEN /\ \E i \in Id : Fresh(i) /\ new' = [new EXCEPT ![d] = i]
            /\ GoTo(d, "save")
       ELSE GoTo(d, "release") /\ UNCHANGED new
    /\ NoFault /\ UNCHANGED <<run, hasKeeper, task, lock, readKeeper, outcome,
                              successes>>

\* Logged; no next occurrence.
ExecutedError(d) ==
    /\ pc[d] \in {"exec", "exec_write"} /\ Abandon(of[d])
    /\ IF pc[d] = "exec" THEN UNCHANGED status ELSE Unsure(of[d], "executed")
    /\ GoTo(d, "release")
    /\ UNCHANGED <<run, hasKeeper, task, lock, workers, successes>>

\* Faulty: a turn the pipeline rejected is acknowledged and not marked.
ReleaseUnmarked(d) ==
    /\ pc[d] = "release"
    /\ lock' = None
    /\ GoTo(d, IF outcome[d] = "retriable" THEN "idle" ELSE "ack")
    /\ outcome' = [outcome EXCEPT ![d] = "success"]
    /\ NoFault /\ UNCHANGED <<records, new, readKeeper, successes>>

\* LockRelease, then the handler: 200, MarkFailed and 200, or 500.
Release(d) ==
    /\ pc[d] = "release"
    /\ lock' = None
    /\ GoTo(d, CASE outcome[d] = "success"   -> "ack"
                 [] outcome[d] = "rejected"  -> "fail"
                 [] outcome[d] = "retriable" -> "idle")
    /\ outcome' = [outcome EXCEPT ![d] = "success"]
    /\ NoFault /\ UNCHANGED <<records, new, readKeeper, successes>>

\* MarkFailed: any status but failed is overwritten.
MarkFailed(d) ==
    /\ pc[d] = "fail"
    /\ GoTo(d, IF status[of[d]] = "failed" THEN "ack" ELSE "fail_write")
    /\ NoFault /\ UNCHANGED <<records, lock, workers, successes>>

\* Faulty: the reason is written where the status belongs.
UpdateFailedSwapped(d) ==
    /\ pc[d] = "fail_write"
    /\ SetStatus(of[d], "reason")
    /\ GoTo(d, "ack")
    /\ NoFault /\ UNCHANGED <<run, hasKeeper, task, lock, workers, successes>>

UpdateFailed(d) ==
    /\ pc[d] = "fail_write"
    /\ SetStatus(of[d], "failed")
    /\ GoTo(d, "ack")
    /\ NoFault /\ UNCHANGED <<run, hasKeeper, task, lock, workers, successes>>

FailedError(d) ==
    /\ pc[d] \in {"fail", "fail_write"} /\ Abandon(of[d])
    /\ IF pc[d] = "fail" THEN UNCHANGED status ELSE Unsure(of[d], "failed")
    /\ GoTo(d, "ack")
    /\ UNCHANGED <<run, hasKeeper, task, lock, workers, successes>>

Ack(d) ==
    /\ pc[d] = "ack"
    /\ task' = [task EXCEPT ![of[d]] = "gone"]
    /\ GoTo(d, "idle")
    /\ NoFault /\ UNCHANGED <<status, run, hasKeeper, lock, workers, successes>>

\* The process of the worker dies with what it knew; the lock comes free by its ttl.  A
\* delivery is repeated, what a client began is not, nor is the schedule of a successor.
Crash(w) ==
    /\ pc[w] # "idle" /\ faults > 0 /\ faults' = faults - 1
    /\ faulted' = faulted \cup ({of[w], new[w]} \ {None})
    /\ abandoned' = abandoned \cup (IF pc[w] \in {"keeper", "rollback"} THEN {new[w]}
                                     ELSE IF pc[w] = "cancel_write" THEN {of[w]} ELSE {})
    /\ lock' = IF lock = w THEN None ELSE lock
    /\ new' = [new EXCEPT ![w] = None]
    /\ readKeeper' = readKeeper \ {w}
    /\ outcome' = [d \in Delivery |-> IF d = w THEN "success" ELSE outcome[d]]
    /\ GoTo(w, "idle")
    /\ UNCHANGED <<records, successes>>

-----------------------------------------------------------------------------
Schedule(w) == Save(w) \/ SaveError(w) \/ CreateTask(w) \/ CreateTaskError(w)
                 \/ Rollback(w) \/ Patch(w)
Cancel(c)   == DeleteTask(c) \/ WriteCancelled(c)
Execute(d)  == AcquireLock(d) \/ AcquireError(d) \/ MarkRunning(d) \/ UpdateRunning(d)
                 \/ MarkError(d) \/ Turn(d) \/ TurnError(d) \/ MarkExecuted(d)
                 \/ UpdateExecuted(d) \/ ExecutedError(d) \/ Release(d) \/ MarkFailed(d)
                 \/ UpdateFailed(d) \/ FailedError(d) \/ Ack(d)

Next ==
    \/ \E c \in Client : BeginSchedule(c) \/ BeginCancel(c) \/ Cancel(c)
    \/ \E d \in Delivery : Fire(d) \/ Execute(d)
    \/ \E w \in Worker : Schedule(w) \/ Crash(w)

Spec == Init /\ [][Next]_vars

(***************************************************************************)
(* Fairness: a handler that was called runs to its end, and Cloud Tasks    *)
(* delivers a queued task however often other tasks were delivered first.  *)
(***************************************************************************)
FairSpec ==
    /\ Spec
    /\ \A w \in Worker : WF_vars(Schedule(w))
    /\ \A c \in Client : WF_vars(Cancel(c))
    /\ \A d \in Delivery : WF_vars(Execute(d))
    /\ \A i \in Id : SF_vars(\E d \in Delivery : Fire(d) /\ of'[d] = i)
-----------------------------------------------------------------------------
(* Properties *)

\* However often Cloud Tasks delivers it, also while it runs, and whoever cancels it, the
\* turn of an occurrence succeeds once (session lock, MarkRunning's terminal check), unless
\* one of its repository calls failed or its process died.
SucceedsOnce == \A i \in Id \ faulted : successes[i] <= 1

\* Two deliveries never both schedule the occurrence that comes next: MarkExecuted
\* acts on a pending or running record, and nothing brings an executed one back.
OneSuccessor ==
    \A i, j \in Id : i # j /\ status[i] # "absent" /\ status[j] # "absent" => run[i] # run[j]

\* "MaxRuns is the maximum number of times this Ritual may execute."
AtMostMaxRuns == MaxRuns > 0 => Cardinality({i \in Id : successes[i] > 0}) <= MaxRuns

\* The runs of a recurring ritual happen once each and no more than MaxRuns of them: an
\* occurrence succeeds once, has one successor, and the last one has none.
RunsOnce == SucceedsOnce /\ OneSuccessor /\ AtMostMaxRuns

\* No "phantom pending task": a pending record has a queued task, or somebody is still at
\* work on it, also when the task could not be created (the rollback of Schedule, the order of
\* the calls in Cancel and MarkFailed, the redelivery of what is not acknowledged).  Left out
\* are the records that the code gives up: the write that would have closed one failed, or the
\* process died between the record and its task.
NoPhantomPending ==
    \A i \in Id \ abandoned : status[i] = "pending" =>
      task[i] = "queued" \/ \E w \in Worker : i \in {of[w], new[w]}

\* A terminal record becomes active again only in the window between MarkRunning's read
\* and its write, and an executed one never.
TerminalIsFinal ==
    [][\A i \in Id : status[i] \in Terminal /\ status'[i] \notin Terminal
         => /\ status[i] # "executed"
            /\ \E d \in Delivery : of[d] = i /\ pc[d] = "mark_write"]_status

\* A ritual that was scheduled is settled in the end, whatever turns it away, fails or dies:
\* it does not stay pending or running unless the code gave its record up.
EveryRitualSettles ==
    \A i \in Id : status[i] = "pending" ~> status[i] \in Terminal \/ i \in abandoned

\* "The RitualService automatically schedules the next occurrence after a successful run,
\* until MaxRuns is reached or EndsAt passes": once nobody works on it any more, an
\* occurrence that succeeded and was not cancelled has its successor.
RecurrenceContinues ==
    \A i \in Id \ faulted :
      /\ successes[i] > 0 /\ Recurs(i) /\ status[i] # "cancelled"
      /\ \A w \in Worker : of[w] # i
      => \E j \in Id : status[j] # "absent" /\ run[j] = run[i] + 1
=============================================================================
