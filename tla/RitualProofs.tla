----------------------------- MODULE RitualProofs -----------------------------
(* The runs of the rituals of a session, for any number of deliveries,      *)
(* clients and occurrences: an invariant that relates where the workers are *)
(* to the records they read and write.                                      *)
EXTENDS Ritual, FiniteSetTheorems, TLAPS

Scheduling == {"save", "keeper", "rollback", "patch"}
Cancelling == {"cancel_keeper", "cancel_write"}
\* Where the pipeline of a delivery owns the session lock.
Locking == {"mark", "mark_write", "turn", "exec", "exec_write", "release"} \cup Scheduling
Executing == Locking \cup {"lock", "fail", "fail_write", "ack"}

\* What the calls of a worker do, whatever caller it is.
Act(w) ==
    \/ w \in Client /\ (BeginSchedule(w) \/ BeginCancel(w) \/ Cancel(w))
    \/ w \in Delivery /\ (Fire(w) \/ Execute(w))
    \/ Schedule(w) \/ Crash(w)

\* What a worker knows goes with where it is, and the lock with who works under it.
Shaped(w) ==
    /\ w \in Client => /\ pc[w] \in {"idle"} \cup Scheduling \cup Cancelling
                       /\ of[w] # None <=> pc[w] \in Cancelling
    /\ w \in Delivery => /\ pc[w] \in {"idle"} \cup Executing
                         /\ of[w] # None <=> pc[w] # "idle"
                         /\ lock = w <=> pc[w] \in Locking
    /\ new[w] # None <=> pc[w] \in Scheduling

Control == TypeOK /\ \A w \in Worker : Shaped(w)

LEMMA NextActs == Next => \E w \in Worker : Act(w)
  BY DEF Next, Worker, Act

LEMMA IdIsNotNone == None \notin Id /\ None \notin Delivery /\ Delivery \cap Client = {}
  BY NoneAssumption, WorkersAssumption DEF Id

\* The ids of the records that the steps of a worker read or write.
LEMMA Handled ==
  ASSUME Control, NEW w \in Worker
  PROVE  /\ w \in Client \cup Delivery
         /\ pc[w] \in Scheduling => new[w] \in Id
         /\ pc[w] \in Cancelling => of[w] \in Id /\ w \in Client
         /\ w \in Delivery /\ pc[w] # "idle" => of[w] \in Id
         /\ pc[w] \in Executing \ Scheduling => w \in Delivery
  BY IdIsNotNone DEF Control, TypeOK, Shaped, Worker, Scheduling, Cancelling, Executing, Locking

\* Where the handler goes by the outcome of the pipeline.
LEMMA ReleaseGoes ==
  ASSUME TypeOK, NEW d \in Delivery, Release(d)
  PROVE  \/ outcome[d] = "success" /\ GoTo(d, "ack")
         \/ outcome[d] = "rejected" /\ GoTo(d, "fail")
         \/ outcome[d] = "retriable" /\ GoTo(d, "idle")
<1>1. CASE outcome[d] = "success"
  BY <1>1 DEF Release
<1>2. CASE outcome[d] = "rejected"
  BY <1>2 DEF Release
<1>3. CASE outcome[d] = "retriable"
  BY <1>3 DEF Release
<1> QED
  BY <1>1, <1>2, <1>3 DEF TypeOK

\* What the steps of a worker do to the others: nothing.
LEMMA Elsewhere ==
  ASSUME Control, NEW w \in Worker, Act(w), NEW v \in Worker, v # w
  PROVE  /\ pc'[v] = pc[v] /\ of'[v] = of[v] /\ new'[v] = new[v]
         /\ v \in Delivery => outcome'[v] = outcome[v]
<1> USE DEF Control, TypeOK, GoTo, ScheduleReturns, Return, NoFault, records, workers, history
<1>1. CASE BeginSchedule(w) \/ BeginCancel(w) \/ Cancel(w)
  BY <1>1 DEF BeginSchedule, BeginCancel, Cancel, DeleteTask, WriteCancelled
<1>2. CASE Save(w) \/ SaveError(w) \/ CreateTask(w) \/ CreateTaskError(w) \/ Rollback(w)
             \/ Patch(w)
  BY <1>2 DEF Save, SaveError, CreateTask, CreateTaskError, Rollback, Patch
<1>3. CASE Fire(w) \/ AcquireLock(w) \/ AcquireError(w) \/ MarkRunning(w) \/ UpdateRunning(w)
             \/ MarkError(w)
  BY <1>3 DEF Fire, AcquireLock, AcquireError, MarkRunning, UpdateRunning, MarkError
<1>4. CASE Turn(w) \/ TurnError(w) \/ MarkExecuted(w) \/ UpdateExecuted(w) \/ ExecutedError(w)
  BY <1>4 DEF Turn, TurnError, MarkExecuted, UpdateExecuted, ExecutedError
<1>5. CASE MarkFailed(w) \/ UpdateFailed(w) \/ FailedError(w) \/ Ack(w)
  BY <1>5 DEF MarkFailed, UpdateFailed, FailedError, Ack
<1>6. CASE w \in Delivery /\ Release(w)
  BY <1>6, ReleaseGoes DEF Release
<1>7. CASE Crash(w)
  BY <1>7 DEF Crash
<1> QED
  BY <1>1, <1>2, <1>3, <1>4, <1>5, <1>6, <1>7 DEF Act, Schedule, Execute

LEMMA TypeStep ==
  ASSUME Control, NEW w \in Worker, Act(w)
  PROVE  TypeOK'
<1> USE CountsAssumption DEF TypeOK, GoTo, ScheduleReturns, Return, NoFault, Spend, Fail, Abandon, SetStatus,
      Unsure, Status, records, workers, history
<1>0. TypeOK
  BY DEF Control
<1>1. CASE w \in Client /\ BeginSchedule(w)
  BY <1>0, <1>1 DEF BeginSchedule
<1>2. CASE w \in Client /\ BeginCancel(w)
  BY <1>0, <1>2 DEF BeginCancel
<1>3. CASE DeleteTask(w) \/ WriteCancelled(w)
  <2>1. of[w] \in Id
    BY <1>3, Handled DEF DeleteTask, WriteCancelled, Cancelling
  <2>2. CASE DeleteTask(w)
    BY <1>0, <2>1, <2>2 DEF DeleteTask
  <2>3. CASE WriteCancelled(w)
    BY <1>0, <2>1, <2>3 DEF WriteCancelled
  <2> QED
    BY <1>3, <2>2, <2>3
<1>4. CASE Save(w) \/ SaveError(w)
  <2>1. RunOfNew(w) \in Nat /\ new[w] \in Id
    BY <1>0, <1>4, Handled DEF RunOfNew, Save, SaveError, Scheduling, Worker
  <2>2. CASE Save(w)
    BY <1>0, <2>1, <2>2 DEF Save
  <2>3. CASE SaveError(w)
    BY <1>0, <2>1, <2>3 DEF SaveError
  <2> QED
    BY <1>4, <2>2, <2>3
<1>5. CASE CreateTask(w) \/ CreateTaskError(w)
  BY <1>0, <1>5 DEF CreateTask, CreateTaskError
<1>6. CASE Rollback(w) \/ Patch(w)
  <2>1. new[w] \in Id
    BY <1>6, Handled DEF Rollback, Patch, Scheduling
  <2> QED
    BY <1>0, <1>6, <2>1 DEF Rollback, Patch
<1>7. CASE w \in Delivery /\ (Fire(w) \/ AcquireLock(w) \/ AcquireError(w))
  BY <1>0, <1>7 DEF Fire, AcquireLock, AcquireError
<1>8. CASE MarkRunning(w) \/ UpdateRunning(w) \/ MarkError(w)
  BY <1>0, <1>8 DEF MarkRunning, UpdateRunning, MarkError
<1>9. CASE w \in Delivery /\ (Turn(w) \/ TurnError(w))
  <2>1. CASE Turn(w)
    BY <1>0, <2>1 DEF Turn
  <2>2. CASE TurnError(w)
    <3>1. faults' \in 0..MaxFaults
      BY <1>0, <2>2 DEF TurnError
    <3>2. outcome' \in [Delivery -> {"success", "rejected", "retriable"}]
      BY <1>0, <2>2 DEF TurnError
    <3> QED
      BY <1>0, <2>2, <3>1, <3>2 DEF TurnError
  <2> QED
    BY <1>9, <2>1, <2>2
<1>10. CASE MarkExecuted(w) \/ ExecutedError(w)
  <2>1. of[w] \in Id
    BY <1>10, Handled DEF MarkExecuted, ExecutedError, Executing, Locking, Scheduling
  <2> QED
    BY <1>0, <1>10, <2>1 DEF MarkExecuted, ExecutedError
<1>11. CASE UpdateExecuted(w)
  BY <1>0, <1>11 DEF UpdateExecuted
<1>12. CASE w \in Delivery /\ Release(w)
  BY <1>0, <1>12, ReleaseGoes DEF Release
<1>13. CASE MarkFailed(w) \/ UpdateFailed(w) \/ FailedError(w) \/ Ack(w)
  <2>1. of[w] \in Id
    BY <1>13, Handled DEF MarkFailed, UpdateFailed, FailedError, Ack, Executing, Locking, Scheduling
  <2> QED
    BY <1>0, <1>13, <2>1 DEF MarkFailed, UpdateFailed, FailedError, Ack
<1>14. CASE Crash(w)
  <2>1. /\ pc[w] \in {"keeper", "rollback"} => new[w] \in Id
        /\ pc[w] = "cancel_write" => of[w] \in Id
    BY Handled DEF Scheduling, Cancelling
  <2> QED
    BY <1>0, <1>14, <2>1 DEF Crash
<1> QED
  BY <1>1, <1>2, <1>3, <1>4, <1>5, <1>6, <1>7, <1>8, <1>9, <1>10, <1>11, <1>12, <1>13, <1>14
  DEF Act, Cancel, Schedule, Execute

\* The lock passes between nobody and the worker.
LEMMA LockElsewhere ==
  ASSUME Control, NEW w \in Worker, Act(w), NEW d \in Delivery, d # w
  PROVE  lock' = d <=> lock = d
<1>1. CASE w \in Delivery /\ (AcquireLock(w) \/ Release(w))
  BY <1>1, IdIsNotNone DEF AcquireLock, Release, Control, Shaped, Locking
<1>2. CASE Crash(w)
  BY <1>2, IdIsNotNone DEF Crash
<1>3. CASE BeginSchedule(w) \/ BeginCancel(w) \/ Cancel(w) \/ Fire(w)
  BY <1>3 DEF BeginSchedule, BeginCancel, Cancel, DeleteTask, WriteCancelled, Fire
<1>4. CASE Schedule(w)
  BY <1>4 DEF Schedule, Save, SaveError, CreateTask, CreateTaskError, Rollback, Patch
<1>5. CASE AcquireError(w) \/ MarkRunning(w) \/ UpdateRunning(w) \/ MarkError(w)
             \/ Turn(w) \/ TurnError(w)
  BY <1>5 DEF AcquireError, MarkRunning, UpdateRunning, MarkError, Turn, TurnError
<1>6. CASE MarkExecuted(w) \/ UpdateExecuted(w) \/ ExecutedError(w) \/ MarkFailed(w)
             \/ UpdateFailed(w) \/ FailedError(w) \/ Ack(w)
  BY <1>6 DEF MarkExecuted, UpdateExecuted, ExecutedError, MarkFailed, UpdateFailed,
      FailedError, Ack
<1> QED
  BY <1>1, <1>2, <1>3, <1>4, <1>5, <1>6 DEF Act, Execute

LEMMA OwnShape ==
  ASSUME Control, NEW w \in Worker, Act(w)
  PROVE  Shaped(w)'
<1> USE IdIsNotNone DEF TypeOK, GoTo, ScheduleReturns, Return, Shaped, Worker, Scheduling,
      Cancelling, Locking, Executing
<1>0. TypeOK /\ Shaped(w)
  BY DEF Control
<1>1. CASE w \in Client /\ (BeginSchedule(w) \/ BeginCancel(w))
  BY <1>0, <1>1 DEF BeginSchedule, BeginCancel
<1>2. CASE w \in Client /\ Cancel(w)
  BY <1>0, <1>2 DEF Cancel, DeleteTask, WriteCancelled, workers
<1>3. CASE Save(w) \/ CreateTask(w) \/ CreateTaskError(w)
  BY <1>0, <1>3 DEF Save, CreateTask, CreateTaskError, workers
<1>4. CASE SaveError(w) \/ Rollback(w) \/ Patch(w)
  BY <1>0, <1>4 DEF SaveError, Rollback, Patch
<1>5. CASE w \in Delivery /\ (Fire(w) \/ AcquireLock(w) \/ AcquireError(w))
  BY <1>0, <1>5 DEF Fire, AcquireLock, AcquireError, workers
<1>6. CASE w \in Delivery /\ (MarkRunning(w) \/ UpdateRunning(w) \/ MarkError(w))
  BY <1>0, <1>6 DEF MarkRunning, UpdateRunning, MarkError, workers
<1>7. CASE w \in Delivery /\ (Turn(w) \/ TurnError(w))
  BY <1>0, <1>7 DEF Turn, TurnError, workers
<1>8. CASE w \in Delivery /\ (MarkExecuted(w) \/ UpdateExecuted(w) \/ ExecutedError(w))
  BY <1>0, <1>8 DEF MarkExecuted, UpdateExecuted, ExecutedError, workers
<1>9. CASE w \in Delivery /\ Release(w)
  BY <1>0, <1>9, ReleaseGoes DEF Release
<1>10. CASE w \in Delivery /\ (MarkFailed(w) \/ UpdateFailed(w) \/ FailedError(w) \/ Ack(w))
  BY <1>0, <1>10 DEF MarkFailed, UpdateFailed, FailedError, Ack, workers
<1>11. CASE Crash(w)
  BY <1>0, <1>11 DEF Crash
<1> QED
  BY <1>1, <1>2, <1>3, <1>4, <1>5, <1>6, <1>7, <1>8, <1>9, <1>10, <1>11
  DEF Act, Schedule, Execute

LEMMA ControlStep == Control /\ [Next]_vars => Control'
<1> SUFFICES ASSUME Control, [Next]_vars PROVE Control'
  OBVIOUS
<1>1. ASSUME NEW w \in Worker, Act(w) PROVE Control'
  <2>1. ASSUME NEW v \in Worker, v # w PROVE Shaped(v)'
    <3>1. Shaped(v)
      BY DEF Control
    <3> QED
      BY <1>1, <2>1, <3>1, Elsewhere, LockElsewhere DEF Shaped
  <2> QED
    BY <1>1, <2>1, TypeStep, OwnShape DEF Control, Worker
<1>2. CASE UNCHANGED vars
  BY <1>2 DEF Control, TypeOK, Shaped, vars, records, workers, history
<1> QED
  BY <1>1, <1>2, NextActs

LEMMA ControlInvariant == Spec => []Control
<1>1. Init => Control
  BY IdIsNotNone, CountsAssumption
  DEF Init, Control, TypeOK, Shaped, Worker, Status, Scheduling, Cancelling, Locking, Executing
<1> QED
  BY <1>1, ControlStep, PTL DEF Spec

\* Every update writes a status that exists, and every delivery handles a record that does
\* (ritual_service.go, ritual.go).
THEOREM TypeCorrect == Spec => []TypeOK
<1>1. Control => TypeOK
  BY DEF Control
<1> QED
  BY <1>1, ControlInvariant, PTL
-----------------------------------------------------------------------------
(* The records *)

Saved == {i \in Id : status[i] # "absent"}

\* Every id somebody works with is that of a record; a worker about to save has one that
\* nobody else uses, and the first ritual is saved when there is no other.
Known ==
    /\ \A i \in Id : task[i] # "none" \/ successes[i] > 0 => i \in Saved
    /\ \A w \in Worker : of[w] # None => of[w] \in Saved
    /\ \A w \in Worker : new[w] # None => (new[w] \in Saved <=> pc[w] # "save")
    /\ \A v, w \in Worker : new[v] = new[w] /\ new[w] # None => v = w
    /\ \A c \in Client : pc[c] = "save" => Saved = {} /\ \A w \in Worker \ {c} : new[w] = None

\* The only writes of a status, and of the run it comes with.
Writes(w, i) ==
    \/ status'[i] = status[i] /\ run'[i] = run[i]
    \/ /\ pc[w] = "save" /\ i = new[w]
       /\ status'[i] = "pending" /\ run'[i] = RunOfNew(w)
    \/ /\ run'[i] = run[i]
       /\ \/ pc[w] = "rollback" /\ i = new[w] /\ status'[i] = "cancelled"
          \/ pc[w] = "cancel_write" /\ i = of[w] /\ status'[i] = "cancelled"
          \/ pc[w] = "mark_write" /\ i = of[w] /\ status'[i] = "running"
          \/ pc[w] = "exec_write" /\ i = of[w] /\ status'[i] = "executed"
          \/ pc[w] = "fail_write" /\ i = of[w] /\ status'[i] = "failed"

LEMMA StatusWritten ==
  ASSUME Control, NEW w \in Worker, Act(w), NEW i \in Id
  PROVE  Writes(w, i)
<1> USE DEF Writes, records, NoFault
<1>0. status \in [Id -> Status] /\ run \in [Id -> Nat]
  BY DEF Control, TypeOK
<1>1. CASE BeginSchedule(w) \/ BeginCancel(w) \/ Fire(w) \/ Crash(w)
  BY <1>1 DEF BeginSchedule, BeginCancel, Fire, Crash
<1>2. CASE DeleteTask(w) \/ WriteCancelled(w)
  BY <1>0, <1>2 DEF DeleteTask, WriteCancelled, SetStatus, Unsure
<1>3. CASE Save(w) \/ SaveError(w)
  BY <1>0, <1>3 DEF Save, SaveError, SetStatus
<1>4. CASE CreateTask(w) \/ CreateTaskError(w) \/ Rollback(w) \/ Patch(w)
  BY <1>0, <1>4 DEF CreateTask, CreateTaskError, Rollback, Patch, SetStatus, Unsure
<1>5. CASE AcquireLock(w) \/ AcquireError(w) \/ MarkRunning(w) \/ Turn(w) \/ TurnError(w)
             \/ MarkExecuted(w) \/ Release(w) \/ MarkFailed(w) \/ Ack(w)
  BY <1>5 DEF AcquireLock, AcquireError, MarkRunning, Turn, TurnError, MarkExecuted, Release,
      MarkFailed, Ack
<1>6. CASE UpdateRunning(w) \/ MarkError(w)
  BY <1>0, <1>6 DEF UpdateRunning, MarkError, SetStatus, Unsure
<1>7. CASE UpdateExecuted(w) \/ ExecutedError(w)
  BY <1>0, <1>7 DEF UpdateExecuted, ExecutedError, SetStatus, Unsure
<1>8. CASE UpdateFailed(w) \/ FailedError(w)
  BY <1>0, <1>8 DEF UpdateFailed, FailedError, SetStatus, Unsure
<1> QED
  BY <1>1, <1>2, <1>3, <1>4, <1>5, <1>6, <1>7, <1>8 DEF Act, Cancel, Schedule, Execute

\* A record stays, with its run, and only Save makes one.
LEMMA SavedGrows ==
  ASSUME Control, Known, NEW w \in Worker, Act(w), NEW i \in Id
  PROVE  /\ i \in Saved => i \in Saved' /\ run'[i] = run[i]
         /\ i \in Saved' /\ i \notin Saved =>
              pc[w] = "save" /\ i = new[w] /\ status'[i] = "pending" /\ run'[i] = RunOfNew(w)
<1>1. Writes(w, i)
  BY StatusWritten
<1>2. pc[w] = "save" => new[w] \notin Saved
  BY Handled, IdIsNotNone DEF Known, Scheduling
<1>3. pc[w] = "rollback" => new[w] \in Saved
  BY Handled, IdIsNotNone DEF Known, Scheduling
<1>4. pc[w] \in {"cancel_write", "mark_write", "exec_write", "fail_write"} => of[w] \in Saved
  BY Handled, IdIsNotNone DEF Known, Cancelling, Executing, Locking, Scheduling
<1> QED
  BY <1>1, <1>2, <1>3, <1>4 DEF Saved, Writes

\* How a worker gets to where it writes something.
Enters(w) ==
    /\ pc'[w] = "save" =>
         /\ new'[w] \in Unused
         /\ \/ w \in Client /\ Unused = Id /\ status' = status
            \/ w \in Delivery /\ pc[w] = "exec_write" /\ of'[w] = of[w] /\ Recurs(of[w])
                 /\ status'[of[w]] = "executed"
    /\ pc'[w] \in {"keeper", "rollback", "patch"} =>
         /\ pc[w] \in Scheduling /\ new'[w] = new[w]
         /\ pc[w] = "save" => status'[new[w]] = "pending"
    /\ of'[w] \notin {None, of[w]} =>
         status' = status /\ of'[w] \in Id /\ (status[of'[w]] = "pending" \/ task[of'[w]] = "queued")
    /\ pc'[w] = "mark_write" =>
         /\ pc[w] = "mark" /\ of'[w] = of[w] /\ status' = status
         /\ status[of[w]] \notin Terminal
    /\ pc'[w] = "exec_write" =>
         /\ pc[w] = "exec" /\ of'[w] = of[w] /\ status' = status
         /\ status[of[w]] \in {"pending", "running"}

LEMMA Entered ==
  ASSUME Control, NEW w \in Worker, Act(w)
  PROVE  Enters(w)
<1> USE DEF Enters, GoTo, ScheduleReturns, Return, NoFault, records, workers, Scheduling
<1>0. /\ pc \in [Worker -> {"idle", "lock", "mark", "mark_write", "turn", "exec", "exec_write",
                          "save", "keeper", "rollback", "patch", "release", "fail",
                          "fail_write", "ack", "cancel_keeper", "cancel_write"}]
      /\ of \in [Worker -> Id \cup {None}] /\ new \in [Worker -> Id \cup {None}]
      /\ status \in [Id -> Status] /\ Delivery \cap Client = {}
      /\ pc[w] \in Scheduling => new[w] \in Id
      /\ w \in Delivery /\ pc[w] # "idle" => of[w] \in Id
  BY Handled, IdIsNotNone DEF Control, TypeOK
<1>1. CASE w \in Client /\ (BeginSchedule(w) \/ BeginCancel(w))
  BY <1>0, <1>1 DEF BeginSchedule, BeginCancel, Fresh
<1>2. CASE DeleteTask(w) \/ WriteCancelled(w) \/ Crash(w)
  BY <1>0, <1>2 DEF DeleteTask, WriteCancelled, Crash
<1>3. CASE Save(w) \/ SaveError(w)
  BY <1>0, <1>3 DEF Save, SaveError, SetStatus
<1>4. CASE CreateTask(w) \/ CreateTaskError(w) \/ Rollback(w) \/ Patch(w)
  BY <1>0, <1>4 DEF CreateTask, CreateTaskError, Rollback, Patch
<1>5. CASE Fire(w) \/ AcquireLock(w) \/ AcquireError(w)
  BY <1>0, <1>5 DEF Fire, AcquireLock, AcquireError
<1>6. CASE MarkRunning(w) \/ UpdateRunning(w) \/ MarkError(w)
  BY <1>0, <1>6 DEF MarkRunning, UpdateRunning, MarkError
<1>7. CASE Turn(w) \/ TurnError(w) \/ MarkExecuted(w) \/ ExecutedError(w)
  BY <1>0, <1>7 DEF Turn, TurnError, MarkExecuted, ExecutedError
<1>8. CASE w \in Delivery /\ UpdateExecuted(w)
  BY <1>0, <1>8 DEF UpdateExecuted, SetStatus, Fresh
<1>9. CASE w \in Delivery /\ Release(w)
  BY <1>0, <1>9, ReleaseGoes DEF Release, Control
<1>10. CASE MarkFailed(w) \/ UpdateFailed(w) \/ FailedError(w) \/ Ack(w)
  BY <1>0, <1>10 DEF MarkFailed, UpdateFailed, FailedError, Ack
<1> QED
  BY <1>1, <1>2, <1>3, <1>4, <1>5, <1>6, <1>7, <1>8, <1>9, <1>10
  DEF Act, Cancel, Schedule, Execute

\* A turn succeeds under the lock, and a task is made for a record.
LEMMA Counted ==
  ASSUME Control, NEW w \in Worker, Act(w), NEW i \in Id
  PROVE  /\ task'[i] # task[i] =>
              \/ pc[w] = "keeper" /\ i = new[w]
              \/ pc[w] \in {"ack", "cancel_keeper"} /\ i = of[w]
         /\ successes'[i] # successes[i] =>
              /\ w \in Delivery /\ pc[w] = "turn" /\ i = of[w] /\ pc'[w] = "exec"
              /\ successes'[i] = successes[i] + 1 /\ status' = status
<1> USE DEF NoFault, records, workers, history
<1>0. task \in [Id -> {"none", "queued", "gone"}] /\ successes \in [Id -> Nat]
  BY DEF Control, TypeOK
<1>1. CASE BeginSchedule(w) \/ BeginCancel(w) \/ Cancel(w) \/ Crash(w)
  BY <1>0, <1>1 DEF BeginSchedule, BeginCancel, Cancel, DeleteTask, WriteCancelled, Crash
<1>2. CASE Schedule(w)
  BY <1>0, <1>2 DEF Schedule, Save, SaveError, CreateTask, CreateTaskError, Rollback, Patch
<1>3. CASE Fire(w) \/ AcquireLock(w) \/ AcquireError(w) \/ MarkRunning(w) \/ UpdateRunning(w)
             \/ MarkError(w) \/ MarkExecuted(w) \/ UpdateExecuted(w) \/ ExecutedError(w)
  BY <1>3 DEF Fire, AcquireLock, AcquireError, MarkRunning, UpdateRunning, MarkError,
      MarkExecuted, UpdateExecuted, ExecutedError
<1>4. CASE w \in Delivery /\ (Turn(w) \/ TurnError(w))
  <2>1. pc[w] = "turn" /\ UNCHANGED <<status, task>>
    BY <1>4 DEF Turn, TurnError
  <2>2. \/ UNCHANGED successes
        \/ successes' = [successes EXCEPT ![of[w]] = @ + 1] /\ GoTo(w, "exec")
    BY <1>4 DEF Turn, TurnError
  <2>3. GoTo(w, "exec") => pc'[w] = "exec"
    BY DEF Control, TypeOK, GoTo
  <2> QED
    BY <1>0, <1>4, <2>1, <2>2, <2>3
<1>5. CASE Release(w) \/ MarkFailed(w) \/ UpdateFailed(w) \/ FailedError(w) \/ Ack(w)
  BY <1>0, <1>5 DEF Release, MarkFailed, UpdateFailed, FailedError, Ack
<1> QED
  BY <1>1, <1>2, <1>3, <1>4, <1>5 DEF Act, Execute

LEMMA KnownStep ==
  ASSUME Control, Known, Control', NEW w \in Worker, Act(w)
  PROVE  Known'
<1>0. /\ \A v \in Worker : /\ new[v] \in Id \cup {None} /\ of[v] \in Id \cup {None}
                           /\ new[v] # None <=> pc[v] \in Scheduling
                           /\ new'[v] # None <=> pc'[v] \in Scheduling
      /\ task \in [Id -> {"none", "queued", "gone"}] /\ Saved \subseteq Id /\ Saved' \subseteq Id
      /\ None \notin Id /\ Delivery \cap Client = {}
  BY IdIsNotNone DEF Control, TypeOK, Shaped, Saved
<1>1. /\ \A i \in Saved : i \in Saved'
      /\ \A i \in Saved' : i \notin Saved => pc[w] = "save" /\ i = new[w]
  BY <1>0, SavedGrows
<1>2. ASSUME NEW v \in Worker, v # w
      PROVE  pc'[v] = pc[v] /\ of'[v] = of[v] /\ new'[v] = new[v]
  BY <1>2, Elsewhere
<1>3. Enters(w)
  BY Entered
<1>4. ASSUME NEW i \in Id, task'[i] # "none" \/ successes'[i] > 0
      PROVE  i \in Saved'
  <2>1. CASE task[i] # "none" \/ successes[i] > 0
    BY <1>1, <2>1 DEF Known
  <2>2. CASE task'[i] # task[i]
    <3>1. pc[w] = "keeper" => new[w] \in Saved
      BY <1>0 DEF Known, Scheduling
    <3>2. of[w] # None => of[w] \in Saved
      BY DEF Known
    <3> QED
      BY <1>0, <1>1, <2>2, <3>1, <3>2, Counted
  <2>3. CASE successes'[i] # successes[i]
    BY <1>0, <1>1, <2>3, Counted DEF Known
  <2> QED
    BY <1>4, <2>1, <2>2, <2>3
<1>5. ASSUME NEW v \in Worker, of'[v] # None
      PROVE  of'[v] \in Saved'
  <2>1. CASE v # w \/ of'[v] = of[v]
    BY <1>1, <1>2, <1>5, <2>1 DEF Known
  <2>2. CASE v = w /\ of'[w] # of[w]
    <3>1. of'[w] \in Id /\ (status[of'[w]] = "pending" \/ task[of'[w]] = "queued")
      BY <1>3, <1>5, <2>2 DEF Enters
    <3>2. of'[w] \in Saved
      BY <3>1 DEF Known, Saved
    <3> QED
      BY <1>1, <2>2, <3>2
  <2> QED
    BY <2>1, <2>2
\* The id that a worker takes is nobody's.
<1>6. pc'[w] = "save" => new'[w] \notin Saved' /\ \A v \in Worker : new[v] # new'[w]
  <2> SUFFICES ASSUME pc'[w] = "save"
               PROVE  new'[w] \notin Saved' /\ \A v \in Worker : new[v] # new'[w]
    OBVIOUS
  <2>1. new'[w] \in Unused
    BY <1>3 DEF Enters
  <2>2. new'[w] \notin Saved /\ \A v \in Worker : new[v] # new'[w]
    BY <2>1 DEF Unused, Saved
  <2> QED
    BY <1>1, <2>2
<1>7. ASSUME NEW v \in Worker, new'[v] # None
      PROVE  new'[v] \in Saved' <=> pc'[v] # "save"
  <2>1. CASE v # w
    BY <1>0, <1>1, <1>2, <1>7, <2>1 DEF Known
  <2>2. CASE v = w /\ pc'[w] = "save"
    BY <1>6, <2>2
  <2>3. CASE v = w /\ pc'[w] # "save"
    <3>1. /\ pc[w] \in Scheduling /\ new'[w] = new[w]
          /\ pc[w] = "save" => status'[new[w]] = "pending"
      BY <1>0, <1>3, <1>7, <2>3 DEF Enters, Scheduling
    <3>2. CASE pc[w] = "save"
      BY <1>0, <2>3, <3>1, <3>2 DEF Saved
    <3>3. CASE pc[w] # "save"
      BY <1>0, <1>1, <2>3, <3>1, <3>3 DEF Known
    <3> QED
      BY <3>2, <3>3
  <2> QED
    BY <2>1, <2>2, <2>3
<1>8. ASSUME NEW u \in Worker, NEW v \in Worker, new'[u] = new'[v], new'[v] # None
      PROVE  u = v
  <2>1. new'[w] # None /\ pc'[w] # "save" => new'[w] = new[w]
    BY <1>0, <1>3 DEF Enters, Scheduling
  <2> QED
    BY <1>2, <1>6, <1>8, <2>1 DEF Known
<1>9. ASSUME NEW c \in Client, pc'[c] = "save"
      PROVE  Saved' = {} /\ \A v \in Worker \ {c} : new'[v] = None
  <2>0. c \in Worker
    BY DEF Worker
  <2>1. CASE c = w
    <3>1. Unused = Id /\ status' = status
      BY <1>0, <1>3, <1>9, <2>1 DEF Enters
    <3>2. Saved' = {} /\ \A v \in Worker : new[v] = None
      BY <1>0, <3>1 DEF Unused, Saved
    <3> QED
      BY <1>2, <2>1, <3>2
  <2>2. CASE c # w
    <3>1. pc[c] = "save" /\ Saved = {} /\ \A v \in Worker \ {c} : new[v] = None
      BY <1>2, <1>9, <2>0, <2>2 DEF Known
    <3>2. pc[w] \notin Scheduling
      BY <1>0, <2>2, <3>1
    <3>3. Saved' = {}
      BY <1>1, <3>1, <3>2 DEF Scheduling
    <3>4. pc'[w] # "save"
      <4>1. Unused # Id
        BY <1>0, <2>0, <3>1 DEF Unused, Scheduling
      <4>2. w \in Delivery /\ pc[w] = "exec_write" => of[w] \in Saved
        BY <1>0, Handled DEF Known
      <4> QED
        BY <1>3, <3>1, <4>1, <4>2 DEF Enters
    <3>5. new'[w] = None
      BY <1>0, <1>3, <3>2, <3>4 DEF Enters, Scheduling
    <3> QED
      BY <1>2, <3>1, <3>3, <3>5
  <2> QED
    BY <2>1, <2>2
<1> QED
  BY <1>4, <1>5, <1>7, <1>8, <1>9 DEF Known
-----------------------------------------------------------------------------
(* The chain of occurrences *)

Succeeded(i) == \E j \in Saved : run[j] = run[i] + 1

\* The runs of the records are 0, 1, 2, ... each once, and less than MaxRuns.  A record with
\* a successor is settled for good, and nobody is about to write it or to save another one.
Chained ==
    /\ \A i \in Saved : run[i] > 0 => \E j \in Saved : run[i] = run[j] + 1
    /\ \A i, j \in Saved : run[i] = run[j] => i = j
    /\ MaxRuns > 0 => \A i \in Saved : run[i] < MaxRuns
    /\ \A i \in Saved : Succeeded(i) =>
         /\ status[i] \in Terminal
         /\ \A d \in Delivery : of[d] = i => pc[d] \notin {"mark_write", "exec_write", "save"}
    /\ \A d \in Delivery : pc[d] = "save" =>
         status[of[d]] \in Terminal /\ (MaxRuns > 0 => run[of[d]] + 1 < MaxRuns)

\* Two deliveries that work under the lock are one.
LEMMA WorksAlone ==
  ASSUME Control, NEW d \in Delivery, NEW e \in Delivery, pc[d] \in Locking, pc[e] \in Locking
  PROVE  d = e
  BY DEF Control, Shaped, Worker

\* A settled record that nobody is about to write stays settled.
LEMMA StaysTerminal ==
  ASSUME Control, Known, NEW w \in Worker, Act(w), NEW i \in Saved, status[i] \in Terminal,
         pc[w] = "mark_write" => of[w] # i
  PROVE  status'[i] \in Terminal
<1>1. i \in Id /\ Writes(w, i)
  BY StatusWritten DEF Saved
<1>2. pc[w] = "save" => new[w] # i
  BY <1>1, Handled, IdIsNotNone DEF Known, Scheduling
<1> QED
  BY <1>1, <1>2 DEF Writes, Terminal

\* Where the chain grows: the successor of an executed record that had none.
LEMMA NewRun ==
  ASSUME Control, Known, Chained, NEW w \in Worker, Act(w), NEW k \in Saved', k \notin Saved
  PROVE  /\ Saved' = Saved \cup {k} /\ run'[k] \in Nat
         /\ \A i \in Saved : run'[i] = run[i] /\ run[i] # run'[k] /\ run[i] # run'[k] + 1
         /\ \/ Saved = {} /\ run'[k] = 0
            \/ /\ w \in Delivery /\ pc[w] = "save" /\ of[w] \in Saved
               /\ run'[k] = run[of[w]] + 1
         /\ MaxRuns > 0 => run'[k] < MaxRuns
<1>1. k \in Id /\ Saved \subseteq Id /\ Saved' \subseteq Id /\ run \in [Id -> Nat]
  BY DEF Saved, Control, TypeOK
<1>2. pc[w] = "save" /\ k = new[w] /\ run'[k] = RunOfNew(w)
  BY <1>1, SavedGrows
<1>3. Saved' = Saved \cup {k} /\ \A i \in Saved : run'[i] = run[i]
  BY <1>1, <1>2, SavedGrows
<1>4. CASE w \in Client
  <2>1. Saved = {} /\ run'[k] = 0
    BY <1>2, <1>4 DEF Known, RunOfNew
  <2> QED
    BY <1>1, <1>3, <2>1, CountsAssumption
<1>5. CASE w \in Delivery
  <2>1. of[w] \in Saved /\ w \notin Client
    BY <1>2, <1>5, Handled, IdIsNotNone DEF Known
  <2>2. run'[k] = run[of[w]] + 1
    BY <1>2, <2>1 DEF RunOfNew
  <2>3. ~Succeeded(of[w])
    BY <1>2, <1>5, <2>1 DEF Chained
  <2>4. \A i \in Saved : run[i] # run'[k]
    BY <2>2, <2>3 DEF Succeeded
  <2>5. ASSUME NEW i \in Saved, run[i] = run'[k] + 1 PROVE FALSE
    <3>1. run[i] > 0
      BY <1>1, <2>1, <2>2, <2>5
    <3>2. PICK j \in Saved : run[i] = run[j] + 1
      BY <3>1 DEF Chained
    <3>3. run[j] = run'[k]
      BY <1>1, <2>1, <2>2, <2>5, <3>2
    <3> QED
      BY <2>4, <3>3
  <2>6. MaxRuns > 0 => run'[k] < MaxRuns
    BY <1>2, <1>5, <2>2 DEF Chained
  <2> QED
    BY <1>1, <1>2, <1>3, <1>5, <2>1, <2>2, <2>4, <2>5, <2>6
<1> QED
  BY <1>4, <1>5, Handled

LEMMA ChainedStep ==
  ASSUME Control, Known, Chained, Control', Known', NEW w \in Worker, Act(w)
  PROVE  Chained'
<1>0. /\ Saved \subseteq Id /\ run \in [Id -> Nat] /\ Saved' \subseteq Id
      /\ \A i \in Saved : i \in Saved' /\ run'[i] = run[i]
  <2>1. Saved \subseteq Id /\ run \in [Id -> Nat] /\ Saved' \subseteq Id
    BY DEF Saved, Control, TypeOK
  <2> QED
    BY <2>1, SavedGrows
<1>1. \/ Saved' = Saved
      \/ \E k \in Saved' : k \notin Saved
  BY <1>0
<1>2. ASSUME NEW i \in Saved', run'[i] > 0
      PROVE  \E j \in Saved' : run'[i] = run'[j] + 1
  <2>1. CASE i \in Saved
    <3>1. PICK j \in Saved : run[i] = run[j] + 1
      BY <1>0, <1>2, <2>1 DEF Chained
    <3> QED
      BY <1>0, <2>1, <3>1
  <2>2. CASE i \notin Saved
    BY <1>0, <1>2, <2>2, NewRun
  <2> QED
    BY <2>1, <2>2
<1>3. ASSUME NEW i \in Saved', NEW j \in Saved', run'[i] = run'[j]
      PROVE  i = j
  <2>1. CASE i \in Saved /\ j \in Saved
    BY <1>0, <1>3, <2>1 DEF Chained
  <2>2. CASE i \notin Saved
    BY <1>0, <1>3, <2>2, NewRun
  <2>3. CASE j \notin Saved
    BY <1>0, <1>3, <2>3, NewRun
  <2> QED
    BY <2>1, <2>2, <2>3
<1>4. ASSUME MaxRuns > 0, NEW i \in Saved' PROVE run'[i] < MaxRuns
  BY <1>0, <1>4, NewRun DEF Chained
\* Who had a successor before, and who gets one.
<1>5. ASSUME NEW i \in Saved', NEW j \in Saved', run'[j] = run'[i] + 1
      PROVE  /\ i \in Saved
             /\ \/ Succeeded(i)
                \/ w \in Delivery /\ pc[w] = "save" /\ pc'[w] # "save" /\ i = of[w]
  <2>1. CASE i \notin Saved
    <3>1. run'[i] \in Nat /\ Saved' = Saved \cup {i}
          /\ \A k \in Saved : run'[k] = run[k] /\ run[k] # run'[i] + 1
      BY <2>1, NewRun
    <3> QED
      BY <1>5, <3>1
  <2>2. CASE i \in Saved /\ j \in Saved
    BY <1>0, <1>5, <2>2 DEF Succeeded
  <2>3. CASE i \in Saved /\ j \notin Saved
    <3>1. /\ w \in Delivery /\ pc[w] = "save" /\ of[w] \in Saved
          /\ run'[j] = run[of[w]] + 1
      BY <2>3, NewRun
    <3>2. run[i] = run[of[w]]
      BY <1>0, <1>5, <2>3, <3>1
    <3>3. pc'[w] # "save"
      BY <3>1, Entered, IdIsNotNone DEF Enters
    <3> QED
      BY <2>3, <3>1, <3>2, <3>3 DEF Chained
  <2> QED
    BY <2>1, <2>2, <2>3
<1>6. ASSUME NEW i \in Saved', Succeeded(i)'
      PROVE  status'[i] \in Terminal
  <2>1. /\ i \in Saved /\ status[i] \in Terminal
        /\ w \in Delivery /\ pc[w] = "mark_write" => of[w] # i
    <3>1. i \in Saved /\ (Succeeded(i) \/ (w \in Delivery /\ pc[w] = "save" /\ i = of[w]))
      BY <1>5, <1>6 DEF Succeeded
    <3> QED
      BY <3>1 DEF Chained
  <2>2. pc[w] = "mark_write" => w \in Delivery
    BY Handled DEF Executing, Locking, Scheduling
  <2> QED
    BY <2>1, <2>2, StaysTerminal
<1>7. ASSUME NEW i \in Saved', Succeeded(i)', NEW d \in Delivery, of'[d] = i,
             pc'[d] \in {"mark_write", "exec_write", "save"}
      PROVE  FALSE
  <2>0. d \in Worker
    BY DEF Worker
  <2>1. i \in Saved /\ (Succeeded(i) \/ (w \in Delivery /\ pc[w] = "save" /\ pc'[w] # "save" /\ i = of[w]))
    BY <1>5, <1>7 DEF Succeeded
  <2>2. CASE d # w
    <3>1. pc[d] = pc'[d] /\ of[d] = i
      BY <1>7, <2>0, <2>2, Elsewhere
    <3>2. pc[w] = "save" => w \notin Delivery
      BY <1>7, <2>2, <3>1, WorksAlone DEF Locking, Scheduling
    <3> QED
      BY <1>7, <2>1, <3>1, <3>2 DEF Chained
  <2>3. CASE d = w
    <3>1. Enters(w) /\ w \notin Client
      BY <2>3, Entered, IdIsNotNone
    <3>2. CASE pc'[w] = "mark_write" \/ pc'[w] = "exec_write"
      <4>1. status[i] \notin Terminal /\ pc[w] # "save"
        BY <1>7, <2>3, <3>1, <3>2 DEF Enters, Terminal
      <4> QED
        BY <2>1, <4>1 DEF Chained
    <3>3. CASE pc'[w] = "save"
      <4>1. pc[w] = "exec_write" /\ of[w] = i
        BY <1>7, <2>3, <3>1, <3>3 DEF Enters
      <4> QED
        BY <2>1, <2>3, <4>1 DEF Chained
    <3> QED
      BY <1>7, <2>3, <3>2, <3>3
  <2> QED
    BY <2>2, <2>3
<1>8. ASSUME NEW d \in Delivery, pc'[d] = "save"
      PROVE  status'[of'[d]] \in Terminal /\ (MaxRuns > 0 => run'[of'[d]] + 1 < MaxRuns)
  <2>0. d \in Worker
    BY DEF Worker
  <2>1. CASE d # w
    <3>1. pc[d] = "save" /\ of'[d] = of[d] /\ of[d] \in Saved
      BY <1>8, <2>0, <2>1, Elsewhere, Handled, IdIsNotNone DEF Known
    <3>2. pc[w] # "mark_write"
      BY <2>1, <3>1, WorksAlone, Handled DEF Executing, Locking, Scheduling
    <3> QED
      BY <1>0, <3>1, <3>2, StaysTerminal DEF Chained
  <2>2. CASE d = w
    <3>1. /\ pc[w] = "exec_write" /\ of'[w] = of[w] /\ Recurs(of[w])
          /\ status'[of[w]] = "executed"
      BY <1>8, <2>2, Entered, IdIsNotNone DEF Enters
    <3>2. of[w] \in Saved
      BY <2>2, <3>1, Handled, IdIsNotNone DEF Known
    <3> QED
      BY <1>0, <2>2, <3>1, <3>2 DEF Recurs, Terminal
  <2> QED
    BY <2>1, <2>2
<1> QED
  BY <1>2, <1>3, <1>4, <1>6, <1>7, <1>8 DEF Chained
-----------------------------------------------------------------------------
(* One success for each occurrence *)

\* A turn is given to a record that had none, and what a success leaves behind is settled,
\* or about to be by the delivery that had it; but for the rituals that an error touched.
Succeeding ==
    /\ \A d \in Delivery : pc[d] = "mark_write" => status[of[d]] # "executed"
    /\ \A i \in Id \ faulted : successes[i] <= 1
    /\ \A i \in Id \ faulted : successes[i] > 0 =>
         \/ status[i] \in Terminal
         \/ \E d \in Delivery : of[d] = i /\ pc[d] \in {"exec", "exec_write"}
    /\ \A d \in Delivery : pc[d] \in {"mark_write", "turn"} /\ of[d] \notin faulted
         => successes[of[d]] = 0

\* An error or a death is on the record, and so is that nobody repairs it.
LEMMA FaultedGrows ==
  ASSUME NEW w \in Worker, Act(w)
  PROVE  faulted \subseteq faulted' /\ abandoned \subseteq abandoned'
<1> USE DEF NoFault, Spend, Fail, Abandon, history
<1>1. CASE BeginSchedule(w) \/ BeginCancel(w) \/ Cancel(w) \/ Schedule(w) \/ Fire(w) \/ Crash(w)
  BY <1>1 DEF BeginSchedule, BeginCancel, Cancel, DeleteTask, WriteCancelled, Schedule, Save,
      SaveError, CreateTask, CreateTaskError, Rollback, Patch, Fire, Crash
<1>2. CASE Execute(w)
  BY <1>2 DEF Execute, AcquireLock, AcquireError, MarkRunning, UpdateRunning, MarkError, Turn,
      TurnError, MarkExecuted, UpdateExecuted, ExecutedError, Release, MarkFailed,
      UpdateFailed, FailedError, Ack
<1> QED
  BY <1>1, <1>2 DEF Act

\* How a delivery gets to its turn, and where it goes from there.
Turns(d) ==
    /\ pc'[d] = "turn" =>
         of'[d] = of[d] /\ (pc[d] = "mark_write" \/ of[d] \in faulted')
    /\ pc[d] = "exec" /\ of[d] \notin faulted' =>
         /\ of'[d] = of[d] /\ status' = status
         /\ pc'[d] = "exec_write" \/ status[of[d]] \notin {"pending", "running"}
    /\ pc[d] = "exec_write" /\ of[d] \notin faulted' => status'[of[d]] = "executed"
    /\ pc'[d] = "exec" => pc[d] = "turn" /\ of'[d] = of[d]

LEMMA TurnsTaken ==
  ASSUME Control, NEW d \in Delivery, Act(d)
  PROVE  Turns(d)
<1> USE DEF Turns, GoTo, NoFault, Spend, Fail, Abandon, Return, ScheduleReturns, records, workers
<1>0. /\ pc \in [Worker -> {"idle", "lock", "mark", "mark_write", "turn", "exec", "exec_write",
                          "save", "keeper", "rollback", "patch", "release", "fail",
                          "fail_write", "ack", "cancel_keeper", "cancel_write"}]
      /\ of \in [Worker -> Id \cup {None}] /\ status \in [Id -> Status]
      /\ d \in Worker /\ d \notin Client /\ None \notin Id
      /\ pc[d] # "idle" => of[d] \in Id
  BY Handled, IdIsNotNone DEF Control, TypeOK, Worker
<1>1. CASE Schedule(d)
  BY <1>0, <1>1 DEF Schedule, Save, SaveError, CreateTask, CreateTaskError, Rollback, Patch
<1>2. CASE Fire(d) \/ AcquireLock(d) \/ AcquireError(d) \/ Crash(d)
  BY <1>0, <1>2 DEF Fire, AcquireLock, AcquireError, Crash
<1>3. CASE MarkRunning(d) \/ UpdateRunning(d) \/ MarkError(d)
  BY <1>0, <1>3 DEF MarkRunning, UpdateRunning, MarkError
<1>4. CASE Turn(d) \/ TurnError(d) \/ MarkExecuted(d)
  BY <1>0, <1>4 DEF Turn, TurnError, MarkExecuted
<1>5. CASE UpdateExecuted(d) \/ ExecutedError(d)
  BY <1>0, <1>5 DEF UpdateExecuted, ExecutedError, SetStatus
<1>6. CASE Release(d)
  BY <1>0, <1>6, ReleaseGoes DEF Release, Control
<1>7. CASE MarkFailed(d) \/ UpdateFailed(d) \/ FailedError(d) \/ Ack(d)
  BY <1>0, <1>7 DEF MarkFailed, UpdateFailed, FailedError, Ack
<1> QED
  BY <1>0, <1>1, <1>2, <1>3, <1>4, <1>5, <1>6, <1>7 DEF Act, Execute

LEMMA SucceedingStep ==
  ASSUME Control, Known, Succeeding, NEW w \in Worker, Act(w)
  PROVE  Succeeding'
<1>0. /\ successes \in [Id -> Nat] /\ status \in [Id -> Status]
      /\ faulted \subseteq faulted'
      /\ \A d \in Delivery : d \in Worker /\ (pc[d] # "idle" => of[d] \in Id)
      /\ \A d \in Delivery, e \in Delivery : pc[d] \in Locking /\ pc[e] \in Locking => d = e
  BY FaultedGrows, Handled, WorksAlone DEF Control, TypeOK, Worker
<1>1. ASSUME NEW d \in Delivery, d # w
      PROVE  pc'[d] = pc[d] /\ of'[d] = of[d]
  BY <1>0, <1>1, Elsewhere
<1>2. \A i \in Id : successes'[i] # successes[i] =>
        /\ w \in Delivery /\ pc[w] = "turn" /\ i = of[w] /\ pc'[w] = "exec"
        /\ successes'[i] = successes[i] + 1 /\ status' = status
  BY Counted
<1>3. Enters(w) /\ (w \in Delivery => Turns(w))
  BY Entered, TurnsTaken
<1>4. ASSUME NEW d \in Delivery, pc'[d] = "mark_write"
      PROVE  status'[of'[d]] # "executed"
  <2>1. CASE d # w
    <3>1. pc[d] = "mark_write" /\ of'[d] = of[d] /\ of[d] \in Id
      BY <1>0, <1>1, <1>4, <2>1
    <3>2. pc[w] # "exec_write"
      BY <1>0, <2>1, <3>1, Handled DEF Executing, Locking, Scheduling
    <3>3. Writes(w, of[d])
      BY <3>1, StatusWritten
    <3> QED
      BY <3>1, <3>2, <3>3 DEF Writes, Succeeding
  <2>2. CASE d = w
    BY <1>3, <1>4, <2>2 DEF Enters, Terminal
  <2> QED
    BY <2>1, <2>2
<1>5. ASSUME NEW d \in Delivery, pc'[d] \in {"mark_write", "turn"}, of'[d] \notin faulted'
      PROVE  successes'[of'[d]] = 0
  <2>1. CASE d # w
    <3>1. pc[d] \in {"mark_write", "turn"} /\ of'[d] = of[d] /\ of[d] \in Id
      BY <1>0, <1>1, <1>5, <2>1
    <3>2. w \in Delivery => pc[w] # "turn"
      BY <1>0, <2>1, <3>1 DEF Locking
    <3> QED
      BY <1>0, <1>2, <1>5, <3>1, <3>2 DEF Succeeding
  <2>2. CASE d = w /\ pc'[w] = "turn"
    <3>1. of'[w] = of[w] /\ pc[w] = "mark_write"
      BY <1>3, <1>5, <2>2 DEF Turns
    <3> QED
      BY <1>0, <1>2, <1>5, <2>2, <3>1 DEF Succeeding
  <2>3. CASE d = w /\ pc'[w] = "mark_write"
    <3>1. pc[w] = "mark" /\ of'[w] = of[w] /\ status[of[w]] \notin Terminal
      BY <1>3, <2>3 DEF Enters
    <3>2. of[w] \in Id \ faulted /\ successes'[of[w]] = successes[of[w]]
      BY <1>0, <1>2, <1>5, <2>3, <3>1
    <3>3. \A e \in Delivery : pc[e] \notin {"exec", "exec_write"}
      BY <1>0, <2>3, <3>1 DEF Locking
    <3>4. ~(successes[of[w]] > 0)
      BY <3>1, <3>2, <3>3 DEF Succeeding
    <3> QED
      BY <1>0, <2>3, <3>1, <3>2, <3>4
  <2> QED
    BY <1>5, <2>1, <2>2, <2>3
<1>6. ASSUME NEW i \in Id \ faulted' PROVE successes'[i] <= 1
  <2>1. CASE successes'[i] = successes[i]
    BY <1>0, <2>1 DEF Succeeding
  <2>2. CASE successes'[i] # successes[i]
    <3>1. w \in Delivery /\ pc[w] = "turn" /\ i = of[w] /\ successes'[i] = successes[i] + 1
      BY <1>2, <2>2
    <3>2. successes[i] = 0
      BY <1>0, <3>1 DEF Succeeding
    <3> QED
      BY <3>1, <3>2
  <2> QED
    BY <2>1, <2>2
<1>7. ASSUME NEW i \in Id \ faulted', successes'[i] > 0
      PROVE  \/ status'[i] \in Terminal
             \/ \E d \in Delivery : of'[d] = i /\ pc'[d] \in {"exec", "exec_write"}
  <2>1. CASE successes'[i] # successes[i]
    BY <1>2, <1>3, <2>1 DEF Turns
  <2>2. CASE successes'[i] = successes[i] /\ status[i] \in Terminal
    <3>1. i \in Saved /\ pc[w] = "mark_write" => of[w] # i
      <4>1. i \in Saved
        BY <2>2 DEF Saved, Terminal
      <4>2. pc[w] = "mark_write" => w \in Delivery
        BY Handled DEF Executing, Locking, Scheduling
      <4> QED
        BY <1>0, <1>7, <2>2, <4>1, <4>2 DEF Succeeding
    <3> QED
      BY <1>0, <1>7, <2>2, <3>1, StaysTerminal DEF Saved, Terminal
  <2>3. ASSUME NEW d \in Delivery, of[d] = i, pc[d] \in {"exec", "exec_write"},
               status[i] \notin Terminal
        PROVE  \/ status'[i] \in Terminal
               \/ \E e \in Delivery : of'[e] = i /\ pc'[e] \in {"exec", "exec_write"}
    <3>1. CASE d # w
      BY <1>1, <2>3, <3>1
    <3>2. CASE d = w /\ pc[d] = "exec"
      <4>1. status[i] \in {"absent", "pending", "running"} /\ i \in Saved
        BY <1>0, <1>7, <2>3, IdIsNotNone DEF Known, Status, Terminal
      <4>2. status[i] \in {"pending", "running"}
        BY <4>1 DEF Saved
      <4> QED
        BY <1>3, <1>7, <2>3, <3>2, <4>2 DEF Turns
    <3>3. CASE d = w /\ pc[d] = "exec_write"
      BY <1>3, <1>7, <2>3, <3>3 DEF Turns, Terminal
    <3> QED
      BY <2>3, <3>1, <3>2, <3>3
  <2> QED
    BY <1>0, <1>7, <2>1, <2>2, <2>3 DEF Succeeding
<1> QED
  BY <1>4, <1>5, <1>6, <1>7 DEF Succeeding
-----------------------------------------------------------------------------
(* No pending record is left behind *)

\* A delivery past these points leaves a record that is not pending.
Settled(d) ==
    pc[d] \in {"ack"} \cup Scheduling \/ (pc[d] = "release" /\ outcome[d] = "success")
\* What a pending record waits for.
Attended(i) ==
    \/ task[i] = "queued"
    \/ \E w \in Worker : new[w] = i /\ pc[w] \in {"keeper", "rollback"}
    \/ \E c \in Client : of[c] = i /\ pc[c] = "cancel_write"
Tended ==
    /\ \A d \in Delivery : Settled(d) => of[d] \in abandoned \/ status[of[d]] # "pending"
    /\ \A i \in Id \ abandoned : status[i] = "pending" => Attended(i)

\* How a step leaves the record it was about to save, to cancel, to acknowledge.
Leaves(w) ==
    /\ w \in Delivery /\ Settled(w)' =>
         /\ of'[w] = of[w]
         /\ \/ Settled(w) \/ of[w] \in abandoned'
            \/ status[of[w]] # "pending" /\ status' = status
            \/ status'[of[w]] \in {"executed", "failed"}
    /\ pc[w] = "save" =>
         \/ pc'[w] = "keeper"
         \/ new[w] \in faulted' /\ (new[w] \in abandoned' \/ status' = status)
    /\ pc[w] = "keeper" =>
         \/ task'[new[w]] = "queued" \/ new[w] \in abandoned'
         \/ pc'[w] = "rollback" /\ new'[w] = new[w]
    /\ pc[w] = "rollback" => new[w] \in abandoned' \/ status'[new[w]] = "cancelled"
    /\ pc[w] = "cancel_keeper" =>
         task' = task \/ (pc'[w] = "cancel_write" /\ of'[w] = of[w])
    /\ pc[w] = "cancel_write" => of[w] \in abandoned' \/ status'[of[w]] = "cancelled"

LEMMA Left ==
  ASSUME Control, NEW w \in Worker, Act(w)
  PROVE  Leaves(w)
<1> USE DEF Leaves, Settled, GoTo, NoFault, Spend, Fail, Abandon, Return, ScheduleReturns, records, workers,
      Scheduling
<1>0. /\ pc \in [Worker -> {"idle", "lock", "mark", "mark_write", "turn", "exec", "exec_write",
                          "save", "keeper", "rollback", "patch", "release", "fail",
                          "fail_write", "ack", "cancel_keeper", "cancel_write"}]
      /\ of \in [Worker -> Id \cup {None}] /\ new \in [Worker -> Id \cup {None}]
      /\ status \in [Id -> Status] /\ task \in [Id -> {"none", "queued", "gone"}]
      /\ outcome \in [Delivery -> {"success", "rejected", "retriable"}]
      /\ Delivery \cap Client = {} /\ None \notin Id
      /\ pc[w] \in Scheduling => new[w] \in Id
      /\ w \in Delivery /\ pc[w] # "idle" => of[w] \in Id
      /\ pc[w] \in {"cancel_keeper", "cancel_write"} => of[w] \in Id /\ w \notin Delivery
  BY Handled, IdIsNotNone DEF Control, TypeOK, Cancelling
<1>1. CASE w \in Client /\ (BeginSchedule(w) \/ BeginCancel(w))
  BY <1>0, <1>1 DEF BeginSchedule, BeginCancel
<1>2. CASE w \in Client /\ DeleteTask(w)
  BY <1>0, <1>2 DEF DeleteTask
<1>3. CASE w \in Client /\ WriteCancelled(w)
  BY <1>0, <1>3 DEF WriteCancelled, SetStatus
<1>4. CASE Save(w) \/ SaveError(w)
  BY <1>0, <1>4 DEF Save, SaveError, SetStatus
<1>5. CASE CreateTask(w) \/ CreateTaskError(w)
  BY <1>0, <1>5 DEF CreateTask, CreateTaskError
<1>6. CASE Rollback(w) \/ Patch(w)
  <2>1. CASE Rollback(w)
    BY <1>0, <2>1 DEF Rollback, SetStatus
  <2>2. CASE Patch(w)
    BY <1>0, <2>2 DEF Patch
  <2> QED
    BY <1>6, <2>1, <2>2
<1>7. CASE w \in Delivery /\ (Fire(w) \/ AcquireLock(w) \/ AcquireError(w))
  BY <1>0, <1>7 DEF Fire, AcquireLock, AcquireError
<1>8. CASE w \in Delivery /\ (MarkRunning(w) \/ UpdateRunning(w) \/ MarkError(w))
  BY <1>0, <1>8 DEF MarkRunning, UpdateRunning, MarkError
<1>9. CASE w \in Delivery /\ (Turn(w) \/ TurnError(w) \/ MarkExecuted(w))
  BY <1>0, <1>9 DEF Turn, TurnError, MarkExecuted
<1>10. CASE w \in Delivery /\ (UpdateExecuted(w) \/ ExecutedError(w))
  BY <1>0, <1>10 DEF UpdateExecuted, ExecutedError, SetStatus
<1>11. CASE w \in Delivery /\ Release(w)
  BY <1>0, <1>11, ReleaseGoes DEF Release, Control
<1>12. CASE w \in Delivery /\ (MarkFailed(w) \/ UpdateFailed(w) \/ FailedError(w))
  BY <1>0, <1>12 DEF MarkFailed, UpdateFailed, FailedError, SetStatus
<1>13. CASE w \in Delivery /\ Ack(w)
  BY <1>0, <1>13 DEF Ack
<1>14. CASE Crash(w)
  BY <1>0, <1>14 DEF Crash
<1> QED
  BY <1>1, <1>2, <1>3, <1>4, <1>5, <1>6, <1>7, <1>8, <1>9, <1>10, <1>11, <1>12, <1>13, <1>14
  DEF Act, Cancel, Schedule, Execute

LEMMA TendedStep ==
  ASSUME Control, Known, Tended, NEW w \in Worker, Act(w)
  PROVE  Tended'
<1>0. /\ abandoned \subseteq abandoned' /\ Saved \subseteq Id /\ None \notin Id
      /\ \A v \in Worker : pc[v] \in Scheduling => new[v] \in Id
      /\ \A d \in Delivery : d \in Worker /\ d \notin Client
      /\ \A c \in Client : c \in Worker
      /\ \A d \in Delivery : pc[d] # "idle" => of[d] \in Id
  BY FaultedGrows, Handled, IdIsNotNone DEF Worker, Saved
<1>1. ASSUME NEW v \in Worker, v # w
      PROVE  /\ pc'[v] = pc[v] /\ of'[v] = of[v] /\ new'[v] = new[v]
             /\ v \in Delivery => outcome'[v] = outcome[v]
  BY <1>1, Elsewhere
<1>2. Enters(w) /\ Leaves(w)
  BY Entered, Left
\* Only a new record becomes pending.
<1>3. ASSUME NEW i \in Id, status'[i] = "pending", status[i] # "pending"
      PROVE  pc[w] = "save" /\ i = new[w] /\ i \notin Saved
  <2>1. Writes(w, i)
    BY StatusWritten
  <2>2. pc[w] = "save" /\ i = new[w]
    BY <1>3, <2>1 DEF Writes
  <2> QED
    BY <1>0, <2>2 DEF Known
<1>4. ASSUME NEW d \in Delivery, Settled(d)'
      PROVE  of'[d] \in abandoned' \/ status'[of'[d]] # "pending"
  <2>1. CASE d # w
    <3>1. Settled(d) /\ of'[d] = of[d]
      BY <1>0, <1>1, <1>4, <2>1 DEF Settled
    <3>2. of[d] \in Id /\ of[d] \in Saved
      BY <1>0, <3>1 DEF Settled, Scheduling, Known
    <3> QED
      BY <1>0, <1>3, <3>1, <3>2 DEF Tended
  <2>2. CASE d = w
    <3>1. /\ of'[w] = of[w]
          /\ \/ Settled(w) \/ of[w] \in abandoned'
             \/ status[of[w]] # "pending" /\ status' = status
             \/ status'[of[w]] \in {"executed", "failed"}
      BY <1>2, <1>4, <2>2 DEF Leaves
    <3>2. Settled(w) => of[w] \in Id /\ of[w] \in Saved
      BY <1>0, <2>2 DEF Settled, Scheduling, Known
    <3> QED
      BY <1>0, <1>3, <2>2, <3>1, <3>2 DEF Tended
  <2> QED
    BY <2>1, <2>2
<1>5. ASSUME NEW i \in Id \ abandoned', status'[i] = "pending"
      PROVE  Attended(i)'
  <2>1. CASE status[i] # "pending"
    <3>1. pc[w] = "save" /\ i = new[w]
      BY <1>3, <1>5, <2>1
    <3>2. pc'[w] = "keeper" /\ new'[w] = new[w]
      <4>1. status' # status
        BY <1>5, <2>1
      <4> QED
        BY <1>2, <1>5, <3>1, <4>1 DEF Leaves, Enters
    <3> QED
      BY <3>1, <3>2 DEF Attended
  <2>2. CASE status[i] = "pending" /\ task[i] = "queued"
    <3>1. CASE task'[i] = task[i]
      BY <2>2, <3>1 DEF Attended
    <3>2. CASE pc[w] = "keeper" /\ i = new[w]
      BY <1>2, <1>5, <3>2 DEF Leaves, Attended
    <3>3. CASE pc[w] = "ack" /\ i = of[w]
      <4>1. w \in Delivery /\ Settled(w)
        BY <3>3, Handled DEF Settled, Executing, Locking, Scheduling
      <4> QED
        BY <1>0, <1>5, <2>2, <3>3, <4>1 DEF Tended
    <3>4. CASE pc[w] = "cancel_keeper" /\ i = of[w]
      <4>1. w \in Client
        BY <3>4, Handled DEF Cancelling
      <4>2. task' = task \/ (pc'[w] = "cancel_write" /\ of'[w] = of[w])
        BY <1>2, <3>4 DEF Leaves
      <4> QED
        BY <3>1, <3>4, <4>1, <4>2 DEF Attended
    <3> QED
      BY <3>1, <3>2, <3>3, <3>4, Counted
  <2>3. ASSUME status[i] = "pending", NEW v \in Worker, new[v] = i, pc[v] \in {"keeper", "rollback"}
        PROVE  Attended(i)'
    <3>1. CASE v # w
      BY <1>1, <2>3, <3>1 DEF Attended
    <3>2. CASE v = w
      BY <1>2, <1>5, <2>3, <3>2 DEF Leaves, Attended
    <3> QED
      BY <3>1, <3>2
  <2>4. ASSUME status[i] = "pending", NEW c \in Client, of[c] = i, pc[c] = "cancel_write"
        PROVE  Attended(i)'
    <3>1. CASE c # w
      BY <1>0, <1>1, <2>4, <3>1 DEF Attended
    <3>2. CASE c = w
      BY <1>2, <1>5, <2>4, <3>2 DEF Leaves
    <3> QED
      BY <3>1, <3>2
  <2>5. status[i] = "pending" => Attended(i)
    BY <1>0, <1>5 DEF Tended
  <2> QED
    BY <2>1, <2>2, <2>3, <2>4, <2>5 DEF Attended
<1> QED
  BY <1>4, <1>5 DEF Tended
-----------------------------------------------------------------------------
(* The invariant, and what follows from it *)

RitualInvariant == Control /\ Known /\ Chained /\ Succeeding /\ Tended

LEMMA RitualInvariantHolds == Spec => []RitualInvariant
<1>1. Init => RitualInvariant
  <2> SUFFICES ASSUME Init PROVE RitualInvariant
    OBVIOUS
  <2>1. Control
    BY IdIsNotNone, CountsAssumption
    DEF Init, Control, TypeOK, Shaped, Worker, Status, Scheduling, Cancelling, Locking, Executing
  <2>2. Saved = {} /\ \A w \in Worker : pc[w] = "idle" /\ of[w] = None /\ new[w] = None
    BY DEF Init, Saved
  <2>3. Known
    BY <2>2 DEF Init, Known, Worker
  <2>4. Chained
    BY <2>2 DEF Chained, Worker
  <2>5. Succeeding
    BY <2>2 DEF Init, Succeeding, Worker
  <2>6. Tended
    BY <2>2 DEF Init, Tended, Settled, Scheduling, Worker
  <2> QED
    BY <2>1, <2>3, <2>4, <2>5, <2>6 DEF RitualInvariant
<1>2. RitualInvariant /\ [Next]_vars => RitualInvariant'
  <2> SUFFICES ASSUME RitualInvariant, [Next]_vars PROVE RitualInvariant'
    OBVIOUS
  <2>1. ASSUME NEW w \in Worker, Act(w) PROVE RitualInvariant'
    <3>1. Control'
      BY ControlStep DEF RitualInvariant
    <3>2. Known'
      BY <2>1, <3>1, KnownStep DEF RitualInvariant
    <3> QED
      BY <2>1, <3>1, <3>2, ChainedStep, SucceedingStep, TendedStep DEF RitualInvariant
  <2>2. CASE UNCHANGED vars
    <3>1. /\ UNCHANGED <<status, run, task, lock, pc, of, new, outcome, successes, faulted, abandoned>>
          /\ Saved' = Saved
      BY <2>2 DEF vars, records, workers, history, Saved
    <3>2. Control'
      BY ControlStep DEF RitualInvariant
    <3>3. Known' /\ Chained' /\ Succeeding' /\ Tended'
      BY <3>1 DEF RitualInvariant, Known, Chained, Succeeded, Succeeding, Tended, Settled, Attended
    <3> QED
      BY <3>2, <3>3 DEF RitualInvariant
  <2> QED
    BY <2>1, <2>2, NextActs
<1> QED
  BY <1>1, <1>2, PTL DEF Spec

\* For every number of deliveries, clients and occurrences: an occurrence succeeds once, the
\* runs of a recurring ritual are one chain, and there are no more than MaxRuns of them
\* (ritual_service.go, MarkRunning, MarkExecuted, scheduleNextOccurrence).
THEOREM RunsOnceHolds == Spec => []RunsOnce
<1>1. RitualInvariant => SucceedsOnce
  BY DEF RitualInvariant, Succeeding, SucceedsOnce
<1>2. RitualInvariant => OneSuccessor
  BY DEF RitualInvariant, Chained, Saved, OneSuccessor
<1>3. RitualInvariant => AtMostMaxRuns
  <2> SUFFICES ASSUME RitualInvariant, MaxRuns > 0
               PROVE  Cardinality({i \in Id : successes[i] > 0}) <= MaxRuns
    BY DEF AtMostMaxRuns
  <2> DEFINE Ran == {i \in Id : successes[i] > 0}
  <2>1. /\ MaxRuns \in Nat
        /\ \A i \in Ran : run[i] \in 0..(MaxRuns - 1)
        /\ \A i, j \in Ran : run[i] = run[j] => i = j
    BY CountsAssumption DEF RitualInvariant, Control, TypeOK, Known, Chained, Saved
  <2>2. IsFiniteSet(0..(MaxRuns - 1)) /\ Cardinality(0..(MaxRuns - 1)) = MaxRuns
    BY <2>1, FS_Interval
  <2>3. [i \in Ran |-> run[i]] \in Injection(Ran, 0..(MaxRuns - 1))
    BY <2>1 DEF Injection, IsInjective
  <2> HIDE DEF Ran
  <2>4. Cardinality(Ran) <= Cardinality(0..(MaxRuns - 1))
    BY <2>2, <2>3, FS_Injection
  <2> QED
    BY <2>2, <2>4 DEF Ran
<1> QED
  BY <1>1, <1>2, <1>3, RitualInvariantHolds, PTL DEF RunsOnce

\* Whoever schedules, delivers and cancels, and whatever fails: a record does not stay pending
\* without a task or a caller at work on it, also when its task could not be created, unless
\* the code gave it up (ritual_service.go, Schedule with its rollback, Cancel, MarkFailed).
THEOREM NoPhantomIsPending == Spec => []NoPhantomPending
<1>1. RitualInvariant => NoPhantomPending
  BY DEF RitualInvariant, Tended, Attended, NoPhantomPending, Worker
<1> QED
  BY <1>1, RitualInvariantHolds, PTL

\* No step takes a terminal record back, but MarkRunning's write over a cancellation or a
\* failure that came after its read (ritual_service.go, MarkRunning).
THEOREM TerminalStaysFinal == Spec => TerminalIsFinal
<1>1. RitualInvariant /\ [Next]_vars =>
        [\A i \in Id : status[i] \in Terminal /\ status'[i] \notin Terminal
           => /\ status[i] # "executed"
              /\ \E d \in Delivery : of[d] = i /\ pc[d] = "mark_write"]_status
  <2> SUFFICES ASSUME RitualInvariant, [Next]_vars, NEW i \in Id,
                      status[i] \in Terminal, status'[i] \notin Terminal
               PROVE  /\ status[i] # "executed"
                      /\ \E d \in Delivery : of[d] = i /\ pc[d] = "mark_write"
    OBVIOUS
  <2>1. PICK w \in Worker : Act(w)
    BY NextActs DEF vars, records
  <2>2. i \in Saved
    BY DEF Saved, Terminal
  <2>3. pc[w] = "mark_write" /\ of[w] = i
    BY <2>1, <2>2, StaysTerminal DEF RitualInvariant
  <2>4. w \in Delivery
    BY <2>3, Handled DEF RitualInvariant, Executing, Locking, Scheduling
  <2> QED
    BY <2>3, <2>4 DEF RitualInvariant, Succeeding
<1> QED
  BY <1>1, RitualInvariantHolds, PTL DEF Spec, TerminalIsFinal
-----------------------------------------------------------------------------
(* What ends a recurrence *)

\* Cloud Tasks has one request open at a time.
OneDelivery == \A d, e \in Delivery : d = e

\* Where a delivery is after its turn, until the handler has answered.
Finishing == {"exec", "exec_write", "release"} \cup Scheduling

\* With one delivery and no error: a task is new to the deliveries when it is created, the
\* record of a turn is marked when the turn is over, nothing brings an occurrence that
\* succeeded back, and what schedules its successor is on its way until there is one.
Continuing ==
    /\ \A w \in Worker : pc[w] = "keeper" =>
         /\ task[new[w]] # "queued" /\ successes[new[w]] = 0
         /\ \A d \in Delivery : of[d] # new[w]
    /\ \A d \in Delivery : pc[d] # "release" => outcome[d] = "success"
    /\ \A d \in Delivery : pc[d] \in {"mark_write", "turn", "exec", "exec_write"}
         => status[of[d]] \in {"pending", "running", "cancelled"}
    /\ \A i \in Id : successes[i] > 0 =>
         \A d \in Delivery :
           \/ of[d] = i /\ pc[d] \in Finishing \cup {"ack"} /\ outcome[d] = "success"
           \/ of[d] # i /\ task[i] # "queued"
    /\ \A i \in Id : successes[i] > 0 /\ Recurs(i) /\ status[i] # "cancelled" =>
         \/ Succeeded(i)
         \/ \E d \in Delivery : of[d] = i /\ pc[d] \in {"exec", "exec_write", "save"}

\* How a delivery that meets no error takes up a task and ends its turn.
Finishes(d) ==
    /\ of'[d] \notin {None, of[d]} => task[of'[d]] = "queued"
    /\ pc'[d] # "release" =>
         outcome'[d] = "success" \/ (pc[d] # "release" /\ outcome'[d] = outcome[d])
    /\ pc[d] \in Finishing /\ outcome[d] = "success" =>
         of'[d] = of[d] /\ outcome'[d] = "success" /\ pc'[d] \in Finishing \cup {"ack"}
    /\ pc[d] = "exec_write" /\ Recurs(of[d]) => pc'[d] = "save"
    /\ pc[d] = "ack" => of'[d] = None /\ task'[of[d]] = "gone"

LEMMA Finished ==
  ASSUME Control, NEW d \in Delivery, Act(d), faulted' = {}
  PROVE  Finishes(d)
<1> USE DEF Finishes, Finishing, GoTo, NoFault, Spend, Fail, Abandon, Return, ScheduleReturns, records, workers,
      Scheduling
<1>0. /\ pc \in [Worker -> {"idle", "lock", "mark", "mark_write", "turn", "exec", "exec_write",
                          "save", "keeper", "rollback", "patch", "release", "fail",
                          "fail_write", "ack", "cancel_keeper", "cancel_write"}]
      /\ of \in [Worker -> Id \cup {None}] /\ new \in [Worker -> Id \cup {None}]
      /\ outcome \in [Delivery -> {"success", "rejected", "retriable"}]
      /\ task \in [Id -> {"none", "queued", "gone"}]
      /\ d \in Worker /\ d \notin Client /\ None \notin Id
      /\ pc[d] # "idle" => of[d] \in Id
      /\ pc[d] \in Scheduling => new[d] \in Id
  BY Handled, IdIsNotNone DEF Control, TypeOK, Worker
<1>1. CASE Save(d) \/ SaveError(d)
  BY <1>0, <1>1 DEF Save, SaveError
<1>2. CASE CreateTask(d) \/ CreateTaskError(d) \/ Rollback(d) \/ Patch(d)
  BY <1>0, <1>2 DEF CreateTask, CreateTaskError, Rollback, Patch
<1>3. CASE Fire(d) \/ AcquireLock(d) \/ AcquireError(d)
  BY <1>0, <1>3 DEF Fire, AcquireLock, AcquireError
<1>4. CASE MarkRunning(d) \/ UpdateRunning(d) \/ MarkError(d)
  BY <1>0, <1>4 DEF MarkRunning, UpdateRunning, MarkError
<1>5. CASE Turn(d) \/ TurnError(d) \/ MarkExecuted(d)
  BY <1>0, <1>5 DEF Turn, TurnError, MarkExecuted
<1>6. CASE UpdateExecuted(d) \/ ExecutedError(d)
  BY <1>0, <1>6 DEF UpdateExecuted, ExecutedError
<1>7. CASE Release(d)
  BY <1>0, <1>7, ReleaseGoes DEF Release, Control
<1>8. CASE MarkFailed(d) \/ UpdateFailed(d) \/ FailedError(d) \/ Ack(d)
  BY <1>0, <1>8 DEF MarkFailed, UpdateFailed, FailedError, Ack
<1>9. CASE Crash(d)
  BY <1>0, <1>9 DEF Crash
<1> QED
  BY <1>0, <1>1, <1>2, <1>3, <1>4, <1>5, <1>6, <1>7, <1>8, <1>9 DEF Act, Schedule, Execute

\* Only CreateTask queues a task.
LEMMA QueuedByCreate ==
  ASSUME Control, NEW w \in Worker, Act(w), NEW i \in Id,
         task'[i] = "queued", task[i] # "queued"
  PROVE  pc[w] = "keeper" /\ i = new[w]
<1>1. task \in [Id -> {"none", "queued", "gone"}]
  BY DEF Control, TypeOK
<1>2. CASE DeleteTask(w) \/ Ack(w)
  BY <1>1, <1>2 DEF DeleteTask, Ack
<1>3. pc[w] \in {"ack", "cancel_keeper"} => DeleteTask(w) \/ Ack(w) \/ task' = task
  BY DEF Act, BeginSchedule, BeginCancel, Cancel, WriteCancelled, Fire, Execute, AcquireLock,
      AcquireError, MarkRunning, UpdateRunning, MarkError, Turn, TurnError, MarkExecuted,
      UpdateExecuted, ExecutedError, Release, MarkFailed, UpdateFailed, FailedError, Schedule,
      Save, SaveError, CreateTask, CreateTaskError, Rollback, Patch, Crash, records
<1> QED
  BY <1>2, <1>3, Counted

\* A worker that is about to create a task has just saved the record.
LEMMA KeeperAfterSave ==
  ASSUME Control, NEW w \in Worker, Act(w), pc'[w] = "keeper"
  PROVE  Save(w)
<1> USE DEF GoTo, Return, ScheduleReturns
<1>0. pc \in [Worker -> {"idle", "lock", "mark", "mark_write", "turn", "exec", "exec_write",
                        "save", "keeper", "rollback", "patch", "release", "fail",
                        "fail_write", "ack", "cancel_keeper", "cancel_write"}]
  BY DEF Control, TypeOK
<1>1. ~(BeginSchedule(w) \/ BeginCancel(w) \/ Cancel(w) \/ Crash(w))
  BY <1>0 DEF BeginSchedule, BeginCancel, Cancel, DeleteTask, WriteCancelled, Crash
<1>2. ~(SaveError(w) \/ CreateTask(w) \/ CreateTaskError(w) \/ Rollback(w) \/ Patch(w))
  BY <1>0 DEF SaveError, CreateTask, CreateTaskError, Rollback, Patch
<1>3. ~(Fire(w) \/ AcquireLock(w) \/ AcquireError(w) \/ MarkRunning(w) \/ UpdateRunning(w)
          \/ MarkError(w) \/ Turn(w) \/ TurnError(w) \/ MarkExecuted(w) \/ UpdateExecuted(w)
          \/ ExecutedError(w))
  BY <1>0 DEF Fire, AcquireLock, AcquireError, MarkRunning, UpdateRunning, MarkError, Turn,
      TurnError, MarkExecuted, UpdateExecuted, ExecutedError
<1>4. ~(w \in Delivery /\ Release(w))
  BY <1>0, ReleaseGoes DEF Control
<1>5. ~(MarkFailed(w) \/ UpdateFailed(w) \/ FailedError(w) \/ Ack(w))
  BY <1>0 DEF MarkFailed, UpdateFailed, FailedError, Ack
<1> QED
  BY <1>1, <1>2, <1>3, <1>4, <1>5 DEF Act, Schedule, Execute

LEMMA ContinuingStep ==
  ASSUME Control, Known, Continuing, OneDelivery, NEW w \in Worker, Act(w), faulted' = {}
  PROVE  Continuing'
<1>0. /\ successes \in [Id -> Nat] /\ status \in [Id -> Status] /\ run \in [Id -> Nat]
      /\ None \notin Id /\ Saved \subseteq Id
      /\ \A d \in Delivery : d \in Worker /\ d \notin Client /\ (pc[d] # "idle" => of[d] \in Id)
      /\ \A v \in Worker : pc[v] \in Scheduling => new[v] \in Id
      /\ \A v \in Worker : v \in Delivery \/ v \in Client
  BY Handled, IdIsNotNone DEF Control, TypeOK, Worker, Saved
<1>1. ASSUME NEW v \in Worker, v # w
      PROVE  /\ pc'[v] = pc[v] /\ of'[v] = of[v] /\ new'[v] = new[v]
             /\ v \in Delivery => outcome'[v] = outcome[v]
  BY <1>1, Elsewhere
<1>2. /\ Enters(w) /\ Leaves(w)
      /\ w \in Delivery => Turns(w) /\ Finishes(w) /\ \A d \in Delivery : d = w
  BY Entered, Left, TurnsTaken, Finished DEF OneDelivery
<1>3. \A i \in Id :
        /\ Writes(w, i)
        /\ task'[i] = "queued" /\ task[i] # "queued" => pc[w] = "keeper" /\ i = new[w]
        /\ successes'[i] # successes[i] =>
             /\ w \in Delivery /\ pc[w] = "turn" /\ i = of[w] /\ pc'[w] = "exec"
             /\ status' = status
  BY StatusWritten, QueuedByCreate, Counted
<1>4. pc[w] \in Executing \ Scheduling => w \in Delivery
  BY Handled
<1>5. /\ \A d \in Delivery : pc[d] # "idle" => of[d] \in Saved
      /\ pc[w] = "save" => new[w] \notin Saved
      /\ \A i \in Id : successes[i] > 0 \/ task[i] # "none" => i \in Saved
  BY <1>0 DEF Known, Scheduling
\* The id that is about to have its task.
<1>6. ASSUME NEW v \in Worker, pc'[v] = "keeper"
      PROVE  /\ task'[new'[v]] # "queued" /\ successes'[new'[v]] = 0
             /\ \A d \in Delivery : of'[d] # new'[v]
  <2>1. CASE v = w
    <3>1. /\ pc[w] = "save" /\ new'[w] = new[w] /\ of' = of
          /\ task' = task /\ successes' = successes
      BY <1>6, <2>1, KeeperAfterSave DEF Save, GoTo, workers
    <3>2. new[w] \in Id /\ new[w] \notin Saved
      BY <1>0, <1>5, <3>1 DEF Scheduling
    <3>3. \A d \in Delivery : of[d] # new[w]
      BY <1>0, <3>2 DEF Known
    <3> QED
      BY <1>0, <1>5, <2>1, <3>1, <3>2, <3>3
  <2>2. CASE v # w
    <3>1. pc[v] = "keeper" /\ new'[v] = new[v] /\ new[v] \in Id
      BY <1>0, <1>1, <1>6, <2>2 DEF Scheduling
    <3>2. /\ task[new[v]] # "queued" /\ successes[new[v]] = 0
          /\ \A d \in Delivery : of[d] # new[v]
      BY <3>1 DEF Continuing
    <3>3. pc[w] = "keeper" => new[w] # new[v]
      BY <1>0, <2>2, <3>1 DEF Known
    <3>4. task'[new[v]] # "queued" /\ successes'[new[v]] = 0
      BY <1>3, <3>1, <3>2, <3>3
    <3>5. \A d \in Delivery : of'[d] # new[v]
      BY <1>0, <1>1, <1>2, <3>1, <3>2 DEF Finishes
    <3> QED
      BY <3>1, <3>4, <3>5
  <2> QED
    BY <2>1, <2>2
<1>7. ASSUME NEW d \in Delivery, pc'[d] # "release"
      PROVE  outcome'[d] = "success"
  BY <1>0, <1>1, <1>2, <1>7 DEF Continuing, Finishes
<1>8. ASSUME NEW d \in Delivery, pc'[d] \in {"mark_write", "turn", "exec", "exec_write"}
      PROVE  status'[of'[d]] \in {"pending", "running", "cancelled"}
  <2>1. CASE d # w
    <3>1. /\ pc[d] \in {"mark_write", "turn", "exec", "exec_write"} /\ of'[d] = of[d]
          /\ of[d] \in Saved /\ of[d] \in Id /\ w \notin Delivery
      BY <1>0, <1>1, <1>2, <1>5, <1>8, <2>1
    <3>2. pc[w] \notin {"mark_write", "exec_write", "fail_write"}
      BY <1>4, <3>1 DEF Executing, Locking, Scheduling
    <3> QED
      BY <1>3, <1>5, <3>1, <3>2 DEF Continuing, Writes
  <2>2. CASE d = w /\ pc'[w] \in {"mark_write", "exec_write"}
    <3>1. of'[w] = of[w] /\ status' = status /\ pc[w] \in {"mark", "exec"}
          /\ (pc[w] = "mark" => status[of[w]] \notin Terminal)
      BY <1>2, <1>8, <2>2 DEF Enters
    <3>2. of[w] \in Saved
      BY <1>5, <2>2, <3>1
    <3> QED
      BY <1>0, <2>2, <3>1, <3>2 DEF Continuing, Saved, Status, Terminal
  <2>3. CASE d = w /\ pc'[w] \in {"turn", "exec"}
    <3>1. of'[w] = of[w] /\ pc[w] \in {"mark_write", "turn"}
      BY <1>2, <1>8, <2>3 DEF Turns
    <3>2. of[w] \in Id /\ Writes(w, of[w])
      BY <1>0, <1>3, <2>3, <3>1
    <3> QED
      BY <2>3, <3>1, <3>2 DEF Continuing, Writes
  <2> QED
    BY <1>8, <2>1, <2>2, <2>3
<1>9. ASSUME NEW i \in Id, successes'[i] > 0, NEW d \in Delivery
      PROVE  \/ of'[d] = i /\ pc'[d] \in Finishing \cup {"ack"} /\ outcome'[d] = "success"
             \/ of'[d] # i /\ task'[i] # "queued"
  <2>1. CASE successes'[i] # successes[i]
    <3>1. d = w /\ pc[w] = "turn" /\ i = of[w] /\ pc'[w] = "exec"
      BY <1>2, <1>3, <2>1
    <3> QED
      BY <1>2, <1>7, <3>1 DEF Turns, Finishing
  <2>2. CASE successes[i] > 0 /\ of[d] = i /\ d # w
    BY <1>0, <1>1, <2>2 DEF Continuing
  <2>3. CASE successes[i] > 0 /\ of[w] = i /\ d = w /\ pc[w] \in Finishing
    BY <1>2, <2>3 DEF Continuing, Finishes
  <2>4. CASE successes[i] > 0 /\ of[w] = i /\ d = w /\ pc[w] = "ack"
    BY <1>0, <1>2, <2>4 DEF Finishes
  <2>5. CASE successes[i] > 0 /\ of[d] # i
    <3>1. task[i] # "queued"
      BY <2>5 DEF Continuing
    <3>2. task'[i] # "queued"
      BY <1>3, <2>5, <3>1 DEF Continuing
    <3>3. of'[d] # i
      BY <1>0, <1>1, <1>2, <2>5, <3>1 DEF Finishes
    <3> QED
      BY <3>2, <3>3
  <2>6. successes[i] > 0 => of[d] # i \/ pc[d] \in Finishing \cup {"ack"}
    BY DEF Continuing
  <2> QED
    BY <1>9, <2>1, <2>2, <2>3, <2>4, <2>5, <2>6
<1>10. ASSUME NEW i \in Id, successes'[i] > 0, Recurs(i)', status'[i] # "cancelled"
       PROVE  \/ Succeeded(i)'
              \/ \E d \in Delivery : of'[d] = i /\ pc'[d] \in {"exec", "exec_write", "save"}
  <2>1. i \in Saved
    BY <1>0, <1>3, <1>5, <1>10
  <2>2. /\ run'[i] = run[i] /\ Recurs(i)
        /\ Succeeded(i) => Succeeded(i)'
    BY <1>0, <1>10, <2>1, SavedGrows DEF Recurs, Succeeded
  <2>3. CASE successes'[i] # successes[i]
    BY <1>2, <1>3, <2>3 DEF Turns
  <2>4. ASSUME successes[i] > 0, pc[w] = "exec_write", of[w] = i
        PROVE  w \in Delivery /\ of'[w] = i /\ pc'[w] = "save"
    <3>1. w \in Delivery /\ outcome[w] = "success"
      BY <1>4, <2>4 DEF Continuing, Executing, Locking, Scheduling
    <3> QED
      BY <1>2, <2>2, <2>4, <3>1 DEF Finishes, Finishing
  <2>5. CASE successes[i] > 0 /\ status[i] = "cancelled"
    <3>1. pc[w] \notin {"mark_write", "fail_write"} \/ of[w] # i
      BY <1>4, <2>5 DEF Continuing, Finishing, Executing, Locking, Scheduling
    <3>2. pc[w] = "exec_write" /\ of[w] = i
      BY <1>3, <1>5, <1>10, <2>1, <2>5, <3>1 DEF Writes
    <3> QED
      BY <2>4, <2>5, <3>2
  <2>6. CASE successes[i] > 0 /\ status[i] # "cancelled" /\ Succeeded(i)
    BY <2>2, <2>6
  <2>7. ASSUME successes[i] > 0, status[i] # "cancelled",
               NEW d \in Delivery, of[d] = i, pc[d] \in {"exec", "exec_write", "save"}
        PROVE  \/ Succeeded(i)'
               \/ \E e \in Delivery : of'[e] = i /\ pc'[e] \in {"exec", "exec_write", "save"}
    <3>1. CASE d # w
      BY <1>0, <1>1, <2>7, <3>1
    <3>2. CASE d = w /\ pc[w] = "exec"
      <4>1. status[i] \in {"pending", "running"}
        BY <2>7, <3>2 DEF Continuing
      <4> QED
        BY <1>2, <2>7, <3>2, <4>1 DEF Turns
    <3>3. CASE d = w /\ pc[w] = "exec_write"
      BY <2>4, <2>7, <3>3
    <3>4. CASE d = w /\ pc[w] = "save"
      <4>1. new[w] \in Id /\ new[w] \notin Saved /\ w \notin Client
        BY <1>0, <1>5, <3>4 DEF Scheduling
      <4>2. pc'[w] = "keeper"
        BY <1>2, <3>4 DEF Leaves
      <4>3. status'[new[w]] = "pending"
        BY <1>2, <3>4, <4>2 DEF Enters
      <4>4. new[w] \in Saved' /\ run'[new[w]] = run[i] + 1
        BY <2>7, <3>4, <4>1, <4>3, SavedGrows DEF Saved, RunOfNew
      <4> QED
        BY <2>2, <4>4 DEF Succeeded
    <3> QED
      BY <2>7, <3>1, <3>2, <3>3, <3>4
  <2>8. successes[i] > 0 /\ status[i] # "cancelled" =>
          \/ Succeeded(i)
          \/ \E d \in Delivery : of[d] = i /\ pc[d] \in {"exec", "exec_write", "save"}
    BY <2>2 DEF Continuing
  <2> QED
    BY <1>0, <1>10, <2>3, <2>5, <2>6, <2>7, <2>8
<1> QED
  BY <1>6, <1>7, <1>8, <1>9, <1>10 DEF Continuing

\* With one request open at a time and no error a recurrence never ends early: once nobody
\* works on it any more, an occurrence that succeeded and was not cancelled has its successor.
\* The second delivery is the one reason it may have none (ritual_service.go, MarkRunning,
\* MarkExecuted, MarkFailed, scheduleNextOccurrence; schedule_handler.go).
THEOREM RecurrenceContinuesAlone ==
  OneDelivery => (Spec => [](faulted = {} => RecurrenceContinues))
<1> SUFFICES ASSUME OneDelivery PROVE Spec => [](faulted = {} => RecurrenceContinues)
  OBVIOUS
<1>1. Init => (faulted = {} => Continuing)
  BY DEF Init, Continuing, Worker
<1>2. RitualInvariant /\ (faulted = {} => Continuing) /\ [Next]_vars
        => (faulted = {} => Continuing)'
  <2> SUFFICES ASSUME RitualInvariant, faulted = {} => Continuing, [Next]_vars, faulted' = {}
               PROVE  Continuing'
    OBVIOUS
  <2>1. ASSUME NEW w \in Worker, Act(w) PROVE Continuing'
    <3>1. faulted = {}
      BY <2>1, FaultedGrows
    <3> QED
      BY <2>1, <3>1, ContinuingStep DEF RitualInvariant
  <2>2. CASE UNCHANGED vars
    <3>1. /\ UNCHANGED <<status, run, task, pc, of, new, outcome, successes, faulted>>
          /\ Saved' = Saved
      BY <2>2 DEF vars, records, workers, history, Saved
    <3> QED
      BY <3>1 DEF Continuing, Recurs, Succeeded
  <2> QED
    BY <2>1, <2>2, NextActs
<1>3. RitualInvariant /\ (faulted = {} => Continuing)
        => (faulted = {} => RecurrenceContinues)
  <2> SUFFICES ASSUME Continuing, NEW i \in Id, successes[i] > 0, Recurs(i),
                      status[i] # "cancelled", \A w \in Worker : of[w] # i
               PROVE  \E j \in Id : status[j] # "absent" /\ run[j] = run[i] + 1
    BY DEF RecurrenceContinues
  <2>1. Succeeded(i)
    BY DEF Continuing, Worker
  <2> QED
    BY <2>1 DEF Succeeded, Saved
<1> QED
  BY <1>1, <1>2, <1>3, RitualInvariantHolds, PTL DEF Spec
=============================================================================
