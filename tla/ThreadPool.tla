----------------------------- MODULE ThreadPool -----------------------------
(***************************************************************************)
(* shared/ThreadPool: an owner thread fills a workload, publishes it to    *)
(* the workers, waits for the future and starts over; at the end it        *)
(* destroys the pool.  Every owner in the program keeps to that order      *)
(* (World::Update, MapManager::Update, Map and SqlResultQueue::Update wait *)
(* for the future of each workload), so the owner here does too.           *)
(*                                                                         *)
(* A task is its number, in the order in which tasks are added.  The hooks *)
(* `pre' and `post', which run around a worker's share, are left out.      *)
(***************************************************************************)
EXTENDS Integers, Sequences

CONSTANTS
    Size,        \* m_size: worker threads
    Kinds,       \* the kinds of worker that the instance has pools of
    Clears,      \* ... the clear modes
    Handlings,   \* ... and the error handlings
    MaxTasks     \* bound: tasks ever added

ASSUME SizeAssumption == Size \in Nat
ASSUME ModeAssumption ==
    /\ Kinds \subseteq {"SQ", "MQ"}
    /\ Clears \subseteq {"UPPON_COMPLETION", "AT_NEXT_WORKLOAD"}
    /\ Handlings \subseteq {"NONE", "IGNORE", "LOG", "TERMINATE"}
ASSUME BoundsAssumption == MaxTasks \in Nat

VARIABLES
    mode,        \* what the pool was constructed with; it never changes
    status,      \* m_status
    workload,    \* m_workload
    dirty,       \* m_dirty
    active,      \* m_active
    shared,      \* m_index
    own,         \* worker_mq::it of each worker
    busy,        \* worker::busy
    pc,          \* where each worker is in loop()
    task,        \* the index each worker took
    future,      \* the state shared by m_result and the owner's future
    owner,       \* where the owner is
    added,       \* tasks added so far
    ran,         \* how often each task was started
    batch,       \* the tasks of the workload published last
    errors       \* m_errors

vars == <<mode, status, workload, dirty, active, shared, own, busy, pc, task, future,
          owner, added, ran, batch, errors>>

poolVars  == <<status, workload, dirty, active, shared, own, busy, pc, task>>
ghostVars == <<ran, batch, errors>>

Kind == mode.kind           \* "SQ" or "MQ": worker_sq or worker_mq
Clear == mode.clear         \* m_clearMode
Handling == mode.handling   \* m_errorHandling

Workers == 0 .. Size - 1
Tasks == 1 .. MaxTasks

Statuses == {"STOPPED", "READY", "PROCESSING", "TERMINATING"}
PCs == {"check", "waiting", "start", "fetch", "run", "finish", "decrement",
        "last", "signal", "exited"}
OwnerPCs == {"idle", "publish", "wait", "destroy", "joined"}

Least(a, b) == IF a <= b THEN a ELSE b

TasksOf(load) == {load[k] : k \in 1 .. Len(load)}

-----------------------------------------------------------------------------
\* A plausible slip: m_dirty is not looked at.
AddTask_keeps_old_load ==
    /\ owner = "idle"
    /\ added < MaxTasks
    /\ added' = added + 1
    /\ workload' = Append(workload, added + 1)
    /\ dirty' = FALSE
    /\ UNCHANGED <<status, active, shared, own, busy, pc, task, future, owner, ghostVars>>

\* operator<<, between two workloads.
AddTask ==
    /\ owner = "idle"
    /\ added < MaxTasks
    /\ added' = added + 1
    /\ IF Clear = "AT_NEXT_WORKLOAD" /\ dirty
       THEN workload' = <<added + 1>> /\ dirty' = FALSE
       ELSE workload' = Append(workload, added + 1) /\ UNCHANGED dirty
    /\ UNCHANGED <<status, active, shared, own, busy, pc, task, future, owner, ghostVars>>

\* processWorkload() up to the lock: the load is reset and the status set
\* before any worker is told.  Without work, or when the pool never started,
\* the owner gets an invalid future and goes on.
Publish(load, isDirty) ==
    IF status # "READY" \/ load = <<>>
    THEN /\ workload' = load
         /\ dirty' = isDirty
         /\ UNCHANGED <<status, active, shared, future, owner, batch>>
    ELSE /\ workload' = load
         /\ dirty' = TRUE
         /\ future' = "pending"
         /\ active' = Least(Size, Len(load))
         /\ shared' = 0
         /\ status' = "PROCESSING"
         /\ batch' = TasksOf(load)
         /\ owner' = "publish"

\* processWorkload(): on what operator<< gathered.
ProcessWorkload ==
    /\ owner = "idle"
    /\ IF Clear = "AT_NEXT_WORKLOAD" /\ status = "READY" /\ dirty
       THEN Publish(<<>>, FALSE) ELSE Publish(workload, dirty)
    /\ UNCHANGED <<own, busy, pc, task, added, ran, errors>>

\* processWorkload(workload_t): the owner brings n new tasks.
ProcessNewWorkload(n) ==
    /\ owner = "idle"
    /\ added + n <= MaxTasks
    /\ added' = added + n
    /\ IF status # "READY"
       THEN UNCHANGED <<workload, dirty, status, active, shared, future, owner, batch>>
       ELSE Publish([k \in 1 .. n |-> added + k], FALSE)
    /\ UNCHANGED <<own, busy, pc, task, ran, errors>>

\* A plausible slip: the waiting workers are not notified.
PrepareWorkers_silently ==
    /\ owner = "publish"
    /\ busy' = [w \in Workers |-> busy[w] \/ w < active]
    /\ own' = [w \in Workers |-> IF w < active THEN w ELSE own[w]]
    /\ owner' = "wait"
    /\ UNCHANGED <<status, workload, dirty, active, shared, pc, task, future, added, ghostVars>>

\* The rest of processWorkload, under the exclusive lock: prepare() on the
\* first m_active workers, then notify_all.
PrepareWorkers ==
    /\ owner = "publish"
    /\ busy' = [w \in Workers |-> busy[w] \/ w < active]
    /\ own' = [w \in Workers |-> IF w < active THEN w ELSE own[w]]
    /\ pc' = [w \in Workers |-> IF pc[w] = "waiting" THEN "check" ELSE pc[w]]
    /\ owner' = "wait"
    /\ UNCHANGED <<status, workload, dirty, active, shared, task, future, added, ghostVars>>

\* job.wait() returns.
Waited ==
    /\ owner = "wait"
    /\ future = "ready"
    /\ owner' = "idle"
    /\ future' = "none"
    /\ UNCHANGED <<poolVars, added, ghostVars>>

\* ~ThreadPool: under the exclusive lock the status is set and everyone is
\* notified; then ~worker joins each thread.
Destroy ==
    /\ owner = "idle"
    /\ status' = "TERMINATING"
    /\ pc' = [w \in Workers |-> IF pc[w] = "waiting" THEN "check" ELSE pc[w]]
    /\ owner' = "destroy"
    /\ UNCHANGED <<workload, dirty, active, shared, own, busy, task, future, added, ghostVars>>

Joined ==
    /\ owner = "destroy"
    /\ \A w \in Workers : pc[w] = "exited"
    /\ owner' = "joined"
    /\ UNCHANGED <<poolVars, future, added, ghostVars>>

-----------------------------------------------------------------------------
Goto(w, where) == pc' = [pc EXCEPT ![w] = where]

\* waitForWork, the test of the loop, under the shared lock: the worker goes
\* on, or gives the lock up and waits in one step.
CheckForWork(w) ==
    /\ pc[w] = "check"
    /\ Goto(w, IF busy[w] \/ status = "TERMINATING" THEN "start" ELSE "waiting")
    /\ UNCHANGED <<status, workload, dirty, active, shared, own, busy, task, future,
                   owner, added, ghostVars>>

\* A condition variable may wake up for no reason.
SpuriousWakeUp(w) ==
    /\ pc[w] = "waiting"
    /\ Goto(w, "check")
    /\ UNCHANGED <<status, workload, dirty, active, shared, own, busy, task, future,
                   owner, added, ghostVars>>

StartWork(w) ==
    /\ pc[w] = "start"
    /\ Goto(w, IF status = "TERMINATING" THEN "exited" ELSE "fetch")
    /\ UNCHANGED <<status, workload, dirty, active, shared, own, busy, task, future,
                   owner, added, ghostVars>>

\* A plausible slip: the last task of the load is not reached.
Fetch_misses_last(w) ==
    /\ pc[w] = "fetch"
    /\ LET i == IF Kind = "SQ" THEN shared ELSE own[w]
           more == i < Len(workload) - 1 /\ status = "PROCESSING"
       IN /\ task' = [task EXCEPT ![w] = i]
          /\ shared' = IF Kind = "SQ" THEN shared + 1 ELSE shared
          /\ own' = IF Kind = "MQ" /\ more THEN [own EXCEPT ![w] = @ + Size] ELSE own
          /\ Goto(w, IF more THEN "run" ELSE "finish")
    /\ UNCHANGED <<status, workload, dirty, active, busy, future, owner, added, ghostVars>>

\* doWork: take the next index, from the index all workers share or from
\* the worker's own arithmetic progression.
Fetch(w) ==
    /\ pc[w] = "fetch"
    /\ LET i == IF Kind = "SQ" THEN shared ELSE own[w]
           more == i < Len(workload) /\ status = "PROCESSING"
       IN /\ task' = [task EXCEPT ![w] = i]
          /\ shared' = IF Kind = "SQ" THEN shared + 1 ELSE shared
          /\ own' = IF Kind = "MQ" /\ more THEN [own EXCEPT ![w] = @ + Size] ELSE own
          /\ Goto(w, IF more THEN "run" ELSE "finish")
    /\ UNCHANGED <<status, workload, dirty, active, busy, future, owner, added, ghostVars>>

RunTask(w) ==
    /\ pc[w] = "run"
    /\ ran' = [ran EXCEPT ![workload[task[w] + 1]] = @ + 1]
    /\ Goto(w, "fetch")
    /\ UNCHANGED <<status, workload, dirty, active, shared, own, busy, task, future,
                   owner, added, batch, errors>>

\* The task throws and loop_wrapper catches: `busy' is still set, so the
\* worker resumes its share at once, unless the mode ends the whole pool.
\* With NONE nothing catches and the process ends.
TaskThrows(w) ==
    /\ pc[w] = "run"
    /\ Handling # "NONE"
    /\ LET t == workload[task[w] + 1] IN
       /\ ran' = [ran EXCEPT ![t] = @ + 1]
       /\ errors' = IF Handling = "IGNORE" THEN errors ELSE Append(errors, t)
    /\ status' = IF Handling = "TERMINATE" THEN "TERMINATING" ELSE status
    /\ Goto(w, IF Handling = "TERMINATE" THEN "exited" ELSE "check")
    /\ UNCHANGED <<workload, dirty, active, shared, own, busy, task, future, owner, added, batch>>

Finish(w) ==
    /\ pc[w] = "finish"
    /\ busy' = [busy EXCEPT ![w] = FALSE]
    /\ Goto(w, "decrement")
    /\ UNCHANGED <<status, workload, dirty, active, shared, own, task, future,
                   owner, added, ghostVars>>

\* A plausible slip: the last worker but one takes itself for the last.
Decrement_too_early(w) ==
    /\ pc[w] = "decrement"
    /\ active' = active - 1
    /\ Goto(w, IF active <= 2 THEN "last" ELSE "check")
    /\ UNCHANGED <<status, workload, dirty, shared, own, busy, task, future,
                   owner, added, ghostVars>>

Decrement(w) ==
    /\ pc[w] = "decrement"
    /\ active' = active - 1
    /\ Goto(w, IF active = 1 THEN "last" ELSE "check")
    /\ UNCHANGED <<status, workload, dirty, shared, own, busy, task, future,
                   owner, added, ghostVars>>

\* The last worker clears the load and makes the pool ready...
MakeReady(w) ==
    /\ pc[w] = "last"
    /\ IF Clear = "UPPON_COMPLETION"
       THEN workload' = <<>> /\ dirty' = FALSE
       ELSE UNCHANGED <<workload, dirty>>
    /\ status' = "READY"
    /\ Goto(w, "signal")
    /\ UNCHANGED <<active, shared, own, busy, task, future, owner, added, ghostVars>>

\* ...and only then fulfils the promise.
Signal(w) ==
    /\ pc[w] = "signal"
    /\ future' = "ready"
    /\ Goto(w, "check")
    /\ UNCHANGED <<status, workload, dirty, active, shared, own, busy, task,
                   owner, added, ghostVars>>

-----------------------------------------------------------------------------
\* After start(), which does nothing to a pool of size 0.
Init ==
    /\ mode \in [kind : Kinds, clear : Clears, handling : Handlings]
    /\ status = IF Size = 0 THEN "STOPPED" ELSE "READY"
    /\ workload = <<>>
    /\ dirty = FALSE
    /\ active = 0
    /\ shared = 0
    /\ own = [w \in Workers |-> 0]
    /\ busy = [w \in Workers |-> FALSE]
    /\ pc = [w \in Workers |-> "check"]
    /\ task = [w \in Workers |-> 0]
    /\ future = "none"
    /\ owner = "idle"
    /\ added = 0
    /\ ran = [t \in Tasks |-> 0]
    /\ batch = {}
    /\ errors = <<>>

OwnerStep ==
    \/ AddTask
    \/ ProcessWorkload
    \/ \E n \in 0 .. MaxTasks : ProcessNewWorkload(n)
    \/ PrepareWorkers
    \/ Waited
    \/ Destroy
    \/ Joined

WorkerStep(w) ==
    \/ CheckForWork(w) \/ StartWork(w) \/ Fetch(w) \/ RunTask(w) \/ TaskThrows(w)
    \/ Finish(w) \/ Decrement(w) \/ MakeReady(w) \/ Signal(w)

Next ==
    /\ UNCHANGED mode
    /\ \/ OwnerStep
       \/ \E w \in Workers : WorkerStep(w) \/ SpuriousWakeUp(w)

Spec == Init /\ [][Next]_vars

\* Threads are scheduled; the owner need not add more work, but a call it
\* has begun goes on.  No fairness for spurious wake-ups.
Fairness ==
    /\ \A w \in Workers : WF_vars(WorkerStep(w) /\ UNCHANGED mode)
    /\ WF_vars((PrepareWorkers \/ Waited \/ Joined) /\ UNCHANGED mode)

FairSpec == Spec /\ Fairness

-----------------------------------------------------------------------------
\* The state has the types the code declares.
TypeOK ==
    /\ mode \in [kind : Kinds, clear : Clears, handling : Handlings]
    /\ status \in Statuses
    /\ workload \in Seq(Tasks)
    /\ dirty \in BOOLEAN
    /\ active \in Int
    /\ shared \in Nat
    /\ own \in [Workers -> Nat]
    /\ busy \in [Workers -> BOOLEAN]
    /\ pc \in [Workers -> PCs]
    /\ task \in [Workers -> Nat]
    /\ future \in {"none", "pending", "ready"}
    /\ owner \in OwnerPCs
    /\ added \in 0 .. MaxTasks
    /\ ran \in [Tasks -> Nat]
    /\ batch \subseteq Tasks
    /\ errors \in Seq(Tasks)

\* No task is started twice: not by two workers that race for the index, not
\* by a worker that resumes after an exception, not by a later workload that
\* still holds the tasks of the one before (m_dirty and the clear modes).
TaskStartedOnce == \A t \in Tasks : ran[t] <= 1

\* While the owner may change m_workload, which no lock protects, no worker
\* is anywhere near it.
WorkloadNotShared ==
    owner = "idle" =>
        \A w \in Workers : pc[w] \in {"check", "waiting"} \/ status = "TERMINATING"

\* No wake-up is missed: a worker that sleeps on m_waitForWork has nothing to do
\* and nobody joins it, although `busy' and the status are changed by other
\* threads; and while the owner waits for its future somebody is awake who will
\* fulfil it, unless an exception has ended the pool.
NoMissedWakeUp ==
    /\ \A w \in Workers :
          pc[w] = "waiting" => ~busy[w] /\ owner \notin {"destroy", "joined"}
    /\ owner = "wait" /\ future = "pending" /\ status # "TERMINATING" =>
          \E w \in Workers : pc[w] \notin {"waiting", "exited"}

\* The owner never waits for a worker that missed a notification.
\* processWorkload is answered: none is counted in m_active without ever
\* counting itself out, except that an exception under TERMINATE leaves its
\* worker counted for ever.  And the join in the destructor returns.
OwnerReturns ==
    /\ (owner = "publish" /\ Handling # "TERMINATE") ~> (owner = "idle")
    /\ (owner = "destroy") ~> (owner = "joined")

\* To its owner the pool is a TaskBatch: job.wait() returns only when every
\* task of the workload has run, and nothing runs outside a workload.
Waiting == owner \in {"publish", "wait"}
Batch == INSTANCE TaskBatch WITH
             waiting <- Waiting,
             left <- IF Waiting THEN {t \in batch : ran[t] = 0} ELSE {}
ImplementsTaskBatch == Batch!Spec
=============================================================================
