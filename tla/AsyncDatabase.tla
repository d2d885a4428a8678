---------------------------- MODULE AsyncDatabase ----------------------------
(***************************************************************************)
(* The asynchronous half of shared/Database: client threads hand SQL       *)
(* operations to `Database`, which keeps them in one shared delay queue    *)
(* and in one serial queue per worker; the SqlDelayThread workers execute  *)
(* them, and StopServer shuts everything down.                             *)
(*                                                                         *)
(* An operation is known by its number: operation i is the i-th one that a *)
(* client submitted, and issued[i] describes it.  What a statement says is *)
(* left out, and so is whether the server accepts it: every caller of      *)
(* SqlOperation::Execute in the worker ignores the result.                 *)
(***************************************************************************)
EXTENDS Integers, Sequences, Queues

CONSTANTS
    Threads,      \* threads that call Database: world, map, network, main
    NumWorkers,   \* <name>Database.WorkerThreads of mangosd.conf
    SerialIds,    \* the non-zero serial ids: player GUID counters
    MaxOps        \* bound: operations submitted

ASSUME NumWorkersAssumption == NumWorkers \in Nat
ASSUME SerialIdsAssumption == SerialIds \subseteq Nat \ {0}
ASSUME BoundsAssumption == MaxOps \in Nat

VARIABLES
    phase,           \* where Master is between start and the end of StopServer
    haltAt,          \* loop index of HaltDelayThread and of m_threadsBodies.clear()
    allowAsync,      \* m_bAllowAsyncTransactions
    numAsyncWorkers, \* m_numAsyncWorkers
    trans,           \* m_TransStorage: serial id of each thread's open transaction
    issued,          \* every operation submitted, in order
    delayQueue,      \* m_delayQueue
    serialQueue,     \* m_serialDelayQueue of each worker
    running,         \* m_running of each worker
    pc,              \* where each worker is in run()/ProcessRequests()
    current,         \* the operation a worker took off a queue and executes
    done,            \* operations whose Execute() has returned
    results          \* m_pResultQueue: queries whose callback is to be run

vars == <<phase, haltAt, allowAsync, numAsyncWorkers, trans, issued,
          delayQueue, serialQueue, running, pc, current, done, results>>

clientVars == <<allowAsync, numAsyncWorkers, trans, issued>>
haltVars   == <<phase, haltAt, allowAsync, numAsyncWorkers>>
workerVars == <<running, pc, current>>

Workers == 0 .. NumWorkers - 1
Serials == {0} \union SerialIds

\* The four subclasses of SqlOperation that reach a queue.
Kinds == {"plain", "trans", "query", "holder"}

\* Where a submitted operation goes.
Routes == {"direct", "shared", "serial"}

Operation == [kind: Kinds, serial: Serials, route: Routes]

\* TransHelper::m_pTrans == nullptr.
NoTrans == -1

Phases == {"startup", "running", "stop", "join", "destroy", "cancel", "closed"}
PCs == {"loop", "shared", "execShared", "serial", "execSerial", "exited", "gone"}

-----------------------------------------------------------------------------
InTransaction(t) == trans[t] # NoTrans

\* Clients call Database from the start of the program until Master has
\* joined them, before it calls StopServer.
ClientsRun == phase \in {"startup", "running"}

\* A plausible slip: serial operations share the common queue.
RouteOf_ignores_serial(serial) == "shared"

\* AddToSerialDelayQueue's choice of queue.
RouteOf(serial) ==
    IF serial = 0 \/ numAsyncWorkers = 0 THEN "shared" ELSE "serial"

\* A plausible slip: the serial id is reduced modulo one too many.
Submit_off_by_one(kind, serial, route) ==
    /\ Len(issued) < MaxOps
    /\ issued' = Append(issued, [kind |-> kind, serial |-> serial, route |-> route])
    /\ LET id == Len(issued) + 1 IN
       /\ delayQueue' = IF route = "shared" THEN Append(delayQueue, id) ELSE delayQueue
       /\ serialQueue' = IF route = "serial"
                         THEN [serialQueue EXCEPT ![serial % (numAsyncWorkers + 1)] = Append(@, id)]
                         ELSE serialQueue
       /\ done' = IF route = "direct" THEN done \union {id} ELSE done

Submit(kind, serial, route) ==
    /\ Len(issued) < MaxOps
    /\ issued' = Append(issued, [kind |-> kind, serial |-> serial, route |-> route])
    /\ LET id == Len(issued) + 1 IN
       /\ delayQueue' = IF route = "shared" THEN Append(delayQueue, id) ELSE delayQueue
       /\ serialQueue' = IF route = "serial"
                         THEN [serialQueue EXCEPT ![serial % numAsyncWorkers] = Append(@, id)]
                         ELSE serialQueue
       /\ done' = IF route = "direct" THEN done \union {id} ELSE done

\* Database::Execute and Database::ExecuteStmt outside a transaction: the
\* statement is run at once during startup and queued later.  In a
\* transaction it only joins the statements that the commit will submit; the
\* module SqlTransaction has them.
Execute(t) ==
    /\ ClientsRun
    /\ ~InTransaction(t)
    /\ Submit("plain", 0, IF allowAsync THEN "shared" ELSE "direct")
    /\ UNCHANGED <<haltVars, workerVars, trans, results>>

\* DirectExecute and DirectPExecute: on m_pAsyncConn, in the caller's thread,
\* past its open transaction and past every queue.
DirectExecute ==
    /\ ClientsRun
    /\ Submit("plain", 0, "direct")
    /\ UNCHANGED <<haltVars, workerVars, trans, results>>

\* A second BeginTransaction in the same thread returns false and changes
\* nothing: the statements that follow join the transaction already open.
BeginTransaction(t, serialId) ==
    /\ ClientsRun
    /\ ~InTransaction(t)
    /\ trans' = [trans EXCEPT ![t] = serialId]
    /\ UNCHANGED <<haltVars, workerVars, issued, delayQueue, serialQueue, done, results>>

CommitTransaction(t) ==
    /\ ClientsRun
    /\ InTransaction(t)
    /\ Submit("trans", trans[t], IF ~allowAsync THEN "direct" ELSE RouteOf(trans[t]))
    /\ trans' = [trans EXCEPT ![t] = NoTrans]
    /\ UNCHANGED <<haltVars, workerVars, results>>

RollbackTransaction(t) ==
    /\ ClientsRun
    /\ InTransaction(t)
    /\ trans' = [trans EXCEPT ![t] = NoTrans]
    /\ UNCHANGED <<haltVars, workerVars, issued, delayQueue, serialQueue, done, results>>

\* AsyncQuery and AsyncPQuery: always queued, whatever the startup flag says.
AsyncQuery ==
    /\ ClientsRun
    /\ Submit("query", 0, "shared")
    /\ UNCHANGED <<haltVars, workerVars, trans, results>>

\* DelayQueryHolder and SqlQueryHolder::Execute.
DelayQueryHolder(serialId) ==
    /\ ClientsRun
    /\ Submit("holder", serialId, RouteOf(serialId))
    /\ UNCHANGED <<haltVars, workerVars, trans, results>>

\* The world thread runs the callbacks that wait in the result queue; the
\* module SqlResultQueue has the detail.
ProcessResultQueue ==
    /\ ClientsRun
    /\ results # <<>>
    /\ results' = <<>>
    /\ UNCHANGED <<clientVars, phase, haltAt, delayQueue, serialQueue, done, workerVars>>

-----------------------------------------------------------------------------
\* A plausible slip: the loop does not test m_running.
LoopTest_for_ever(w) ==
    /\ pc[w] = "loop"
    /\ pc' = [pc EXCEPT ![w] = "shared"]
    /\ UNCHANGED <<clientVars, phase, haltAt, delayQueue, serialQueue, done,
                   running, current, results>>

\* SqlDelayThread::run, the test of the loop; the sleep that follows it is
\* the time a worker may spend before its next step.
LoopTest(w) ==
    /\ pc[w] = "loop"
    /\ pc' = [pc EXCEPT ![w] = IF running[w] THEN "shared" ELSE "exited"]
    /\ UNCHANGED <<clientVars, phase, haltAt, delayQueue, serialQueue, done,
                   running, current, results>>

\* A plausible slip: the operation is copied from the queue, not taken.
NextDelayedOperation_peeks(w) ==
    /\ pc[w] = "shared"
    /\ IF delayQueue = <<>>
       THEN /\ pc' = [pc EXCEPT ![w] = "serial"]
            /\ UNCHANGED current
       ELSE /\ pc' = [pc EXCEPT ![w] = "execShared"]
            /\ current' = [current EXCEPT ![w] = Head(delayQueue)]
    /\ UNCHANGED <<clientVars, phase, haltAt, delayQueue, serialQueue, done, running, results>>

\* A plausible slip: an empty delay queue ends the round.
NextDelayedOperation_skips_serial(w) ==
    /\ pc[w] = "shared"
    /\ IF delayQueue = <<>>
       THEN /\ pc' = [pc EXCEPT ![w] = "loop"]
            /\ UNCHANGED <<delayQueue, current>>
       ELSE /\ pc' = [pc EXCEPT ![w] = "execShared"]
            /\ current' = [current EXCEPT ![w] = Head(delayQueue)]
            /\ delayQueue' = Tail(delayQueue)
    /\ UNCHANGED <<clientVars, phase, haltAt, serialQueue, done, running, results>>

\* ProcessRequests, first loop: the queue all workers share.
NextDelayedOperation(w) ==
    /\ pc[w] = "shared"
    /\ IF delayQueue = <<>>
       THEN /\ pc' = [pc EXCEPT ![w] = "serial"]
            /\ UNCHANGED <<delayQueue, current>>
       ELSE /\ pc' = [pc EXCEPT ![w] = "execShared"]
            /\ current' = [current EXCEPT ![w] = Head(delayQueue)]
            /\ delayQueue' = Tail(delayQueue)
    /\ UNCHANGED <<clientVars, phase, haltAt, serialQueue, done, running, results>>

\* ProcessRequests, second loop: the worker's own queue.  The same code runs
\* in the destructor, where it is the last thing done for this worker.
NextSerialOperation(w) ==
    /\ pc[w] = "serial"
    /\ IF serialQueue[w] = <<>>
       THEN /\ pc' = [pc EXCEPT ![w] = IF phase = "destroy" THEN "gone" ELSE "loop"]
            /\ UNCHANGED <<serialQueue, current>>
       ELSE /\ pc' = [pc EXCEPT ![w] = "execSerial"]
            /\ current' = [current EXCEPT ![w] = Head(serialQueue[w])]
            /\ serialQueue' = [serialQueue EXCEPT ![w] = Tail(@)]
    /\ UNCHANGED <<clientVars, phase, haltAt, delayQueue, done, running, results>>

\* SqlOperation::Execute on the worker's connection; a query and a query
\* holder then hand their callback to the result queue.
ExecuteOperation(w) ==
    /\ pc[w] \in {"execShared", "execSerial"}
    /\ done' = done \union {current[w]}
    /\ results' = IF issued[current[w]].kind \in {"query", "holder"}
                  THEN Append(results, current[w]) ELSE results
    /\ pc' = [pc EXCEPT ![w] = IF @ = "execShared" THEN "shared" ELSE "serial"]
    /\ current' = [current EXCEPT ![w] = 0]
    /\ UNCHANGED <<clientVars, phase, haltAt, delayQueue, serialQueue, running>>

-----------------------------------------------------------------------------
\* Master::Run, once the world is loaded.
AllowAsyncTransactions ==
    /\ phase = "startup"
    /\ phase' = "running"
    /\ allowAsync' = TRUE
    /\ UNCHANGED <<haltAt, numAsyncWorkers, trans, issued, delayQueue,
                   serialQueue, done, workerVars, results>>

\* Master::Run has joined every other thread and calls StopServer; with no
\* worker HaltDelayThread returns at once.
StopServer ==
    /\ phase = "running"
    /\ phase' = IF NumWorkers = 0 THEN "cancel" ELSE "stop"
    /\ haltAt' = 0
    /\ UNCHANGED <<clientVars, delayQueue, serialQueue, done, workerVars, results>>

\* HaltDelayThread, first loop: m_threadsBodies[i]->Stop().
StopWorker ==
    /\ phase = "stop"
    /\ running' = [running EXCEPT ![haltAt] = FALSE]
    /\ IF haltAt + 1 < numAsyncWorkers
       THEN haltAt' = haltAt + 1 /\ UNCHANGED phase
       ELSE haltAt' = 0 /\ phase' = "join"
    /\ UNCHANGED <<clientVars, delayQueue, serialQueue, done, pc, current, results>>

\* HaltDelayThread, second loop: m_delayThreads[i].join(); after the last
\* join m_threadsBodies.clear() begins to destroy the bodies.
JoinWorker ==
    /\ phase = "join"
    /\ pc[haltAt] = "exited"
    /\ IF haltAt + 1 < numAsyncWorkers
       THEN haltAt' = haltAt + 1 /\ UNCHANGED <<phase, pc>>
       ELSE haltAt' = 0 /\ phase' = "destroy" /\ pc' = [pc EXCEPT ![0] = "shared"]
    /\ UNCHANGED <<clientVars, delayQueue, serialQueue, done, running, current, results>>

\* A plausible slip: only the first body processes what is left.
DestroyNext_first_only ==
    /\ phase = "destroy"
    /\ pc[haltAt] = "gone"
    /\ haltAt' = 0
    /\ phase' = "cancel"
    /\ numAsyncWorkers' = 0
    /\ UNCHANGED <<allowAsync, trans, issued, delayQueue, serialQueue, done,
                   running, pc, current, results>>

\* The destructor of body haltAt is through its ProcessRequests; the next
\* one starts, or HaltDelayThread ends with m_numAsyncWorkers = 0.
DestroyNext ==
    /\ phase = "destroy"
    /\ pc[haltAt] = "gone"
    /\ IF haltAt + 1 < numAsyncWorkers
       THEN /\ haltAt' = haltAt + 1
            /\ pc' = [pc EXCEPT ![haltAt + 1] = "shared"]
            /\ UNCHANGED <<phase, numAsyncWorkers>>
       ELSE /\ haltAt' = 0
            /\ phase' = "cancel"
            /\ numAsyncWorkers' = 0
            /\ UNCHANGED pc
    /\ UNCHANGED <<allowAsync, trans, issued, delayQueue, serialQueue, done,
                   running, current, results>>

\* SqlResultQueue::CancelAll runs each waiting callback, in the stopping
\* thread, with a null result.  A callback may itself execute a statement:
\* the connection is still there, so the statement is queued.
CancelCallback(submits) ==
    /\ phase = "cancel"
    /\ results # <<>>
    /\ results' = Tail(results)
    /\ IF submits
       THEN Submit("plain", 0, "shared")
       ELSE UNCHANGED <<issued, delayQueue, serialQueue, done>>
    /\ UNCHANGED <<haltVars, trans, workerVars>>

\* CancelAll has emptied the queue; StopServer deletes the connections.
CloseConnections ==
    /\ phase = "cancel"
    /\ results = <<>>
    /\ phase' = "closed"
    /\ UNCHANGED <<clientVars, haltAt, delayQueue, serialQueue, done, workerVars, results>>

-----------------------------------------------------------------------------
Init ==
    /\ phase = "startup"
    /\ haltAt = 0
    /\ allowAsync = FALSE
    /\ numAsyncWorkers = NumWorkers
    /\ trans = [t \in Threads |-> NoTrans]
    /\ issued = <<>>
    /\ delayQueue = <<>>
    /\ serialQueue = [w \in Workers |-> <<>>]
    /\ running = [w \in Workers |-> TRUE]
    /\ pc = [w \in Workers |-> "loop"]
    /\ current = [w \in Workers |-> 0]
    /\ done = {}
    /\ results = <<>>

ClientStep ==
    \/ \E t \in Threads : \/ Execute(t)
                          \/ \E s \in Serials : BeginTransaction(t, s)
                          \/ CommitTransaction(t)
                          \/ RollbackTransaction(t)
    \/ DirectExecute
    \/ AsyncQuery
    \/ \E s \in Serials : DelayQueryHolder(s)
    \/ ProcessResultQueue

WorkerStep(w) ==
    \/ LoopTest(w)
    \/ NextDelayedOperation(w)
    \/ NextSerialOperation(w)
    \/ ExecuteOperation(w)

MasterStep ==
    \/ AllowAsyncTransactions
    \/ StopServer
    \/ StopWorker
    \/ JoinWorker
    \/ DestroyNext
    \/ \E submits \in BOOLEAN : CancelCallback(submits)
    \/ CloseConnections

Next ==
    \/ ClientStep
    \/ \E w \in Workers : WorkerStep(w)
    \/ MasterStep

Spec == Init /\ [][Next]_vars

\* Each worker thread is scheduled; in the destructors it is Master that
\* runs the worker's code.  Once StopServer is called Master carries on.
Fairness ==
    /\ \A w \in Workers : WF_vars(WorkerStep(w))
    /\ WF_vars(StopWorker \/ JoinWorker \/ DestroyNext
               \/ CancelCallback(FALSE) \/ CloseConnections)

FairSpec == Spec /\ Fairness

-----------------------------------------------------------------------------
Ids == 1 .. Len(issued)

\* Worker w has taken an operation off a queue and not yet executed it.
InFlight(w) == pc[w] \in {"execShared", "execSerial"}

\* The state has the types the code declares.
TypeOK ==
    /\ phase \in Phases
    /\ haltAt \in Nat
    /\ allowAsync \in BOOLEAN
    /\ numAsyncWorkers \in {0, NumWorkers}
    /\ trans \in [Threads -> Serials \union {NoTrans}]
    /\ issued \in Seq(Operation)
    /\ delayQueue \in Seq(Ids)
    /\ serialQueue \in [Workers -> Seq(Ids)]
    /\ running \in [Workers -> BOOLEAN]
    /\ pc \in [Workers -> PCs]
    /\ current \in [Workers -> Ids \union {0}]
    /\ done \subseteq Ids
    /\ results \in Seq(Ids)

\* Every operation the database accepted has been executed, waits in a
\* queue or is being executed: no path through Execute, CommitTransaction,
\* AddToSerialDelayQueue, ProcessRequests or the destructors drops one.
NothingLost ==
    \A i \in Ids :
        \/ i \in done
        \/ Queued(i, delayQueue)
        \/ \E w \in Workers : Queued(i, serialQueue[w]) \/ (InFlight(w) /\ current[w] = i)

\* "Must be serialized in a transaction with the player GUID, or it can lead
\* to duping by relogging before the query completes" (Player.cpp): queued
\* operations with the same serial id are executed in the order in which
\* they were submitted, so the login query holder of a character sees every
\* save committed before it.
SerialOrder ==
    \A i, j \in Ids :
        /\ i < j
        /\ issued[i].serial = issued[j].serial
        /\ issued[i].serial # 0
        /\ issued[j].route # "direct"
        /\ j \in done
        => i \in done

\* To its callers Database is a line of operations for each serial id: what is
\* queued with an id is executed one after the other, in the order of submission,
\* whatever other ids fall on the same worker, also while the workers are stopped
\* and their destructors do what is left.
Line(s) == {i \in Ids \ done : issued[i].serial = s /\ issued[i].route # "direct"}

Lines == INSTANCE SerialExecution WITH
             submitted <- Len(issued), line <- [s \in SerialIds |-> Line(s)]
ImplementsSerialExecution == Lines!Spec

\* With the default of one worker the operations of the shared queue are
\* executed in the order in which they were submitted.
SharedOrderWithOneWorker ==
    \A i, j \in Ids :
        /\ i < j
        /\ issued[i].route = "shared"
        /\ issued[j].route = "shared"
        /\ NumWorkers = 1
        /\ j \in done
        => i \in done

\* Workers that race for the shared queue, and the destructors that process
\* what the workers left, never execute an operation a second time.
ExecutedOnce ==
    [][\A w \in Workers : ExecuteOperation(w) => current[w] \notin done]_vars

\* When HaltDelayThread returns, everything submitted before StopServer has
\* been executed, also what was queued after a worker's last look.
HaltDrains ==
    [][phase = "destroy" /\ phase' = "cancel" => done = Ids]_vars

\* A queued operation is executed, if the submissions cease (the bound
\* MaxOps) and there is a worker: no wake-up is needed, the workers poll.
EventuallyExecuted ==
    \A i \in 1 .. MaxOps :
        (i \in Ids /\ ClientsRun /\ NumWorkers > 0) ~> (i \in Ids /\ i \in done)

\* StopServer returns: every worker sees m_running = false, is joined, and
\* the destructors and CancelAll come to an end.
StopServerReturns == (phase = "stop") ~> (phase = "closed")
=============================================================================
