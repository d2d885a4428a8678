--------------------------- MODULE SqlResultQueue ---------------------------
(***************************************************************************)
(* The way back of asynchronous queries: database workers add callbacks to *)
(* the result queue, and the world thread runs them in                     *)
(* SqlResultQueue::Update.  Thread-safe callbacks go to a pool of threads, *)
(* which is here what TaskBatch promises (the module ThreadPool shows that *)
(* the pool keeps that promise); the others are run by the world thread in *)
(* the meantime, some of them in a later Update when the time is up.       *)
(*                                                                         *)
(* A callback is its number in the order of arrival; arrived[c] says       *)
(* whether it may run in another thread.                                   *)
(***************************************************************************)
EXTENDS Integers, Sequences, Queues

CONSTANTS
    Timeout,       \* AsyncQueriesTickTimeout of mangosd.conf is not 0
    MaxCallbacks   \* bound: callbacks that arrive

ASSUME TimeoutAssumption == Timeout \in BOOLEAN
ASSUME CallbacksAssumption == MaxCallbacks \in Nat

VARIABLES
    arrived,   \* threadSafe of each callback, in order of arrival
    queue,     \* the LockedQueue that SqlResultQueue is
    deferred,  \* _threadUnsafeWaitingQueries
    load,      \* what was handed to m_callbackThreads with operator<<
    waiting,   \* m_callbackThreads: a workload is published, job is valid
    left,      \* m_callbackThreads: its callbacks that have not run
    ran,       \* how often each callback was executed
    updater    \* where the world thread, and in the end Master, is

resultsVars == <<arrived, queue, deferred, load, waiting, left, ran, updater>>

Callbacks == 1 .. MaxCallbacks
Arrived == 1 .. Len(arrived)
Unsafe(c) == arrived[c] = "unsafe"

PCs == {"idle", "drain", "unsafe", "wait", "cancel", "closed"}

Pool == INSTANCE TaskBatch WITH Tasks <- Callbacks

RunCallback(c) == ran' = [ran EXCEPT ![c] = @ + 1]

-----------------------------------------------------------------------------
\* SqlQuery::Execute and SqlQueryHolderEx::Execute end with it, in a worker.
AddCallback(kind) ==
    /\ updater \notin {"cancel", "closed"}
    /\ Len(arrived) < MaxCallbacks
    /\ arrived' = Append(arrived, kind)
    /\ queue' = Append(queue, Len(arrived) + 1)
    /\ UNCHANGED <<deferred, load, waiting, left, ran, updater>>

\* World::UpdateResultQueue, at the end of World::Update.
BeginUpdate ==
    /\ updater = "idle"
    /\ updater' = "drain"
    /\ UNCHANGED <<arrived, queue, deferred, load, waiting, left, ran>>

\* Update, first loop.
Route ==
    /\ updater = "drain"
    /\ queue # <<>>
    /\ queue' = Tail(queue)
    /\ IF Unsafe(Head(queue))
       THEN deferred' = Append(deferred, Head(queue)) /\ UNCHANGED load
       ELSE load' = load \union {Head(queue)} /\ UNCHANGED deferred
    /\ UNCHANGED <<arrived, waiting, left, ran, updater>>

\* A plausible slip: what the pool has run is not cleared from its workload.
ProcessWorkload_keeps_load ==
    /\ updater = "drain"
    /\ queue = <<>>
    /\ IF load = {} THEN UNCHANGED <<waiting, left>> ELSE Pool!Submit(load)
    /\ updater' = "unsafe"
    /\ UNCHANGED <<arrived, queue, deferred, load, ran>>

\* processWorkload(); without a load the future it returns is not valid.
ProcessWorkload ==
    /\ updater = "drain"
    /\ queue = <<>>
    /\ IF load = {} THEN UNCHANGED <<waiting, left>> ELSE Pool!Submit(load)
    /\ load' = {}
    /\ updater' = "unsafe"
    /\ UNCHANGED <<arrived, queue, deferred, ran>>

\* A thread of m_callbackThreads.
RunSafe(c) ==
    /\ Pool!Run(c)
    /\ RunCallback(c)
    /\ UNCHANGED <<arrived, queue, deferred, load, updater>>

\* A plausible slip: the time is looked at before a callback is taken.
RunUnsafe_looks_first(timeUp) ==
    /\ updater = "unsafe"
    /\ deferred # <<>>
    /\ timeUp => Timeout
    /\ IF timeUp
       THEN updater' = "wait" /\ UNCHANGED <<ran, deferred>>
       ELSE RunCallback(Head(deferred)) /\ deferred' = Tail(deferred) /\ UNCHANGED updater
    /\ UNCHANGED <<arrived, queue, load, waiting, left>>

\* A plausible slip: the newest callback is run first.
RunUnsafe_takes_last(timeUp) ==
    /\ updater = "unsafe"
    /\ deferred # <<>>
    /\ timeUp => Timeout
    /\ RunCallback(deferred[Len(deferred)])
    /\ deferred' = SubSeq(deferred, 1, Len(deferred) - 1)
    /\ updater' = IF timeUp THEN "wait" ELSE "unsafe"
    /\ UNCHANGED <<arrived, queue, load, waiting, left>>

\* Update, second loop: the callback is executed, then the time is looked at.
RunUnsafe(timeUp) ==
    /\ updater = "unsafe"
    /\ deferred # <<>>
    /\ timeUp => Timeout
    /\ RunCallback(Head(deferred))
    /\ deferred' = Tail(deferred)
    /\ updater' = IF timeUp THEN "wait" ELSE "unsafe"
    /\ UNCHANGED <<arrived, queue, load, waiting, left>>

NoUnsafeLeft ==
    /\ updater = "unsafe"
    /\ deferred = <<>>
    /\ updater' = "wait"
    /\ UNCHANGED <<arrived, queue, deferred, load, waiting, left, ran>>

\* A plausible slip: an Update whose time is up returns at once.
EndUpdate_too_early ==
    /\ updater = "wait"
    /\ IF waiting /\ deferred = <<>> THEN Pool!Return ELSE UNCHANGED <<waiting, left>>
    /\ updater' = "idle"
    /\ UNCHANGED <<arrived, queue, deferred, load, ran>>

\* job.wait(), if there is a job; then Update returns.
EndUpdate ==
    /\ updater = "wait"
    /\ IF waiting THEN Pool!Return ELSE UNCHANGED <<waiting, left>>
    /\ updater' = "idle"
    /\ UNCHANGED <<arrived, queue, deferred, load, ran>>

\* StopServer, when the world thread and the workers are gone.
StopServer ==
    /\ updater = "idle"
    /\ updater' = "cancel"
    /\ UNCHANGED <<arrived, queue, deferred, load, waiting, left, ran>>

\* CancelAll: each callback gets a null result.
CancelNext ==
    /\ updater = "cancel"
    /\ queue # <<>>
    /\ queue' = Tail(queue)
    /\ RunCallback(Head(queue))
    /\ UNCHANGED <<arrived, deferred, load, waiting, left, updater>>

\* delete m_pResultQueue.
Close ==
    /\ updater = "cancel"
    /\ queue = <<>>
    /\ updater' = "closed"
    /\ UNCHANGED <<arrived, queue, deferred, load, waiting, left, ran>>

-----------------------------------------------------------------------------
ResultsInit ==
    /\ arrived = <<>>
    /\ queue = <<>>
    /\ deferred = <<>>
    /\ load = {}
    /\ Pool!Init
    /\ ran = [c \in Callbacks |-> 0]
    /\ updater = "idle"

WorldStep ==
    \/ BeginUpdate \/ Route \/ ProcessWorkload
    \/ \E timeUp \in BOOLEAN : RunUnsafe(timeUp)
    \/ NoUnsafeLeft \/ EndUpdate

ResultsNext ==
    \/ \E kind \in {"safe", "unsafe"} : AddCallback(kind)
    \/ WorldStep
    \/ \E c \in Callbacks : RunSafe(c)
    \/ StopServer \/ CancelNext \/ Close

ResultsSpec == ResultsInit /\ [][ResultsNext]_resultsVars

\* The world thread calls Update again and again until the server stops, and
\* the pool's threads are scheduled.
FairSpec ==
    /\ ResultsSpec
    /\ WF_resultsVars(WorldStep)
    /\ \A c \in Callbacks : WF_resultsVars(RunSafe(c))

-----------------------------------------------------------------------------
\* The state has the types the code declares.
ResultsTypeOK ==
    /\ arrived \in Seq({"safe", "unsafe"})
    /\ Len(arrived) <= MaxCallbacks
    /\ queue \in Seq(Arrived)
    /\ deferred \in Seq(Arrived)
    /\ load \subseteq Arrived
    /\ waiting \in BOOLEAN
    /\ left \subseteq Arrived
    /\ ran \in [Callbacks -> Nat]
    /\ updater \in PCs

\* A callback that arrived is executed or still held somewhere, whatever the
\* time-out cuts short, and none is executed twice: neither by the pool's next
\* workload nor by CancelAll.  Each deletes itself, so a second call would use
\* freed memory.
CallbackOnce ==
    \A c \in Arrived :
        \/ ran[c] = 1
        \/ ran[c] = 0 /\ (Queued(c, queue) \/ Queued(c, deferred) \/ c \in load \union left)

\* Callbacks that are not thread-safe are executed in the order in which
\* their results arrived, also those that wait for a later Update.  (With a
\* time-out, CancelAll passes over the ones still deferred.)
UnsafeInOrder ==
    (Timeout => updater \notin {"cancel", "closed"}) =>
        \A c, d \in Arrived :
            c < d /\ Unsafe(c) /\ Unsafe(d) /\ ran[d] > 0 => ran[c] > 0

\* No callback runs in another thread while the world thread is outside of
\* Update and changes the objects that callbacks use.
QuietOutsideUpdate == updater \in {"idle", "cancel", "closed"} => ~waiting /\ left = {}

\* A callback that arrived is executed while the server runs, even if every
\* Update runs out of time.
EventuallyExecuted ==
    \A c \in Callbacks :
        (c \in Arrived) ~> ((c \in Arrived /\ ran[c] > 0) \/ updater \in {"cancel", "closed"})
=============================================================================
