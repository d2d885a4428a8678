-------------------------- MODULE ThreadPool_proofs --------------------------
(***************************************************************************)
(* Proofs about ThreadPool, for any number of workers and tasks, each kind *)
(* of worker, clear mode and error handling: no task is started twice, no  *)
(* worker is near the workload while the owner may change it, and the pool *)
(* implements TaskBatch.                                                   *)
(*                                                                         *)
(* The invariant says which indexes of the load have been fetched - those  *)
(* below the shared index, or, for worker_mq, those of a worker's residue  *)
(* class below its own - and that a fetched task has been started once     *)
(* unless a worker still has it in hand.  m_active counts the workers that *)
(* have not counted themselves out.                                        *)
(***************************************************************************)
EXTENDS ThreadPool, SequenceTheorems, FiniteSetTheorems, TLAPS

-----------------------------------------------------------------------------
(* The indexes of the load. *)

Indexes == 0 .. Len(workload) - 1

\* The indexes that worker_mq w fetches: w, w + Size, w + 2 * Size...
Share(w) == {i \in Nat : i % Size = w}

Fetched(i) ==
    IF Kind = "SQ" THEN i < shared ELSE \E w \in Workers : i \in Share(w) /\ i < own[w]

InHand(i) == \E w \in Workers : pc[w] = "run" /\ task[w] = i

\* Nothing is left for w to fetch.
Done(w) == \A i \in Indexes : Kind = "SQ" \/ i \in Share(w) => Fetched(i)

-----------------------------------------------------------------------------
(* The invariant. *)

Resting(w) == ~busy[w] /\ pc[w] \in {"check", "waiting"}
AllRest == \A w \in Workers : Resting(w)

\* The workers that have not counted themselves out of m_active.
Counted == {w \in Workers : busy[w] \/ pc[w] = "decrement"}

Ending == \E w \in Workers : pc[w] \in {"last", "signal"}

Unstarted == \A k \in 1 .. Len(workload) : ran[workload[k]] = 0

\* No task is twice in the load, and those that were not added have not run.
LoadInv ==
    /\ \A k, l \in 1 .. Len(workload) : workload[k] = workload[l] => k = l
    /\ \A k \in 1 .. Len(workload) : workload[k] <= added
    /\ \A t \in Tasks : ran[t] <= 1 /\ (t > added => ran[t] = 0)

\* Between two workloads: what is not dirty has not run.
IdleInv ==
    owner = "idle" =>
        /\ status \in {"STOPPED", "READY"} /\ future = "none"
        /\ AllRest
        /\ IF dirty THEN Clear = "AT_NEXT_WORKLOAD" /\ status = "READY" ELSE Unstarted

PublishInv ==
    owner = "publish" =>
        /\ status = "PROCESSING" /\ future = "pending" /\ dirty
        /\ AllRest
        /\ active = Least(Size, Len(workload)) /\ shared = 0
        /\ Unstarted /\ batch = TasksOf(workload)

\* How far the load is.
ProgressInv ==
    /\ \A i \in Indexes :
          /\ ~Fetched(i) \/ InHand(i) => ran[workload[i + 1]] = 0
          /\ status = "PROCESSING" /\ Fetched(i) /\ ~InHand(i) => ran[workload[i + 1]] = 1
    /\ \A w \in Workers : pc[w] = "run" =>
          /\ task[w] \in Indexes /\ Fetched(task[w])
          /\ \A v \in Workers : pc[v] = "run" /\ task[v] = task[w] => v = w
    /\ status = "PROCESSING" =>
          \A w \in Workers :
              pc[w] \in {"finish", "decrement"} \/ (Kind = "MQ" /\ ~busy[w]) => Done(w)
    /\ Kind = "MQ" => \A w \in Workers :
          own[w] \in Share(w) \/ (~busy[w] /\ w >= Len(workload))

\* While the workers are at their load.
WorkInv ==
    owner = "wait" /\ future = "pending" /\ ~Ending =>
        /\ status \in {"PROCESSING", "TERMINATING"} /\ dirty
        /\ active = Cardinality(Counted)
        /\ \A w \in Workers :
              /\ pc[w] \in {"fetch", "run", "finish"} => busy[w]
              /\ pc[w] \in {"start", "exited"} => busy[w] \/ status = "TERMINATING"
              /\ pc[w] = "decrement" => ~busy[w]
        /\ status = "TERMINATING" => \E w \in Workers : busy[w] /\ pc[w] = "exited"
        /\ batch = TasksOf(workload)
        /\ ProgressInv

\* When the last of them has counted itself out.
EndInv ==
    owner = "wait" /\ (future = "ready" \/ Ending) =>
        /\ \A w \in Workers :
              /\ ~busy[w] /\ pc[w] \in {"check", "waiting", "last", "signal"}
              /\ pc[w] = "last" => status = "PROCESSING" /\ future = "pending" /\ dirty
              /\ pc[w] = "signal" => status = "READY" /\ future = "pending"
              /\ pc[w] \in {"last", "signal"} => \A v \in Workers \ {w} : Resting(v)
        /\ future = "ready" => status = "READY"
        /\ status = "READY" => IF dirty THEN Clear = "AT_NEXT_WORKLOAD" ELSE workload = <<>>
        /\ \A t \in batch : ran[t] = 1

DestroyInv ==
    owner \in {"destroy", "joined"} =>
        /\ status = "TERMINATING"
        /\ \A w \in Workers : ~busy[w] /\ pc[w] \in {"check", "waiting", "start", "exited"}

WaitedFor == owner = "wait" => future \in {"pending", "ready"}

PoolInv ==
    TypeOK /\ LoadInv /\ IdleInv /\ PublishInv /\ WorkInv /\ EndInv /\ DestroyInv /\ WaitedFor

-----------------------------------------------------------------------------
(* Residue classes. *)

\* Two multiples of n, each r on, are not less than n apart.
LEMMA Multiples ==
    ASSUME NEW n \in Nat \ {0}, NEW a \in Nat, NEW b \in Nat, NEW r \in 0 .. n - 1
    PROVE  /\ (n * a + r) + n = n * (a + 1) + r
           /\ (n * a + r) % n = r
           /\ n * b + r < (n * a + r) + n => n * b + r <= n * a + r
<1>1. n * (a + 1) = n * a + n
  OBVIOUS
<1>2. n * b < n * (a + 1) => b < a + 1
  <2>1. a + 1 <= b => n * (a + 1) <= n * b
    OBVIOUS
  <2> QED BY <2>1
<1>3. b < a + 1 => n * b <= n * a
  <2>1. b <= a => n * b <= n * a
    OBVIOUS
  <2> QED BY <2>1
<1>4. (n * a + r) % n = r
  OBVIOUS
<1>5. n * a \in Nat /\ n * b \in Nat /\ r \in Nat
  OBVIOUS
<1> QED BY <1>1, <1>2, <1>3, <1>4, <1>5

\* n steps on is in the same class, and nothing of the class is in between.
LEMMA SameClass ==
    ASSUME NEW n \in Nat \ {0}, NEW i \in Nat
    PROVE  /\ (i + n) % n = i % n
           /\ \A j \in Nat : j % n = i % n /\ j < i + n => j <= i
<1>1. \A k \in Nat : /\ k \div n \in Nat /\ k % n \in 0 .. n - 1
                    /\ k = n * (k \div n) + (k % n)
  OBVIOUS
<1>2. \A k \in Nat : \E a \in Nat, r \in 0 .. n - 1 : k = n * a + r /\ k % n = r
  BY <1>1
<1>3. PICK a \in Nat, r \in 0 .. n - 1 : i = n * a + r /\ i % n = r
  BY <1>2
<1>4. (i + n) % n = i % n
  <2>1. i + n = n * (a + 1) + r
    BY <1>3, Multiples
  <2>2. a + 1 \in Nat
    OBVIOUS
  <2>3. (n * (a + 1) + r) % n = r
    BY <2>2, Multiples
  <2> QED BY <1>3, <2>1, <2>3
<1>5. ASSUME NEW j \in Nat, j % n = i % n, j < i + n
      PROVE  j <= i
  <2>1. PICK b \in Nat, t \in 0 .. n - 1 : j = n * b + t /\ j % n = t
    BY <1>2
  <2>2. n * b + r < (n * a + r) + n => n * b + r <= n * a + r
    BY Multiples
  <2> QED BY <1>3, <1>5, <2>1, <2>2
<1> QED BY <1>4, <1>5

\* The shares cover the indexes, and each begins with the worker's number.
LEMMA Shares ==
    ASSUME NEW w \in Workers
    PROVE  /\ Share(w) \subseteq Nat
           /\ w \in Share(w)
           /\ \A i \in Share(w) : i >= w
           /\ \A i \in Nat : \E v \in Workers : i \in Share(v)
           /\ \A i, v : i \in Share(v) /\ i \in Share(w) => v = w
           /\ \A i \in Share(w) : /\ i + Size \in Share(w)
                                  /\ \A j \in Share(w) : j < i + Size => j <= i
<1>1. Size \in Nat \ {0}
  BY SizeAssumption DEF Workers
<1>2. \A i \in Nat : i % Size \in 0 .. Size - 1 /\ i % Size <= i
  BY <1>1
<1>3. w \in Nat /\ w % Size = w
  BY <1>1 DEF Workers
<1>4. \A i \in Share(w) : /\ i + Size \in Share(w)
                          /\ \A j \in Share(w) : j < i + Size => j <= i
  <2> SUFFICES ASSUME NEW i \in Share(w)
               PROVE  /\ i + Size \in Share(w)
                      /\ \A j \in Share(w) : j < i + Size => j <= i
    OBVIOUS
  <2>1. i \in Nat /\ i % Size = w
    BY DEF Share
  <2>2. /\ (i + Size) % Size = i % Size
        /\ \A j \in Nat : j % Size = i % Size /\ j < i + Size => j <= i
    BY <1>1, <2>1, SameClass
  <2>3. i + Size \in Nat
    BY <1>1, <2>1
  <2> QED BY <2>1, <2>2, <2>3 DEF Share
<1> QED BY <1>2, <1>3, <1>4 DEF Share, Workers

-----------------------------------------------------------------------------
(* Which part of the invariant speaks about a worker. *)

\* A worker is at a load only while the owner waits for it.
LEMMA AtWork ==
    ASSUME PoolInv, NEW w \in Workers, pc[w] \in {"fetch", "run", "finish", "decrement"}
    PROVE  /\ owner = "wait" /\ future = "pending" /\ ~Ending
           /\ pc[w] # "decrement" => busy[w]
           /\ pc[w] = "decrement" => ~busy[w]
<1>1. owner \in OwnerPCs
  BY DEF PoolInv, TypeOK
<1>2. owner = "wait"
  BY <1>1 DEF OwnerPCs, PoolInv, IdleInv, PublishInv, DestroyInv, AllRest, Resting
<1>3. future = "pending" /\ ~Ending
  BY <1>2 DEF PoolInv, EndInv, WaitedFor
<1> QED BY <1>2, <1>3 DEF PoolInv, WorkInv

\* A worker ends a load only while the owner waits for it.
LEMMA AtEnd ==
    ASSUME PoolInv, NEW w \in Workers, pc[w] \in {"last", "signal"}
    PROVE  owner = "wait" /\ future = "pending" /\ Ending
<1>1. owner \in OwnerPCs
  BY DEF PoolInv, TypeOK
<1>2. owner = "wait"
  BY <1>1 DEF OwnerPCs, PoolInv, IdleInv, PublishInv, DestroyInv, AllRest, Resting
<1>3. Ending
  BY DEF Ending
<1> QED BY <1>2, <1>3 DEF PoolInv, EndInv

\* A pool that has just been started satisfies the invariant.
LEMMA InitPoolInv == Init => PoolInv
<1> SUFFICES ASSUME Init PROVE PoolInv
  OBVIOUS
<1> USE DEF Init
<1>1. TypeOK
  <2>1. dirty \in BOOLEAN /\ busy \in [Workers -> BOOLEAN]
    BY Zenon
  <2>2. /\ status \in Statuses /\ workload \in Seq(Tasks) /\ errors \in Seq(Tasks)
        /\ active \in Int /\ shared \in Nat /\ added \in 0 .. MaxTasks
    BY BoundsAssumption DEF Statuses
  <2>3. /\ own \in [Workers -> Nat] /\ task \in [Workers -> Nat] /\ ran \in [Tasks -> Nat]
        /\ pc \in [Workers -> PCs]
    BY DEF PCs
  <2>4. future \in {"none", "pending", "ready"} /\ owner \in OwnerPCs /\ batch \subseteq Tasks
    BY DEF OwnerPCs
  <2> QED BY <2>1, <2>2, <2>3, <2>4, Zenon DEF TypeOK
<1>2. LoadInv
  BY DEF LoadInv
<1>3. IdleInv
  BY DEF IdleInv, AllRest, Resting, Unstarted
<1>4. PublishInv /\ WorkInv /\ EndInv /\ DestroyInv /\ WaitedFor
  BY DEF PublishInv, WorkInv, EndInv, DestroyInv, WaitedFor
<1> QED BY <1>1, <1>2, <1>3, <1>4 DEF PoolInv

-----------------------------------------------------------------------------
(* The steps of the owner. *)

\* operator<< adds a task that has not run, to the load or to a new one.
LEMMA NextAddTask ==
    ASSUME PoolInv, mode' = mode, AddTask
    PROVE  PoolInv'
<1> USE DEF PoolInv, AddTask, ghostVars
<1>1. added \in Nat /\ added + 1 \in Tasks /\ workload \in Seq(Tasks)
  BY BoundsAssumption DEF TypeOK, Tasks
<1>2. workload' \in Seq(Tasks) /\ dirty' \in BOOLEAN => TypeOK'
  <2>1. added' \in 0 .. MaxTasks
    BY <1>1 DEF TypeOK, Tasks
  <2> QED BY <2>1 DEF TypeOK
<1>3. <<added + 1>> \in Seq(Tasks) /\ Append(workload, added + 1) \in Seq(Tasks)
  BY <1>1
<1>4. ran[added + 1] = 0
  BY <1>1 DEF LoadInv
<1>5. CASE workload' = <<added + 1>> /\ dirty' = FALSE
  <2>1. LoadInv'
    <3>1. /\ Len(workload') = 1 /\ workload'[1] = added + 1
          /\ \A k \in 1 .. Len(workload') : k = 1
      BY <1>5
    <3>2. \A t \in Tasks : t > added' => t > added
      BY <1>1 DEF Tasks
    <3> QED BY <1>1, <3>1, <3>2 DEF LoadInv, Tasks
  <2>2. IdleInv'
    BY <1>1, <1>4, <1>5 DEF IdleInv, AllRest, Resting, Unstarted
  <2>3. TypeOK'
    BY <1>2, <1>3, <1>5
  <2> QED BY <2>3, <2>1, <2>2 DEF PublishInv, WorkInv, EndInv, DestroyInv, WaitedFor
<1>6. CASE workload' = Append(workload, added + 1) /\ dirty' = dirty
                /\ ~(Clear = "AT_NEXT_WORKLOAD" /\ dirty)
  <2>1. /\ Len(workload') = Len(workload) + 1 /\ Len(workload) \in Nat
        /\ \A k \in 1 .. Len(workload) : workload'[k] = workload[k] /\ workload[k] \in Tasks
        /\ workload'[Len(workload) + 1] = added + 1
    BY <1>1, <1>6
  <2>2. \A k \in 1 .. Len(workload') : k \in 1 .. Len(workload) \/ k = Len(workload) + 1
    BY <2>1
  <2>3. LoadInv'
    <3>1. \A k \in 1 .. Len(workload) : workload[k] # added + 1
      BY <1>1, <2>1 DEF LoadInv, Tasks
    <3>2. \A k, l \in 1 .. Len(workload') : workload'[k] = workload'[l] => k = l
      BY <2>1, <2>2, <3>1 DEF LoadInv
    <3>3. \A k \in 1 .. Len(workload') : workload'[k] <= added'
      BY <1>1, <2>1, <2>2 DEF LoadInv, Tasks
    <3>4. \A t \in Tasks : t > added' => t > added
      BY <1>1 DEF Tasks
    <3> QED BY <3>2, <3>3, <3>4 DEF LoadInv
  <2>4. IdleInv'
    <3>1. dirty' = FALSE /\ dirty = FALSE
      BY <1>6 DEF IdleInv, TypeOK
    <3>2. Unstarted'
      BY <1>4, <2>1, <2>2, <3>1 DEF IdleInv, Unstarted
    <3> QED BY <3>1, <3>2 DEF IdleInv, AllRest, Resting
  <2>5. TypeOK'
    BY <1>2, <1>3, <1>6 DEF TypeOK
  <2> QED BY <2>3, <2>4, <2>5 DEF PublishInv, WorkInv, EndInv, DestroyInv, WaitedFor
<1> QED BY <1>5, <1>6 DEF TypeOK

\* processWorkload up to the lock, with a load of tasks that have not run.
LEMMA NextPublish ==
    ASSUME PoolInv, mode' = mode, owner = "idle",
           NEW load \in Seq(Tasks), Publish(load, FALSE),
           added' \in 0 .. MaxTasks, added' >= added,
           UNCHANGED <<own, busy, pc, task, ran, errors>>,
           \A k, l \in 1 .. Len(load) : load[k] = load[l] => k = l,
           \A k \in 1 .. Len(load) : load[k] <= added' /\ ran[load[k]] = 0
    PROVE  PoolInv'
<1> USE DEF PoolInv
<1>1. workload' = load
  BY DEF Publish
<1>2. LoadInv'
  <2>1. \A t \in Tasks : t > added' => t > added
    BY DEF Tasks, TypeOK
  <2> QED BY <1>1, <2>1 DEF LoadInv
<1>3. Unstarted'
  BY <1>1 DEF Unstarted
<1>4. AllRest'
  BY DEF IdleInv, AllRest, Resting
<1>5. CASE status # "READY" \/ load = <<>>
  <2>1. dirty' = FALSE /\ UNCHANGED <<status, active, shared, future, owner, batch>>
    BY <1>5 DEF Publish
  <2>2. TypeOK'
    BY <1>1, <2>1, Zenon DEF TypeOK
  <2>3. IdleInv'
    BY <1>3, <1>4, <2>1 DEF IdleInv
  <2> QED BY <1>2, <2>1, <2>2, <2>3 DEF PublishInv, WorkInv, EndInv, DestroyInv, WaitedFor
<1>6. CASE ~(status # "READY" \/ load = <<>>)
  <2>1. /\ dirty' = TRUE /\ future' = "pending" /\ active' = Least(Size, Len(load))
        /\ shared' = 0 /\ status' = "PROCESSING" /\ batch' = TasksOf(load) /\ owner' = "publish"
    BY <1>6 DEF Publish
  <2>2. TypeOK'
    <3>1. active' \in Int
      BY <2>1, SizeAssumption DEF Least
    <3>2. batch' \subseteq Tasks
      BY <2>1 DEF TasksOf
    <3>3. /\ dirty' \in BOOLEAN /\ future' \in {"none", "pending", "ready"} /\ shared' \in Nat
          /\ status' \in Statuses /\ owner' \in OwnerPCs
      BY <2>1 DEF Statuses, OwnerPCs
    <3> QED BY <1>1, <3>1, <3>2, <3>3, Zenon DEF TypeOK
  <2>3. PublishInv'
    BY <1>1, <1>3, <1>4, <2>1 DEF PublishInv, TasksOf
  <2> QED BY <1>2, <2>1, <2>2, <2>3 DEF IdleInv, WorkInv, EndInv, DestroyInv, WaitedFor
<1> QED BY <1>5, <1>6

\* What operator<< gathered has not run; a dirty load is dropped first.
LEMMA NextProcessWorkload ==
    ASSUME PoolInv, mode' = mode, ProcessWorkload
    PROVE  PoolInv'
<1> USE DEF PoolInv, ProcessWorkload
<1>1. /\ added' \in 0 .. MaxTasks /\ added' >= added
      /\ workload \in Seq(Tasks) /\ <<>> \in Seq(Tasks)
  BY DEF TypeOK
<1>4. \A k \in 1 .. Len(workload) : workload[k] <= added'
  BY DEF LoadInv
<1>2. CASE Clear = "AT_NEXT_WORKLOAD" /\ status = "READY" /\ dirty
  <2>1. Publish(<<>>, FALSE)
    BY <1>2
  <2>2. /\ \A k, l \in 1 .. Len(<<>>) : <<>>[k] = <<>>[l] => k = l
        /\ \A k \in 1 .. Len(<<>>) : <<>>[k] <= added' /\ ran[<<>>[k]] = 0
    OBVIOUS
  <2>3. owner = "idle" /\ UNCHANGED <<own, busy, pc, task, ran, errors>>
    OBVIOUS
  <2> HIDE DEF PoolInv, ProcessWorkload
  <2> QED BY <1>1, <2>1, <2>2, <2>3, NextPublish
<1>3. CASE ~(Clear = "AT_NEXT_WORKLOAD" /\ status = "READY" /\ dirty)
  <2>1. dirty = FALSE
    BY <1>3 DEF IdleInv, TypeOK
  <2>2. Publish(workload, FALSE)
    BY <1>3, <2>1
  <2>3. \A k \in 1 .. Len(workload) : ran[workload[k]] = 0
    BY <2>1 DEF IdleInv, Unstarted
  <2>4. \A k \in 1 .. Len(workload) : workload[k] <= added' /\ ran[workload[k]] = 0
    BY <1>4, <2>3
  <2> QED BY <1>1, <2>2, <2>4, NextPublish DEF LoadInv
<1> QED BY <1>2, <1>3

\* The tasks that the owner brings are new.
LEMMA NextProcessNewWorkload ==
    ASSUME PoolInv, mode' = mode, NEW n \in 0 .. MaxTasks, ProcessNewWorkload(n)
    PROVE  PoolInv'
<1> USE DEF PoolInv, ProcessNewWorkload
<1> DEFINE load == [k \in 1 .. n |-> added + k]
<1>1. added \in Nat /\ added + n \in 0 .. MaxTasks /\ added' = added + n /\ n \in Nat
  BY BoundsAssumption DEF TypeOK
<1>2. CASE status # "READY"
  <2>1. TypeOK'
    BY <1>1, <1>2, Zenon DEF TypeOK
  <2>2. LoadInv'
    <3>1. \A t \in Tasks : t > added' => t > added
      BY <1>1 DEF Tasks
    <3>2. \A k \in 1 .. Len(workload) : workload[k] <= added'
      <4> SUFFICES ASSUME NEW k \in 1 .. Len(workload) PROVE workload[k] <= added'
        OBVIOUS
      <4>1. workload[k] \in Tasks
        BY ElementOfSeq DEF TypeOK
      <4> QED BY <1>1, <4>1 DEF LoadInv, Tasks
    <3> QED BY <1>2, <3>1, <3>2 DEF LoadInv
  <2>3. IdleInv'
    BY <1>2 DEF IdleInv, AllRest, Resting, Unstarted
  <2> QED BY <1>2, <2>1, <2>2, <2>3 DEF PublishInv, WorkInv, EndInv, DestroyInv, WaitedFor
<1>3. CASE status = "READY"
  <2>1. load \in Seq(Tasks) /\ Len(load) = n /\ \A k \in 1 .. n : load[k] = added + k
    <3>1. \A k \in 1 .. n : added + k \in Tasks
      BY <1>1, BoundsAssumption DEF Tasks
    <3>2. load \in Seq(Tasks)
      BY <1>1, <3>1, SeqDef
    <3>3. DOMAIN load = 1 .. n
      OBVIOUS
    <3>4. Len(load) = n
      BY <1>1, <3>2, <3>3, LenProperties
    <3> QED BY <3>2, <3>4
  <2>2. Publish(load, FALSE)
    BY <1>3
  <2>3. \A k \in 1 .. n : ran[added + k] = 0
    <3>1. \A k \in 1 .. n : added + k \in Tasks /\ added + k > added
      BY <1>1, BoundsAssumption DEF Tasks
    <3> QED BY <3>1 DEF LoadInv
  <2> HIDE DEF load
  <2>4. /\ \A k, l \in 1 .. Len(load) : load[k] = load[l] => k = l
        /\ \A k \in 1 .. Len(load) : load[k] <= added' /\ ran[load[k]] = 0
    <3>1. ASSUME NEW k \in 1 .. n, NEW l \in 1 .. n, load[k] = load[l]
          PROVE  k = l
      <4>1. load[k] = added + k /\ load[l] = added + l
        BY <2>1
      <4>2. added + k = added + l
        BY <3>1, <4>1
      <4> HIDE DEF PoolInv, ProcessNewWorkload
      <4> QED BY <1>1, <4>2
    <3>2. ASSUME NEW k \in 1 .. n
          PROVE  load[k] <= added' /\ ran[load[k]] = 0
      <4>1. load[k] = added + k /\ ran[added + k] = 0
        BY <2>1, <2>3
      <4> QED BY <1>1, <4>1
    <3>3. Len(load) = n
      BY <2>1
    <3> QED BY <3>1, <3>2, <3>3
  <2>5. owner = "idle" /\ UNCHANGED <<own, busy, pc, task, ran, errors>> /\ added' >= added
    BY <1>1
  <2> HIDE DEF PoolInv, ProcessNewWorkload
  <2> QED BY <1>1, <2>1, <2>2, <2>4, <2>5, NextPublish
<1> QED BY <1>2, <1>3

\* The workers that take part are those whose shares are not empty.
LEMMA NextPrepareWorkers ==
    ASSUME PoolInv, mode' = mode, PrepareWorkers
    PROVE  PoolInv'
<1> USE DEF PoolInv, PrepareWorkers, ghostVars
<1>1. /\ AllRest /\ status = "PROCESSING" /\ future = "pending" /\ dirty /\ Unstarted
      /\ active = Least(Size, Len(workload)) /\ shared = 0 /\ batch = TasksOf(workload)
  BY DEF PublishInv
<1>2. \A w \in Workers : /\ busy'[w] = (w < active) /\ own'[w] = IF w < active THEN w ELSE own[w]
                         /\ pc'[w] = "check"
  BY <1>1 DEF AllRest, Resting, TypeOK
<1>3. active \in 0 .. Size /\ Len(workload) \in Nat /\ active <= Len(workload)
      /\ (active < Size => active = Len(workload))
  BY <1>1, SizeAssumption DEF Least, TypeOK
<1>4. TypeOK'
  <2>1. busy' \in [Workers -> BOOLEAN]
    BY <1>2 DEF TypeOK
  <2>2. own' \in [Workers -> Nat]
    BY <1>2 DEF TypeOK, Workers
  <2>3. pc' \in [Workers -> PCs] /\ owner' \in OwnerPCs
    BY <1>2 DEF PCs, OwnerPCs
  <2> QED BY <2>1, <2>2, <2>3, Zenon DEF TypeOK
<1>5. LoadInv'
  BY DEF LoadInv
<1>6. ProgressInv'
  <2>1. ASSUME NEW w \in Workers, NEW i \in Indexes, i \in Share(w)
        PROVE  w < active /\ i >= w
    <3>1. i >= w /\ i < Len(workload) /\ i \in Nat /\ w \in 0 .. Size - 1
      BY <1>3, <2>1, Shares DEF Workers, Indexes
    <3> QED BY <1>3, <3>1, SizeAssumption
  <2>2. \A i \in Indexes : ~Fetched(i)'
    <3> SUFFICES ASSUME NEW i \in Indexes PROVE ~Fetched(i)'
      OBVIOUS
    <3>1. i \in Nat
      BY <1>3 DEF Indexes
    <3>2. \A w \in Workers : i \in Share(w) => ~(i < own'[w])
      BY <1>2, <2>1, <3>1, SizeAssumption DEF Workers
    <3>3. ~(i < shared')
      BY <1>1, <3>1
    <3> QED BY <3>2, <3>3 DEF Fetched, Share
  <2>3. \A i \in Indexes : ran[workload[i + 1]] = 0
    BY <1>1, <1>3 DEF Unstarted, Indexes
  <2>4. Kind = "MQ" => \A w \in Workers : ~busy'[w] => Done(w)'
    <3> SUFFICES ASSUME Kind = "MQ", NEW w \in Workers, ~(w < active)
                 PROVE  Done(w)'
      BY <1>2
    <3>1. \A i \in Indexes : i \notin Share(w)
      BY <2>1
    <3>2. Kind' = "MQ" /\ Indexes' = Indexes
      BY DEF Kind, Indexes
    <3> QED BY <3>1, <3>2 DEF Done, Share
  <2>5. \A w \in Workers : own'[w] \in Share(w) \/ (~busy'[w] /\ w >= Len(workload))
    <3> SUFFICES ASSUME NEW w \in Workers
                 PROVE  own'[w] \in Share(w) \/ (~busy'[w] /\ w >= Len(workload))
      OBVIOUS
    <3>1. w \in Share(w) /\ w \in 0 .. Size - 1
      BY Shares DEF Workers
    <3>2. CASE w < active
      BY <1>2, <3>1, <3>2
    <3>3. CASE ~(w < active)
      <4>1. active < Size /\ active = Len(workload)
        BY <1>3, <3>1, <3>3, SizeAssumption
      <4>2. w >= Len(workload)
        BY <1>3, <3>1, <3>3, <4>1, SizeAssumption
      <4>3. ~busy'[w]
        BY <1>2, <3>3, Zenon
      <4> QED BY <4>2, <4>3
    <3> QED BY <3>2, <3>3
  <2>6. /\ Indexes' = Indexes /\ Kind' = Kind /\ workload' = workload /\ ran' = ran
        /\ \A w \in Workers : pc'[w] = "check" /\ Share(w)' = Share(w)
    BY <1>2 DEF Indexes, Kind, Share
  <2> QED BY <2>2, <2>3, <2>4, <2>5, <2>6 DEF ProgressInv
<1>7. active' = Cardinality(Counted')
  <2>1. Counted' = {w \in Workers : w < active}
    BY <1>2 DEF Counted
  <2>2. Counted' = 0 .. active - 1
    BY <1>3, <2>1, SizeAssumption DEF Workers
  <2> QED BY <1>3, <2>2, FS_Interval
<1>8. ~Ending'
  BY <1>2 DEF Ending
<1>9. WorkInv'
  BY <1>1, <1>2, <1>6, <1>7 DEF WorkInv, TasksOf
<1> QED BY <1>1, <1>4, <1>5, <1>8, <1>9 DEF IdleInv, PublishInv, EndInv, DestroyInv, WaitedFor

\* The owner gets its answer, or ends the pool, when all workers rest.
LEMMA NextOwnerRests ==
    ASSUME PoolInv, mode' = mode, Waited \/ Destroy \/ Joined
    PROVE  PoolInv'
<1> USE DEF PoolInv
<1>1. CASE Waited
  <2> USE <1>1 DEF Waited, poolVars, ghostVars
  <2>1. TypeOK'
    BY DEF TypeOK, OwnerPCs
  <2>2. LoadInv'
    BY DEF LoadInv
  <2>3. IdleInv'
    <3>1. /\ status = "READY" /\ \A w \in Workers : Resting(w)
          /\ IF dirty THEN Clear = "AT_NEXT_WORKLOAD" ELSE workload = <<>>
      BY DEF EndInv, Resting
    <3>0. AllRest' /\ status' = "READY" /\ future' = "none" /\ Clear' = Clear /\ dirty' = dirty
      BY <3>1 DEF AllRest, Resting, Clear
    <3>2. CASE dirty
      BY <3>0, <3>1, <3>2, Zenon DEF IdleInv
    <3>3. CASE ~dirty
      <4>1. Unstarted'
        BY <3>1, <3>3 DEF Unstarted
      <4> QED BY <3>1, <3>3, <4>1 DEF IdleInv, AllRest, Resting
    <3> QED BY <3>2, <3>3
  <2> QED BY <2>1, <2>2, <2>3 DEF PublishInv, WorkInv, EndInv, DestroyInv, WaitedFor
<1>2. CASE Destroy
  <2> USE <1>2 DEF Destroy, ghostVars
  <2>1. \A w \in Workers : ~busy[w] /\ pc'[w] = "check"
    BY DEF IdleInv, AllRest, Resting, TypeOK
  <2>2. TypeOK'
    BY <2>1 DEF TypeOK, OwnerPCs, Statuses, PCs
  <2>3. LoadInv' /\ DestroyInv'
    BY <2>1 DEF LoadInv, DestroyInv
  <2> QED BY <2>2, <2>3 DEF IdleInv, PublishInv, WorkInv, EndInv, WaitedFor
<1>3. CASE Joined
  <2> USE <1>3 DEF Joined, poolVars, ghostVars
  <2>1. TypeOK'
    BY DEF TypeOK, OwnerPCs
  <2>2. LoadInv' /\ DestroyInv'
    BY DEF LoadInv, DestroyInv
  <2> QED BY <2>1, <2>2 DEF IdleInv, PublishInv, WorkInv, EndInv, WaitedFor
<1> QED BY <1>1, <1>2, <1>3

-----------------------------------------------------------------------------
(* The steps of the workers. *)

\* The loop of waitForWork: a worker without work waits, one with work or
\* without a pool goes on.
LEMMA NextWaitForWork ==
    ASSUME PoolInv, mode' = mode, NEW w \in Workers,
           CheckForWork(w) \/ SpuriousWakeUp(w) \/ StartWork(w)
    PROVE  PoolInv'
<1>1. PICK to \in {"check", "waiting", "start", "fetch", "exited"} :
          /\ pc' = [pc EXCEPT ![w] = to]
          /\ pc[w] \in {"check", "waiting", "start"}
          /\ to = "waiting" => ~busy[w] /\ status # "TERMINATING"
          /\ to = "start" => busy[w] \/ status = "TERMINATING"
          /\ to = "check" => pc[w] = "waiting"
          /\ to = "fetch" => pc[w] = "start" /\ status # "TERMINATING"
          /\ to = "exited" => pc[w] = "start" /\ status = "TERMINATING"
  BY Zenon DEF CheckForWork, SpuriousWakeUp, StartWork, Goto
<1>2. UNCHANGED <<mode, status, workload, dirty, active, shared, own, busy, task, future,
                  owner, added, ran, batch, errors>>
  BY DEF CheckForWork, SpuriousWakeUp, StartWork, ghostVars
<1> USE DEF PoolInv
<1>3. /\ pc \in [Workers -> PCs] /\ pc'[w] = to
      /\ \A v \in Workers \ {w} : pc'[v] = pc[v]
  BY <1>1 DEF TypeOK
<1>4. TypeOK'
  <2>1. pc' \in [Workers -> PCs]
    BY <1>1, <1>3 DEF PCs
  <2> QED BY <1>2, <2>1, Zenon DEF TypeOK
<1>5. LoadInv' /\ Ending' = Ending /\ Counted' = Counted
  BY <1>1, <1>2, <1>3 DEF LoadInv, Ending, Counted
<1>6. CASE owner \in {"idle", "publish"}
  <2>1. AllRest /\ status # "TERMINATING"
    BY <1>6 DEF IdleInv, PublishInv
  <2>2. AllRest'
    BY <1>1, <1>2, <1>3, <2>1 DEF AllRest, Resting
  <2>3. IdleInv'
    BY <1>2, <2>2, Zenon DEF IdleInv, Unstarted, Clear
  <2>4. PublishInv'
    BY <1>2, <2>2, Zenon DEF PublishInv, Unstarted, TasksOf, Least
  <2> QED BY <1>2, <1>4, <1>5, <1>6, <2>3, <2>4 DEF WorkInv, EndInv, DestroyInv, WaitedFor
<1>7. CASE owner = "wait" /\ future = "pending" /\ ~Ending
  <2>1. \A i : /\ InHand(i)' <=> InHand(i)
               /\ Fetched(i)' <=> Fetched(i)
    BY <1>1, <1>2, <1>3 DEF InHand, Fetched, Kind, Share
  <2>2. Indexes' = Indexes /\ Kind' = Kind /\ \A v \in Workers : Share(v)' = Share(v)
    BY <1>2 DEF Indexes, Kind, Share
  <2>3. \A v \in Workers : Done(v)' <=> Done(v)
    BY <2>1, <2>2 DEF Done
  <2>4. ProgressInv /\ ProgressInv'
    <3>1. ProgressInv
      BY <1>7 DEF WorkInv
    <3>2. /\ \A i \in Indexes :
                 /\ ~Fetched(i)' \/ InHand(i)' => ran'[workload'[i + 1]] = 0
                 /\ status' = "PROCESSING" /\ Fetched(i)' /\ ~InHand(i)'
                    => ran'[workload'[i + 1]] = 1
      BY <1>2, <2>1, <3>1 DEF ProgressInv
    <3>3. \A v \in Workers : pc'[v] = "run" =>
              /\ task'[v] \in Indexes' /\ Fetched(task[v])'
              /\ \A u \in Workers : pc'[u] = "run" /\ task'[u] = task'[v] => u = v
      BY <1>1, <1>2, <1>3, <2>1, <2>2, <3>1 DEF ProgressInv
    <3>4. status' = "PROCESSING" => \A v \in Workers :
              pc'[v] \in {"finish", "decrement"} \/ (Kind' = "MQ" /\ ~busy'[v]) => Done(v)'
      BY <1>1, <1>2, <1>3, <2>2, <2>3, <3>1 DEF ProgressInv
    <3> QED BY <1>2, <2>2, <3>1, <3>2, <3>3, <3>4 DEF ProgressInv
  <2>5. /\ status \in {"PROCESSING", "TERMINATING"} /\ dirty /\ active = Cardinality(Counted)
        /\ batch = TasksOf(workload)
        /\ \A v \in Workers :
              /\ pc[v] \in {"fetch", "run", "finish"} => busy[v]
              /\ pc[v] \in {"start", "exited"} => busy[v] \/ status = "TERMINATING"
              /\ pc[v] = "decrement" => ~busy[v]
        /\ status = "TERMINATING" => \E v \in Workers : busy[v] /\ pc[v] = "exited"
    BY <1>7 DEF WorkInv
  <2>6. \A v \in Workers :
              /\ pc'[v] \in {"fetch", "run", "finish"} => busy[v]
              /\ pc'[v] \in {"start", "exited"} => busy[v] \/ status = "TERMINATING"
              /\ pc'[v] = "decrement" => ~busy[v]
    BY <1>1, <1>3, <2>5
  <2>7. status = "TERMINATING" => \E v \in Workers : busy[v] /\ pc'[v] = "exited"
    BY <1>1, <1>3, <2>5
  <2>8. TasksOf(workload)' = TasksOf(workload)
    BY <1>2 DEF TasksOf
  <2>9. WorkInv'
    BY <1>2, <1>5, <2>4, <2>5, <2>6, <2>7, <2>8 DEF WorkInv
  <2> QED BY <1>2, <1>4, <1>5, <1>7, <2>9 DEF IdleInv, PublishInv, EndInv, DestroyInv, WaitedFor
<1>8. CASE owner = "wait" /\ (future = "ready" \/ Ending)
  <2>1. status # "TERMINATING"
    BY <1>8 DEF EndInv, Ending
  <2>2. EndInv'
    <3>1. \A v \in Workers : ~busy[v] /\ pc[v] \in {"check", "waiting", "last", "signal"}
      BY <1>8 DEF EndInv
    <3>2. to \in {"check", "waiting"}
      BY <1>1, <2>1, <3>1
    <3>3. \A v \in Workers : Resting(v)' <=> Resting(v)
      BY <1>1, <1>2, <1>3, <3>1, <3>2 DEF Resting
    <3>4. \A v \in Workers : pc'[v] \in {"last", "signal"} => pc'[v] = pc[v]
      BY <1>3, <3>2
    <3>5. \A v \in Workers : pc'[v] \in {"check", "waiting", "last", "signal"}
      BY <1>3, <3>1, <3>2
    <3> QED BY <1>2, <1>8, <3>1, <3>3, <3>4, <3>5 DEF EndInv, Clear
  <2> QED BY <1>2, <1>4, <1>5, <1>8, <2>2 DEF IdleInv, PublishInv, WorkInv, DestroyInv, WaitedFor
<1>9. CASE owner \in {"destroy", "joined"}
  <2>1. DestroyInv'
    BY <1>1, <1>2, <1>3, <1>9 DEF DestroyInv
  <2> QED BY <1>2, <1>4, <1>5, <1>9, <2>1 DEF IdleInv, PublishInv, WorkInv, EndInv, WaitedFor
<1> QED BY <1>6, <1>7, <1>8, <1>9 DEF TypeOK, OwnerPCs, WaitedFor

\* doWork takes an index that nobody has fetched, or finds none.
LEMMA NextFetch ==
    ASSUME PoolInv, mode' = mode, NEW w \in Workers, Fetch(w)
    PROVE  PoolInv'
<1>0. PICK i : i = IF Kind = "SQ" THEN shared ELSE own[w]
  OBVIOUS
<1> DEFINE more == i < Len(workload) /\ status = "PROCESSING"
<1>1. /\ pc[w] = "fetch" /\ task' = [task EXCEPT ![w] = i]
      /\ shared' = IF Kind = "SQ" THEN shared + 1 ELSE shared
      /\ own' = IF Kind = "MQ" /\ more THEN [own EXCEPT ![w] = @ + Size] ELSE own
      /\ pc' = [pc EXCEPT ![w] = IF more THEN "run" ELSE "finish"]
      /\ UNCHANGED <<mode, status, workload, dirty, active, busy, future, owner, added,
                     ran, batch, errors>>
  BY <1>0, Zenon DEF Fetch, Goto, ghostVars
<1>2. owner = "wait" /\ future = "pending" /\ ~Ending /\ busy[w]
  BY <1>1, AtWork
<1> USE DEF PoolInv
<1>3. /\ pc \in [Workers -> PCs] /\ own \in [Workers -> Nat] /\ task \in [Workers -> Nat]
      /\ shared \in Nat /\ Size \in Nat /\ Len(workload) \in Nat /\ Kind \in {"SQ", "MQ"}
      /\ i \in Nat
  <2>1. Kind \in {"SQ", "MQ"}
    BY ModeAssumption DEF TypeOK, Kind
  <2>2. /\ pc \in [Workers -> PCs] /\ own \in [Workers -> Nat] /\ task \in [Workers -> Nat]
        /\ shared \in Nat /\ Size \in Nat /\ Len(workload) \in Nat
    BY SizeAssumption DEF TypeOK
  <2>3. own[w] \in Nat
    BY <2>2
  <2> QED BY <1>0, <2>1, <2>2, <2>3
<1>4. ProgressInv
  BY <1>2 DEF WorkInv
<1>5. Kind = "MQ" => \A v \in Workers : v = w => own[v] \in Share(v)
  BY <1>2, <1>4 DEF ProgressInv
<1>6. /\ pc'[w] = (IF more THEN "run" ELSE "finish") /\ task'[w] = i
      /\ \A v \in Workers \ {w} : pc'[v] = pc[v] /\ task'[v] = task[v] /\ own'[v] = own[v]
      /\ Kind = "MQ" /\ more => own'[w] = own[w] + Size
      /\ own' \in [Workers -> Nat] /\ shared' \in Nat
  BY <1>1, <1>3
<1>7. Indexes' = Indexes /\ Kind' = Kind /\ \A v \in Workers : Share(v)' = Share(v)
  BY <1>1 DEF Indexes, Kind, Share
<1>8. \A j \in Indexes : Fetched(j) => Fetched(j)'
  <2>1. CASE Kind = "SQ"
    BY <1>1, <1>3, <1>7, <2>1 DEF Fetched, Indexes
  <2>2. CASE Kind = "MQ"
    <3>1. \A v \in Workers : own'[v] >= own[v]
      BY <1>1, <1>3, <1>6, <2>2
    <3>2. \A j \in Indexes, v \in Workers : j < own[v] => j < own'[v]
      BY <1>3, <1>6, <3>1 DEF Indexes
    <3> QED BY <1>7, <2>2, <3>2 DEF Fetched
  <2> QED BY <1>3, <2>1, <2>2
<1>9. more => ~Fetched(i)
  <2>1. CASE Kind = "SQ"
    BY <1>3, <2>1, <1>0 DEF Fetched
  <2>2. CASE Kind = "MQ"
    <3> SUFFICES ASSUME Fetched(i) PROVE FALSE
      OBVIOUS
    <3>1. i = own[w] /\ i \in Share(w)
      BY <1>5, <2>2, <1>0
    <3>2. PICK v \in Workers : i \in Share(v) /\ i < own[v]
      BY <2>2 DEF Fetched
    <3>3. v = w
      BY <3>1, <3>2, Shares
    <3> QED BY <1>3, <3>1, <3>2, <3>3
  <2> QED BY <1>3, <2>1, <2>2
<1>10. more => i \in Indexes /\ Fetched(i)'
  <2> SUFFICES ASSUME more PROVE i \in Indexes /\ Fetched(i)'
    OBVIOUS
  <2>1. i \in Indexes
    BY <1>0, <1>3 DEF Indexes
  <2>2. CASE Kind = "SQ"
    BY <1>1, <1>3, <1>7, <2>1, <2>2, <1>0 DEF Fetched
  <2>3. CASE Kind = "MQ"
    <3>1. i = own[w] /\ i \in Share(w)
      BY <1>5, <2>3, <1>0
    <3>2. Size > 0
      BY SizeAssumption DEF Workers
    <3>3. i < own'[w]
      BY <1>3, <1>6, <2>3, <3>1, <3>2
    <3> QED BY <1>7, <2>1, <2>3, <3>1, <3>3 DEF Fetched
  <2> QED BY <1>3, <2>1, <2>2, <2>3
<1>11. \A j \in Indexes : InHand(j)' <=> InHand(j) \/ (more /\ j = i)
  BY <1>1, <1>6 DEF InHand
<1>12. ASSUME NEW j \in Indexes, Fetched(j)', ~Fetched(j), status = "PROCESSING"
       PROVE  more /\ j = i
  <2>1. CASE Kind = "SQ"
    BY <1>0, <1>1, <1>3, <1>7, <1>12, <2>1 DEF Fetched, Indexes
  <2>2. CASE Kind = "MQ"
    <3>1. PICK v \in Workers : j \in Share(v) /\ j < own'[v] /\ ~(j < own[v])
      BY <1>7, <1>12, <2>2 DEF Fetched
    <3>2. v = w /\ more
      BY <1>1, <1>6, <3>1
    <3>3. own[w] \in Share(w) /\ i = own[w] /\ j < own[w] + Size
      BY <1>0, <1>5, <1>6, <2>2, <3>1, <3>2
    <3>4. j <= own[w]
      BY <3>1, <3>2, <3>3, Shares
    <3> QED BY <1>3, <3>1, <3>2, <3>3, <3>4 DEF Indexes
  <2> QED BY <1>3, <2>1, <2>2
<1>13. ~more /\ status = "PROCESSING" => Done(w)'
  <2> SUFFICES ASSUME ~more, status = "PROCESSING", NEW j \in Indexes,
                      Kind = "SQ" \/ j \in Share(w)
               PROVE  Fetched(j)
    BY <1>7, <1>8 DEF Done
  <2>1. j \in Nat /\ j < i
    BY <1>0, <1>3 DEF Indexes
  <2> QED BY <1>0, <1>3, <2>1 DEF Fetched
<1>14. ProgressInv'
  <2>1. ASSUME NEW j \in Indexes
        PROVE  /\ ~Fetched(j)' \/ InHand(j)' => ran'[workload'[j + 1]] = 0
               /\ status' = "PROCESSING" /\ Fetched(j)' /\ ~InHand(j)'
                  => ran'[workload'[j + 1]] = 1
    BY <1>1, <1>4, <1>8, <1>9, <1>11, <1>12 DEF ProgressInv
  <2>2. ASSUME NEW v \in Workers, pc'[v] = "run"
        PROVE  /\ task'[v] \in Indexes' /\ Fetched(task[v])'
               /\ \A u \in Workers : pc'[u] = "run" /\ task'[u] = task'[v] => u = v
    <3>1. \A u \in Workers \ {w} : pc'[u] = "run" =>
              task[u] \in Indexes /\ Fetched(task[u]) /\ task'[u] = task[u]
      BY <1>4, <1>6 DEF ProgressInv
    <3>2. CASE v = w
      <4>1. more /\ task'[v] = i
        BY <1>6, <2>2, <3>2
      <4>2. \A u \in Workers : pc'[u] = "run" /\ task'[u] = i => u = w
        BY <1>9, <3>1, <4>1
      <4>3. Fetched(task[v])'
        BY <1>10, <4>1 DEF Fetched
      <4> QED BY <1>7, <1>10, <3>2, <4>1, <4>2, <4>3
    <3>3. CASE v # w
      <4>1. PICK j \in Indexes : j = task[v] /\ Fetched(j) /\ task'[v] = j /\ pc[v] = "run"
        BY <1>6, <2>2, <3>1, <3>3
      <4>2. \A u \in Workers : pc'[u] = "run" /\ task'[u] = j => u = v
        BY <1>4, <1>6, <1>9, <3>3, <4>1 DEF ProgressInv
      <4>3. Fetched(task[v])'
        BY <1>8, <4>1 DEF Fetched
      <4> QED BY <1>7, <4>1, <4>2, <4>3
    <3> QED BY <3>2, <3>3
  <2>3. ASSUME status' = "PROCESSING", NEW v \in Workers,
               pc'[v] \in {"finish", "decrement"} \/ (Kind' = "MQ" /\ ~busy'[v])
        PROVE  Done(v)'
    <3>1. CASE v = w
      BY <1>1, <1>2, <1>6, <1>13, <2>3, <3>1
    <3>2. CASE v # w
      <4>1. Done(v)
        BY <1>1, <1>4, <1>6, <1>7, <2>3, <3>2 DEF ProgressInv
      <4> QED BY <1>7, <1>8, <4>1 DEF Done
    <3> QED BY <3>1, <3>2
  <2>4. ASSUME Kind = "MQ", NEW v \in Workers
        PROVE  own'[v] \in Share(v) \/ (~busy'[v] /\ v >= Len(workload'))
    <3>1. CASE v = w
      BY <1>1, <1>3, <1>5, <1>6, <2>4, <3>1, Shares
    <3>2. CASE v # w
      BY <1>1, <1>4, <1>6, <2>4, <3>2 DEF ProgressInv
    <3> QED BY <3>1, <3>2
  <2> QED BY <1>7, <2>1, <2>2, <2>3, <2>4 DEF ProgressInv
<1>15. TypeOK'
  <2>1. /\ pc' \in [Workers -> PCs] /\ task' \in [Workers -> Nat]
    BY <1>1, <1>3, <1>6 DEF PCs
  <2> QED BY <1>1, <1>6, <2>1, Zenon DEF TypeOK
<1>16. LoadInv' /\ ~Ending' /\ Counted' = Counted
  BY <1>1, <1>2, <1>6 DEF LoadInv, Ending, Counted
<1>17. WorkInv'
  <2>1. /\ status \in {"PROCESSING", "TERMINATING"} /\ dirty /\ active = Cardinality(Counted)
        /\ batch = TasksOf(workload)
        /\ \A v \in Workers :
              /\ pc[v] \in {"fetch", "run", "finish"} => busy[v]
              /\ pc[v] \in {"start", "exited"} => busy[v] \/ status = "TERMINATING"
              /\ pc[v] = "decrement" => ~busy[v]
        /\ status = "TERMINATING" => \E v \in Workers : busy[v] /\ pc[v] = "exited"
    BY <1>2 DEF WorkInv
  <2>2. \A v \in Workers :
              /\ pc'[v] \in {"fetch", "run", "finish"} => busy[v]
              /\ pc'[v] \in {"start", "exited"} => busy[v] \/ status = "TERMINATING"
              /\ pc'[v] = "decrement" => ~busy[v]
    BY <1>2, <1>6, <2>1
  <2>3. status = "TERMINATING" => \E v \in Workers : busy[v] /\ pc'[v] = "exited"
    BY <1>1, <1>6, <2>1
  <2>4. TasksOf(workload)' = TasksOf(workload)
    BY <1>1 DEF TasksOf
  <2> QED BY <1>1, <1>14, <1>16, <2>1, <2>2, <2>3, <2>4 DEF WorkInv
<1> QED BY <1>1, <1>2, <1>15, <1>16, <1>17 DEF IdleInv, PublishInv, EndInv, DestroyInv, WaitedFor

\* A task is started that was fetched and not started yet.
LEMMA NextStartsTask ==
    ASSUME PoolInv, mode' = mode, NEW w \in Workers, RunTask(w) \/ TaskThrows(w)
    PROVE  PoolInv'
<1>1. pc[w] = "run"
  BY DEF RunTask, TaskThrows
<1>2. owner = "wait" /\ future = "pending" /\ ~Ending /\ busy[w]
  BY <1>1, AtWork
<1> USE DEF PoolInv
<1>3. ProgressInv /\ LoadInv
  BY <1>2 DEF WorkInv
<1>4. PICK i \in Indexes : i = task[w] /\ Fetched(i) /\ InHand(i)
  BY <1>1, <1>3 DEF ProgressInv, InHand
<1>5. PICK t \in Tasks : t = workload[i + 1] /\ ran[t] = 0 /\ i + 1 \in 1 .. Len(workload)
  <2>1. i + 1 \in 1 .. Len(workload) /\ workload \in Seq(Tasks)
    BY DEF Indexes, TypeOK
  <2>2. workload[i + 1] \in Tasks
    BY <2>1, ElementOfSeq
  <2> QED BY <1>3, <1>4, <2>1, <2>2 DEF ProgressInv
<1>6. PICK to \in {"fetch", "check", "exited"} :
          /\ pc' = [pc EXCEPT ![w] = to]
          /\ ran' = [ran EXCEPT ![t] = @ + 1]
          /\ \/ to \in {"fetch", "check"} /\ status' = status
             \/ to = "exited" /\ status' = "TERMINATING"
          /\ errors' \in Seq(Tasks)
          /\ UNCHANGED <<mode, workload, dirty, active, shared, own, busy, task, future,
                         owner, added, batch>>
  <2>1. errors \in Seq(Tasks) /\ Append(errors, t) \in Seq(Tasks)
    BY DEF TypeOK
  <2>2. CASE RunTask(w)
    <3>1. ran' = [ran EXCEPT ![t] = @ + 1]
      BY <1>4, <1>5, <2>2 DEF RunTask
    <3>2. /\ pc' = [pc EXCEPT ![w] = "fetch"]
          /\ status' = status
          /\ errors' \in Seq(Tasks)
          /\ UNCHANGED <<mode, workload, dirty, active, shared, own, busy, task, future,
                         owner, added, batch>>
      BY <2>1, <2>2 DEF RunTask, Goto
    <3> QED BY <2>1, <3>1, <3>2, Zenon
  <2>3. CASE TaskThrows(w)
    <3>1. errors' \in Seq(Tasks)
      BY <1>4, <1>5, <2>1, <2>3 DEF TaskThrows
    <3>2. ran' = [ran EXCEPT ![t] = @ + 1]
      BY <1>4, <1>5, <2>3 DEF TaskThrows
    <3>3. /\ \/ pc' = [pc EXCEPT ![w] = "exited"] /\ status' = "TERMINATING"
             \/ pc' = [pc EXCEPT ![w] = "check"] /\ status' = status
          /\ UNCHANGED <<mode, workload, dirty, active, shared, own, busy, task, future,
                         owner, added, batch>>
      <4>1. UNCHANGED <<mode, workload, dirty, active, shared, own, busy, task, future,
                        owner, added, batch>>
        BY <2>3 DEF TaskThrows
      <4>2. CASE Handling = "TERMINATE"
        BY <2>3, <4>1, <4>2, Zenon DEF TaskThrows, Goto
      <4>3. CASE Handling # "TERMINATE"
        BY <2>3, <4>1, <4>3, Zenon DEF TaskThrows, Goto
      <4> QED BY <4>2, <4>3
    <3> QED BY <3>1, <3>2, <3>3, Zenon
  <2> QED BY <2>2, <2>3
<1>7. /\ pc \in [Workers -> PCs] /\ ran \in [Tasks -> Nat]
      /\ pc'[w] = to /\ \A v \in Workers \ {w} : pc'[v] = pc[v]
      /\ ran'[t] = 1 /\ \A u \in Tasks \ {t} : ran'[u] = ran[u]
  BY <1>5, <1>6 DEF TypeOK
<1>8. TypeOK'
  <2>1. pc' \in [Workers -> PCs] /\ ran' \in [Tasks -> Nat] /\ status' \in Statuses
    BY <1>6, <1>7 DEF PCs, Statuses, TypeOK
  <2> QED BY <1>6, <2>1, Zenon DEF TypeOK
<1>9. LoadInv'
  <2>1. t <= added
    BY <1>3, <1>5 DEF LoadInv
  <2>2. \A u \in Tasks : ran'[u] <= 1 /\ (u > added => ran'[u] = 0)
    <3> SUFFICES ASSUME NEW u \in Tasks PROVE ran'[u] <= 1 /\ (u > added => ran'[u] = 0)
      OBVIOUS
    <3>1. CASE u = t
      <4>1. ~(u > added)
        BY <2>1, <3>1 DEF Tasks, TypeOK
      <4> QED BY <1>7, <3>1, <4>1
    <3>2. CASE u # t
      BY <1>3, <1>7, <3>2 DEF LoadInv
    <3> QED BY <3>1, <3>2
  <2> QED BY <1>3, <1>6, <2>2 DEF LoadInv
<1>10. Indexes' = Indexes /\ Kind' = Kind /\ \A v \in Workers : Share(v)' = Share(v)
  BY <1>6 DEF Indexes, Kind, Share
<1>11. /\ \A j : Fetched(j)' <=> Fetched(j)
       /\ \A v \in Workers : Done(v)' <=> Done(v)
  <2>1. \A j : Fetched(j)' <=> Fetched(j)
    BY <1>6, <1>10 DEF Fetched
  <2> QED BY <1>10, <2>1 DEF Done
<1>12. \A j \in Indexes : InHand(j)' <=> InHand(j) /\ j # i
  <2>1. \A v \in Workers : pc'[v] = "run" <=> pc[v] = "run" /\ v # w
    BY <1>6, <1>7
  <2>2. \A v \in Workers : pc[v] = "run" /\ task[v] = i => v = w
    BY <1>1, <1>3, <1>4 DEF ProgressInv
  <2> QED BY <1>4, <1>6, <2>1, <2>2 DEF InHand
<1>13. ProgressInv'
  <2>1. ASSUME NEW j \in Indexes
        PROVE  /\ ~Fetched(j)' \/ InHand(j)' => ran'[workload'[j + 1]] = 0
               /\ status' = "PROCESSING" /\ Fetched(j)' /\ ~InHand(j)'
                  => ran'[workload'[j + 1]] = 1
    <3>1. CASE j = i
      BY <1>4, <1>5, <1>6, <1>7, <1>11, <1>12, <3>1
    <3>2. CASE j # i
      <4>1. j + 1 \in 1 .. Len(workload) /\ j + 1 # i + 1 /\ workload \in Seq(Tasks)
        BY <3>2 DEF Indexes, TypeOK
      <4>2. workload[j + 1] \in Tasks
        BY <4>1, ElementOfSeq
      <4>3. ran'[workload[j + 1]] = ran[workload[j + 1]]
        BY <1>3, <1>5, <1>7, <4>1, <4>2 DEF LoadInv
      <4>4. status' = "PROCESSING" => status = "PROCESSING"
        BY <1>6
      <4>5. /\ ~Fetched(j) \/ InHand(j) => ran[workload[j + 1]] = 0
            /\ status = "PROCESSING" /\ Fetched(j) /\ ~InHand(j) => ran[workload[j + 1]] = 1
        BY <1>3 DEF ProgressInv
      <4> QED BY <1>6, <1>11, <1>12, <3>2, <4>3, <4>4, <4>5
    <3> QED BY <3>1, <3>2
  <2>2. \A v \in Workers : pc'[v] = "run" =>
            /\ task'[v] \in Indexes' /\ Fetched(task[v])'
            /\ \A u \in Workers : pc'[u] = "run" /\ task'[u] = task'[v] => u = v
    <3>1. \A v \in Workers : pc'[v] = "run" => pc[v] = "run"
      BY <1>6, <1>7
    <3>2. \A v \in Workers : Fetched(task[v])' <=> Fetched(task[v])
      BY <1>6, <1>10 DEF Fetched
    <3> QED BY <1>3, <1>6, <1>10, <3>1, <3>2 DEF ProgressInv
  <2>3. status' = "PROCESSING" => \A v \in Workers :
            pc'[v] \in {"finish", "decrement"} \/ (Kind' = "MQ" /\ ~busy'[v]) => Done(v)'
    <3>1. status' = "PROCESSING" => status = "PROCESSING"
      BY <1>6
    <3>2. \A v \in Workers : pc'[v] \in {"finish", "decrement"} => pc'[v] = pc[v]
      BY <1>6, <1>7
    <3> QED BY <1>3, <1>6, <1>10, <1>11, <3>1, <3>2 DEF ProgressInv
  <2> QED BY <1>3, <1>6, <1>10, <2>1, <2>2, <2>3 DEF ProgressInv
<1>14. ~Ending' /\ Counted' = Counted
  BY <1>1, <1>2, <1>6, <1>7 DEF Ending, Counted
<1>15. WorkInv'
  <2>1. /\ status \in {"PROCESSING", "TERMINATING"} /\ dirty /\ active = Cardinality(Counted)
        /\ batch = TasksOf(workload)
        /\ \A v \in Workers :
              /\ pc[v] \in {"fetch", "run", "finish"} => busy[v]
              /\ pc[v] \in {"start", "exited"} => busy[v] \/ status = "TERMINATING"
              /\ pc[v] = "decrement" => ~busy[v]
        /\ status = "TERMINATING" => \E v \in Workers : busy[v] /\ pc[v] = "exited"
    BY <1>2 DEF WorkInv
  <2>2. \A v \in Workers :
              /\ pc'[v] \in {"fetch", "run", "finish"} => busy[v]
              /\ pc'[v] \in {"start", "exited"} => busy[v] \/ status' = "TERMINATING"
              /\ pc'[v] = "decrement" => ~busy[v]
    BY <1>2, <1>6, <1>7, <2>1
  <2>3. status' = "TERMINATING" => \E v \in Workers : busy[v] /\ pc'[v] = "exited"
    <3>1. CASE to = "exited"
      BY <1>2, <1>7, <3>1
    <3>2. CASE to # "exited"
      BY <1>1, <1>6, <1>7, <2>1, <3>2
    <3> QED BY <3>1, <3>2
  <2>4. TasksOf(workload)' = TasksOf(workload)
    BY <1>6 DEF TasksOf
  <2>5. status' \in {"PROCESSING", "TERMINATING"}
    BY <1>6, <2>1
  <2> QED BY <1>6, <1>13, <1>14, <2>1, <2>2, <2>3, <2>4, <2>5 DEF WorkInv
<1> QED BY <1>2, <1>6, <1>8, <1>9, <1>14, <1>15
        DEF IdleInv, PublishInv, EndInv, DestroyInv, WaitedFor

\* A worker that finished its share is still counted.
LEMMA NextFinish ==
    ASSUME PoolInv, mode' = mode, NEW w \in Workers, Finish(w)
    PROVE  PoolInv'
<1>1. /\ pc[w] = "finish" /\ busy' = [busy EXCEPT ![w] = FALSE]
      /\ pc' = [pc EXCEPT ![w] = "decrement"]
      /\ UNCHANGED <<mode, status, workload, dirty, active, shared, own, task, future,
                     owner, added, ran, batch, errors>>
  BY DEF Finish, Goto, ghostVars
<1>2. owner = "wait" /\ future = "pending" /\ ~Ending /\ busy[w]
  BY <1>1, AtWork
<1> USE DEF PoolInv
<1>3. /\ pc \in [Workers -> PCs] /\ busy \in [Workers -> BOOLEAN]
      /\ pc'[w] = "decrement" /\ ~busy'[w]
      /\ \A v \in Workers \ {w} : pc'[v] = pc[v] /\ busy'[v] = busy[v]
  BY <1>1 DEF TypeOK
<1>4. TypeOK'
  <2>1. pc' \in [Workers -> PCs] /\ busy' \in [Workers -> BOOLEAN]
    BY <1>1, <1>3 DEF PCs
  <2> QED BY <1>1, <2>1, Zenon DEF TypeOK
<1>5. LoadInv' /\ ~Ending' /\ Counted' = Counted
  BY <1>1, <1>2, <1>3 DEF LoadInv, Ending, Counted
<1>6. /\ Indexes' = Indexes /\ Kind' = Kind
      /\ \A v \in Workers : Share(v)' = Share(v)
      /\ \A v \in Workers : Fetched(task[v])' <=> Fetched(task[v])
  BY <1>1 DEF Indexes, Kind, Share, Fetched
<1>7. /\ \A j : (Fetched(j)' <=> Fetched(j)) /\ (InHand(j)' <=> InHand(j))
      /\ \A v \in Workers : Done(v)' <=> Done(v)
  <2>1. \A j : (Fetched(j)' <=> Fetched(j)) /\ (InHand(j)' <=> InHand(j))
    BY <1>1, <1>3, <1>6 DEF Fetched, InHand
  <2> QED BY <1>6, <2>1 DEF Done
<1>8. ProgressInv /\ ProgressInv'
  <2>1. ProgressInv
    BY <1>2 DEF WorkInv
  <2>2. \A v \in Workers : pc'[v] = "run" => pc[v] = "run"
    BY <1>3
  <2>3. status' = "PROCESSING" => \A v \in Workers :
            pc'[v] \in {"finish", "decrement"} \/ (Kind' = "MQ" /\ ~busy'[v]) => Done(v)'
    <3> SUFFICES ASSUME status = "PROCESSING", NEW v \in Workers,
                        pc'[v] \in {"finish", "decrement"} \/ (Kind = "MQ" /\ ~busy'[v])
                 PROVE  Done(v)
      BY <1>1, <1>6, <1>7
    <3>1. CASE v = w
      BY <1>1, <2>1, <3>1 DEF ProgressInv
    <3>2. CASE v # w
      BY <1>3, <2>1, <3>2 DEF ProgressInv
    <3> QED BY <3>1, <3>2
  <2>4. Kind = "MQ" => \A v \in Workers : own[v] \in Share(v) \/ (~busy'[v] /\ v >= Len(workload))
    BY <1>3, <2>1 DEF ProgressInv
  <2>5. \A v \in Workers : pc'[v] = "run" =>
            /\ task'[v] \in Indexes' /\ Fetched(task[v])'
            /\ \A u \in Workers : pc'[u] = "run" /\ task'[u] = task'[v] => u = v
    BY <1>1, <1>6, <2>1, <2>2 DEF ProgressInv
  <2>6. \A j \in Indexes' :
            /\ ~Fetched(j)' \/ InHand(j)' => ran'[workload'[j + 1]] = 0
            /\ status' = "PROCESSING" /\ Fetched(j)' /\ ~InHand(j)'
               => ran'[workload'[j + 1]] = 1
    BY <1>1, <1>6, <1>7, <2>1 DEF ProgressInv
  <2> QED BY <1>1, <1>6, <2>1, <2>3, <2>4, <2>5, <2>6 DEF ProgressInv
<1>9. WorkInv'
  <2>1. /\ status \in {"PROCESSING", "TERMINATING"} /\ dirty /\ active = Cardinality(Counted)
        /\ batch = TasksOf(workload)
        /\ \A v \in Workers :
              /\ pc[v] \in {"fetch", "run", "finish"} => busy[v]
              /\ pc[v] \in {"start", "exited"} => busy[v] \/ status = "TERMINATING"
              /\ pc[v] = "decrement" => ~busy[v]
        /\ status = "TERMINATING" => \E v \in Workers : busy[v] /\ pc[v] = "exited"
    BY <1>2 DEF WorkInv
  <2>2. \A v \in Workers :
              /\ pc'[v] \in {"fetch", "run", "finish"} => busy'[v]
              /\ pc'[v] \in {"start", "exited"} => busy'[v] \/ status = "TERMINATING"
              /\ pc'[v] = "decrement" => ~busy'[v]
    BY <1>3, <2>1
  <2>3. status = "TERMINATING" => \E v \in Workers : busy'[v] /\ pc'[v] = "exited"
    BY <1>1, <1>3, <2>1
  <2>4. TasksOf(workload)' = TasksOf(workload)
    BY <1>1 DEF TasksOf
  <2> QED BY <1>1, <1>5, <1>8, <2>1, <2>2, <2>3, <2>4 DEF WorkInv
<1> QED BY <1>1, <1>2, <1>4, <1>5, <1>9 DEF IdleInv, PublishInv, EndInv, DestroyInv, WaitedFor

\* Who counts itself out while others are counted leaves the load to them;
\* the last one finds all of it run.
LEMMA NextDecrement ==
    ASSUME PoolInv, mode' = mode, NEW w \in Workers, Decrement(w)
    PROVE  PoolInv'
<1>1. /\ pc[w] = "decrement" /\ active' = active - 1
      /\ pc' = [pc EXCEPT ![w] = IF active = 1 THEN "last" ELSE "check"]
      /\ UNCHANGED <<mode, status, workload, dirty, shared, own, busy, task, future,
                     owner, added, ran, batch, errors>>
  BY DEF Decrement, Goto, ghostVars
<1>2. owner = "wait" /\ future = "pending" /\ ~Ending /\ ~busy[w]
  BY <1>1, AtWork
<1> USE DEF PoolInv
<1>3. /\ pc \in [Workers -> PCs] /\ busy \in [Workers -> BOOLEAN] /\ active \in Int
      /\ pc'[w] = (IF active = 1 THEN "last" ELSE "check")
      /\ \A v \in Workers \ {w} : pc'[v] = pc[v]
  BY <1>1 DEF TypeOK
<1>4. TypeOK'
  <2>1. pc' \in [Workers -> PCs] /\ active' \in Int
    BY <1>1, <1>3 DEF PCs
  <2> QED BY <1>1, <2>1, Zenon DEF TypeOK
<1>5. LoadInv'
  BY <1>1 DEF LoadInv
<1>6. IsFiniteSet(Counted) /\ w \in Counted /\ Counted' = Counted \ {w}
  <2>1. IsFiniteSet(Workers)
    BY SizeAssumption, FS_Interval DEF Workers
  <2>2. IsFiniteSet(Counted)
    BY <2>1, FS_Subset DEF Counted
  <2> QED BY <1>1, <1>2, <1>3, <2>2 DEF Counted
<1>7. /\ status \in {"PROCESSING", "TERMINATING"} /\ dirty /\ active = Cardinality(Counted)
      /\ batch = TasksOf(workload) /\ ProgressInv
      /\ \A v \in Workers :
            /\ pc[v] \in {"fetch", "run", "finish"} => busy[v]
            /\ pc[v] \in {"start", "exited"} => busy[v] \/ status = "TERMINATING"
            /\ pc[v] = "decrement" => ~busy[v]
      /\ status = "TERMINATING" => \E v \in Workers : busy[v] /\ pc[v] = "exited"
  BY <1>2 DEF WorkInv
<1>8. CASE active # 1
  <2>1. active' = Cardinality(Counted')
    BY <1>1, <1>6, <1>7, FS_RemoveElement
  <2>2. ~Ending'
    BY <1>2, <1>3, <1>8 DEF Ending
  <2>3. /\ Indexes' = Indexes /\ Kind' = Kind
        /\ \A v \in Workers : Share(v)' = Share(v)
        /\ \A v \in Workers : Fetched(task[v])' <=> Fetched(task[v])
    BY <1>1 DEF Indexes, Kind, Share, Fetched
  <2>4. /\ \A j : (Fetched(j)' <=> Fetched(j)) /\ (InHand(j)' <=> InHand(j))
        /\ \A v \in Workers : Done(v)' <=> Done(v)
    <3>1. \A j : (Fetched(j)' <=> Fetched(j)) /\ (InHand(j)' <=> InHand(j))
      BY <1>1, <1>3, <1>8, <2>3 DEF Fetched, InHand
    <3> QED BY <2>3, <3>1 DEF Done
  <2>5. ProgressInv'
    <3>1. \A v \in Workers : pc'[v] \in {"run", "finish", "decrement"} => pc'[v] = pc[v]
      BY <1>3, <1>8
    <3>2. \A v \in Workers : pc'[v] = "run" =>
              /\ task'[v] \in Indexes' /\ Fetched(task[v])'
              /\ \A u \in Workers : pc'[u] = "run" /\ task'[u] = task'[v] => u = v
      BY <1>1, <1>7, <2>3, <3>1 DEF ProgressInv
    <3>3. status' = "PROCESSING" => \A v \in Workers :
              pc'[v] \in {"finish", "decrement"} \/ (Kind' = "MQ" /\ ~busy'[v]) => Done(v)'
      BY <1>1, <1>7, <2>3, <2>4, <3>1 DEF ProgressInv
    <3>4. \A j \in Indexes' :
              /\ ~Fetched(j)' \/ InHand(j)' => ran'[workload'[j + 1]] = 0
              /\ status' = "PROCESSING" /\ Fetched(j)' /\ ~InHand(j)'
                 => ran'[workload'[j + 1]] = 1
      BY <1>1, <1>7, <2>3, <2>4 DEF ProgressInv
    <3> QED BY <1>1, <1>7, <2>3, <3>2, <3>3, <3>4 DEF ProgressInv
  <2>6. \A v \in Workers :
            /\ pc'[v] \in {"fetch", "run", "finish"} => busy[v]
            /\ pc'[v] \in {"start", "exited"} => busy[v] \/ status = "TERMINATING"
            /\ pc'[v] = "decrement" => ~busy[v]
    BY <1>3, <1>7, <1>8
  <2>7. status = "TERMINATING" => \E v \in Workers : busy[v] /\ pc'[v] = "exited"
    BY <1>2, <1>3, <1>7
  <2>8. TasksOf(workload)' = TasksOf(workload)
    BY <1>1 DEF TasksOf
  <2>9. WorkInv'
    BY <1>1, <1>7, <2>1, <2>5, <2>6, <2>7, <2>8 DEF WorkInv
  <2> QED BY <1>1, <1>2, <1>4, <1>5, <2>2, <2>9
          DEF IdleInv, PublishInv, EndInv, DestroyInv, WaitedFor
<1>9. CASE active = 1
  <2>1. Counted = {w}
    <3>1. \E x : Counted = {x}
      BY <1>6, <1>7, <1>9, FS_Singleton
    <3> QED BY <1>6, <3>1
  <2>2. \A v \in Workers : ~busy[v] /\ (v # w => pc[v] # "decrement")
    BY <1>2, <2>1 DEF Counted
  <2>3. status = "PROCESSING"
    BY <1>7, <2>2
  <2>4. \A v \in Workers \ {w} : pc[v] \in {"check", "waiting"}
    BY <1>2, <1>3, <1>7, <2>2, <2>3 DEF Ending, PCs
  <2>5. \A i \in Indexes : ran[workload[i + 1]] = 1
    <3> SUFFICES ASSUME NEW i \in Indexes PROVE ran[workload[i + 1]] = 1
      OBVIOUS
    <3>1. Done(w) /\ (Kind = "MQ" => \A v \in Workers : Done(v))
      BY <1>1, <1>7, <2>2, <2>3 DEF ProgressInv
    <3>2. Fetched(i)
      <4>1. i \in Nat /\ \E v \in Workers : i \in Share(v)
        BY Shares DEF Indexes
      <4>2. Kind \in {"SQ", "MQ"}
        BY ModeAssumption DEF TypeOK, Kind
      <4> QED BY <3>1, <4>1, <4>2 DEF Done
    <3>3. ~InHand(i)
      BY <1>7, <2>2 DEF InHand
    <3> QED BY <1>7, <2>3, <3>2, <3>3 DEF ProgressInv
  <2>6. \A t \in batch : ran[t] = 1
    <3> SUFFICES ASSUME NEW k \in 1 .. Len(workload) PROVE ran[workload[k]] = 1
      BY <1>7 DEF TasksOf
    <3>1. k - 1 \in Indexes /\ (k - 1) + 1 = k
      BY DEF Indexes, TypeOK
    <3> QED BY <2>5, <3>1
  <2>7. /\ pc'[w] = "last" /\ Ending'
        /\ \A v \in Workers \ {w} : Resting(v)' /\ pc'[v] \in {"check", "waiting"}
    BY <1>1, <1>3, <1>9, <2>2, <2>4 DEF Ending, Resting
  <2>8. EndInv'
    BY <1>1, <1>2, <1>7, <2>2, <2>3, <2>6, <2>7 DEF EndInv
  <2> QED BY <1>1, <1>2, <1>4, <1>5, <2>7, <2>8
          DEF IdleInv, PublishInv, WorkInv, DestroyInv, WaitedFor
<1> QED BY <1>8, <1>9

\* The last worker makes the pool ready, and then tells the owner.
LEMMA NextEnd ==
    ASSUME PoolInv, mode' = mode, NEW w \in Workers, MakeReady(w) \/ Signal(w)
    PROVE  PoolInv'
<1>1. pc[w] \in {"last", "signal"}
  BY DEF MakeReady, Signal
<1>2. owner = "wait" /\ future = "pending" /\ Ending
  BY <1>1, AtEnd
<1> USE DEF PoolInv
<1>3. /\ \A v \in Workers :
             /\ ~busy[v] /\ pc[v] \in {"check", "waiting", "last", "signal"}
             /\ pc[v] = "last" => status = "PROCESSING" /\ future = "pending" /\ dirty
             /\ pc[v] = "signal" => status = "READY" /\ future = "pending"
             /\ pc[v] \in {"last", "signal"} => \A u \in Workers \ {v} : Resting(u)
      /\ status = "READY" => IF dirty THEN Clear = "AT_NEXT_WORKLOAD" ELSE workload = <<>>
      /\ \A t \in batch : ran[t] = 1
  BY <1>2 DEF EndInv
<1>4. \A v \in Workers \ {w} : Resting(v)
  BY <1>1, <1>3
<1>5. CASE MakeReady(w)
  <2>1. /\ pc[w] = "last" /\ status' = "READY" /\ pc' = [pc EXCEPT ![w] = "signal"]
        /\ \/ Clear = "UPPON_COMPLETION" /\ workload' = <<>> /\ dirty' = FALSE
           \/ Clear # "UPPON_COMPLETION" /\ workload' = workload /\ dirty' = dirty
        /\ UNCHANGED <<mode, active, shared, own, busy, task, future, owner, added,
                       ran, batch, errors>>
    <3>1. UNCHANGED <<mode, active, shared, own, busy, task, future, owner, added,
                      ran, batch, errors>>
      BY <1>5 DEF MakeReady, ghostVars
    <3>2. \/ Clear = "UPPON_COMPLETION" /\ workload' = <<>> /\ dirty' = FALSE
          \/ Clear # "UPPON_COMPLETION" /\ workload' = workload /\ dirty' = dirty
      <4>1. CASE Clear = "UPPON_COMPLETION"
        BY <1>5, <4>1, Zenon DEF MakeReady
      <4>2. CASE Clear # "UPPON_COMPLETION"
        <5>1. UNCHANGED <<workload, dirty>>
          BY <1>5, <4>2, Zenon DEF MakeReady
        <5>2. workload' = workload /\ dirty' = dirty
          BY <5>1
        <5> QED BY <4>2, <5>2, Zenon
      <4> QED BY <4>1, <4>2, Zenon
    <3> QED BY <1>5, <3>1, <3>2, Zenon DEF MakeReady, Goto
  <2>2. pc' \in [Workers -> PCs] /\ pc'[w] = "signal" /\ \A v \in Workers \ {w} : pc'[v] = pc[v]
    BY <2>1 DEF TypeOK, PCs
  <2>3. workload' \in Seq(Tasks) /\ status' \in Statuses
    <3>1. workload \in Seq(Tasks) /\ <<>> \in Seq(Tasks)
      BY DEF TypeOK
    <3> QED BY <2>1, <3>1 DEF Statuses
  <2>4. dirty' \in BOOLEAN
    BY <2>1, Zenon DEF TypeOK
  <2>5. TypeOK'
    BY <2>1, <2>2, <2>3, <2>4, Zenon DEF TypeOK
  <2>6. LoadInv'
    BY <2>1 DEF LoadInv
  <2>7. IF dirty' THEN Clear' = "AT_NEXT_WORKLOAD" ELSE workload' = <<>>
    <3>1. dirty
      BY <1>3, <2>1
    <3>2. Clear \in {"UPPON_COMPLETION", "AT_NEXT_WORKLOAD"} /\ Clear' = Clear
      BY ModeAssumption DEF TypeOK, Clear
    <3> QED BY <2>1, <3>1, <3>2
  <2>8. Ending' /\ \A v \in Workers \ {w} : Resting(v)' /\ pc'[v] \in {"check", "waiting"}
    BY <1>4, <2>1, <2>2 DEF Ending, Resting
  <2>9. EndInv'
    BY <1>2, <1>3, <2>1, <2>2, <2>7, <2>8 DEF EndInv
  <2> QED BY <1>2, <2>1, <2>5, <2>6, <2>8, <2>9
          DEF IdleInv, PublishInv, WorkInv, DestroyInv, WaitedFor
<1>6. CASE Signal(w)
  <2>1. /\ pc[w] = "signal" /\ future' = "ready" /\ pc' = [pc EXCEPT ![w] = "check"]
        /\ UNCHANGED <<mode, status, workload, dirty, active, shared, own, busy, task, owner,
                       added, ran, batch, errors>>
    BY <1>6 DEF Signal, Goto, ghostVars
  <2>2. pc' \in [Workers -> PCs] /\ pc'[w] = "check" /\ \A v \in Workers \ {w} : pc'[v] = pc[v]
    BY <2>1 DEF TypeOK, PCs
  <2>3. TypeOK'
    <3>1. future' \in {"none", "pending", "ready"}
      BY <2>1
    <3> QED BY <2>1, <2>2, <3>1, Zenon DEF TypeOK
  <2>4. LoadInv'
    BY <2>1 DEF LoadInv
  <2>5. \A v \in Workers : pc'[v] \in {"check", "waiting"}
    BY <1>4, <2>2 DEF Resting
  <2>6. status = "READY"
    BY <1>3, <2>1
  <2>7. EndInv'
    BY <1>3, <2>1, <2>5, <2>6 DEF EndInv, Clear
  <2> QED BY <1>2, <2>1, <2>3, <2>4, <2>7 DEF IdleInv, PublishInv, WorkInv, DestroyInv, WaitedFor
<1> QED BY <1>5, <1>6

-----------------------------------------------------------------------------
(* The theorems. *)

\* Every step of the owner and of a worker preserves the invariant.
LEMMA NextPoolInv == PoolInv /\ [Next]_vars => PoolInv'
<1> SUFFICES ASSUME PoolInv, [Next]_vars PROVE PoolInv'
  OBVIOUS
<1>1. CASE UNCHANGED vars
  <2> USE <1>1 DEF vars
  <2>1. /\ TypeOK' /\ LoadInv' /\ WaitedFor' /\ DestroyInv'
    BY DEF PoolInv, TypeOK, LoadInv, WaitedFor, DestroyInv
  <2>2. /\ Indexes' = Indexes /\ Kind' = Kind /\ Clear' = Clear /\ Ending' = Ending
        /\ Counted' = Counted /\ (AllRest' <=> AllRest) /\ (Unstarted' <=> Unstarted)
        /\ \A w \in Workers : Share(w)' = Share(w) /\ (Resting(w)' <=> Resting(w))
    BY DEF Indexes, Kind, Clear, Ending, Counted, AllRest, Resting, Unstarted, Share
  <2>3. /\ \A i : (Fetched(i)' <=> Fetched(i)) /\ (InHand(i)' <=> InHand(i))
        /\ \A w \in Workers : Fetched(task[w])' <=> Fetched(task[w])
    BY <2>2 DEF Fetched, InHand
  <2>4. \A w \in Workers : Done(w)' <=> Done(w)
    BY <2>2, <2>3 DEF Done
  <2>5. ProgressInv => ProgressInv'
    BY <2>2, <2>3, <2>4 DEF ProgressInv
  <2>6. IdleInv' /\ PublishInv'
    BY <2>2, Zenon DEF PoolInv, IdleInv, PublishInv, TasksOf
  <2>7. WorkInv' /\ EndInv'
    BY <2>2, <2>5, Zenon DEF PoolInv, WorkInv, EndInv, TasksOf
  <2> QED BY <2>1, <2>6, <2>7 DEF PoolInv
<1>2. CASE Next
  <2>1. mode' = mode
    BY <1>2 DEF Next
  <2>2. CASE OwnerStep
    BY <2>1, <2>2, NextAddTask, NextProcessWorkload, NextProcessNewWorkload,
       NextPrepareWorkers, NextOwnerRests DEF OwnerStep
  <2>3. ASSUME NEW w \in Workers, WorkerStep(w) \/ SpuriousWakeUp(w)
        PROVE  PoolInv'
    BY <2>1, <2>3, NextWaitForWork, NextFetch, NextStartsTask, NextFinish, NextDecrement,
       NextEnd DEF WorkerStep
  <2> QED BY <1>2, <2>2, <2>3 DEF Next
<1> QED BY <1>1, <1>2

\* The invariant holds in every state a pool of any size can reach.
THEOREM Invariance == Spec => []PoolInv
<1>1. Init => PoolInv
  BY InitPoolInv
<1>2. PoolInv /\ [Next]_vars => PoolInv'
  BY NextPoolInv
<1> QED BY <1>1, <1>2, PTL DEF Spec

\* The state has the types the code declares.
THEOREM TypeCorrect == Spec => []TypeOK
<1>1. PoolInv => TypeOK
  BY DEF PoolInv
<1> QED BY <1>1, Invariance, PTL

\* No task is started twice: not by two workers that race for the index, not
\* by a worker that resumes after an exception, not by a later workload that
\* still holds the tasks of the one before.
THEOREM StartedOnce == Spec => []TaskStartedOnce
<1>1. PoolInv => TaskStartedOnce
  BY DEF PoolInv, LoadInv, TaskStartedOnce
<1> QED BY <1>1, Invariance, PTL

\* While the owner may change m_workload, which no lock protects, no worker
\* is anywhere near it.
THEOREM NotShared == Spec => []WorkloadNotShared
<1>1. PoolInv => WorkloadNotShared
  BY DEF PoolInv, IdleInv, AllRest, Resting, WorkloadNotShared
<1> QED BY <1>1, Invariance, PTL

-----------------------------------------------------------------------------
(* The pool implements TaskBatch. *)

Left == IF Waiting THEN {t \in batch : ran[t] = 0} ELSE {}

\* The steps of TaskBatch, in terms of the pool.
LEMMA BatchUnfolded ==
    /\ Batch!Init <=> ~Waiting /\ Left = {}
    /\ (Waiting' <=> Waiting) /\ Left' = Left => [Batch!Next]_(Batch!batchVars)
    /\ \A b \in SUBSET Tasks :
          b # {} /\ ~Waiting /\ Waiting' /\ Left' = b => Batch!Next
    /\ \A t \in Tasks :
          Waiting /\ t \in Left /\ Left' = Left \ {t} /\ Waiting' => Batch!Next
    /\ Waiting /\ Left = {} /\ ~Waiting' /\ Left' = {} => Batch!Next
<1>1. Waiting \in BOOLEAN /\ Waiting' \in BOOLEAN
  BY DEF Waiting
<1> USE DEF Left, Batch!Next
<1>2. Batch!Init <=> ~Waiting /\ Left = {}
  BY <1>1, Zenon DEF Batch!Init
<1>3. (Waiting' <=> Waiting) /\ Left' = Left => [Batch!Next]_(Batch!batchVars)
  BY <1>1, Zenon DEF Batch!batchVars
<1>4. \A b \in SUBSET Tasks :
          b # {} /\ ~Waiting /\ Waiting' /\ Left' = b => Batch!Next
  BY <1>1, Zenon DEF Batch!Submit
<1>5. \A t \in Tasks :
          Waiting /\ t \in Left /\ Left' = Left \ {t} /\ Waiting' => Batch!Next
  BY <1>1, Zenon DEF Batch!Run
<1>6. Waiting /\ Left = {} /\ ~Waiting' /\ Left' = {} => Batch!Next
  BY <1>1, Zenon DEF Batch!Return
<1> QED BY <1>2, <1>3, <1>4, <1>5, <1>6

\* A published load is a batch that has not run.
LEMMA SubmitsBatch ==
    ASSUME PoolInv, PoolInv', NEW load, NEW isDirty, owner = "idle",
           Publish(load, isDirty), load \in Seq(Tasks), UNCHANGED ran
    PROVE  [Batch!Next]_(Batch!batchVars)
<1>1. ~Waiting /\ Left = {}
  BY DEF Waiting, Left
<1>2. CASE status # "READY" \/ load = <<>>
  <2>1. UNCHANGED <<owner, batch>>
    BY <1>2 DEF Publish
  <2>2. ~Waiting' /\ Left' = {}
    BY <2>1 DEF Waiting, Left
  <2> QED BY <1>1, <2>2, BatchUnfolded
<1>3. CASE ~(status # "READY" \/ load = <<>>)
  <2>1. owner' = "publish" /\ batch' = TasksOf(load) /\ workload' = load
    BY <1>3 DEF Publish
  <2>2. Waiting'
    BY <2>1 DEF Waiting
  <2>3. Unstarted'
    BY <2>1 DEF PoolInv, PublishInv
  <2>4. Left' = batch'
    BY <2>1, <2>2, <2>3 DEF Left, Unstarted, TasksOf
  <2>5. batch' # {} /\ batch' \in SUBSET Tasks
    <3>1. Len(load) \in Nat \ {0}
      BY <1>3, EmptySeq
    <3>2. load[1] \in batch'
      BY <2>1, <3>1 DEF TasksOf
    <3>3. batch' \in SUBSET Tasks
      BY DEF PoolInv, TypeOK
    <3> QED BY <3>2, <3>3
  <2> QED BY <1>1, <2>2, <2>4, <2>5, BatchUnfolded
<1> QED BY <1>2, <1>3

\* A started task is one of the batch that was left.
LEMMA RunsOneTask ==
    ASSUME PoolInv, mode' = mode, NEW w \in Workers, RunTask(w) \/ TaskThrows(w)
    PROVE  [Batch!Next]_(Batch!batchVars)
<1>1. pc[w] = "run"
  BY DEF RunTask, TaskThrows
<1>2. owner = "wait" /\ future = "pending" /\ ~Ending
  BY <1>1, AtWork
<1>3. ProgressInv /\ batch = TasksOf(workload) /\ TypeOK
  BY <1>2 DEF PoolInv, WorkInv
<1>4. PICK i \in Indexes : i = task[w] /\ InHand(i) /\ ran[workload[i + 1]] = 0
  BY <1>1, <1>3 DEF ProgressInv, InHand
<1>5. PICK t \in Tasks : t = workload[i + 1] /\ t \in batch /\ ran[t] = 0
  <2>1. i + 1 \in 1 .. Len(workload) /\ workload \in Seq(Tasks)
    BY <1>3 DEF Indexes, TypeOK
  <2>2. workload[i + 1] \in Tasks
    BY <2>1, ElementOfSeq
  <2> QED BY <1>3, <1>4, <2>1, <2>2 DEF TasksOf
<1>6. ran' = [ran EXCEPT ![t] = @ + 1] /\ UNCHANGED <<owner, batch>>
  BY <1>4, <1>5 DEF RunTask, TaskThrows
<1>7. ran'[t] = 1 /\ \A u \in Tasks \ {t} : ran'[u] = ran[u]
  BY <1>3, <1>5, <1>6 DEF TypeOK
<1>8. Waiting /\ Waiting'
  BY <1>2, <1>6 DEF Waiting
<1>9. t \in Left /\ Left' = Left \ {t}
  BY <1>3, <1>5, <1>6, <1>7, <1>8 DEF Left, TypeOK
<1> QED BY <1>5, <1>8, <1>9, BatchUnfolded

\* Every step of the pool is a step of TaskBatch or changes nothing of it.
LEMMA ImplementsNext == PoolInv /\ PoolInv' /\ [Next]_vars => [Batch!Next]_(Batch!batchVars)
<1> SUFFICES ASSUME PoolInv, PoolInv', [Next]_vars PROVE [Batch!Next]_(Batch!batchVars)
  OBVIOUS
<1>1. CASE UNCHANGED <<owner, ran, batch>>
  <2>1. (Waiting' <=> Waiting) /\ Left' = Left
    BY <1>1 DEF Waiting, Left
  <2> QED BY <2>1, BatchUnfolded
<1>2. CASE UNCHANGED vars
  BY <1>1, <1>2 DEF vars
<1>3. CASE Next
  <2>1. mode' = mode
    BY <1>3 DEF Next
  <2>2. CASE ProcessWorkload
    <3>1. workload \in Seq(Tasks) /\ <<>> \in Seq(Tasks)
      BY DEF PoolInv, TypeOK
    <3>2. owner = "idle" /\ UNCHANGED ran
      BY <2>2 DEF ProcessWorkload
    <3>3. Publish(<<>>, FALSE) \/ Publish(workload, dirty)
      BY <2>2, Zenon DEF ProcessWorkload
    <3> QED BY <3>1, <3>2, <3>3, SubmitsBatch
  <2>3. ASSUME NEW n \in 0 .. MaxTasks, ProcessNewWorkload(n)
        PROVE  [Batch!Next]_(Batch!batchVars)
    <3> DEFINE load == [k \in 1 .. n |-> added + k]
    <3>1. owner = "idle" /\ UNCHANGED ran /\ added + n <= MaxTasks
      BY <2>3 DEF ProcessNewWorkload
    <3>2. load \in Seq(Tasks)
      <4>1. \A k \in 1 .. n : added + k \in Tasks
        BY <3>1, BoundsAssumption DEF Tasks, PoolInv, TypeOK
      <4> QED BY <4>1, SeqDef, BoundsAssumption
    <3>3. CASE status # "READY"
      BY <1>1, <2>3, <3>3 DEF ProcessNewWorkload
    <3>4. CASE status = "READY"
      <4>1. Publish(load, FALSE)
        BY <2>3, <3>4 DEF ProcessNewWorkload
      <4> HIDE DEF load
      <4> QED BY <3>1, <3>2, <4>1, SubmitsBatch
    <3> QED BY <3>3, <3>4
  <2>4. CASE AddTask
    BY <1>1, <2>4 DEF AddTask, ghostVars
  <2>5. CASE PrepareWorkers
    <3>1. /\ owner = "publish" /\ owner' = "wait" /\ UNCHANGED <<ran, batch>>
      BY <2>5 DEF PrepareWorkers, ghostVars
    <3>2. (Waiting' <=> Waiting) /\ Left' = Left
      BY <3>1 DEF Waiting, Left
    <3> QED BY <3>2, BatchUnfolded
  <2>6. CASE Waited
    <3>1. owner = "wait" /\ future = "ready" /\ owner' = "idle" /\ UNCHANGED <<ran, batch>>
      BY <2>6 DEF Waited, ghostVars
    <3>2. \A t \in batch : ran[t] = 1
      BY <3>1 DEF PoolInv, EndInv
    <3>3. Waiting /\ Left = {} /\ ~Waiting' /\ Left' = {}
      BY <3>1, <3>2 DEF Waiting, Left
    <3> QED BY <3>3, BatchUnfolded
  <2>7. CASE Destroy \/ Joined
    <3>1. ~Waiting /\ ~Waiting' /\ Left = {} /\ Left' = {}
      BY <2>7 DEF Destroy, Joined, Waiting, Left
    <3> QED BY <3>1, BatchUnfolded
  <2>8. ASSUME NEW w \in Workers, WorkerStep(w) \/ SpuriousWakeUp(w)
        PROVE  [Batch!Next]_(Batch!batchVars)
    <3>1. CASE RunTask(w) \/ TaskThrows(w)
      BY <2>1, <3>1, RunsOneTask
    <3>2. CASE \/ CheckForWork(w) \/ SpuriousWakeUp(w) \/ StartWork(w) \/ Fetch(w)
               \/ Finish(w) \/ Decrement(w) \/ MakeReady(w) \/ Signal(w)
      <4>1. UNCHANGED <<owner, ran, batch>>
        BY <3>2 DEF CheckForWork, SpuriousWakeUp, StartWork, Fetch, Finish, Decrement,
                    MakeReady, Signal, ghostVars
      <4> QED BY <1>1, <4>1
    <3> QED BY <2>8, <3>1, <3>2 DEF WorkerStep
  <2> QED BY <1>3, <2>2, <2>3, <2>4, <2>5, <2>6, <2>7, <2>8 DEF Next, OwnerStep
<1> QED BY <1>2, <1>3

\* To its owner the pool is a TaskBatch: job.wait() returns only when every
\* task of the workload has run, and nothing runs outside a workload.
THEOREM PoolImplementsTaskBatch == Spec => ImplementsTaskBatch
<1>1. Init => Batch!Init
  BY BatchUnfolded DEF Init, Waiting, Left
<1>2. PoolInv /\ PoolInv' /\ [Next]_vars => [Batch!Next]_(Batch!batchVars)
  BY ImplementsNext
<1> QED BY <1>1, <1>2, Invariance, PTL DEF Spec, ImplementsTaskBatch, Batch!Spec
-----------------------------------------------------------------------------
(* No wake-up is missed. *)

\* m_active is positive as long as the last worker has not counted itself out;
\* a worker whose thread has ended finds the pool terminating.
AwakeInv ==
    /\ \A w \in Workers :
          /\ pc[w] = "waiting" => ~busy[w] /\ owner \notin {"destroy", "joined"}
          /\ pc[w] = "exited" => status = "TERMINATING"
    /\ owner = "publish" \/ (owner = "wait" /\ future = "pending" /\ ~Ending) => active >= 1
    /\ Workers = {} => status \in {"STOPPED", "TERMINATING"}

\* A pool that has just been started has nobody waiting.
LEMMA InitAwakeInv == Init => AwakeInv
BY SizeAssumption DEF Init, AwakeInv, Workers

\* A published load has a task for at least one worker.
LEMMA PublishesWork ==
    ASSUME PoolInv, AwakeInv, owner = "idle", NEW load \in Seq(Tasks), NEW isDirty,
           Publish(load, isDirty), UNCHANGED <<busy, pc>>
    PROVE  AwakeInv'
<1>1. CASE status # "READY" \/ load = <<>>
  <2>1. UNCHANGED <<status, active, future, owner>>
    BY <1>1 DEF Publish
  <2> QED BY <2>1 DEF AwakeInv
<1>2. CASE ~(status # "READY" \/ load = <<>>)
  <2>1. active' = Least(Size, Len(load)) /\ owner' = "publish" /\ status' = "PROCESSING"
    BY <1>2 DEF Publish
  <2>2. Workers # {}
    BY <1>2 DEF AwakeInv
  <2>3. Size >= 1 /\ Len(load) >= 1
    <3>1. Len(load) \in Nat \ {0}
      BY <1>2, EmptySeq
    <3> QED BY <2>2, <3>1, SizeAssumption DEF Workers
  <2>4. \A w \in Workers : pc'[w] # "exited" /\ ~busy'[w]
    BY DEF PoolInv, IdleInv, AllRest, Resting
  <2> QED BY <2>1, <2>2, <2>3, <2>4, SizeAssumption DEF AwakeInv, Least
<1> QED BY <1>1, <1>2

\* The owner changes `busy' and the status only when it notifies everyone.
LEMMA OwnerWakes ==
    ASSUME PoolInv, AwakeInv, mode' = mode, OwnerStep
    PROVE  AwakeInv'
<1>1. CASE AddTask
  BY <1>1 DEF AddTask, AwakeInv, Ending
<1>2. CASE ProcessWorkload
  <2>1. workload \in Seq(Tasks) /\ <<>> \in Seq(Tasks)
    BY DEF PoolInv, TypeOK
  <2>2. owner = "idle" /\ UNCHANGED <<busy, pc>>
    BY <1>2 DEF ProcessWorkload
  <2>3. Publish(<<>>, FALSE) \/ Publish(workload, dirty)
    BY <1>2, Zenon DEF ProcessWorkload
  <2> QED BY <2>1, <2>2, <2>3, PublishesWork
<1>3. ASSUME NEW n \in 0 .. MaxTasks, ProcessNewWorkload(n)
      PROVE  AwakeInv'
  <2> DEFINE load == [k \in 1 .. n |-> added + k]
  <2>1. owner = "idle" /\ UNCHANGED <<busy, pc>> /\ added + n <= MaxTasks
    BY <1>3 DEF ProcessNewWorkload
  <2>2. load \in Seq(Tasks)
    <3>1. \A k \in 1 .. n : added + k \in Tasks
      BY <2>1, BoundsAssumption DEF Tasks, PoolInv, TypeOK
    <3> QED BY <3>1, SeqDef, BoundsAssumption
  <2>3. CASE status # "READY"
    BY <1>3, <2>3 DEF ProcessNewWorkload, AwakeInv, Ending
  <2>4. CASE status = "READY"
    <3>1. Publish(load, FALSE)
      BY <1>3, <2>4 DEF ProcessNewWorkload
    <3> HIDE DEF load
    <3> QED BY <2>1, <2>2, <3>1, PublishesWork
  <2> QED BY <2>3, <2>4
<1>4. CASE PrepareWorkers
  <2>1. AllRest /\ future = "pending" /\ active >= 1 /\ owner' = "wait"
    BY <1>4 DEF PrepareWorkers, PoolInv, PublishInv, AwakeInv
  <2>2. \A w \in Workers : pc'[w] = "check"
    BY <1>4, <2>1 DEF PrepareWorkers, AllRest, Resting, PoolInv, TypeOK
  <2> QED BY <1>4, <2>1, <2>2 DEF PrepareWorkers, AwakeInv
<1>5. CASE Waited
  BY <1>5 DEF Waited, poolVars, AwakeInv, Ending
<1>6. CASE Destroy
  <2>1. \A w \in Workers : pc'[w] # "waiting"
    BY <1>6 DEF Destroy, PoolInv, TypeOK
  <2> QED BY <1>6, <2>1 DEF Destroy, AwakeInv
<1>7. CASE Joined
  BY <1>7 DEF Joined, poolVars, AwakeInv, Ending
<1> QED BY <1>1, <1>2, <1>3, <1>4, <1>5, <1>6, <1>7 DEF OwnerStep

\* A worker goes to sleep only after it has looked, under the lock, and only the
\* last to count itself out makes m_active 0.
LEMMA WorkerAwake ==
    ASSUME PoolInv, AwakeInv, mode' = mode, NEW w \in Workers, WorkerStep(w) \/ SpuriousWakeUp(w)
    PROVE  AwakeInv'
<1>1. pc \in [Workers -> PCs] /\ busy \in [Workers -> BOOLEAN] /\ active \in Int
  BY DEF PoolInv, TypeOK
<1>2. CASE CheckForWork(w)
  <2>1. pc[w] = "check" /\ pc'[w] = (IF busy[w] \/ status = "TERMINATING" THEN "start" ELSE "waiting")
        /\ \A v \in Workers \ {w} : pc'[v] = pc[v]
    BY <1>1, <1>2 DEF CheckForWork, Goto
  <2>2. owner \in {"destroy", "joined"} => status = "TERMINATING"
    BY DEF PoolInv, DestroyInv
  <2>3. Ending' <=> Ending
    BY <2>1 DEF Ending
  <2> QED BY <1>2, <2>1, <2>2, <2>3 DEF CheckForWork, AwakeInv
<1>3. CASE SpuriousWakeUp(w)
  <2>1. pc[w] = "waiting" /\ pc' = [pc EXCEPT ![w] = "check"]
    BY <1>3 DEF SpuriousWakeUp, Goto
  <2>2. Ending' <=> Ending
    BY <1>1, <2>1 DEF Ending
  <2> QED BY <1>1, <1>3, <2>1, <2>2 DEF SpuriousWakeUp, AwakeInv
<1>4. CASE StartWork(w)
  <2>1. pc[w] = "start" /\ pc'[w] = (IF status = "TERMINATING" THEN "exited" ELSE "fetch")
        /\ \A v \in Workers \ {w} : pc'[v] = pc[v]
    BY <1>1, <1>4 DEF StartWork, Goto
  <2>2. Ending' <=> Ending
    BY <2>1 DEF Ending
  <2> QED BY <1>4, <2>1, <2>2 DEF StartWork, AwakeInv
<1>5. CASE Fetch(w) \/ RunTask(w)
  <2>1. pc[w] \in {"fetch", "run"} /\ pc'[w] \in {"run", "finish", "fetch"}
        /\ \A v \in Workers \ {w} : pc'[v] = pc[v]
    BY <1>1, <1>5 DEF Fetch, RunTask, Goto
  <2>2. Ending' <=> Ending
    BY <2>1 DEF Ending
  <2>3. UNCHANGED <<status, active, busy, future, owner>>
    BY <1>5 DEF Fetch, RunTask
  <2> QED BY <2>1, <2>2, <2>3 DEF AwakeInv
<1>6. CASE TaskThrows(w)
  <2>1. /\ pc[w] = "run" /\ \A v \in Workers \ {w} : pc'[v] = pc[v]
        /\ \/ status' = "TERMINATING" /\ pc'[w] = "exited"
           \/ status' = status /\ pc'[w] = "check"
    BY <1>1, <1>6 DEF TaskThrows, Goto
  <2>2. Ending' <=> Ending
    BY <2>1 DEF Ending
  <2> QED BY <1>6, <2>1, <2>2 DEF TaskThrows, AwakeInv
<1>7. CASE Finish(w)
  <2>1. /\ pc[w] = "finish" /\ pc'[w] = "decrement" /\ \A v \in Workers \ {w} : pc'[v] = pc[v]
        /\ \A v \in Workers : busy'[v] => busy[v]
    BY <1>1, <1>7 DEF Finish, Goto
  <2>2. Ending' <=> Ending
    BY <2>1 DEF Ending
  <2> QED BY <1>7, <2>1, <2>2 DEF Finish, AwakeInv
<1>8. CASE Decrement(w)
  <2>1. pc[w] = "decrement" /\ \A v \in Workers \ {w} : pc'[v] = pc[v]
    BY <1>1, <1>8 DEF Decrement, Goto
  <2>2. active' = active - 1 /\ pc'[w] = (IF active = 1 THEN "last" ELSE "check")
    BY <1>1, <1>8 DEF Decrement, Goto
  <2>3. active >= 1 /\ owner = "wait"
    BY <2>1, AtWork DEF AwakeInv
  <2>4. active = 1 => Ending'
    BY <2>2 DEF Ending
  <2>5. active # 1 => active' >= 1
    BY <1>1, <2>2, <2>3
  <2>6. pc'[w] \in {"last", "check"}
    BY <2>2
  <2> QED BY <1>8, <2>1, <2>3, <2>4, <2>5, <2>6 DEF Decrement, AwakeInv
<1>9. CASE MakeReady(w) \/ Signal(w)
  <2>1. /\ pc[w] \in {"last", "signal"} /\ \A v \in Workers \ {w} : pc'[v] = pc[v]
        /\ pc'[w] \in {"signal", "check"}
    BY <1>1, <1>9 DEF MakeReady, Signal, Goto
  <2>2. owner = "wait" /\ \A v \in Workers : pc[v] # "exited"
    BY <2>1, AtEnd DEF PoolInv, EndInv
  <2>3. Ending' \/ future' = "ready"
    BY <1>1, <1>9 DEF MakeReady, Signal, Goto, Ending
  <2>4. UNCHANGED <<busy, owner>>
    BY <1>9 DEF MakeReady, Signal
  <2>5. Workers # {}
    OBVIOUS
  <2> QED BY <2>1, <2>2, <2>3, <2>4, <2>5 DEF AwakeInv
<1> QED BY <1>2, <1>3, <1>4, <1>5, <1>6, <1>7, <1>8, <1>9 DEF WorkerStep

\* While m_active is positive somebody is counted, and who is counted is awake.
LEMMA SomebodyAwake == PoolInv /\ AwakeInv => NoMissedWakeUp
<1> SUFFICES ASSUME PoolInv, AwakeInv,
                    owner = "wait", future = "pending", status # "TERMINATING"
             PROVE  \E w \in Workers : pc[w] \notin {"waiting", "exited"}
  BY DEF AwakeInv, NoMissedWakeUp
<1>1. CASE Ending
  BY <1>1 DEF Ending
<1>2. CASE ~Ending
  <2>1. active = Cardinality(Counted) /\ active >= 1
    BY <1>2 DEF PoolInv, WorkInv, AwakeInv
  <2>2. Counted # {}
    BY <2>1, FS_EmptySet
  <2>3. PICK w \in Workers : busy[w] \/ pc[w] = "decrement"
    BY <2>2 DEF Counted
  <2> QED BY <2>3 DEF AwakeInv
<1> QED BY <1>1, <1>2

\* No wake-up is missed: a worker that sleeps has nothing to do and nobody joins
\* it, and while the owner waits for its future somebody is awake who will fulfil
\* it, unless an exception has ended the pool.
THEOREM NobodySleepsOnWork == Spec => []NoMissedWakeUp
<1>1. Init => AwakeInv
  BY InitAwakeInv
<1>2. PoolInv /\ AwakeInv /\ [Next]_vars => AwakeInv'
  <2> SUFFICES ASSUME PoolInv, AwakeInv, [Next]_vars PROVE AwakeInv'
    OBVIOUS
  <2>1. CASE UNCHANGED vars
    BY <2>1 DEF vars, AwakeInv, Ending
  <2>2. CASE Next
    <3>1. mode' = mode
      BY <2>2 DEF Next
    <3> QED BY <2>2, <3>1, OwnerWakes, WorkerAwake DEF Next
  <2> QED BY <2>1, <2>2
<1>3. PoolInv /\ AwakeInv => NoMissedWakeUp
  BY SomebodyAwake
<1> QED BY <1>1, <1>2, <1>3, Invariance, PTL DEF Spec
=============================================================================
