------------------------ MODULE AsyncDatabase_proofs ------------------------
(***************************************************************************)
(* Proofs about AsyncDatabase, for any number of threads, workers, serial  *)
(* ids and operations.                                                     *)
(*                                                                         *)
(* None of the safety properties is inductive by itself.  The invariant    *)
(* Inv says where an operation can be: one that has not been executed is   *)
(* in exactly the queue that its route and serial id select, or in the     *)
(* hands of a worker that took it from there, and each queue is sorted by  *)
(* the order of submission and holds only what is younger than what was    *)
(* taken from it.                                                          *)
(***************************************************************************)
EXTENDS AsyncDatabase, SequenceTheorems, TLAPS

\* An appended element comes last and is the only one that is new.
LEMMA QueuedAppend ==
    ASSUME NEW S, NEW q \in Seq(S), NEW x, NEW i
    PROVE  Queued(i, Append(q, x)) <=> Queued(i, q) \/ i = x
<1>1. /\ Len(Append(q, x)) = Len(q) + 1 /\ Len(q) \in Nat
      /\ \A k \in 1 .. Len(q) : Append(q, x)[k] = q[k]
      /\ Append(q, x)[Len(q) + 1] = x
  BY SMTT(20)
<1>2. ASSUME Queued(i, Append(q, x)) PROVE Queued(i, q) \/ i = x
  <2>1. PICK k \in 1 .. Len(q) + 1 : Append(q, x)[k] = i
    BY <1>1, <1>2 DEF Queued
  <2>2. CASE k = Len(q) + 1
    BY <2>1, <2>2, <1>1
  <2>3. CASE k \in 1 .. Len(q)
    BY <2>1, <2>3, <1>1 DEF Queued
  <2> QED BY <2>2, <2>3, <1>1
<1>3. ASSUME Queued(i, q) PROVE Queued(i, Append(q, x))
  <2>1. PICK k \in 1 .. Len(q) : q[k] = i
    BY <1>3 DEF Queued
  <2> QED BY <2>1, <1>1 DEF Queued
<1>4. ASSUME i = x PROVE Queued(i, Append(q, x))
  BY <1>1, <1>4 DEF Queued
<1> QED BY <1>2, <1>3, <1>4

\* Taking the head leaves the other elements.
LEMMA QueuedTail ==
    ASSUME NEW S, NEW q \in Seq(S), q # <<>>, NEW i
    PROVE  Queued(i, q) <=> i = Head(q) \/ Queued(i, Tail(q))
<1>1. /\ Len(q) \in Nat \ {0} /\ Len(Tail(q)) = Len(q) - 1
      /\ Head(q) = q[1]
      /\ \A k \in 1 .. Len(Tail(q)) : Tail(q)[k] = q[k + 1]
  BY HeadTailProperties, EmptySeq, LenProperties
<1>2. ASSUME Queued(i, q) PROVE i = Head(q) \/ Queued(i, Tail(q))
  <2>1. PICK k \in 1 .. Len(q) : q[k] = i
    BY <1>2 DEF Queued
  <2>2. CASE k = 1
    BY <2>1, <2>2, <1>1
  <2>3. CASE k # 1
    <3>1. k - 1 \in 1 .. Len(Tail(q)) /\ Tail(q)[k - 1] = q[k]
      BY <2>1, <2>3, <1>1
    <3> QED BY <2>1, <3>1 DEF Queued
  <2> QED BY <2>2, <2>3
<1>3. ASSUME i = Head(q) PROVE Queued(i, q)
  BY <1>1, <1>3 DEF Queued
<1>4. ASSUME Queued(i, Tail(q)) PROVE Queued(i, q)
  <2>1. PICK k \in 1 .. Len(Tail(q)) : Tail(q)[k] = i
    BY <1>4 DEF Queued
  <2>2. k + 1 \in 1 .. Len(q) /\ q[k + 1] = i
    BY <2>1, <1>1
  <2> QED BY <2>2 DEF Queued
<1> QED BY <1>2, <1>3, <1>4

\* A number larger than all the others keeps a queue sorted.
LEMMA SortedAppend ==
    ASSUME NEW S \in SUBSET Nat, NEW q \in Seq(S), NEW x \in Nat, Sorted(q),
           \A i \in S : Queued(i, q) => i < x
    PROVE  Sorted(Append(q, x))
<1>1. /\ Len(Append(q, x)) = Len(q) + 1 /\ Len(q) \in Nat
      /\ \A k \in 1 .. Len(q) : Append(q, x)[k] = q[k] /\ q[k] \in S
      /\ Append(q, x)[Len(q) + 1] = x
  BY LenProperties, ElementOfSeq
<1>2. SUFFICES ASSUME NEW k \in 1 .. Len(q) + 1, NEW l \in 1 .. Len(q) + 1, k < l
               PROVE  Append(q, x)[k] < Append(q, x)[l]
  BY <1>1 DEF Sorted
<1>3. CASE l = Len(q) + 1
  <2>1. k \in 1 .. Len(q) /\ q[k] \in S /\ Queued(q[k], q)
    BY <1>1, <1>2, <1>3 DEF Queued
  <2> QED BY <2>1, <1>1, <1>3
<1>4. CASE l \in 1 .. Len(q)
  BY <1>1, <1>2, <1>4 DEF Sorted
<1> QED BY <1>3, <1>4, <1>1

\* A sorted queue without its head is sorted, and all of it comes after the head.
LEMMA SortedTail ==
    ASSUME NEW S \in SUBSET Nat, NEW q \in Seq(S), q # <<>>, Sorted(q)
    PROVE  /\ Sorted(Tail(q))
           /\ \A i \in S : Queued(i, Tail(q)) => Head(q) < i
<1>1. /\ Len(q) \in Nat \ {0} /\ Len(Tail(q)) = Len(q) - 1
      /\ Head(q) = q[1]
      /\ \A k \in 1 .. Len(Tail(q)) : Tail(q)[k] = q[k + 1]
  BY HeadTailProperties, EmptySeq, LenProperties
<1>2. Sorted(Tail(q))
  BY <1>1 DEF Sorted
<1>3. ASSUME NEW i \in S, Queued(i, Tail(q)) PROVE Head(q) < i
  <2>1. PICK k \in 1 .. Len(Tail(q)) : Tail(q)[k] = i
    BY <1>3 DEF Queued
  <2> QED BY <2>1, <1>1 DEF Sorted
<1> QED BY <1>2, <1>3

\* Taking the head of a queue: the types of what is taken and of what stays.
LEMMA QueueTail ==
    ASSUME NEW S, NEW q \in Seq(S), q # <<>>
    PROVE  Tail(q) \in Seq(S) /\ Head(q) \in S
BY HeadTailProperties

-----------------------------------------------------------------------------
Pending(i) == i \in Ids \ done

Home(i) == issued[i].serial % NumWorkers

\* The delay queue holds operations that are to be shared, oldest first.
DelayQueueInv ==
    /\ Sorted(delayQueue)
    /\ \A i \in Ids : Queued(i, delayQueue) => Pending(i) /\ issued[i].route = "shared"

\* A serial queue holds operations whose serial id selects it, oldest first.
SerialQueueInv ==
    \A w \in Workers :
        /\ Sorted(serialQueue[w])
        /\ \A i \in Ids : Queued(i, serialQueue[w]) =>
               Pending(i) /\ issued[i].route = "serial" /\ Home(i) = w

\* What a worker took from the delay queue is older than what is left there,
\* and no other worker has it.
SharedFlightInv ==
    \A w \in Workers : pc[w] = "execShared" =>
        /\ Pending(current[w])
        /\ issued[current[w]].route = "shared"
        /\ \A i \in Ids : Queued(i, delayQueue) => current[w] < i
        /\ \A v \in Workers : v # w /\ pc[v] = "execShared" => current[v] # current[w]

\* What a worker took from its serial queue is older than what is left there.
SerialFlightInv ==
    \A w \in Workers : pc[w] = "execSerial" =>
        /\ Pending(current[w])
        /\ issued[current[w]].route = "serial"
        /\ Home(current[w]) = w
        /\ \A i \in Ids : Queued(i, serialQueue[w]) => current[w] < i

\* A pending operation is where its route says.
PlaceInv ==
    \A i \in Ids : Pending(i) =>
        /\ issued[i].route # "direct"
        /\ issued[i].route = "shared" =>
               \/ Queued(i, delayQueue)
               \/ \E w \in Workers : pc[w] = "execShared" /\ current[w] = i
        /\ issued[i].route = "serial" =>
               /\ Home(i) \in Workers
               /\ \/ Queued(i, serialQueue[Home(i)])
                  \/ pc[Home(i)] = "execSerial" /\ current[Home(i)] = i

\* With workers, an operation with a serial id is never in the shared queue.
RouteInv ==
    \A i \in Ids : issued[i].serial # 0 /\ NumWorkers # 0 => issued[i].route # "shared"

QueueInv ==
    /\ DelayQueueInv
    /\ SerialQueueInv
    /\ SharedFlightInv
    /\ SerialFlightInv
    /\ PlaceInv
    /\ RouteInv

\* How far HaltDelayThread is, and what the workers it is done with left.
HaltInv ==
    /\ phase \notin {"cancel", "closed"} => numAsyncWorkers = NumWorkers
    /\ phase \in {"stop", "join", "destroy"} => haltAt \in Workers
    /\ phase = "join" => \A w \in Workers : w < haltAt => pc[w] = "exited"
    /\ phase = "destroy" => \A w \in Workers :
           /\ w < haltAt => pc[w] = "gone"
           /\ w > haltAt => pc[w] = "exited"
    /\ phase = "destroy" /\ (haltAt > 0 \/ pc[0] \in {"serial", "execSerial", "gone"})
           => delayQueue = <<>>
    /\ \A w \in Workers : pc[w] = "gone" =>
           phase \in {"destroy", "cancel", "closed"} /\ serialQueue[w] = <<>>

Inv == TypeOK /\ QueueInv /\ HaltInv

-----------------------------------------------------------------------------
\* A serial id selects a worker.
LEMMA SerialSelects ==
    ASSUME NEW s \in Serials, NumWorkers # 0
    PROVE  s % NumWorkers \in Workers
BY NumWorkersAssumption, SerialIdsAssumption DEF Serials, Workers
-----------------------------------------------------------------------------
\* A submission keeps the types of what it changes.
LEMMA SubmitTypes ==
    ASSUME TypeOK, NEW kind \in Kinds, NEW serial \in Serials, NEW route \in Routes,
           Submit(kind, serial, route)
    PROVE  /\ issued' \in Seq(Operation)
           /\ Len(issued) \in Nat
           /\ Len(issued') = Len(issued) + 1
           /\ Ids' = Ids \union {Len(issued) + 1}
           /\ issued'[Len(issued) + 1] = [kind |-> kind, serial |-> serial, route |-> route]
           /\ \A i \in Ids : issued'[i] = issued[i]
           /\ delayQueue' \in Seq(Ids')
           /\ serialQueue' \in [Workers -> Seq(Ids')]
           /\ done' \subseteq Ids'
<1> DEFINE new == [kind |-> kind, serial |-> serial, route |-> route]
           id == Len(issued) + 1
<1>1. new \in Operation /\ issued \in Seq(Operation) /\ issued' = Append(issued, new)
  BY DEF Operation, TypeOK, Submit
<1>2. /\ issued' \in Seq(Operation) /\ Len(issued) \in Nat /\ Len(issued') = id
      /\ issued'[id] = new
      /\ \A i \in Ids : issued'[i] = issued[i]
  <2> HIDE DEF new
  <2> QED BY <1>1, AppendProperties, LenProperties DEF Ids
<1>3. Ids' = Ids \union {id}
  BY <1>2 DEF Ids
<1>4. delayQueue \in Seq(Ids') /\ \A w \in Workers : serialQueue[w] \in Seq(Ids')
  <2>1. \A q \in Seq(Ids) : q \in Seq(Ids')
    BY <1>3, SeqMonotonic
  <2> QED BY <2>1 DEF TypeOK
<1>5. delayQueue' \in Seq(Ids')
  BY <1>3, <1>4, AppendProperties DEF Submit
<1>6. serialQueue' \in [Workers -> Seq(Ids')]
  <2>1. \A w \in Workers : Append(serialQueue[w], id) \in Seq(Ids')
    BY <1>3, <1>4, AppendProperties
  <2>2. serialQueue \in [Workers -> Seq(Ids')]
    BY <1>4 DEF TypeOK
  <2> QED BY <2>1, <2>2 DEF Submit
<1>7. done' \subseteq Ids'
  BY <1>3 DEF Submit, TypeOK
<1> QED BY <1>2, <1>3, <1>5, <1>6, <1>7

\* A submission that goes where RouteOf says keeps every operation in place.
LEMMA SubmitQueueInv ==
    ASSUME TypeOK, QueueInv,
           NEW kind \in Kinds, NEW serial \in Serials, NEW route \in Routes,
           Submit(kind, serial, route),
           route = "serial" => NumWorkers # 0 /\ numAsyncWorkers = NumWorkers,
           route = "shared" /\ serial # 0 => NumWorkers = 0,
           UNCHANGED <<pc, current>>
    PROVE  QueueInv'
<1> DEFINE home == serial % NumWorkers
           new == [kind |-> kind, serial |-> serial, route |-> route]
<1> PICK id : id = Len(issued) + 1
  OBVIOUS
<1>1. /\ Len(issued) \in Nat
      /\ Ids' = Ids \union {id}
      /\ issued'[id].route = route /\ issued'[id].serial = serial
      /\ \A i \in Ids : issued'[i] = issued[i]
  <2>1. /\ Len(issued) \in Nat
        /\ Ids' = Ids \union {id}
        /\ issued'[id] = new
        /\ \A i \in Ids : issued'[i] = issued[i]
    BY SubmitTypes
  <2> QED BY <2>1
<1>2. /\ id \notin Ids /\ Ids \subseteq Nat /\ id \in Nat
      /\ \A i \in Ids : i < id
  BY <1>1 DEF Ids
<1>3. /\ delayQueue \in Seq(Ids)
      /\ serialQueue \in [Workers -> Seq(Ids)]
      /\ done \subseteq Ids
  BY DEF TypeOK
<1>4. \A i \in Ids : (Pending(i)' <=> Pending(i)) /\ Home(i)' = Home(i)
  BY <1>1, <1>2 DEF Pending, Home, Submit
<1>5. (Pending(id)' <=> route # "direct") /\ Home(id)' = home
  BY <1>1, <1>2, <1>3 DEF Pending, Home, Submit
<1>6. route = "serial" => home \in Workers
  BY SerialSelects
<1>7. \A i : Queued(i, delayQueue') <=> Queued(i, delayQueue) \/ (route = "shared" /\ i = id)
  BY <1>3, QueuedAppend DEF Submit
<1>8. \A w \in Workers : serialQueue'[w] = IF route = "serial" /\ w = home
                                            THEN Append(serialQueue[w], id)
                                            ELSE serialQueue[w]
  BY <1>3, <1>6 DEF Submit
<1>9. \A w \in Workers : \A i :
          Queued(i, serialQueue'[w]) <=>
              \/ Queued(i, serialQueue[w])
              \/ route = "serial" /\ w = home /\ i = id
  <2> SUFFICES ASSUME NEW w \in Workers, NEW i
               PROVE  Queued(i, serialQueue'[w]) <=>
                          \/ Queued(i, serialQueue[w])
                          \/ route = "serial" /\ w = home /\ i = id
    OBVIOUS
  <2>1. serialQueue[w] \in Seq(Ids)
    BY <1>3
  <2> HIDE DEF home
  <2> QED BY <2>1, <1>8, QueuedAppend
<1> HIDE DEF home
<1>10. DelayQueueInv'
  <2>1. Sorted(delayQueue')
    <3>1. CASE route = "shared"
      <4>1. delayQueue' = Append(delayQueue, id)
        BY <3>1 DEF Submit
      <4> QED BY <4>1, <1>2, <1>3, SortedAppend DEF QueueInv, DelayQueueInv
    <3>2. CASE route # "shared"
      BY <3>2 DEF Submit, QueueInv, DelayQueueInv
    <3> QED BY <3>1, <3>2
  <2>2. \A i \in Ids' : Queued(i, delayQueue') => Pending(i)' /\ issued'[i].route = "shared"
    <3>1. ~Queued(id, delayQueue)
      BY <1>2, <1>3, ElementOfSeq DEF Queued
    <3> QED BY <3>1, <1>1, <1>4, <1>5, <1>7 DEF QueueInv, DelayQueueInv
  <2> QED BY <2>1, <2>2 DEF DelayQueueInv
<1>11. SerialQueueInv'
  <2> SUFFICES ASSUME NEW w \in Workers
               PROVE  /\ Sorted(serialQueue'[w])
                      /\ \A i \in Ids' : Queued(i, serialQueue'[w]) =>
                             Pending(i)' /\ issued'[i].route = "serial" /\ Home(i)' = w
    BY DEF SerialQueueInv
  <2>1. serialQueue[w] \in Seq(Ids)
    BY <1>3
  <2>2. Sorted(serialQueue'[w])
    BY <2>1, <1>2, <1>8, SortedAppend DEF QueueInv, SerialQueueInv
  <2>3. ~Queued(id, serialQueue[w])
    BY <2>1, <1>2, ElementOfSeq DEF Queued
  <2> QED BY <2>2, <2>3, <1>1, <1>4, <1>5, <1>9 DEF QueueInv, SerialQueueInv
<1>12. SharedFlightInv'
  <2> SUFFICES ASSUME NEW w \in Workers, pc[w] = "execShared"
               PROVE  /\ Pending(current[w])'
                      /\ issued'[current[w]].route = "shared"
                      /\ \A i \in Ids' : Queued(i, delayQueue') => current[w] < i
                      /\ \A v \in Workers : v # w /\ pc[v] = "execShared" => current[v] # current[w]
    BY DEF SharedFlightInv, Pending
  <2>1. /\ current[w] \in Ids
        /\ Pending(current[w])
        /\ issued[current[w]].route = "shared"
        /\ \A i \in Ids : Queued(i, delayQueue) => current[w] < i
        /\ \A v \in Workers : v # w /\ pc[v] = "execShared" => current[v] # current[w]
    BY DEF QueueInv, SharedFlightInv, Pending
  <2>2. Pending(current[w])' /\ issued'[current[w]].route = "shared"
    BY <2>1, <1>1, <1>4 DEF Pending
  <2>3. \A i \in Ids' : Queued(i, delayQueue') => current[w] < i
    BY <2>1, <1>1, <1>2, <1>7
  <2> QED BY <2>1, <2>2, <2>3
<1>13. SerialFlightInv'
  <2> SUFFICES ASSUME NEW w \in Workers, pc[w] = "execSerial"
               PROVE  /\ Pending(current[w])'
                      /\ issued'[current[w]].route = "serial"
                      /\ Home(current[w])' = w
                      /\ \A i \in Ids' : Queued(i, serialQueue'[w]) => current[w] < i
    BY DEF SerialFlightInv, Pending, Home
  <2>1. /\ current[w] \in Ids
        /\ Pending(current[w])
        /\ issued[current[w]].route = "serial"
        /\ Home(current[w]) = w
        /\ \A i \in Ids : Queued(i, serialQueue[w]) => current[w] < i
    BY DEF QueueInv, SerialFlightInv, Pending
  <2>2. /\ Pending(current[w])' /\ issued'[current[w]].route = "serial"
        /\ Home(current[w])' = w
    BY <2>1, <1>1, <1>4 DEF Pending, Home
  <2>3. \A i \in Ids' : Queued(i, serialQueue'[w]) => current[w] < i
    BY <2>1, <1>1, <1>2, <1>9
  <2> QED BY <2>2, <2>3
<1>14. PlaceInv'
  <2> SUFFICES ASSUME NEW i \in Ids', Pending(i)'
               PROVE  /\ issued'[i].route # "direct"
                      /\ issued'[i].route = "shared" =>
                             \/ Queued(i, delayQueue')
                             \/ \E w \in Workers : pc[w] = "execShared" /\ current[w] = i
                      /\ issued'[i].route = "serial" =>
                             /\ Home(i)' \in Workers
                             /\ \/ Queued(i, serialQueue'[Home(i)'])
                                \/ pc[Home(i)'] = "execSerial" /\ current[Home(i)'] = i
    BY DEF PlaceInv, Pending, Home
  <2>1. CASE i \in Ids
    BY <2>1, <1>1, <1>4, <1>7, <1>9 DEF QueueInv, PlaceInv
  <2>2. CASE i = id
    BY <2>2, <1>1, <1>5, <1>6, <1>7, <1>9
  <2> QED BY <2>1, <2>2, <1>1
<1>15. RouteInv'
  BY <1>1 DEF QueueInv, RouteInv
<1> QED BY <1>10, <1>11, <1>12, <1>13, <1>14, <1>15 DEF QueueInv
-----------------------------------------------------------------------------
\* A step that moves no operation, and no worker into or out of Execute().
LEMMA FrameQueueInv ==
    ASSUME QueueInv,
           UNCHANGED <<issued, delayQueue, serialQueue, done, current>>,
           \A w \in Workers : /\ pc'[w] = "execShared" <=> pc[w] = "execShared"
                              /\ pc'[w] = "execSerial" <=> pc[w] = "execSerial"
    PROVE  QueueInv'
<1>1. Ids' = Ids /\ (\A i : Pending(i)' <=> Pending(i)) /\ (\A i : Home(i)' = Home(i))
  BY DEF Ids, Pending, Home
<1>2. DelayQueueInv' /\ SerialQueueInv'
  BY <1>1 DEF QueueInv, DelayQueueInv, SerialQueueInv
<1>3. SharedFlightInv'
  BY <1>1 DEF QueueInv, SharedFlightInv, Pending
<1>4. SerialFlightInv'
  BY <1>1 DEF QueueInv, SerialFlightInv, Pending, Home
<1>5. PlaceInv'
  BY <1>1 DEF QueueInv, PlaceInv
<1>6. RouteInv'
  BY <1>1 DEF QueueInv, RouteInv
<1> QED BY <1>2, <1>3, <1>4, <1>5, <1>6 DEF QueueInv

\* A worker takes the oldest operation of the delay queue into its hands.
LEMMA NextDelayedQueueInv ==
    ASSUME TypeOK, QueueInv, NEW w \in Workers, NextDelayedOperation(w)
    PROVE  QueueInv'
<1>1. CASE delayQueue = <<>>
  <2>1. /\ UNCHANGED <<issued, delayQueue, serialQueue, done, current>>
        /\ pc[w] = "shared" /\ pc' = [pc EXCEPT ![w] = "serial"]
    BY <1>1 DEF NextDelayedOperation, clientVars
  <2> QED BY <2>1, FrameQueueInv DEF TypeOK
<1>2. CASE delayQueue # <<>>
  <2> PICK id : id = Head(delayQueue)
    OBVIOUS
  <2>1. /\ pc[w] = "shared" /\ pc' = [pc EXCEPT ![w] = "execShared"]
        /\ current' = [current EXCEPT ![w] = id]
        /\ delayQueue' = Tail(delayQueue)
        /\ UNCHANGED <<issued, serialQueue, done>>
    BY <1>2 DEF NextDelayedOperation, clientVars
  <2>2. Ids' = Ids /\ (\A i : Pending(i)' <=> Pending(i)) /\ (\A i : Home(i)' = Home(i))
    BY <2>1 DEF Ids, Pending, Home
  <2>3. delayQueue \in Seq(Ids) /\ Ids \in SUBSET Nat /\ Sorted(delayQueue)
    BY DEF TypeOK, QueueInv, DelayQueueInv, Ids
  <2>4. \A i : Queued(i, delayQueue) <=> i = id \/ Queued(i, delayQueue')
    BY <1>2, <2>1, <2>3, QueuedTail
  <2>5. /\ Sorted(delayQueue')
        /\ \A i \in Ids : Queued(i, delayQueue') => id < i
    BY <1>2, <2>1, <2>3, SortedTail
  <2>6. id \in Ids /\ Pending(id) /\ issued[id].route = "shared"
    <3>1. id \in Ids
      BY <1>2, <2>3, QueueTail
    <3> QED BY <3>1, <2>4 DEF QueueInv, DelayQueueInv
  <2>7. /\ pc'[w] = "execShared" /\ current'[w] = id
        /\ \A v \in Workers : v # w => pc'[v] = pc[v] /\ current'[v] = current[v]
    BY <2>1 DEF TypeOK
  <2>8. DelayQueueInv'
    BY <2>1, <2>2, <2>4, <2>5 DEF QueueInv, DelayQueueInv
  <2>9. SerialQueueInv'
    BY <2>1, <2>2 DEF QueueInv, SerialQueueInv
  <2>10. SharedFlightInv'
    <3> SUFFICES ASSUME NEW v \in Workers, pc'[v] = "execShared"
                 PROVE  /\ current'[v] \in Ids \ done
                        /\ issued[current'[v]].route = "shared"
                        /\ \A i \in Ids : Queued(i, delayQueue') => current'[v] < i
                        /\ \A u \in Workers : u # v /\ pc'[u] = "execShared"
                                                  => current'[u] # current'[v]
      BY <2>1, <2>2 DEF SharedFlightInv, Pending
    <3>1. ASSUME NEW u \in Workers, u # w, pc[u] = "execShared"
          PROVE  /\ current[u] \in Ids \ done
                 /\ issued[current[u]].route = "shared"
                 /\ current[u] < id
                 /\ \A i \in Ids : Queued(i, delayQueue') => current[u] < i
      BY <2>4, <2>6, <3>1 DEF QueueInv, SharedFlightInv, Pending
    <3>2. \A u \in Workers : u # w /\ pc[u] = "execShared" => current[u] # id
      BY <3>1, <2>3, <2>6
    <3>3. CASE v = w
      BY <3>2, <3>3, <2>5, <2>6, <2>7 DEF Pending
    <3>4. CASE v # w
      <4>1. pc[v] = "execShared" /\ current'[v] = current[v]
        BY <3>4, <2>7
      <4>2. \A u \in Workers : u # v /\ pc'[u] = "execShared" => current'[u] # current'[v]
        BY <4>1, <3>2, <3>4, <2>7 DEF QueueInv, SharedFlightInv
      <4> QED BY <4>1, <4>2, <3>1, <3>4
    <3> QED BY <3>3, <3>4
  <2>11. SerialFlightInv'
    BY <2>1, <2>2, <2>7 DEF QueueInv, SerialFlightInv, Pending, Home
  <2>12. PlaceInv'
    <3> SUFFICES ASSUME NEW i \in Ids, Pending(i)
                 PROVE  /\ issued[i].route # "direct"
                        /\ issued[i].route = "shared" =>
                               \/ Queued(i, delayQueue')
                               \/ \E v \in Workers : pc'[v] = "execShared" /\ current'[v] = i
                        /\ issued[i].route = "serial" =>
                               /\ Home(i) \in Workers
                               /\ \/ Queued(i, serialQueue[Home(i)])
                                  \/ pc'[Home(i)] = "execSerial" /\ current'[Home(i)] = i
      BY <2>1, <2>2 DEF PlaceInv, Pending, Home
    <3>1. issued[i].route # "direct"
      BY DEF QueueInv, PlaceInv
    <3>2. ASSUME issued[i].route = "shared"
          PROVE  \/ Queued(i, delayQueue')
                 \/ \E v \in Workers : pc'[v] = "execShared" /\ current'[v] = i
      BY <3>2, <2>1, <2>4, <2>7 DEF QueueInv, PlaceInv
    <3>3. ASSUME issued[i].route = "serial"
          PROVE  /\ Home(i) \in Workers
                 /\ \/ Queued(i, serialQueue[Home(i)])
                    \/ pc'[Home(i)] = "execSerial" /\ current'[Home(i)] = i
      BY <3>3, <2>1, <2>7 DEF QueueInv, PlaceInv
    <3> QED BY <3>1, <3>2, <3>3
  <2>13. RouteInv'
    BY <2>1, <2>2 DEF QueueInv, RouteInv
  <2> QED BY <2>8, <2>9, <2>10, <2>11, <2>12, <2>13 DEF QueueInv
<1> QED BY <1>1, <1>2

\* A worker takes the oldest operation of its serial queue into its hands.
LEMMA NextSerialQueueInv ==
    ASSUME TypeOK, QueueInv, NEW w \in Workers, NextSerialOperation(w)
    PROVE  QueueInv'
<1>1. CASE serialQueue[w] = <<>>
  <2>1. /\ UNCHANGED <<issued, delayQueue, serialQueue, done, current>>
        /\ pc[w] = "serial" /\ pc' = [pc EXCEPT ![w] = IF phase = "destroy" THEN "gone" ELSE "loop"]
    BY <1>1 DEF NextSerialOperation, clientVars
  <2> QED BY <2>1, FrameQueueInv DEF TypeOK
<1>2. CASE serialQueue[w] # <<>>
  <2> PICK id : id = Head(serialQueue[w])
    OBVIOUS
  <2>1. /\ pc[w] = "serial" /\ pc' = [pc EXCEPT ![w] = "execSerial"]
        /\ current' = [current EXCEPT ![w] = id]
        /\ serialQueue' = [serialQueue EXCEPT ![w] = Tail(serialQueue[w])]
        /\ UNCHANGED <<issued, delayQueue, done>>
    BY <1>2 DEF NextSerialOperation, clientVars
  <2>2. Ids' = Ids /\ (\A i : Pending(i)' <=> Pending(i)) /\ (\A i : Home(i)' = Home(i))
    BY <2>1 DEF Ids, Pending, Home
  <2>3. serialQueue[w] \in Seq(Ids) /\ Ids \in SUBSET Nat /\ Sorted(serialQueue[w])
    BY DEF TypeOK, QueueInv, SerialQueueInv, Ids
  <2>4. /\ serialQueue'[w] = Tail(serialQueue[w])
        /\ \A v \in Workers : v # w => serialQueue'[v] = serialQueue[v]
    BY <2>1 DEF TypeOK
  <2>5. \A i : Queued(i, serialQueue[w]) <=> i = id \/ Queued(i, serialQueue'[w])
    BY <1>2, <2>3, <2>4, QueuedTail
  <2>6. /\ Sorted(serialQueue'[w])
        /\ \A i \in Ids : Queued(i, serialQueue'[w]) => id < i
    BY <1>2, <2>3, <2>4, SortedTail
  <2>7. id \in Ids /\ Pending(id) /\ issued[id].route = "serial" /\ Home(id) = w
    <3>1. id \in Ids
      BY <1>2, <2>3, QueueTail
    <3> QED BY <3>1, <2>5 DEF QueueInv, SerialQueueInv
  <2>8. /\ pc'[w] = "execSerial" /\ current'[w] = id
        /\ \A v \in Workers : v # w => pc'[v] = pc[v] /\ current'[v] = current[v]
    BY <2>1 DEF TypeOK
  <2>9. DelayQueueInv'
    BY <2>1, <2>2 DEF QueueInv, DelayQueueInv
  <2>10. SerialQueueInv'
    <3> SUFFICES ASSUME NEW v \in Workers
                 PROVE  /\ Sorted(serialQueue'[v])
                        /\ \A i \in Ids : Queued(i, serialQueue'[v]) =>
                               Pending(i) /\ issued[i].route = "serial" /\ Home(i) = v
      BY <2>1, <2>2 DEF SerialQueueInv, Pending, Home
    <3>1. CASE v = w
      BY <3>1, <2>5, <2>6 DEF QueueInv, SerialQueueInv
    <3>2. CASE v # w
      BY <3>2, <2>4 DEF QueueInv, SerialQueueInv
    <3> QED BY <3>1, <3>2
  <2>11. SharedFlightInv'
    BY <2>1, <2>2, <2>8 DEF QueueInv, SharedFlightInv, Pending
  <2>12. SerialFlightInv'
    <3> SUFFICES ASSUME NEW v \in Workers, pc'[v] = "execSerial"
                 PROVE  /\ current'[v] \in Ids \ done
                        /\ issued[current'[v]].route = "serial"
                        /\ issued[current'[v]].serial % NumWorkers = v
                        /\ \A i \in Ids : Queued(i, serialQueue'[v]) => current'[v] < i
      BY <2>1, <2>2 DEF SerialFlightInv, Pending, Home
    <3>1. CASE v = w
      BY <3>1, <2>6, <2>7, <2>8 DEF Pending, Home
    <3>2. CASE v # w
      BY <3>2, <2>4, <2>8 DEF QueueInv, SerialFlightInv, Pending, Home
    <3> QED BY <3>1, <3>2
  <2>13. PlaceInv'
    <3> SUFFICES ASSUME NEW i \in Ids, Pending(i)
                 PROVE  /\ issued[i].route # "direct"
                        /\ issued[i].route = "shared" =>
                               \/ Queued(i, delayQueue)
                               \/ \E v \in Workers : pc'[v] = "execShared" /\ current'[v] = i
                        /\ issued[i].route = "serial" =>
                               /\ Home(i) \in Workers
                               /\ \/ Queued(i, serialQueue'[Home(i)])
                                  \/ pc'[Home(i)] = "execSerial" /\ current'[Home(i)] = i
      BY <2>1, <2>2 DEF PlaceInv, Pending, Home
    <3>1. issued[i].route # "direct"
      BY DEF QueueInv, PlaceInv
    <3>2. ASSUME issued[i].route = "shared"
          PROVE  \/ Queued(i, delayQueue)
                 \/ \E v \in Workers : pc'[v] = "execShared" /\ current'[v] = i
      BY <3>2, <2>1, <2>8 DEF QueueInv, PlaceInv
    <3>3. ASSUME issued[i].route = "serial"
          PROVE  /\ Home(i) \in Workers
                 /\ \/ Queued(i, serialQueue'[Home(i)])
                    \/ pc'[Home(i)] = "execSerial" /\ current'[Home(i)] = i
      <4>1. /\ Home(i) \in Workers
            /\ \/ Queued(i, serialQueue[Home(i)])
               \/ pc[Home(i)] = "execSerial" /\ current[Home(i)] = i
        BY <3>3 DEF QueueInv, PlaceInv
      <4>2. CASE Home(i) = w
        BY <4>1, <4>2, <2>1, <2>5, <2>8
      <4>3. CASE Home(i) # w
        BY <4>1, <4>3, <2>4, <2>8
      <4> QED BY <4>2, <4>3
    <3> QED BY <3>1, <3>2, <3>3
  <2>14. RouteInv'
    BY <2>1, <2>2 DEF QueueInv, RouteInv
  <2> QED BY <2>9, <2>10, <2>11, <2>12, <2>13, <2>14 DEF QueueInv
<1> QED BY <1>1, <1>2

\* A worker executes what is in its hands, which nobody else has.
LEMMA ExecuteQueueInv ==
    ASSUME TypeOK, QueueInv, NEW w \in Workers, ExecuteOperation(w)
    PROVE  QueueInv'
<1> PICK id : id = current[w]
  OBVIOUS
<1>1. /\ pc[w] \in {"execShared", "execSerial"}
      /\ pc' = [pc EXCEPT ![w] = IF @ = "execShared" THEN "shared" ELSE "serial"]
      /\ current' = [current EXCEPT ![w] = 0]
      /\ done' = done \union {id}
      /\ UNCHANGED <<issued, delayQueue, serialQueue>>
  BY DEF ExecuteOperation, clientVars
<1>2. /\ pc'[w] \notin {"execShared", "execSerial"}
      /\ \A v \in Workers : v # w => pc'[v] = pc[v] /\ current'[v] = current[v]
  BY <1>1 DEF TypeOK
<1>3. id \in Ids /\ Pending(id) /\ Ids \subseteq Nat
  BY <1>1 DEF QueueInv, SharedFlightInv, SerialFlightInv, Pending, Ids
<1>4. /\ Ids' = Ids /\ (\A i : Home(i)' = Home(i))
      /\ \A i : Pending(i)' <=> Pending(i) /\ i # id
  BY <1>1 DEF Ids, Pending, Home
<1>5. ~Queued(id, delayQueue)
  <2>1. CASE pc[w] = "execShared"
    BY <2>1, <1>3 DEF QueueInv, SharedFlightInv
  <2>2. CASE pc[w] = "execSerial"
    BY <2>2, <1>3 DEF QueueInv, SerialFlightInv, DelayQueueInv
  <2> QED BY <2>1, <2>2, <1>1
<1>6. \A v \in Workers : ~Queued(id, serialQueue[v])
  <2>1. CASE pc[w] = "execShared"
    BY <2>1, <1>3 DEF QueueInv, SharedFlightInv, SerialQueueInv
  <2>2. CASE pc[w] = "execSerial"
    <3> SUFFICES ASSUME NEW v \in Workers, Queued(id, serialQueue[v]) PROVE FALSE
      OBVIOUS
    <3>1. v = w
      BY <2>2, <1>3 DEF QueueInv, SerialFlightInv, SerialQueueInv
    <3> QED BY <3>1, <2>2, <1>3 DEF QueueInv, SerialFlightInv
  <2> QED BY <2>1, <2>2, <1>1
<1>7. \A v \in Workers : v # w /\ pc[v] \in {"execShared", "execSerial"} => current[v] # id
  <2>1. CASE pc[w] = "execShared"
    BY <2>1, <1>3 DEF QueueInv, SharedFlightInv, SerialFlightInv
  <2>2. CASE pc[w] = "execSerial"
    BY <2>2, <1>3 DEF QueueInv, SharedFlightInv, SerialFlightInv
  <2> QED BY <2>1, <2>2, <1>1
<1>8. DelayQueueInv'
  BY <1>1, <1>4, <1>5 DEF QueueInv, DelayQueueInv
<1>9. SerialQueueInv'
  BY <1>1, <1>4, <1>6 DEF QueueInv, SerialQueueInv
<1>10. SharedFlightInv'
  <2> SUFFICES ASSUME NEW v \in Workers, pc'[v] = "execShared"
               PROVE  /\ current'[v] \in Ids /\ current'[v] \notin done'
                      /\ issued[current'[v]].route = "shared"
                      /\ \A i \in Ids : Queued(i, delayQueue) => current'[v] < i
                      /\ \A u \in Workers : u # v /\ pc'[u] = "execShared"
                                                => current'[u] # current'[v]
    BY <1>1, <1>4 DEF SharedFlightInv, Pending
  <2>1. v # w /\ pc[v] = "execShared" /\ current'[v] = current[v]
    BY <1>2
  <2> QED BY <2>1, <1>1, <1>2, <1>7 DEF QueueInv, SharedFlightInv, Pending
<1>11. SerialFlightInv'
  <2> SUFFICES ASSUME NEW v \in Workers, pc'[v] = "execSerial"
               PROVE  /\ current'[v] \in Ids /\ current'[v] \notin done'
                      /\ issued[current'[v]].route = "serial"
                      /\ issued[current'[v]].serial % NumWorkers = v
                      /\ \A i \in Ids : Queued(i, serialQueue[v]) => current'[v] < i
    BY <1>1, <1>4 DEF SerialFlightInv, Pending, Home
  <2>1. v # w /\ pc[v] = "execSerial" /\ current'[v] = current[v]
    BY <1>2
  <2> QED BY <2>1, <1>1, <1>7 DEF QueueInv, SerialFlightInv, Pending, Home
<1>12. PlaceInv'
  <2> SUFFICES ASSUME NEW i \in Ids, Pending(i), i # id
               PROVE  /\ issued[i].route # "direct"
                      /\ issued[i].route = "shared" =>
                             \/ Queued(i, delayQueue)
                             \/ \E v \in Workers : pc'[v] = "execShared" /\ current'[v] = i
                      /\ issued[i].route = "serial" =>
                             /\ Home(i) \in Workers
                             /\ \/ Queued(i, serialQueue[Home(i)])
                                \/ pc'[Home(i)] = "execSerial" /\ current'[Home(i)] = i
    BY <1>1, <1>4 DEF PlaceInv, Home
  <2> QED BY <1>2 DEF QueueInv, PlaceInv
<1>13. RouteInv'
  BY <1>1, <1>4 DEF QueueInv, RouteInv
<1> QED BY <1>8, <1>9, <1>10, <1>11, <1>12, <1>13 DEF QueueInv
-----------------------------------------------------------------------------
\* The open transaction of each thread, if it has one.
TransType == [Threads -> Serials \union {NoTrans}]

\* A submission along RouteOf keeps the types of the whole state.
LEMMA SubmitTypeOK ==
    ASSUME TypeOK, NEW kind \in Kinds, NEW serial \in Serials, NEW route \in Routes,
           Submit(kind, serial, route),
           UNCHANGED <<phase, haltAt, allowAsync, numAsyncWorkers, running, pc, current>>,
           trans' \in TransType, results' \in Seq(Ids)
    PROVE  TypeOK'
<1>2. /\ issued' \in Seq(Operation)
      /\ Ids \subseteq Ids'
      /\ delayQueue' \in Seq(Ids')
      /\ serialQueue' \in [Workers -> Seq(Ids')]
      /\ done' \subseteq Ids'
  BY SubmitTypes
<1>3. results' \in Seq(Ids')
  BY <1>2, SeqMonotonic
<1>4. current' \in [Workers -> Ids' \union {0}]
  BY <1>2 DEF TypeOK
<1> QED BY <1>2, <1>3, <1>4 DEF TypeOK, TransType

\* Clients run only before StopServer, when no worker has been destroyed.
LEMMA ClientHaltInv ==
    ASSUME HaltInv, ClientsRun, UNCHANGED <<phase, haltAt, numAsyncWorkers, pc>>
    PROVE  HaltInv'
BY DEF HaltInv, ClientsRun

\* A step of a client that submits.
LEMMA ClientSubmitInv ==
    ASSUME Inv, ClientsRun, NEW kind \in Kinds, NEW serial \in Serials, NEW route \in Routes,
           Submit(kind, serial, route),
           route \in {"direct", RouteOf(serial)},
           UNCHANGED <<phase, haltAt, allowAsync, numAsyncWorkers, running, pc, current, results>>,
           trans' \in TransType
    PROVE  Inv'
<1>1. TypeOK'
  BY SubmitTypeOK DEF Inv, TypeOK
<1>2. numAsyncWorkers = NumWorkers
  BY DEF Inv, HaltInv, ClientsRun
<1>3. QueueInv'
  BY <1>2, SubmitQueueInv DEF Inv, RouteOf
<1>4. HaltInv'
  BY ClientHaltInv DEF Inv
<1> QED BY <1>1, <1>3, <1>4 DEF Inv

\* A step of a client that submits nothing.
LEMMA ClientOtherInv ==
    ASSUME Inv, ClientsRun,
           UNCHANGED <<phase, haltAt, allowAsync, numAsyncWorkers, running, pc, current,
                       issued, delayQueue, serialQueue, done>>,
           trans' \in TransType, results' \in Seq(Ids)
    PROVE  Inv'
<1>1. TypeOK'
  BY DEF Inv, TypeOK, TransType, Ids
<1>2. QueueInv'
  BY FrameQueueInv DEF Inv
<1>3. HaltInv'
  BY ClientHaltInv DEF Inv
<1> QED BY <1>1, <1>2, <1>3 DEF Inv

\* Every step of a client keeps the invariant.
LEMMA ClientInv ==
    ASSUME Inv, ClientStep
    PROVE  Inv'
<1> USE DEF haltVars, workerVars, clientVars
<1>1. trans \in TransType /\ results \in Seq(Ids) /\ 0 \in Serials /\ <<>> \in Seq(Ids)
  BY EmptySeq DEF Inv, TypeOK, TransType, Serials
<1>2. \A s \in Serials : RouteOf(s) \in Routes
  BY DEF RouteOf, Routes
<1>3. RouteOf(0) = "shared" /\ "direct" \in Routes
  BY DEF RouteOf, Routes
<1>4. ASSUME NEW t \in Threads, Execute(t) PROVE Inv'
  <2>1. PICK route \in {"direct", "shared"} : Submit("plain", 0, route)
    BY <1>4 DEF Execute
  <2> QED BY <1>1, <1>2, <1>3, <1>4, <2>1, ClientSubmitInv DEF Execute, Kinds
<1>5. ASSUME NEW t \in Threads, NEW s \in Serials, BeginTransaction(t, s) PROVE Inv'
  <2>1. trans' \in TransType
    BY <1>1, <1>5 DEF BeginTransaction, TransType
  <2> QED BY <1>1, <1>5, <2>1, ClientOtherInv DEF BeginTransaction
<1>6. ASSUME NEW t \in Threads, CommitTransaction(t) PROVE Inv'
  <2>1. trans[t] \in Serials
    BY <1>1, <1>6 DEF CommitTransaction, InTransaction, TransType
  <2>2. PICK route \in {"direct", RouteOf(trans[t])} : Submit("trans", trans[t], route)
    BY <1>6 DEF CommitTransaction
  <2>3. trans' \in TransType
    BY <1>1, <1>6 DEF CommitTransaction, TransType
  <2> QED BY <1>2, <1>3, <1>6, <2>1, <2>2, <2>3, ClientSubmitInv DEF CommitTransaction, Kinds
<1>7. ASSUME NEW t \in Threads, RollbackTransaction(t) PROVE Inv'
  <2>1. trans' \in TransType
    BY <1>1, <1>7 DEF RollbackTransaction, TransType
  <2> QED BY <1>1, <1>7, <2>1, ClientOtherInv DEF RollbackTransaction
<1>8. ASSUME DirectExecute PROVE Inv'
  BY <1>1, <1>3, <1>8, ClientSubmitInv DEF DirectExecute, Kinds
<1>9. ASSUME AsyncQuery PROVE Inv'
  <2>1. "shared" \in Routes /\ "query" \in Kinds
    BY DEF Routes, Kinds
  <2> QED BY <1>1, <1>3, <1>9, <2>1, ClientSubmitInv DEF AsyncQuery
<1>10. ASSUME NEW s \in Serials, DelayQueryHolder(s) PROVE Inv'
  BY <1>1, <1>2, <1>10, ClientSubmitInv DEF DelayQueryHolder, Kinds
<1>11. ASSUME ProcessResultQueue PROVE Inv'
  BY <1>1, <1>11, ClientOtherInv DEF ProcessResultQueue
<1> QED BY <1>4, <1>5, <1>6, <1>7, <1>8, <1>9, <1>10, <1>11 DEF ClientStep

\* A worker's look at m_running keeps the invariant.
LEMMA LoopTestInv ==
    ASSUME Inv, NEW w \in Workers, LoopTest(w)
    PROVE  Inv'
<1> USE DEF LoopTest, clientVars
<1>1. TypeOK'
  BY DEF Inv, TypeOK, PCs, Ids
<1>2. \A v \in Workers : v # w => pc'[v] = pc[v]
  BY DEF Inv, TypeOK
<1>3. pc[w] = "loop" /\ pc'[w] \in {"shared", "exited"}
  BY DEF Inv, TypeOK
<1>4. QueueInv'
  BY <1>2, <1>3, FrameQueueInv DEF Inv
<1>5. HaltInv'
  BY <1>2, <1>3 DEF Inv, HaltInv, Workers
<1> QED BY <1>1, <1>4, <1>5 DEF Inv

\* Taking an operation off the delay queue keeps the invariant.
LEMMA NextDelayedInv ==
    ASSUME Inv, NEW w \in Workers, NextDelayedOperation(w)
    PROVE  Inv'
<1> USE DEF NextDelayedOperation, clientVars
<1>1. TypeOK'
  <2>1. delayQueue # <<>> => Tail(delayQueue) \in Seq(Ids) /\ Head(delayQueue) \in Ids
    BY QueueTail DEF Inv, TypeOK
  <2> QED BY <2>1 DEF Inv, TypeOK, PCs, Ids
<1>2. QueueInv'
  BY NextDelayedQueueInv DEF Inv
<1>3. HaltInv'
  <2>1. /\ pc[w] = "shared"
        /\ \A v \in Workers : v # w => pc'[v] = pc[v]
        /\ pc'[w] = IF delayQueue = <<>> THEN "serial" ELSE "execShared"
        /\ delayQueue = <<>> => delayQueue' = <<>>
    BY DEF Inv, TypeOK
  <2> QED BY <2>1 DEF Inv, HaltInv, Workers
<1> QED BY <1>1, <1>2, <1>3 DEF Inv

\* Taking an operation off a serial queue, or leaving the loop, keeps the invariant.
LEMMA NextSerialInv ==
    ASSUME Inv, NEW w \in Workers, NextSerialOperation(w)
    PROVE  Inv'
<1> USE DEF NextSerialOperation, clientVars
<1>1. TypeOK'
  <2>1. serialQueue[w] # <<>> =>
            Tail(serialQueue[w]) \in Seq(Ids) /\ Head(serialQueue[w]) \in Ids
    BY QueueTail DEF Inv, TypeOK
  <2> QED BY <2>1 DEF Inv, TypeOK, PCs, Ids
<1>2. QueueInv'
  BY NextSerialQueueInv DEF Inv
<1>3. HaltInv'
  <2>1. /\ pc[w] = "serial"
        /\ \A v \in Workers : v # w => pc'[v] = pc[v] /\ serialQueue'[v] = serialQueue[v]
        /\ pc'[w] = "gone" => phase = "destroy" /\ serialQueue'[w] = <<>>
        /\ delayQueue' = delayQueue
    BY DEF Inv, TypeOK
  <2> QED BY <2>1 DEF Inv, HaltInv, Workers
<1> QED BY <1>1, <1>2, <1>3 DEF Inv

\* Executing an operation keeps the invariant.
LEMMA ExecuteInv ==
    ASSUME Inv, NEW w \in Workers, ExecuteOperation(w)
    PROVE  Inv'
<1> USE DEF ExecuteOperation, clientVars
<1>1. TypeOK'
  <2>1. current[w] \in Ids
    BY DEF Inv, QueueInv, SharedFlightInv, SerialFlightInv, Pending
  <2>2. results \in Seq(Ids) /\ Append(results, current[w]) \in Seq(Ids)
    BY <2>1, AppendProperties DEF Inv, TypeOK
  <2>3. results' \in Seq(Ids)
    BY <2>2
  <2> QED BY <2>1, <2>3 DEF Inv, TypeOK, PCs, Ids
<1>2. QueueInv'
  BY ExecuteQueueInv DEF Inv
<1>3. HaltInv'
  <2>1. /\ \A v \in Workers : v # w => pc'[v] = pc[v]
        /\ \/ pc[w] = "execShared" /\ pc'[w] = "shared"
           \/ pc[w] = "execSerial" /\ pc'[w] = "serial"
    BY DEF Inv, TypeOK
  <2> QED BY <2>1 DEF Inv, HaltInv, Workers
<1> QED BY <1>1, <1>2, <1>3 DEF Inv

-----------------------------------------------------------------------------
\* Every step of Master, from AllowAsyncTransactions to the end of StopServer, keeps
\* the invariant.
LEMMA MasterInv ==
    ASSUME Inv, MasterStep
    PROVE  Inv'
<1> USE DEF haltVars, workerVars, clientVars
<1>1. ASSUME AllowAsyncTransactions PROVE Inv'
  <2> USE <1>1 DEF AllowAsyncTransactions
  <2>1. TypeOK'
    BY DEF Inv, TypeOK, Ids, Phases
  <2>2. QueueInv'
    BY FrameQueueInv DEF Inv
  <2>3. HaltInv'
    BY DEF Inv, HaltInv
  <2> QED BY <2>1, <2>2, <2>3 DEF Inv
<1>2. ASSUME StopServer PROVE Inv'
  <2> USE <1>2 DEF StopServer
  <2>1. TypeOK'
    BY DEF Inv, TypeOK, Ids, Phases
  <2>2. QueueInv'
    BY FrameQueueInv DEF Inv
  <2>3. HaltInv'
    BY NumWorkersAssumption DEF Inv, HaltInv, Workers
  <2> QED BY <2>1, <2>2, <2>3 DEF Inv
<1>3. ASSUME StopWorker PROVE Inv'
  <2> USE <1>3 DEF StopWorker
  <2>1. haltAt' \in Nat /\ phase' \in {"stop", "join"}
    BY DEF Inv, TypeOK
  <2>2. TypeOK'
    BY <2>1 DEF Inv, TypeOK, Ids, Phases
  <2>3. QueueInv'
    BY FrameQueueInv DEF Inv
  <2>4. HaltInv'
    BY NumWorkersAssumption DEF Inv, HaltInv, Workers
  <2> QED BY <2>2, <2>3, <2>4 DEF Inv
<1>4. ASSUME JoinWorker PROVE Inv'
  <2> USE <1>4 DEF JoinWorker
  <2>1. /\ haltAt \in Workers /\ numAsyncWorkers = NumWorkers /\ pc[haltAt] = "exited"
        /\ \A v \in Workers : v < haltAt => pc[v] = "exited"
    BY DEF Inv, HaltInv
  <2>2. CASE haltAt + 1 < numAsyncWorkers
    <3>1. /\ haltAt' = haltAt + 1 /\ haltAt' \in Workers /\ haltAt' \in Nat
          /\ phase' = phase /\ phase = "join" /\ pc' = pc
      BY <2>1, <2>2, NumWorkersAssumption DEF Workers
    <3>2. TypeOK'
      BY <3>1 DEF Inv, TypeOK, Ids
    <3>3. QueueInv'
      BY <3>1, FrameQueueInv DEF Inv
    <3>4. HaltInv'
      BY <2>1, <3>1 DEF Inv, HaltInv, Workers
    <3> QED BY <3>2, <3>3, <3>4 DEF Inv
  <2>3. CASE ~(haltAt + 1 < numAsyncWorkers)
    <3>1. /\ haltAt' = 0 /\ phase' = "destroy" /\ pc' = [pc EXCEPT ![0] = "shared"]
          /\ 0 \in Workers
          /\ \A v \in Workers : pc[v] = "exited"
      BY <2>1, <2>3, NumWorkersAssumption DEF Workers
    <3>2. TypeOK'
      BY <3>1 DEF Inv, TypeOK, Ids, Phases, PCs
    <3>3. pc'[0] = "shared" /\ \A v \in Workers : v # 0 => pc'[v] = "exited"
      BY <3>1 DEF Inv, TypeOK
    <3>4. QueueInv'
      BY <3>1, <3>3, FrameQueueInv DEF Inv
    <3>5. HaltInv'
      BY <2>1, <3>1, <3>3 DEF Inv, HaltInv, Workers
    <3> QED BY <3>2, <3>4, <3>5 DEF Inv
  <2> QED BY <2>2, <2>3
<1>5. ASSUME DestroyNext PROVE Inv'
  <2> USE <1>5 DEF DestroyNext
  <2>1. /\ haltAt \in Workers /\ numAsyncWorkers = NumWorkers /\ pc[haltAt] = "gone"
        /\ \A v \in Workers : v < haltAt => pc[v] = "gone"
        /\ \A v \in Workers : v > haltAt => pc[v] = "exited"
    BY DEF Inv, HaltInv
  <2>2. delayQueue = <<>>
    BY <2>1 DEF Inv, HaltInv, Workers
  <2>3. CASE haltAt + 1 < numAsyncWorkers
    <3>1. /\ haltAt' = haltAt + 1 /\ haltAt' \in Workers /\ haltAt' \in Nat
          /\ pc' = [pc EXCEPT ![haltAt'] = "shared"]
          /\ pc[haltAt'] = "exited"
          /\ phase' = "destroy" /\ numAsyncWorkers' = NumWorkers
      BY <2>1, <2>3, NumWorkersAssumption DEF Workers
    <3>2. TypeOK'
      BY <3>1 DEF Inv, TypeOK, Ids, PCs
    <3>3. pc'[haltAt'] = "shared" /\ \A v \in Workers : v # haltAt' => pc'[v] = pc[v]
      BY <3>1 DEF Inv, TypeOK
    <3>4. QueueInv'
      BY <3>1, <3>3, FrameQueueInv DEF Inv
    <3>5. HaltInv'
      BY <2>1, <2>2, <3>1, <3>3 DEF Inv, HaltInv, Workers
    <3> QED BY <3>2, <3>4, <3>5 DEF Inv
  <2>4. CASE ~(haltAt + 1 < numAsyncWorkers)
    <3>1. haltAt' = 0 /\ phase' = "cancel" /\ numAsyncWorkers' = 0 /\ pc' = pc
      BY <2>4
    <3>2. TypeOK'
      BY <3>1 DEF Inv, TypeOK, Ids, Phases
    <3>3. QueueInv'
      BY <3>1, FrameQueueInv DEF Inv
    <3>4. HaltInv'
      BY <2>1, <3>1 DEF Inv, HaltInv, Workers
    <3> QED BY <3>2, <3>3, <3>4 DEF Inv
  <2> QED BY <2>3, <2>4
<1>6. ASSUME NEW submits \in BOOLEAN, CancelCallback(submits) PROVE Inv'
  <2> USE <1>6 DEF CancelCallback
  <2>1. results' \in Seq(Ids) /\ trans' \in TransType
    BY QueueTail DEF Inv, TypeOK, TransType
  <2>2. CASE submits
    <3>1. "plain" \in Kinds /\ 0 \in Serials /\ "shared" \in Routes
      BY DEF Kinds, Serials, Routes
    <3>2. Submit("plain", 0, "shared")
      BY <2>2
    <3>3. TypeOK'
      BY <2>1, <3>1, <3>2, SubmitTypeOK DEF Inv
    <3>4. QueueInv'
      BY <3>1, <3>2, SubmitQueueInv DEF Inv
    <3>5. HaltInv'
      <4>1. UNCHANGED <<phase, haltAt, numAsyncWorkers, pc>> /\ serialQueue' = serialQueue
        BY <3>2 DEF Submit
      <4> QED BY <4>1 DEF Inv, HaltInv
    <3> QED BY <3>3, <3>4, <3>5 DEF Inv
  <2>3. CASE ~submits
    <3>1. TypeOK'
      BY <2>1, <2>3 DEF Inv, TypeOK, TransType, Ids
    <3>2. QueueInv'
      BY <2>3, FrameQueueInv DEF Inv
    <3>3. HaltInv'
      BY <2>3 DEF Inv, HaltInv
    <3> QED BY <3>1, <3>2, <3>3 DEF Inv
  <2> QED BY <2>2, <2>3
<1>7. ASSUME CloseConnections PROVE Inv'
  <2> USE <1>7 DEF CloseConnections
  <2>1. TypeOK'
    BY DEF Inv, TypeOK, Ids, Phases
  <2>2. QueueInv'
    BY FrameQueueInv DEF Inv
  <2>3. HaltInv'
    BY DEF Inv, HaltInv
  <2> QED BY <2>1, <2>2, <2>3 DEF Inv
<1> QED BY <1>1, <1>2, <1>3, <1>4, <1>5, <1>6, <1>7 DEF MasterStep
-----------------------------------------------------------------------------
\* The invariant holds when Initialize has returned.
LEMMA InitInv == Init => Inv
<1> SUFFICES ASSUME Init PROVE Inv
  OBVIOUS
<1> USE DEF Init
<1>1. Ids = {} /\ \A i : ~Queued(i, <<>>)
  BY DEF Ids, Queued
<1>2. TypeOK
  <2>1. \A S : <<>> \in Seq(S)
    BY EmptySeq
  <2> QED BY <2>1 DEF TypeOK, Phases, PCs
<1>3. QueueInv
  <2>1. Sorted(<<>>)
    BY DEF Sorted
  <2> QED BY <1>1, <2>1 DEF QueueInv, DelayQueueInv, SerialQueueInv, SharedFlightInv,
                            SerialFlightInv, PlaceInv, RouteInv
<1>4. HaltInv
  BY DEF HaltInv
<1> QED BY <1>2, <1>3, <1>4 DEF Inv

\* Every step keeps the invariant.
LEMMA NextInv == Inv /\ [Next]_vars => Inv'
<1> SUFFICES ASSUME Inv, [Next]_vars PROVE Inv'
  OBVIOUS
<1>1. CASE ClientStep
  BY <1>1, ClientInv
<1>2. CASE \E w \in Workers : WorkerStep(w)
  BY <1>2, LoopTestInv, NextDelayedInv, NextSerialInv, ExecuteInv DEF WorkerStep
<1>3. CASE MasterStep
  BY <1>3, MasterInv
<1>4. CASE UNCHANGED vars
  <2>1. TypeOK'
    BY <1>4 DEF vars, Inv, TypeOK, Ids
  <2>2. QueueInv'
    BY <1>4, FrameQueueInv DEF vars, Inv
  <2>3. HaltInv'
    BY <1>4 DEF vars, Inv, HaltInv
  <2> QED BY <2>1, <2>2, <2>3 DEF Inv
<1> QED BY <1>1, <1>2, <1>3, <1>4 DEF Next

\* Inv holds in every reachable state, for every number of threads, workers,
\* serial ids and operations.
THEOREM Invariance == Spec => []Inv
BY InitInv, NextInv, PTL DEF Spec

\* The state of Database and of its workers keeps its types.
THEOREM TypeCorrect == Spec => []TypeOK
<1>1. Inv => TypeOK
  BY DEF Inv
<1> QED BY <1>1, Invariance, PTL

\* Nothing that Execute, CommitTransaction, AsyncQuery or DelayQueryHolder
\* accepted is ever dropped, also while StopServer tears the workers down.
THEOREM Lossless == Spec => []NothingLost
<1>1. Inv => NothingLost
  <2> SUFFICES ASSUME Inv, NEW i \in Ids, i \notin done
               PROVE  \/ Queued(i, delayQueue)
                      \/ \E w \in Workers : \/ Queued(i, serialQueue[w])
                                            \/ InFlight(w) /\ current[w] = i
    BY DEF NothingLost
  <2>1. issued[i].route \in {"direct", "shared", "serial"}
    <3>1. issued[i] \in Operation
      BY ElementOfSeq DEF Inv, TypeOK, Ids
    <3> QED BY <3>1 DEF Operation, Routes
  <2> QED BY <2>1 DEF Inv, QueueInv, PlaceInv, Pending, InFlight
<1> QED BY <1>1, Invariance, PTL

\* No two workers, and no worker and a destructor, execute one operation.
THEOREM AtMostOnce == Spec => ExecutedOnce
<1>1. Inv => \A w \in Workers : ExecuteOperation(w) => current[w] \notin done
  BY DEF Inv, QueueInv, SharedFlightInv, SerialFlightInv, Pending, ExecuteOperation
<1>2. Inv /\ [Next]_vars =>
          [\A w \in Workers : ExecuteOperation(w) => current[w] \notin done]_vars
  BY <1>1
<1> QED BY <1>2, Invariance, PTL DEF Spec, ExecutedOnce

\* HaltDelayThread leaves nothing behind.
THEOREM HaltLeavesNothing == Spec => HaltDrains
<1>1. Inv /\ [Next]_vars => [phase = "destroy" /\ phase' = "cancel" => done = Ids]_vars
  <2> SUFFICES ASSUME Inv, Next, phase = "destroy", phase' = "cancel" PROVE done = Ids
    OBVIOUS
  <2>1. DestroyNext
    <3>1. ~ClientStep
      BY DEF ClientStep, ClientsRun, Execute, BeginTransaction, CommitTransaction,
             RollbackTransaction, DirectExecute, AsyncQuery, DelayQueryHolder, ProcessResultQueue
    <3>2. ~\E w \in Workers : WorkerStep(w)
      BY DEF WorkerStep, LoopTest, NextDelayedOperation, NextSerialOperation, ExecuteOperation
    <3> QED BY <3>1, <3>2 DEF Next, MasterStep, AllowAsyncTransactions, StopServer, StopWorker,
                              JoinWorker, CancelCallback, CloseConnections, haltVars
  <2>2. \A w \in Workers : pc[w] = "gone"
    <3>1. /\ haltAt \in Workers /\ pc[haltAt] = "gone"
          /\ \A w \in Workers : w < haltAt => pc[w] = "gone"
          /\ ~(haltAt + 1 < NumWorkers)
      BY <2>1 DEF DestroyNext, Inv, HaltInv
    <3>2. \A w \in Workers : w < haltAt \/ w = haltAt
      BY <3>1, NumWorkersAssumption DEF Workers
    <3> QED BY <3>1, <3>2
  <2>3. delayQueue = <<>> /\ \A w \in Workers : serialQueue[w] = <<>>
    BY <2>1, <2>2 DEF DestroyNext, Inv, HaltInv, Workers
  <2>4. \A i : ~Queued(i, <<>>)
    BY DEF Queued
  <2>5. \A i \in Ids : issued[i].route \in {"direct", "shared", "serial"}
    <3>1. \A i \in Ids : issued[i] \in Operation
      BY ElementOfSeq DEF Inv, TypeOK, Ids
    <3> QED BY <3>1 DEF Operation, Routes
  <2>6. \A i \in Ids : ~Pending(i)
    BY <2>2, <2>3, <2>4, <2>5 DEF Inv, QueueInv, PlaceInv
  <2> QED BY <2>6 DEF Pending, Inv, TypeOK
<1> QED BY <1>1, Invariance, PTL DEF Spec, HaltDrains

-----------------------------------------------------------------------------
\* Every step submits an operation, executes one, or does neither.
LEMMA StepKinds ==
    ASSUME Inv, [Next]_vars
    PROVE  \/ UNCHANGED <<issued, done>>
           \/ \E kind \in Kinds, serial \in Serials, route \in Routes : Submit(kind, serial, route)
           \/ \E w \in Workers : ExecuteOperation(w)
<1> USE DEF haltVars, workerVars, clientVars
<1>1. \A s \in Serials : RouteOf(s) \in Routes
  BY DEF RouteOf, Routes
<1>2. 0 \in Serials /\ {"direct", "shared"} \subseteq Routes
      /\ {"plain", "trans", "query", "holder"} = Kinds
  BY DEF Serials, Routes, Kinds
<1>3. CASE ClientStep
  <2>1. ASSUME NEW t \in Threads, CommitTransaction(t)
        PROVE  \E kind \in Kinds, serial \in Serials, route \in Routes :
                   Submit(kind, serial, route)
    <3>1. trans[t] \in Serials
      BY <2>1 DEF Inv, TypeOK, CommitTransaction, InTransaction
    <3> QED BY <2>1, <3>1, <1>1, <1>2 DEF CommitTransaction
  <2> QED BY <1>1, <1>2, <1>3, <2>1
          DEF ClientStep, Execute, BeginTransaction, RollbackTransaction, DirectExecute,
              AsyncQuery, DelayQueryHolder, ProcessResultQueue
<1>4. CASE \E w \in Workers : WorkerStep(w)
  BY <1>4 DEF WorkerStep, LoopTest, NextDelayedOperation, NextSerialOperation
<1>5. CASE MasterStep
  BY <1>2, <1>5 DEF MasterStep, AllowAsyncTransactions, StopServer, StopWorker, JoinWorker,
                    DestroyNext, CancelCallback, CloseConnections
<1>6. CASE UNCHANGED vars
  BY <1>6 DEF vars
<1> QED BY <1>3, <1>4, <1>5, <1>6 DEF Next

\* A worker that executes an operation with a serial id has executed every
\* older one with that id: they went to the same queue.
LEMMA SerialOrderNext == Inv /\ SerialOrder /\ [Next]_vars => SerialOrder'
<1> SUFFICES ASSUME Inv, SerialOrder, [Next]_vars PROVE SerialOrder'
  OBVIOUS
<1>1. CASE UNCHANGED <<issued, done>>
  BY <1>1 DEF SerialOrder, Ids
<1>2. ASSUME NEW kind \in Kinds, NEW serial \in Serials, NEW route \in Routes,
             Submit(kind, serial, route)
      PROVE  SerialOrder'
  <2> DEFINE new == [kind |-> kind, serial |-> serial, route |-> route]
  <2> PICK id : id = Len(issued) + 1
    OBVIOUS
  <2>1. /\ Len(issued) \in Nat
        /\ Ids' = Ids \union {id}
        /\ issued'[id] = new
        /\ \A i \in Ids : issued'[i] = issued[i]
    BY <1>2, SubmitTypes DEF Inv
  <2>2. issued'[id].route = route /\ id \notin Ids /\ \A i \in Ids' : i <= id
    BY <2>1 DEF Ids
  <2>3. done \subseteq Ids /\ (id \in done' => route = "direct")
        /\ \A i \in Ids : i \in done' <=> i \in done
    BY <1>2, <2>2 DEF Submit, Inv, TypeOK
  <2> HIDE DEF new
  <2> SUFFICES ASSUME NEW i \in Ids', NEW j \in Ids', i < j,
                      issued'[i].serial = issued'[j].serial, issued'[i].serial # 0,
                      issued'[j].route # "direct", j \in done'
               PROVE  i \in done'
    BY DEF SerialOrder
  <2>4. j # id /\ j \in Ids
    BY <2>1, <2>2, <2>3
  <2>5. i \in Ids
    BY <2>1, <2>4 DEF Ids
  <2> QED BY <2>1, <2>3, <2>4, <2>5 DEF SerialOrder
<1>3. ASSUME NEW w \in Workers, ExecuteOperation(w)
      PROVE  SerialOrder'
  <2>1. UNCHANGED issued /\ done' = done \union {current[w]}
        /\ pc[w] \in {"execShared", "execSerial"}
    BY <1>3 DEF ExecuteOperation, clientVars
  <2> SUFFICES ASSUME NEW i \in Ids, NEW j \in Ids, i < j,
                      issued[i].serial = issued[j].serial, issued[i].serial # 0,
                      issued[j].route # "direct", j = current[w], i \notin done
               PROVE  FALSE
    BY <2>1 DEF SerialOrder, Ids
  <2>2. NumWorkers # 0
    BY NumWorkersAssumption DEF Workers
  <2>3. issued[i].route # "shared" /\ issued[j].route # "shared"
    BY <2>2 DEF Inv, QueueInv, RouteInv
  <2>4. pc[w] = "execSerial" /\ Home(i) = w
    BY <2>1, <2>3 DEF Inv, QueueInv, SharedFlightInv, SerialFlightInv, Home
  <2>5. issued[i].route = "serial"
    <3>1. issued[i].route \in {"direct", "shared", "serial"}
      <4>1. issued[i] \in Operation
        BY ElementOfSeq DEF Inv, TypeOK, Ids
      <4> QED BY <4>1 DEF Operation, Routes
    <3> QED BY <3>1, <2>3 DEF Inv, QueueInv, PlaceInv, Pending
  <2>6. Queued(i, serialQueue[w]) \/ current[w] = i
    BY <2>4, <2>5 DEF Inv, QueueInv, PlaceInv, Pending
  <2>7. i \in Nat /\ j \in Nat
    BY DEF Ids
  <2> QED BY <2>4, <2>6, <2>7 DEF Inv, QueueInv, SerialFlightInv
<1> QED BY <1>1, <1>2, <1>3, StepKinds

\* Saves and loads of one character are executed in the order in which the
\* world submitted them.
THEOREM SerialOperationsInOrder == Spec => []SerialOrder
<1>1. Init => SerialOrder
  BY DEF Init, SerialOrder
<1> QED BY <1>1, InitInv, NextInv, SerialOrderNext, PTL DEF Spec

\* With one worker no step executes an operation of the shared queue before an older
\* one.
LEMMA SharedOrderNext ==
    Inv /\ SharedOrderWithOneWorker /\ [Next]_vars => SharedOrderWithOneWorker'
<1> SUFFICES ASSUME Inv, SharedOrderWithOneWorker, [Next]_vars, NumWorkers = 1
             PROVE  SharedOrderWithOneWorker'
  BY DEF SharedOrderWithOneWorker
<1>1. CASE UNCHANGED <<issued, done>>
  BY <1>1 DEF SharedOrderWithOneWorker, Ids
<1>2. ASSUME NEW kind \in Kinds, NEW serial \in Serials, NEW route \in Routes,
             Submit(kind, serial, route)
      PROVE  SharedOrderWithOneWorker'
  <2> DEFINE new == [kind |-> kind, serial |-> serial, route |-> route]
  <2> PICK id : id = Len(issued) + 1
    OBVIOUS
  <2>1. /\ Len(issued) \in Nat
        /\ Ids' = Ids \union {id}
        /\ issued'[id] = new
        /\ \A i \in Ids : issued'[i] = issued[i]
    BY <1>2, SubmitTypes DEF Inv
  <2>2. issued'[id].route = route /\ id \notin Ids /\ \A i \in Ids' : i <= id
    BY <2>1 DEF Ids
  <2>3. done \subseteq Ids /\ (id \in done' => route = "direct")
        /\ \A i \in Ids : i \in done' <=> i \in done
    BY <1>2, <2>2 DEF Submit, Inv, TypeOK
  <2> HIDE DEF new
  <2> SUFFICES ASSUME NEW i \in Ids', NEW j \in Ids', i < j,
                      issued'[i].route = "shared", issued'[j].route = "shared", j \in done'
               PROVE  i \in done'
    BY DEF SharedOrderWithOneWorker
  <2>4. j # id /\ j \in Ids
    BY <2>1, <2>2, <2>3
  <2>5. i \in Ids
    BY <2>1, <2>4 DEF Ids
  <2> QED BY <2>1, <2>3, <2>4, <2>5 DEF SharedOrderWithOneWorker
<1>3. ASSUME NEW w \in Workers, ExecuteOperation(w)
      PROVE  SharedOrderWithOneWorker'
  <2>1. UNCHANGED issued /\ done' = done \union {current[w]}
        /\ pc[w] \in {"execShared", "execSerial"}
    BY <1>3 DEF ExecuteOperation, clientVars
  <2> SUFFICES ASSUME NEW i \in Ids, NEW j \in Ids, i < j,
                      issued[i].route = "shared", issued[j].route = "shared",
                      j = current[w], i \notin done
               PROVE  FALSE
    BY <2>1 DEF SharedOrderWithOneWorker, Ids
  <2>2. pc[w] = "execShared"
    BY <2>1 DEF Inv, QueueInv, SerialFlightInv
  <2>3. \A v \in Workers : v = w
    BY DEF Workers
  <2>4. Queued(i, delayQueue) \/ current[w] = i
    BY <2>3 DEF Inv, QueueInv, PlaceInv, Pending
  <2>5. i \in Nat /\ j \in Nat
    BY DEF Ids
  <2> QED BY <2>2, <2>4, <2>5 DEF Inv, QueueInv, SharedFlightInv
<1> QED BY <1>1, <1>2, <1>3, StepKinds

\* One worker executes the shared queue first in, first out.
THEOREM SharedOperationsInOrder == Spec => []SharedOrderWithOneWorker
<1>1. Init => SharedOrderWithOneWorker
  BY DEF Init, SharedOrderWithOneWorker
<1> QED BY <1>1, InitInv, NextInv, SharedOrderNext, PTL DEF Spec

-----------------------------------------------------------------------------
(* AsyncDatabase implements SerialExecution. *)

LinesOf == [s \in SerialIds |-> Line(s)]

\* The actions of SerialExecution, seen from here.
LEMMA LinesUnfolded ==
    /\ Lines!Init <=> Len(issued) = 0 /\ LinesOf = [s \in SerialIds |-> {}]
    /\ \A s : Lines!Submit(s) <=>
          /\ Len(issued)' = Len(issued) + 1
          /\ LinesOf' = [LinesOf EXCEPT ![s] = @ \union {Len(issued) + 1}]
    /\ Lines!SubmitElsewhere <=> Len(issued)' = Len(issued) + 1 /\ UNCHANGED LinesOf
    /\ \A s : Lines!Execute(s) <=> \E i \in LinesOf[s] :
          /\ \A j \in LinesOf[s] : i <= j
          /\ LinesOf' = [LinesOf EXCEPT ![s] = @ \ {i}]
          /\ UNCHANGED Len(issued)
    /\ UNCHANGED Lines!lineVars <=> UNCHANGED <<Len(issued), LinesOf>>
BY DEF Lines!Init, Lines!Submit, Lines!SubmitElsewhere, Lines!Execute, Lines!lineVars, LinesOf

\* A submission puts one operation at the end of the line of its serial id, or
\* in no line.
LEMMA SubmitsToLine ==
    ASSUME Inv, NEW kind \in Kinds, NEW serial \in Serials, NEW route \in Routes,
           Submit(kind, serial, route)
    PROVE  [Lines!Next]_(Lines!lineVars)
<1> PICK id : id = Len(issued) + 1
  OBVIOUS
<1>1. /\ Len(issued) \in Nat /\ Len(issued') = id
      /\ Ids' = Ids \union {id} /\ id \notin Ids
      /\ issued'[id].serial = serial /\ issued'[id].route = route
      /\ \A i \in Ids : issued'[i] = issued[i]
  <2>1. /\ Len(issued) \in Nat /\ Len(issued') = id /\ Ids' = Ids \union {id}
        /\ issued'[id] = [kind |-> kind, serial |-> serial, route |-> route]
        /\ \A i \in Ids : issued'[i] = issued[i]
    BY SubmitTypes DEF Inv
  <2> QED BY <2>1 DEF Ids
<1>2. done \subseteq Ids /\ done' = IF route = "direct" THEN done \union {id} ELSE done
  BY DEF Submit, Inv, TypeOK
<1>3. ASSUME NEW s \in SerialIds
      PROVE  Line(s)' = IF serial = s /\ route # "direct" THEN Line(s) \union {id} ELSE Line(s)
  <2>1. \A i \in Ids : (i \in Ids' /\ i \notin done') <=> i \notin done
    BY <1>1, <1>2
  <2>2. id \notin done' <=> route # "direct"
    BY <1>1, <1>2
  <2>3. \A i : i \in Line(s)' <=>
            i \in Ids' /\ i \notin done' /\ issued'[i].serial = s /\ issued'[i].route # "direct"
    BY DEF Line
  <2>4. \A i : i \in Line(s) <=>
            i \in Ids /\ i \notin done /\ issued[i].serial = s /\ issued[i].route # "direct"
    BY DEF Line
  <2>5. \A i : i \in Line(s)' <=> i \in Line(s) \/ (i = id /\ serial = s /\ route # "direct")
    BY <1>1, <2>1, <2>2, <2>3, <2>4
  <2> HIDE DEF Line
  <2> QED BY <2>5
<1>4. CASE serial \in SerialIds /\ route # "direct"
  <2>1. \A s \in SerialIds : LinesOf'[s] = [LinesOf EXCEPT ![serial] = @ \union {id}][s]
    BY <1>3, <1>4 DEF LinesOf
  <2>2. LinesOf' = [LinesOf EXCEPT ![serial] = @ \union {id}]
    BY <2>1 DEF LinesOf
  <2>3. Lines!Submit(serial)
    BY <1>1, <2>2, LinesUnfolded
  <2> QED BY <1>4, <2>3 DEF Lines!Next
<1>5. CASE ~(serial \in SerialIds /\ route # "direct")
  <2>1. \A s \in SerialIds : Line(s)' = Line(s)
    BY <1>3, <1>5
  <2>2. UNCHANGED LinesOf
    BY <2>1 DEF LinesOf
  <2>3. Lines!SubmitElsewhere
    BY <1>1, <2>2, LinesUnfolded
  <2> QED BY <2>3 DEF Lines!Next
<1> QED BY <1>4, <1>5

\* A worker executes the first of a line, or an operation that is in none.
LEMMA ExecutesFirst ==
    ASSUME Inv, SerialOrder', NEW w \in Workers, ExecuteOperation(w)
    PROVE  [Lines!Next]_(Lines!lineVars)
<1> PICK i : i = current[w]
  OBVIOUS
<1>1. UNCHANGED issued /\ done' = done \union {i} /\ InFlight(w)
  BY DEF ExecuteOperation, clientVars, InFlight
<1>2. i \in Ids /\ i \notin done /\ done \subseteq Ids
  BY <1>1 DEF Inv, TypeOK, QueueInv, SharedFlightInv, SerialFlightInv, Pending, InFlight
<1>3. issued[i].route # "direct" /\ issued[i].serial \in Serials
  <2>1. issued[i] \in Operation
    BY <1>2, ElementOfSeq DEF Inv, TypeOK, Ids
  <2> QED BY <1>2, <2>1 DEF Inv, QueueInv, PlaceInv, Pending, Operation
<1>4. \A s \in SerialIds : Line(s)' = IF issued[i].serial = s THEN Line(s) \ {i} ELSE Line(s)
  BY <1>1, <1>2, <1>3 DEF Line, Ids
<1>5. CASE issued[i].serial \in SerialIds
  <2> PICK s \in SerialIds : s = issued[i].serial
    BY <1>5
  <2>1. i \in Line(s)
    BY <1>2, <1>3 DEF Line
  <2>2. ASSUME NEW j \in Line(s) PROVE i <= j
    <3> SUFFICES ASSUME j < i PROVE FALSE
      BY <1>2 DEF Line, Ids
    <3>1. j \in Ids /\ j \notin done /\ issued[j].serial = s /\ s # 0
      BY SerialIdsAssumption DEF Line
    <3>2. j \in done'
      BY <1>1, <1>2, <1>3, <3>1 DEF SerialOrder, Ids
    <3>3. j # i
      BY <1>2, <3>1 DEF Ids
    <3> QED BY <1>1, <3>1, <3>2, <3>3
  <2>3. \A x \in SerialIds : LinesOf'[x] = [LinesOf EXCEPT ![s] = @ \ {i}][x]
    BY <1>4 DEF LinesOf
  <2>4. LinesOf' = [LinesOf EXCEPT ![s] = @ \ {i}] /\ LinesOf[s] = Line(s)
    BY <2>3 DEF LinesOf
  <2>5. Lines!Execute(s)
    <3>1. UNCHANGED Len(issued)
      BY <1>1
    <3>2. Lines!Execute(s) <=> \E x \in LinesOf[s] :
              /\ \A y \in LinesOf[s] : x <= y
              /\ LinesOf' = [LinesOf EXCEPT ![s] = @ \ {x}]
              /\ UNCHANGED Len(issued)
      BY LinesUnfolded
    <3> QED BY <2>1, <2>2, <2>4, <3>1, <3>2
  <2> QED BY <2>5 DEF Lines!Next
<1>6. CASE issued[i].serial \notin SerialIds
  <2>1. \A s \in SerialIds : Line(s)' = Line(s)
    BY <1>4, <1>6
  <2>2. UNCHANGED LinesOf
    BY <2>1 DEF LinesOf
  <2> QED BY <1>1, <2>2, LinesUnfolded
<1> QED BY <1>5, <1>6

\* What a caller may count on: the operations of one serial id are executed like
\* by one thread that has nothing else to do, whatever the workers, the
\* other ids and the shutdown do.
THEOREM DatabaseExecutesSerially == Spec => ImplementsSerialExecution
<1>1. Init => Lines!Init
  <2> SUFFICES ASSUME Init PROVE Lines!Init
    OBVIOUS
  <2>1. Len(issued) = 0 /\ Ids = {}
    BY DEF Init, Ids
  <2>2. \A s \in SerialIds : Line(s) = {}
    BY <2>1 DEF Line
  <2> QED BY <2>1, <2>2, LinesUnfolded DEF LinesOf
<1>2. Inv /\ SerialOrder' /\ [Next]_vars => [Lines!Next]_(Lines!lineVars)
  <2> SUFFICES ASSUME Inv, SerialOrder', [Next]_vars PROVE [Lines!Next]_(Lines!lineVars)
    OBVIOUS
  <2>1. CASE UNCHANGED <<issued, done>>
    <3>1. \A s \in SerialIds : Line(s)' = Line(s)
      BY <2>1 DEF Line, Ids
    <3>2. UNCHANGED LinesOf
      BY <3>1 DEF LinesOf
    <3> QED BY <2>1, <3>2, LinesUnfolded
  <2> QED BY <2>1, SubmitsToLine, ExecutesFirst, StepKinds
<1> QED BY <1>1, <1>2, Invariance, SerialOperationsInOrder, PTL DEF Spec, ImplementsSerialExecution, Lines!Spec
=============================================================================
