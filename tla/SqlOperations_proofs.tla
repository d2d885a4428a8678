------------------------ MODULE SqlOperations_proofs ------------------------
(***************************************************************************)
(* Proofs about the two modules that model SqlOperations.cpp: first about  *)
(* SqlTransaction, what a worker does with the server, then about          *)
(* SqlResultQueue, the way back of the callbacks.                          *)
(*                                                                         *)
(* SqlTransaction, for any number of statements, lost connections and      *)
(* waiting operations: a transaction of prepared statements is atomic, an  *)
(* undisturbed operation did what it returned, and the server applies      *)
(* statements in the order of their issue.  The invariant TransInv has two *)
(* parts.  The statements on their way are ordered: the operations that    *)
(* ended precede the current one, that precedes what waits, and the open   *)
(* transaction is last.  And each place of the worker says how much of the *)
(* current operation the server has, for good or in its transaction.       *)
(*                                                                         *)
(* SqlResultQueue, for any number of callbacks, with and without a time-   *)
(* out: the invariant ResultsInv says that a callback which arrived either *)
(* has run once or is held in exactly one place, that both queues are      *)
(* sorted by arrival with everything deferred before everything queued,    *)
(* and in which parts of Update the pool can have work.                    *)
(***************************************************************************)
EXTENDS SqlTransaction, SqlResultQueue, SequenceTheorems, TLAPS

-----------------------------------------------------------------------------
NumsOf(b) == {b[k].n : k \in 1 .. Len(b)}

\* The statements of a body have the order of their issue.
Ordered(b) ==
    \A k \in 1 .. Len(b) : k <= b[k].n /\ \A l \in 1 .. Len(b) : k < l => b[k].n < b[l].n

Precede(A, B) == \A x \in A, y \in B : x < y

AllPrepared(b) == \A k \in 1 .. Len(b) : b[k].prepared

Pending == {pending[k] : k \in 1 .. Len(pending)}

\* The statements of the operations that ended.
Ended == UNION {o.body : o \in Outcomes}

\* The statements that the worker has taken, and the current ones.
Taken == Ended \union Applied \union NumsOf(op.body)

Outcome == [trans : BOOLEAN, ok : BOOLEAN, disturbed : BOOLEAN, prepared : BOOLEAN,
            body : SUBSET (1 .. MaxStmts)]

-----------------------------------------------------------------------------
(* The order of the statements on their way. *)

ClientInv ==
    /\ Ordered(body)
    /\ Len(body) <= stmts
    /\ \A x \in NumsOf(body) : x <= stmts
    /\ ~inTrans => body = <<>>

DelayInv ==
    \A i \in 1 .. Len(delayQueue) :
        /\ Ordered(delayQueue[i].body)
        /\ ~delayQueue[i].trans => Len(delayQueue[i].body) = 1
        /\ \A x \in NumsOf(delayQueue[i].body) : x <= stmts
        /\ \A j \in 1 .. Len(delayQueue) :
              i < j => Precede(NumsOf(delayQueue[i].body), NumsOf(delayQueue[j].body))
        /\ Precede(NumsOf(delayQueue[i].body), NumsOf(body))

TakenInv ==
    /\ Ordered(op.body)
    /\ \A x \in Taken : x <= stmts
    /\ Precede(Ended, NumsOf(op.body))
    /\ Precede(Taken, NumsOf(body))
    /\ \A i \in 1 .. Len(delayQueue) : Precede(Taken, NumsOf(delayQueue[i].body))

DiscardedInv ==
    /\ \A x \in discarded :
          /\ x <= stmts
          /\ x \notin NumsOf(body) /\ x \notin Applied /\ x \notin NumsOf(op.body)
    /\ \A i \in 1 .. Len(delayQueue) : discarded \intersect NumsOf(delayQueue[i].body) = {}

-----------------------------------------------------------------------------
(* The current operation and the server. *)

\* The session and its transaction.
SessionInv ==
    /\ link => handle
    /\ ~link => ~inTx
    /\ ~inTx => pending = <<>>
    /\ \A k, l \in 1 .. Len(pending) : k < l => pending[k] < pending[l]
    /\ inTx => /\ op.trans /\ pc \in {"statement", "commit", "rollback"}
               /\ Precede(Applied, NumsOf(op.body))
               /\ Pending \subseteq NumsOf(op.body)

PlaceInv ==
    /\ pc = "idle" => op = NoOp /\ index = 1
    /\ pc \in {"begin", "statement", "commit", "rollback"} =>
          /\ op.body # <<>> /\ (~op.trans => Len(op.body) = 1)
          /\ ~disturbed => Whole
    /\ pc \in {"begin", "commit", "rollback", "crashed"} => op.trans

\* What the server has of the operation that is not in the transaction.
ProgressInv ==
    /\ pc = "begin" => index = 1 /\ Precede(Applied, NumsOf(op.body))
    /\ pc = "statement" =>
          /\ index \in 1 .. Len(op.body)
          /\ ~op.trans => index = 1
          /\ \A x \in Pending : x < op.body[index].n
          /\ inTx => \A k \in 1 .. index - 1 : op.body[k].n \in Pending
          /\ \A x \in Applied :
                x < op.body[index].n \/ (x = op.body[index].n /\ losses > 0)
          /\ ~disturbed => (inTx <=> op.trans) /\ Precede(Applied, NumsOf(op.body))
    /\ pc = "commit" =>
          /\ inTx => NumsOf(op.body) \subseteq Pending
          /\ ~disturbed => inTx
    /\ pc = "rollback" /\ ~disturbed => Precede(Applied, NumsOf(op.body))

\* No statement of a prepared transaction is applied outside of the server's
\* transaction.
PreparedInv ==
    op.trans /\ AllPrepared(op.body) =>
        /\ pc = "statement" => (link => inTx) /\ Precede(Applied, NumsOf(op.body))
        /\ pc = "rollback" => Precede(Applied, NumsOf(op.body))
        /\ pc = "commit" =>
              /\ link => inTx
              /\ ~inTx => \/ Precede(Applied, NumsOf(op.body))
                          \/ NumsOf(op.body) \subseteq Applied

-----------------------------------------------------------------------------
TransInv ==
    /\ TypeOK /\ outcomes \in Seq(Outcome)
    /\ ClientInv /\ DelayInv /\ TakenInv /\ DiscardedInv
    /\ SessionInv /\ PlaceInv /\ ProgressInv /\ PreparedInv
    /\ AppliedInOrder /\ OutcomeIsExact /\ PreparedTransactionAtomic

-----------------------------------------------------------------------------
(* Bodies, and what is appended to a sequence. *)

LEMMA Bodies ==
    ASSUME NEW b \in Seq(Stmt)
    PROVE  /\ Len(b) \in Nat
           /\ \A k \in 1 .. Len(b) : b[k] \in Stmt /\ b[k].n \in NumsOf(b) /\ b[k].n \in 1 .. MaxStmts
           /\ NumsOf(b) \subseteq 1 .. MaxStmts
           /\ b # <<>> => Len(b) >= 1
<1>1. \A k \in 1 .. Len(b) : b[k] \in Stmt /\ b[k].n \in NumsOf(b) /\ b[k].n \in 1 .. MaxStmts
  <2> SUFFICES ASSUME NEW k \in 1 .. Len(b)
               PROVE  b[k] \in Stmt /\ b[k].n \in NumsOf(b) /\ b[k].n \in 1 .. MaxStmts
    OBVIOUS
  <2>1. b[k] \in Stmt
    BY ElementOfSeq
  <2> QED BY <2>1 DEF NumsOf, Stmt
<1> QED BY <1>1, EmptySeq DEF NumsOf

LEMMA EmptyBody == NumsOf(<<>>) = {} /\ Ordered(<<>>) /\ NumsOf(NoOp.body) = {} /\ Ordered(NoOp.body)
BY DEF NumsOf, Ordered, NoOp

LEMMA BodyAppend ==
    ASSUME NEW b \in Seq(Stmt), NEW s \in Stmt
    PROVE  /\ NumsOf(Append(b, s)) = NumsOf(b) \union {s.n}
           /\ Len(Append(b, s)) = Len(b) + 1
           /\ Ordered(b) /\ Len(b) < s.n /\ (\A x \in NumsOf(b) : x < s.n) => Ordered(Append(b, s))
<1> DEFINE c == Append(b, s)
<1>1. /\ Len(c) = Len(b) + 1 /\ Len(b) \in Nat
      /\ \A k \in 1 .. Len(b) : c[k] = b[k]
      /\ c[Len(b) + 1] = s
      /\ \A k \in 1 .. Len(c) : k \in 1 .. Len(b) \/ k = Len(b) + 1
  OBVIOUS
<1>2. s.n \in 1 .. MaxStmts /\ \A k \in 1 .. Len(b) : b[k].n \in 1 .. MaxStmts /\ b[k].n \in NumsOf(b)
  BY Bodies DEF Stmt
<1> HIDE DEF c
<1>3. NumsOf(c) = NumsOf(b) \union {s.n}
  <2>1. \A k \in 1 .. Len(b) : k \in 1 .. Len(c)
    BY <1>1
  <2>2. Len(b) + 1 \in 1 .. Len(c)
    BY <1>1
  <2> QED BY <1>1, <2>1, <2>2 DEF NumsOf
<1>4. ASSUME Ordered(b), Len(b) < s.n, \A x \in NumsOf(b) : x < s.n
      PROVE  Ordered(c)
  <2> SUFFICES ASSUME NEW k \in 1 .. Len(c)
               PROVE  k <= c[k].n /\ \A l \in 1 .. Len(c) : k < l => c[k].n < c[l].n
    BY DEF Ordered
  <2>1. CASE k \in 1 .. Len(b)
    BY <1>1, <1>2, <1>4, <2>1 DEF Ordered
  <2>2. CASE k = Len(b) + 1
    BY <1>1, <1>2, <1>4, <2>2
  <2> QED BY <1>1, <2>1, <2>2
<1> QED BY <1>1, <1>3, <1>4 DEF c

LEMMA SetAppend ==
    ASSUME NEW S, NEW q \in Seq(S), NEW x \in S
    PROVE  /\ Append(q, x) \in Seq(S)
           /\ Len(Append(q, x)) = Len(q) + 1
           /\ {Append(q, x)[k] : k \in 1 .. Len(Append(q, x))} = {q[k] : k \in 1 .. Len(q)} \union {x}
           /\ \A k \in 1 .. Len(q) : Append(q, x)[k] = q[k]
           /\ Append(q, x)[Len(q) + 1] = x
<1>1. /\ Append(q, x) \in Seq(S)
      /\ Len(Append(q, x)) = Len(q) + 1 /\ Len(q) \in Nat
      /\ \A k \in 1 .. Len(q) : Append(q, x)[k] = q[k]
      /\ Append(q, x)[Len(q) + 1] = x
  OBVIOUS
<1>2. \A k \in 1 .. Len(q) + 1 : k \in 1 .. Len(q) \/ k = Len(q) + 1
  BY <1>1
<1>3. Len(q) + 1 \in 1 .. Len(q) + 1 /\ \A k \in 1 .. Len(q) : k \in 1 .. Len(q) + 1
  BY <1>1
<1> QED BY <1>1, <1>2, <1>3

LEMMA SetConcat ==
    ASSUME NEW S, NEW q \in Seq(S), NEW r \in Seq(S)
    PROVE  /\ q \o r \in Seq(S)
           /\ {(q \o r)[k] : k \in 1 .. Len(q \o r)}
                  = {q[k] : k \in 1 .. Len(q)} \union {r[k] : k \in 1 .. Len(r)}
           /\ Len(q \o r) = Len(q) + Len(r)
           /\ \A k \in 1 .. Len(q \o r) :
                 (q \o r)[k] = IF k <= Len(q) THEN q[k] ELSE r[k - Len(q)]
<1>1. /\ q \o r \in Seq(S) /\ Len(q) \in Nat /\ Len(r) \in Nat
      /\ Len(q \o r) = Len(q) + Len(r)
      /\ \A k \in 1 .. Len(q \o r) :
            (q \o r)[k] = IF k <= Len(q) THEN q[k] ELSE r[k - Len(q)]
  BY ConcatProperties
<1>2. \A k \in 1 .. Len(q) : k \in 1 .. Len(q \o r) /\ (q \o r)[k] = q[k]
  BY <1>1
<1>3. \A k \in 1 .. Len(r) : k + Len(q) \in 1 .. Len(q \o r) /\ (q \o r)[k + Len(q)] = r[k]
  <2> SUFFICES ASSUME NEW k \in 1 .. Len(r)
               PROVE  k + Len(q) \in 1 .. Len(q \o r) /\ (q \o r)[k + Len(q)] = r[k]
    OBVIOUS
  <2>1. k + Len(q) \in 1 .. Len(q \o r) /\ ~(k + Len(q) <= Len(q)) /\ (k + Len(q)) - Len(q) = k
    BY <1>1
  <2> QED BY <1>1, <2>1
<1>4. \A k \in 1 .. Len(q \o r) : k \in 1 .. Len(q) \/ k - Len(q) \in 1 .. Len(r)
  BY <1>1
<1>5. \A k \in 1 .. Len(q \o r) : k \notin 1 .. Len(q) => (q \o r)[k] = r[k - Len(q)]
  BY <1>1
<1>6. {(q \o r)[k] : k \in 1 .. Len(q \o r)}
          \subseteq {q[k] : k \in 1 .. Len(q)} \union {r[k] : k \in 1 .. Len(r)}
  BY <1>2, <1>4, <1>5
<1>7. {q[k] : k \in 1 .. Len(q)} \union {r[k] : k \in 1 .. Len(r)}
          \subseteq {(q \o r)[k] : k \in 1 .. Len(q \o r)}
  BY <1>2, <1>3
<1> QED BY <1>1, <1>6, <1>7

-----------------------------------------------------------------------------
(* What the steps of the worker leave alone. *)

\* What waits and what the client rolled back do not notice how the current
\* operation goes on.
LEMMA OnTheWay ==
    ASSUME TransInv, UNCHANGED <<inTrans, body, stmts, discarded, delayQueue>>,
           Applied' \subseteq Applied \union NumsOf(op.body),
           Ended' \subseteq Ended \union NumsOf(op.body),
           NumsOf(op'.body) \subseteq NumsOf(op.body),
           Ordered(op'.body), Precede(Ended', NumsOf(op'.body))
    PROVE  ClientInv' /\ DelayInv' /\ TakenInv' /\ DiscardedInv'
<1> USE DEF TransInv
<1>1. Taken' \subseteq Taken
  BY DEF Taken, NumsOf
<1>2. ClientInv'
  BY DEF ClientInv, NumsOf, Ordered
<1>3. DelayInv'
  BY DEF DelayInv, Precede
<1>4. TakenInv'
  BY <1>1 DEF TakenInv, Precede
<1>5. DiscardedInv'
  BY DEF DiscardedInv
<1> QED BY <1>2, <1>3, <1>4, <1>5

\* What is known of the operations that ended stays so, whatever of the
\* current operation is applied.
LEMMA EndedStays ==
    ASSUME TransInv, NEW o \in Outcomes, UNCHANGED discarded,
           Applied \subseteq Applied', Applied' \subseteq Applied \union NumsOf(op.body)
    PROVE  /\ o.trans /\ o.prepared => AllOrNothing(o)'
           /\ ~o.disturbed => IF o.ok THEN o.body \subseteq Applied'
                              ELSE o.body \intersect Applied' = {}
           /\ discarded' \intersect Applied' = {}
<1> USE DEF TransInv
<1>1. o.body \intersect NumsOf(op.body) = {}
  <2>1. \A x \in o.body : x \in Ended
    BY DEF Ended
  <2>2. o \in Outcome
    BY ElementOfSeq DEF Outcomes
  <2>3. \A x \in o.body : ~(x < x)
    BY <2>2 DEF Outcome
  <2> QED BY <2>1, <2>3 DEF TakenInv, Precede
<1>2. o.trans /\ o.prepared => AllOrNothing(o)'
  BY <1>1 DEF PreparedTransactionAtomic, AllOrNothing
<1>3. ~o.disturbed => IF o.ok THEN o.body \subseteq Applied'
                      ELSE o.body \intersect Applied' = {}
  BY <1>1 DEF OutcomeIsExact
<1>4. discarded' \intersect Applied' = {}
  BY DEF DiscardedInv
<1> QED BY <1>2, <1>3, <1>4

\* The operation goes on.
LEMMA GoesOn ==
    ASSUME TransInv, TypeOK', UNCHANGED <<clientVars, delayQueue, op, outcomes>>,
           Applied \subseteq Applied', Applied' \subseteq Applied \union NumsOf(op.body),
           SessionInv', PlaceInv', ProgressInv', PreparedInv', AppliedInOrder'
    PROVE  TransInv'
<1> USE DEF TransInv, clientVars
<1>1. Ended' = Ended /\ Outcomes' = Outcomes
  BY DEF Ended, Outcomes
<1>2. ClientInv' /\ DelayInv' /\ TakenInv' /\ DiscardedInv'
  BY <1>1, OnTheWay DEF TakenInv
<1>3. OutcomeIsExact'
  <2>1. discarded' \intersect Applied' = {}
    BY DEF DiscardedInv
  <2> QED BY <1>1, <2>1, EndedStays DEF OutcomeIsExact
<1>4. PreparedTransactionAtomic'
  BY <1>1, EndedStays DEF PreparedTransactionAtomic
<1> QED BY <1>2, <1>3, <1>4

\* The operation ends.
LEMMA Ends ==
    ASSUME TransInv, TypeOK', UNCHANGED <<clientVars, delayQueue, disturbed>>,
           NEW ok \in BOOLEAN, End(ok), op.body # <<>>,
           Applied \subseteq Applied', Applied' \subseteq Applied \union NumsOf(op.body),
           SessionInv', ~inTx', AppliedInOrder',
           ~disturbed => IF ok THEN NumsOf(op.body) \subseteq Applied'
                         ELSE NumsOf(op.body) \intersect Applied' = {},
           op.trans /\ AllPrepared(op.body) =>
               \/ NumsOf(op.body) \subseteq Applied'
               \/ NumsOf(op.body) \intersect Applied' = {}
    PROVE  TransInv'
<1> USE DEF TransInv, clientVars
<1>1. op \in Operation /\ op.body \in Seq(Stmt) /\ op.trans \in BOOLEAN /\ disturbed \in BOOLEAN
  BY DEF TypeOK, Operation
<1>2. PICK o \in Outcome :
          /\ outcomes' = Append(outcomes, o)
          /\ o.trans = op.trans /\ o.ok = ok /\ o.disturbed = disturbed
          /\ o.prepared <=> AllPrepared(op.body)
          /\ o.body = NumsOf(op.body)
  <2> DEFINE o == [trans |-> op.trans, ok |-> ok, disturbed |-> disturbed,
                   prepared |-> \A k \in 1 .. Len(op.body) : op.body[k].prepared,
                   body |-> {op.body[k].n : k \in 1 .. Len(op.body)}]
  <2>1. outcomes' = Append(outcomes, o)
    BY Zenon DEF End
  <2>2. NumsOf(op.body) \in SUBSET (1 .. MaxStmts)
    BY <1>1, Bodies
  <2>3. (\A k \in 1 .. Len(op.body) : op.body[k].prepared) \in BOOLEAN
    BY Zenon
  <2>4. o \in Outcome
    BY <1>1, <2>2, <2>3, Zenon DEF Outcome, NumsOf
  <2>5. /\ o.trans = op.trans /\ o.ok = ok /\ o.disturbed = disturbed
        /\ o.prepared <=> AllPrepared(op.body)
        /\ o.body = NumsOf(op.body)
    BY Zenon DEF AllPrepared, NumsOf
  <2> QED BY <2>1, <2>4, <2>5, Zenon
<1>3. outcomes' \in Seq(Outcome) /\ Outcomes' = Outcomes \union {o}
  BY <1>2, SetAppend DEF Outcomes
<1>4. Ended' = Ended \union NumsOf(op.body)
  BY <1>2, <1>3 DEF Ended
<1>5. op' = NoOp /\ pc' = "idle" /\ index' = 1 /\ NumsOf(op'.body) = {} /\ Ordered(op'.body)
  BY EmptyBody DEF End
<1>6. ClientInv' /\ DelayInv' /\ TakenInv' /\ DiscardedInv'
  <2>1. Precede(Ended', NumsOf(op'.body))
    BY <1>5 DEF Precede
  <2> QED BY <1>4, <1>5, <2>1, OnTheWay
<1>7. PlaceInv' /\ ProgressInv' /\ PreparedInv'
  BY <1>5 DEF PlaceInv, ProgressInv, PreparedInv
<1>8. OutcomeIsExact'
  <2>1. discarded' \intersect Applied' = {}
    BY DEF DiscardedInv
  <2>2. ~o.disturbed => IF o.ok THEN o.body \subseteq Applied'
                        ELSE o.body \intersect Applied' = {}
    BY <1>2
  <2>3. \A other \in Outcomes :
            ~other.disturbed => IF other.ok THEN other.body \subseteq Applied'
                                ELSE other.body \intersect Applied' = {}
    BY EndedStays
  <2> QED BY <1>3, <2>1, <2>2, <2>3 DEF OutcomeIsExact
<1>9. PreparedTransactionAtomic'
  <2>1. o.trans /\ o.prepared => AllOrNothing(o)'
    BY <1>2 DEF AllOrNothing
  <2>2. \A other \in Outcomes : other.trans /\ other.prepared => AllOrNothing(other)'
    BY EndedStays
  <2> QED BY <1>3, <2>1, <2>2 DEF PreparedTransactionAtomic
<1> QED BY <1>3, <1>6, <1>7, <1>8, <1>9

-----------------------------------------------------------------------------
(* The connection. *)

LEMMA InitTransInv == Init => TransInv
<1> SUFFICES ASSUME Init PROVE TransInv
  OBVIOUS
<1> USE DEF Init
<1>1. TypeOK
  <2>1. inTrans \in BOOLEAN /\ handle \in BOOLEAN /\ link \in BOOLEAN
    BY Zenon
  <2>2. inTx \in BOOLEAN /\ disturbed \in BOOLEAN
    BY Zenon
  <2>3. /\ stmts \in 0 .. MaxStmts /\ losses \in 0 .. MaxLosses /\ discarded \subseteq 1 .. MaxStmts
        /\ index \in 1 .. MaxStmts + 1
    BY BoundsAssumption
  <2>4. /\ body \in Seq(Stmt) /\ delayQueue \in Seq(Operation)
        /\ pending \in Seq(1 .. MaxStmts) /\ durable \in Seq(1 .. MaxStmts)
    OBVIOUS
  <2>5. op \in Operation
    <3>1. FALSE \in BOOLEAN /\ <<>> \in Seq(Stmt)
      OBVIOUS
    <3> QED BY <3>1 DEF NoOp, Operation
  <2>6. pc \in {"idle", "begin", "statement", "commit", "rollback", "crashed"}
    OBVIOUS
  <2> QED BY <2>1, <2>2, <2>3, <2>4, <2>5, <2>6, Zenon DEF TypeOK
<1>2. outcomes \in Seq(Outcome) /\ Outcomes = {} /\ Applied = {} /\ Pending = {}
  BY DEF Outcomes, Applied, Pending
<1>3. NumsOf(body) = {} /\ NumsOf(op.body) = {} /\ Ordered(body) /\ Ordered(op.body)
  BY EmptyBody
<1>4. ClientInv /\ DelayInv
  BY <1>3 DEF ClientInv, DelayInv
<1>5. TakenInv /\ DiscardedInv
  BY <1>2, <1>3 DEF TakenInv, DiscardedInv, Taken, Ended, Precede
<1>6. SessionInv /\ PlaceInv /\ ProgressInv /\ PreparedInv
  BY DEF SessionInv, PlaceInv, ProgressInv, PreparedInv
<1>7. AppliedInOrder /\ OutcomeIsExact /\ PreparedTransactionAtomic
  BY <1>2 DEF AppliedInOrder, OutcomeIsExact, PreparedTransactionAtomic
<1> QED BY <1>1, <1>2, <1>4, <1>5, <1>6, <1>7 DEF TransInv

\* A lost session leaves no transaction.
LEMMA NextLoseConnection ==
    ASSUME TransInv, LoseConnection
    PROVE  TransInv'
<1> USE DEF LoseConnection, Dropped, clientVars
<1>1. TypeOK'
  <2>1. losses' \in 0 .. MaxLosses
    BY BoundsAssumption DEF TransInv, TypeOK
  <2>2. pending' \in Seq(1 .. MaxStmts)
    OBVIOUS
  <2>3. link' \in BOOLEAN /\ inTx' \in BOOLEAN /\ disturbed' \in BOOLEAN
    BY Zenon
  <2> QED BY <2>1, <2>2, <2>3, Zenon DEF TransInv, TypeOK
<1>2. Applied' = Applied /\ Pending' = {}
  BY DEF Applied, Pending
<1>3. SessionInv' /\ PlaceInv'
  BY DEF TransInv, SessionInv, PlaceInv
<1>4. ProgressInv'
  <2>1. losses' > 0 /\ losses >= 0
    BY DEF TransInv, TypeOK
  <2> QED BY <1>2, <2>1 DEF TransInv, ProgressInv
<1>5. PreparedInv'
  <2>1. pc = "commit" /\ inTx => NumsOf(op.body) \subseteq Pending
    BY DEF TransInv, ProgressInv
  <2>2. inTx => Precede(Applied, NumsOf(op.body))
    BY DEF TransInv, SessionInv
  <2> QED BY <1>2, <2>1, <2>2 DEF TransInv, PreparedInv
<1>6. AppliedInOrder'
  BY DEF TransInv, AppliedInOrder, TypeOK
<1> QED BY <1>1, <1>2, <1>3, <1>4, <1>5, <1>6, GoesOn

\* A new session is in no transaction.
LEMMA NextPing ==
    ASSUME TransInv, NEW ok \in BOOLEAN, Ping(ok)
    PROVE  TransInv'
<1> USE DEF Ping, Reconnect, clientVars
<1>1. TypeOK'
  BY DEF TransInv, TypeOK
<1>2. Applied' = Applied
  BY DEF Applied
<1>3. ~inTx
  BY DEF TransInv, SessionInv, Whole
<1>4. SessionInv' /\ PlaceInv' /\ ProgressInv' /\ PreparedInv'
  BY <1>3 DEF TransInv, SessionInv, PlaceInv, ProgressInv, PreparedInv
<1>5. AppliedInOrder'
  BY DEF TransInv, AppliedInOrder
<1> QED BY <1>1, <1>2, <1>4, <1>5, GoesOn

LEMMA NextCrash ==
    ASSUME TransInv, Crash
    PROVE  TransInv'
<1> USE DEF Crash, clientVars, sessionVars
<1>1. TypeOK'
  BY DEF TransInv, TypeOK
<1>2. Applied' = Applied
  BY DEF Applied
<1>3. ~inTx
  BY DEF TransInv, SessionInv
<1>4. SessionInv' /\ PlaceInv' /\ ProgressInv' /\ PreparedInv'
  BY <1>3 DEF TransInv, SessionInv, PlaceInv, ProgressInv, PreparedInv
<1>5. AppliedInOrder'
  BY DEF TransInv, AppliedInOrder
<1> QED BY <1>1, <1>2, <1>4, <1>5, GoesOn

\* BeginTransaction opens a transaction in a session that is there.
LEMMA NextStartTransaction ==
    ASSUME TransInv, StartTransaction
    PROVE  TransInv'
<1> USE DEF StartTransaction, clientVars
<1>1. TypeOK'
  BY DEF TransInv, TypeOK
<1>2. Applied' = Applied /\ Pending' = Pending
  BY DEF Applied, Pending
<1>3. /\ ~inTx /\ pending = <<>> /\ Pending = {}
      /\ op.trans /\ op.body # <<>> /\ index = 1
      /\ Precede(Applied, NumsOf(op.body))
      /\ ~disturbed => Whole
  BY DEF TransInv, SessionInv, PlaceInv, ProgressInv, Pending
<1>4. op.body \in Seq(Stmt) /\ 1 \in 1 .. Len(op.body) /\ op.body[1].n \in NumsOf(op.body)
  <2>1. op.body \in Seq(Stmt)
    BY DEF TransInv, TypeOK, Operation
  <2> QED BY <1>3, <2>1, Bodies
<1>5. SessionInv' /\ PlaceInv'
  BY <1>2, <1>3 DEF TransInv, SessionInv, PlaceInv, Whole
<1>6. ProgressInv'
  BY <1>2, <1>3, <1>4 DEF ProgressInv, Precede, Whole, TransInv, TypeOK
<1>7. PreparedInv'
  BY <1>2, <1>3 DEF PreparedInv, TransInv, TypeOK
<1>8. AppliedInOrder'
  BY DEF TransInv, AppliedInOrder
<1> QED BY <1>1, <1>2, <1>5, <1>6, <1>7, <1>8, GoesOn

-----------------------------------------------------------------------------
(* The statements. *)

\* Where the worker is at a statement.
LEMMA AtStatement ==
    ASSUME TransInv, pc = "statement"
    PROVE  /\ op \in Operation /\ op.body \in Seq(Stmt) /\ op.trans \in BOOLEAN
           /\ index \in 1 .. Len(op.body) /\ Len(op.body) \in Nat /\ Len(op.body) <= MaxStmts
           /\ op.body # <<>> /\ op.body[index] \in Stmt
           /\ op.body[index].n \in 1 .. MaxStmts /\ op.body[index].n \in NumsOf(op.body)
           /\ \A k \in 1 .. Len(op.body) : k < index => op.body[k].n < op.body[index].n
           /\ \A k \in 1 .. Len(op.body) : index < k => op.body[index].n < op.body[k].n
           /\ \A x \in Applied : x \in 1 .. MaxStmts
           /\ \A x \in NumsOf(op.body) : x \in 1 .. MaxStmts
<1>1. op \in Operation /\ op.body \in Seq(Stmt) /\ op.trans \in BOOLEAN
  BY DEF TransInv, TypeOK, Operation
<1>2. index \in 1 .. Len(op.body) /\ op.body # <<>>
  BY DEF TransInv, ProgressInv, PlaceInv
<1>3. /\ Len(op.body) \in Nat /\ op.body[index] \in Stmt
      /\ op.body[index].n \in 1 .. MaxStmts /\ op.body[index].n \in NumsOf(op.body)
      /\ \A x \in NumsOf(op.body) : x \in 1 .. MaxStmts
      /\ Len(op.body) >= 1 /\ op.body[Len(op.body)].n \in 1 .. MaxStmts
  BY <1>1, <1>2, Bodies
<1>4. /\ \A k \in 1 .. Len(op.body) : k < index => op.body[k].n < op.body[index].n
      /\ \A k \in 1 .. Len(op.body) : index < k => op.body[index].n < op.body[k].n
      /\ Len(op.body) <= op.body[Len(op.body)].n
  BY <1>2, <1>3 DEF TransInv, TakenInv, Ordered
<1>5. Len(op.body) <= MaxStmts
  BY <1>3, <1>4, BoundsAssumption
<1>6. \A x \in Applied : x \in 1 .. MaxStmts
  BY ElementOfSeq DEF Applied, TransInv, TypeOK
<1> QED BY <1>1, <1>2, <1>3, <1>4, <1>5, <1>6

LEMMA AppliedNumbers ==
    ASSUME TransInv
    PROVE  Applied \subseteq 1 .. MaxStmts /\ Applied \in SUBSET Int
<1>1. Applied \subseteq 1 .. MaxStmts
  BY ElementOfSeq DEF Applied, TransInv, TypeOK
<1> QED BY <1>1

LEMMA Disjoint ==
    ASSUME NEW A \in SUBSET Int, NEW B, Precede(A, B)
    PROVE  B \intersect A = {}
<1>1. \A x \in A : x \in Int /\ ~(x < x)
  OBVIOUS
<1>2. \A x \in A \intersect B : x < x
  BY DEF Precede
<1> QED BY <1>1, <1>2

\* What is applied at once is in its place.
LEMMA AppliesAtOnce ==
    ASSUME TransInv, pc = "statement",
           durable' = Append(durable, op.body[index].n), losses' \in {losses, losses + 1}
    PROVE  /\ durable' \in Seq(1 .. MaxStmts)
           /\ Applied' = Applied \union {op.body[index].n}
           /\ AppliedInOrder'
<1> DEFINE n == op.body[index].n
<1>1. n \in 1 .. MaxStmts /\ \A x \in Applied : x \in 1 .. MaxStmts
  BY AtStatement
<1>2. durable \in Seq(1 .. MaxStmts) /\ losses \in Nat /\ losses' >= losses
  BY BoundsAssumption DEF TransInv, TypeOK
<1>3. /\ durable' \in Seq(1 .. MaxStmts)
      /\ Len(durable') = Len(durable) + 1 /\ Len(durable) \in Nat
      /\ Applied' = Applied \union {n}
      /\ \A k \in 1 .. Len(durable) : durable'[k] = durable[k] /\ durable[k] \in Applied
      /\ durable'[Len(durable) + 1] = n
  BY <1>1, <1>2, SetAppend DEF Applied
<1>4. \A x \in Applied : x < n \/ (x = n /\ losses > 0)
  BY DEF TransInv, ProgressInv
<1>5. AppliedInOrder'
  <2> SUFFICES ASSUME NEW k \in 1 .. Len(durable'), NEW l \in 1 .. Len(durable'), k < l
               PROVE  \/ durable'[k] < durable'[l]
                      \/ durable'[k] = durable'[l] /\ losses' > 0
    BY DEF AppliedInOrder
  <2> HIDE DEF n
  <2>1. k \in 1 .. Len(durable)
    BY <1>3
  <2>2. CASE l \in 1 .. Len(durable)
    BY <1>2, <1>3, <2>1, <2>2 DEF TransInv, AppliedInOrder
  <2>3. CASE l = Len(durable) + 1
    BY <1>1, <1>2, <1>3, <1>4, <2>1, <2>3
  <2> QED BY <1>3, <2>2, <2>3
<1> QED BY <1>3, <1>5

\* What the server's transaction held is applied, after all else.
LEMMA AppliesPending ==
    ASSUME TransInv, durable' = durable \o pending, losses' \in {losses, losses + 1}
    PROVE  /\ durable' \in Seq(1 .. MaxStmts)
           /\ Applied' = Applied \union Pending
           /\ Applied' \subseteq Applied \union NumsOf(op.body)
           /\ AppliedInOrder'
<1>1. /\ durable \in Seq(1 .. MaxStmts) /\ pending \in Seq(1 .. MaxStmts)
      /\ losses \in Nat /\ losses' >= losses
  BY BoundsAssumption DEF TransInv, TypeOK
<1>2. /\ durable' \in Seq(1 .. MaxStmts) /\ Applied' = Applied \union Pending
      /\ Len(durable') = Len(durable) + Len(pending)
      /\ \A k \in 1 .. Len(durable') :
            durable'[k] = IF k <= Len(durable) THEN durable[k] ELSE pending[k - Len(durable)]
      /\ Len(durable) \in Nat /\ Len(pending) \in Nat
  <2>1. /\ durable \o pending \in Seq(1 .. MaxStmts)
        /\ {(durable \o pending)[k] : k \in 1 .. Len(durable \o pending)} = Applied \union Pending
        /\ Len(durable \o pending) = Len(durable) + Len(pending)
        /\ \A k \in 1 .. Len(durable \o pending) : (durable \o pending)[k] =
              IF k <= Len(durable) THEN durable[k] ELSE pending[k - Len(durable)]
    BY <1>1, SetConcat DEF Applied, Pending
  <2>2. Applied' = {(durable \o pending)[k] : k \in 1 .. Len(durable \o pending)}
    BY Zenon DEF Applied
  <2>3. Len(durable) \in Nat /\ Len(pending) \in Nat
    BY <1>1
  <2> QED BY <2>1, <2>2, <2>3, Zenon
<1>3. /\ \A x \in Applied, y \in Pending : x < y
      /\ Pending \subseteq NumsOf(op.body)
  BY DEF TransInv, SessionInv, Precede, Pending
<1>4. AppliedInOrder'
  <2> SUFFICES ASSUME NEW k \in 1 .. Len(durable'), NEW l \in 1 .. Len(durable'), k < l
               PROVE  \/ durable'[k] < durable'[l]
                      \/ durable'[k] = durable'[l] /\ losses' > 0
    BY DEF AppliedInOrder
  <2>1. CASE l <= Len(durable)
    <3>1. k \in 1 .. Len(durable) /\ l \in 1 .. Len(durable)
      BY <1>2, <2>1
    <3> QED BY <1>1, <1>2, <3>1 DEF TransInv, AppliedInOrder
  <2>2. CASE k <= Len(durable) /\ ~(l <= Len(durable))
    <3>1. k \in 1 .. Len(durable) /\ l - Len(durable) \in 1 .. Len(pending)
      BY <1>2, <2>2
    <3>2. durable[k] \in Applied /\ pending[l - Len(durable)] \in Pending
      BY <3>1 DEF Applied, Pending
    <3> QED BY <1>2, <1>3, <2>2, <3>2
  <2>3. CASE ~(k <= Len(durable))
    <3>1. /\ k - Len(durable) \in 1 .. Len(pending) /\ l - Len(durable) \in 1 .. Len(pending)
          /\ k - Len(durable) < l - Len(durable) /\ ~(l <= Len(durable))
      BY <1>2, <2>3
    <3>2. pending[k - Len(durable)] < pending[l - Len(durable)]
      BY <3>1 DEF TransInv, SessionInv
    <3> QED BY <1>2, <2>3, <3>1, <3>2
  <2> QED BY <1>2, <2>1, <2>2, <2>3
<1> QED BY <1>2, <1>3, <1>4

\* A statement that fails ends a transaction, or the operation.
LEMMA Fails ==
    ASSUME TransInv, pc = "statement", StatementReturns(FALSE),
           UNCHANGED <<clientVars, delayQueue, durable, losses, disturbed>>,
           handle' \in BOOLEAN, link' \in BOOLEAN, inTx' \in BOOLEAN,
           link' => handle', ~link' => ~inTx',
           \/ inTx' /\ inTx /\ pending' = pending
           \/ ~inTx' /\ pending' = <<>>,
           ~disturbed => handle' /\ link'
    PROVE  TransInv'
<1> USE DEF clientVars
<1>1. Applied' = Applied /\ AppliedInOrder'
  BY DEF Applied, TransInv, AppliedInOrder
<1>2. pending' \in Seq(1 .. MaxStmts)
  <2>1. pending \in Seq(1 .. MaxStmts) /\ <<>> \in Seq(1 .. MaxStmts)
    BY DEF TransInv, TypeOK
  <2> QED BY <2>1
<1>3. /\ ~disturbed => Precede(Applied, NumsOf(op.body))
      /\ op.trans /\ AllPrepared(op.body) => Precede(Applied, NumsOf(op.body))
      /\ op.body # <<>> /\ (~op.trans => Len(op.body) = 1)
  BY DEF TransInv, ProgressInv, PreparedInv, PlaceInv
<1>4. Applied \in SUBSET Int
  BY AtStatement
<1>5. CASE op.trans
  <2>1. pc' = "rollback" /\ index' = index /\ UNCHANGED <<op, outcomes>>
    BY <1>5 DEF StatementReturns
  <2>2. TypeOK'
    BY <1>2, <2>1, Zenon DEF TransInv, TypeOK
  <2>3. SessionInv'
    BY <1>1, <1>5, <2>1 DEF TransInv, SessionInv, Pending
  <2>4. PlaceInv' /\ ProgressInv' /\ PreparedInv'
    BY <1>1, <1>3, <1>5, <2>1 DEF PlaceInv, ProgressInv, PreparedInv, Whole
  <2> QED BY <1>1, <2>1, <2>2, <2>3, <2>4, GoesOn
<1>6. CASE ~op.trans
  <2>1. End(FALSE)
    BY <1>6 DEF StatementReturns
  <2>2. ~inTx'
    BY <1>6 DEF TransInv, SessionInv
  <2>3. TypeOK'
    <3>1. op' \in Operation
      <4>1. FALSE \in BOOLEAN /\ <<>> \in Seq(Stmt)
        OBVIOUS
      <4> QED BY <2>1, <4>1 DEF End, NoOp, Operation
    <3>2. index' \in 1 .. MaxStmts + 1 /\ pc' = "idle"
      BY <2>1, BoundsAssumption DEF End
    <3> QED BY <1>2, <3>1, <3>2, Zenon DEF TransInv, TypeOK
  <2>4. SessionInv'
    BY <2>2 DEF SessionInv
  <2>5. ~disturbed => NumsOf(op.body) \intersect Applied' = {}
    BY <1>1, <1>3, <1>4, Disjoint
  <2> QED BY <1>1, <1>3, <1>6, <2>1, <2>2, <2>3, <2>4, <2>5, Ends
<1> QED BY <1>5, <1>6

\* After End the worker has no operation.
LEMMA EndTypes ==
    ASSUME NEW ok, End(ok)
    PROVE  op' \in Operation /\ index' \in 1 .. MaxStmts + 1 /\ pc' = "idle"
<1>1. FALSE \in BOOLEAN /\ <<>> \in Seq(Stmt)
  OBVIOUS
<1>2. op' \in Operation
  BY <1>1 DEF End, NoOp, Operation
<1> QED BY <1>2, BoundsAssumption DEF End

\* A statement is the next of the server's transaction, or applied at once.
LEMMA NextStatementSucceeds ==
    ASSUME TransInv, StatementSucceeds
    PROVE  TransInv'
<1> DEFINE n == op.body[index].n
<1>1. /\ pc = "statement" /\ Whole /\ Apply(op.body[index]) /\ StatementReturns(TRUE)
      /\ UNCHANGED <<inTrans, body, stmts, discarded, delayQueue, handle, link, losses, disturbed>>
  BY DEF StatementSucceeds, clientVars
<1>2. /\ n \in 1 .. MaxStmts /\ n \in NumsOf(op.body) /\ op.body # <<>>
      /\ index \in 1 .. Len(op.body) /\ Len(op.body) \in Nat /\ Len(op.body) <= MaxStmts
      /\ \A k \in 1 .. Len(op.body) : index < k => n < op.body[k].n
      /\ \A k \in 1 .. Len(op.body) : op.body[k] \in Stmt /\ op.body[k].n \in 1 .. MaxStmts
      /\ Applied \in SUBSET Int
  BY <1>1, AtStatement, Bodies
<1>3. CASE inTx
  <2>1. pending' = Append(pending, n) /\ inTx' /\ durable' = durable
    BY <1>1, <1>3 DEF Apply
  <2>2. pending \in Seq(1 .. MaxStmts)
    BY DEF TransInv, TypeOK
  <2>3. /\ pending' \in Seq(1 .. MaxStmts)
        /\ Pending' = Pending \union {n}
        /\ Len(pending') = Len(pending) + 1 /\ Len(pending) \in Nat
        /\ \A k \in 1 .. Len(pending) : pending'[k] = pending[k] /\ pending[k] \in Pending
        /\ pending'[Len(pending) + 1] = n
    BY <1>2, <2>1, <2>2, SetAppend DEF Pending
  <2>4. Applied' = Applied /\ AppliedInOrder'
    BY <1>1, <2>1 DEF Applied, TransInv, AppliedInOrder
  <2>5. op.trans
    BY <1>3 DEF TransInv, SessionInv
  <2>6. /\ index' = IF index < Len(op.body) THEN index + 1 ELSE index
        /\ pc' = IF index < Len(op.body) THEN "statement" ELSE "commit"
        /\ UNCHANGED <<op, outcomes>>
    BY <1>1, <2>5 DEF StatementReturns
  <2>7. TypeOK'
    <3>1. index' \in 1 .. MaxStmts + 1
      BY <1>2, <2>6, BoundsAssumption
    <3>2. pc' \in {"idle", "begin", "statement", "commit", "rollback", "crashed"}
      BY <2>6
    <3>3. inTx' \in BOOLEAN
      BY <1>1, <1>3, Zenon DEF Apply, TransInv, TypeOK
    <3> QED BY <1>1, <2>1, <2>3, <2>6, <3>1, <3>2, <3>3, Zenon DEF TransInv, TypeOK
  <2>8. \A x \in Pending : x < n /\ x \in NumsOf(op.body) /\ x \in 1 .. MaxStmts
    <3>1. Pending \subseteq 1 .. MaxStmts
      BY <2>2, ElementOfSeq DEF Pending
    <3> QED BY <1>1, <1>3, <3>1 DEF TransInv, ProgressInv, SessionInv
  <2>9. SessionInv'
    <3>1. ASSUME NEW k \in 1 .. Len(pending'), NEW l \in 1 .. Len(pending'), k < l
          PROVE  pending'[k] < pending'[l]
      <4>1. k \in 1 .. Len(pending)
        BY <2>3, <3>1
      <4>2. CASE l \in 1 .. Len(pending)
        BY <2>3, <3>1, <4>1, <4>2 DEF TransInv, SessionInv
      <4>3. CASE l = Len(pending) + 1
        BY <2>3, <2>8, <4>1, <4>3
      <4> QED BY <2>3, <4>2, <4>3
    <3>2. Precede(Applied', NumsOf(op'.body)) /\ Pending' \subseteq NumsOf(op'.body)
      BY <1>2, <1>3, <2>3, <2>4, <2>6 DEF TransInv, SessionInv
    <3>3. pc' \in {"statement", "commit", "rollback"}
      BY <2>6
    <3> QED BY <1>1, <2>1, <2>5, <2>6, <3>1, <3>2, <3>3 DEF SessionInv, Whole
  <2>10. PlaceInv'
    BY <1>1, <2>5, <2>6 DEF TransInv, PlaceInv, Whole
  <2>11. \A k \in 1 .. index : op.body[k].n \in Pending'
    <3>1. \A k \in 1 .. index : k = index \/ k \in 1 .. index - 1
      BY <1>2
    <3> QED BY <1>1, <1>3, <2>3, <3>1 DEF TransInv, ProgressInv
  <2>12. Precede(Applied, NumsOf(op.body))
    BY <1>3 DEF TransInv, SessionInv
  <2>13. ProgressInv'
    <3>1. CASE index < Len(op.body)
      <4>1. index' = index + 1 /\ pc' = "statement" /\ index + 1 \in 1 .. Len(op.body)
        BY <1>2, <2>6, <3>1
      <4>2. n < op.body[index + 1].n /\ op.body[index + 1].n \in 1 .. MaxStmts
        BY <1>2, <4>1
      <4>3. \A x \in Pending' : x < op.body[index + 1].n
        BY <1>2, <2>3, <2>8, <4>2
      <4>4. op.body[index + 1].n \in NumsOf(op.body)
        BY <4>1 DEF NumsOf
      <4>5. \A x \in Applied' : x < op.body[index + 1].n
        BY <2>4, <2>12, <4>4 DEF Precede
      <4>6. \A k \in 1 .. index' - 1 : op.body[k].n \in Pending'
        BY <1>2, <2>11, <4>1
      <4> QED BY <2>1, <2>4, <2>5, <2>6, <2>12, <4>1, <4>3, <4>5, <4>6 DEF ProgressInv
    <3>2. CASE ~(index < Len(op.body))
      <4>1. index = Len(op.body) /\ pc' = "commit"
        BY <1>2, <2>6, <3>2
      <4>2. NumsOf(op.body) \subseteq Pending'
        BY <2>11, <4>1 DEF NumsOf
      <4> QED BY <2>1, <2>6, <4>1, <4>2 DEF ProgressInv
    <3> QED BY <3>1, <3>2
  <2>14. PreparedInv'
    BY <2>1, <2>4, <2>6, <2>12 DEF PreparedInv
  <2> QED BY <1>1, <2>4, <2>6, <2>7, <2>9, <2>10, <2>13, <2>14, GoesOn DEF clientVars
<1>4. CASE ~inTx
  <2>1. durable' = Append(durable, n) /\ UNCHANGED <<inTx, pending>>
    BY <1>1, <1>4 DEF Apply
  <2>2. /\ durable' \in Seq(1 .. MaxStmts) /\ Applied' = Applied \union {n} /\ AppliedInOrder'
        /\ Applied \subseteq Applied' /\ Applied' \subseteq Applied \union NumsOf(op.body)
    BY <1>1, <1>2, <2>1, AppliesAtOnce
  <2>3. ~inTx' /\ pending' = <<>> /\ pending' \in Seq(1 .. MaxStmts)
    BY <1>4, <2>1 DEF TransInv, SessionInv
  <2>4. CASE op.trans
    <3>1. /\ index' = IF index < Len(op.body) THEN index + 1 ELSE index
          /\ pc' = IF index < Len(op.body) THEN "statement" ELSE "commit"
          /\ UNCHANGED <<op, outcomes>>
      BY <1>1, <2>4 DEF StatementReturns
    <3>2. TypeOK'
      <4>1. index' \in 1 .. MaxStmts + 1
        BY <1>2, <3>1, BoundsAssumption
      <4>2. pc' \in {"idle", "begin", "statement", "commit", "rollback", "crashed"}
        BY <3>1
      <4> QED BY <1>1, <2>1, <2>2, <3>1, <4>1, <4>2, Zenon DEF TransInv, TypeOK
    <3>3. disturbed /\ ~AllPrepared(op.body)
      BY <1>1, <1>4, <2>4 DEF TransInv, ProgressInv, PreparedInv, Whole
    <3>4. SessionInv' /\ PlaceInv' /\ PreparedInv'
      BY <1>1, <2>3, <2>4, <3>1, <3>3 DEF TransInv, SessionInv, PlaceInv, PreparedInv, Whole
    <3>5. ProgressInv'
      <4>1. CASE index < Len(op.body)
        <5>1. index' = index + 1 /\ pc' = "statement" /\ index + 1 \in 1 .. Len(op.body)
          BY <1>2, <3>1, <4>1
        <5>2. n < op.body[index + 1].n /\ op.body[index + 1].n \in 1 .. MaxStmts
          BY <1>2, <5>1
        <5>3. \A x \in Applied : x <= n /\ x \in Int
          BY <1>1, <1>2 DEF TransInv, ProgressInv
        <5>4. \A x \in Applied' : x < op.body[index + 1].n
          BY <1>2, <2>2, <5>2, <5>3
        <5>5. Pending' = {}
          BY <2>3 DEF Pending
        <5> QED BY <1>1, <2>3, <2>4, <3>1, <3>3, <5>1, <5>4, <5>5 DEF ProgressInv
      <4>2. CASE ~(index < Len(op.body))
        BY <1>1, <2>3, <3>1, <3>3, <4>2 DEF ProgressInv
      <4> QED BY <4>1, <4>2
    <3> QED BY <1>1, <2>2, <3>1, <3>2, <3>4, <3>5, GoesOn DEF clientVars
  <2>5. CASE ~op.trans
    <3>1. End(TRUE)
      BY <1>1, <2>5 DEF StatementReturns
    <3>2. TypeOK'
      BY <1>1, <2>1, <2>2, <3>1, EndTypes, Zenon DEF TransInv, TypeOK
    <3>3. SessionInv'
      BY <1>1, <2>3 DEF TransInv, SessionInv
    <3>4. NumsOf(op.body) \subseteq Applied'
      <4>1. Len(op.body) = 1 /\ index = 1
        BY <1>1, <1>2, <2>5 DEF TransInv, PlaceInv
      <4>2. NumsOf(op.body) = {n}
        BY <4>1 DEF NumsOf
      <4> QED BY <2>2, <4>2
    <3> QED BY <1>1, <1>2, <2>2, <2>3, <2>5, <3>1, <3>2, <3>3, <3>4, Ends DEF clientVars
  <2> QED BY <2>4, <2>5
<1> QED BY <1>3, <1>4

\* A statement that is refused, or finds no connection, fails.
LEMMA NextStatementFails ==
    ASSUME TransInv,
           \/ \E deadlock \in BOOLEAN : StatementRefused(deadlock)
           \/ HandleMySQLError(FALSE) \/ StatementFails
    PROVE  TransInv'
<1> USE DEF clientVars, sessionVars
<1>1. /\ pc = "statement" /\ link \in BOOLEAN /\ handle \in BOOLEAN /\ inTx \in BOOLEAN
      /\ link => handle
      /\ ~link => ~inTx
      /\ ~inTx => pending = <<>>
      /\ ~disturbed => handle /\ link
  <2>1. pc = "statement"
    BY DEF StatementRefused, HandleMySQLError, StatementFails
  <2> QED BY <2>1 DEF TransInv, SessionInv, PlaceInv, TypeOK, Whole
<1>2. CASE \E deadlock \in BOOLEAN : StatementRefused(deadlock)
  <2>1. PICK deadlock \in BOOLEAN : StatementRefused(deadlock)
    BY <1>2
  <2>2. /\ StatementReturns(FALSE)
        /\ UNCHANGED <<inTrans, body, stmts, discarded, delayQueue, handle, link, durable,
                       losses, disturbed>>
    BY <2>1 DEF StatementRefused
  <2>3. \/ inTx' = FALSE /\ pending' = <<>>
        \/ inTx' = inTx /\ pending' = pending
    BY <2>1, Zenon DEF StatementRefused
  <2>4. CASE inTx' = FALSE /\ pending' = <<>>
    <3>1. ~inTx' /\ inTx' \in BOOLEAN
      BY <2>4, Zenon
    <3> QED BY <1>1, <2>2, <2>4, <3>1, Fails
  <2>5. CASE inTx' = inTx /\ pending' = pending
    BY <1>1, <2>2, <2>5, Fails
  <2> QED BY <2>3, <2>4, <2>5
<1>3. CASE HandleMySQLError(FALSE)
  BY <1>1, <1>3, Fails DEF HandleMySQLError, Reconnect
<1>4. CASE StatementFails
  BY <1>1, <1>4, Fails DEF StatementFails
<1> QED BY <1>2, <1>3, <1>4

\* A plain statement is tried again in a new session.
LEMMA NextReconnects ==
    ASSUME TransInv, HandleMySQLError(TRUE)
    PROVE  TransInv'
<1> USE DEF HandleMySQLError, Reconnect, clientVars
<1>1. TypeOK'
  BY Zenon DEF TransInv, TypeOK
<1>2. Applied' = Applied /\ Pending' = Pending
  BY DEF Applied, Pending
<1>3. handle' /\ link' /\ (inTx' <=> inTx) /\ ~inTx
  BY Zenon DEF TransInv, SessionInv
<1>4. disturbed /\ ~AllPrepared(op.body)
  <2>1. index \in 1 .. Len(op.body)
    BY DEF TransInv, ProgressInv
  <2> QED BY <2>1 DEF TransInv, PlaceInv, Whole, AllPrepared
<1>5. SessionInv' /\ PlaceInv' /\ ProgressInv' /\ PreparedInv'
  BY <1>2, <1>3, <1>4 DEF TransInv, SessionInv, PlaceInv, ProgressInv, PreparedInv, Whole
<1>6. AppliedInOrder'
  BY DEF TransInv, AppliedInOrder
<1> QED BY <1>1, <1>2, <1>5, <1>6, GoesOn

\* The server has done what it was asked, and nobody knows.
LEMMA NextAnswerLost ==
    ASSUME TransInv, AnswerLost
    PROVE  TransInv'
<1>1. /\ pc \in {"statement", "commit"} /\ handle /\ link
      /\ losses' = losses + 1
      /\ UNCHANGED <<inTrans, body, stmts, discarded, delayQueue, op, index, pc, handle, outcomes>>
  BY DEF AnswerLost, Whole, clientVars
<1>2. ~link' /\ ~inTx' /\ disturbed' /\ pending' = <<>>
  BY DEF AnswerLost, Dropped
<1>3. link' \in BOOLEAN /\ inTx' \in BOOLEAN /\ disturbed' \in BOOLEAN
  BY Zenon DEF AnswerLost, Dropped
<1>4. losses' \in 0 .. MaxLosses /\ losses' > 0
  BY BoundsAssumption DEF AnswerLost, TransInv, TypeOK
<1>5. durable' \in Seq(1 .. MaxStmts) => TypeOK'
  <2>1. pending' \in Seq(1 .. MaxStmts)
    BY <1>2
  <2> QED BY <1>1, <1>3, <1>4, <2>1, Zenon DEF TransInv, TypeOK
<1>6. SessionInv' /\ PlaceInv' /\ Pending' = {}
  BY <1>1, <1>2 DEF TransInv, SessionInv, PlaceInv, Pending
<1>7. CASE pc = "statement" /\ inTx
  <2>1. durable' = durable
    BY <1>7 DEF AnswerLost
  <2>2. Applied' = Applied /\ AppliedInOrder' /\ durable' \in Seq(1 .. MaxStmts)
    <3>1. AppliedInOrder'
      BY <1>4, <2>1 DEF TransInv, AppliedInOrder
    <3>2. Applied' = Applied
      BY <2>1 DEF Applied
    <3> QED BY <2>1, <3>1, <3>2 DEF TransInv, TypeOK
  <2>3. ProgressInv' /\ PreparedInv'
    BY <1>1, <1>2, <1>4, <1>6, <1>7, <2>2 DEF TransInv, ProgressInv, PreparedInv
  <2> QED BY <1>1, <1>5, <1>6, <2>2, <2>3, GoesOn DEF clientVars
<1>8. CASE pc = "statement" /\ ~inTx
  <2>1. durable' = Append(durable, op.body[index].n)
    BY <1>8 DEF AnswerLost
  <2>2. /\ Applied' = Applied \union {op.body[index].n}
        /\ AppliedInOrder' /\ durable' \in Seq(1 .. MaxStmts)
    BY <1>1, <1>8, <2>1, AppliesAtOnce
  <2>3. op.body[index].n \in NumsOf(op.body)
    BY <1>8, AtStatement
  <2>4. ProgressInv'
    BY <1>1, <1>2, <1>4, <1>6, <1>8, <2>2 DEF TransInv, ProgressInv
  <2>5. PreparedInv'
    BY <1>1, <1>8 DEF TransInv, PreparedInv
  <2> QED BY <1>1, <1>5, <1>6, <2>2, <2>3, <2>4, <2>5, GoesOn DEF clientVars
<1>9. CASE pc = "commit"
  <2>1. durable' = durable \o pending
    BY <1>9 DEF AnswerLost
  <2>2. /\ Applied' = Applied \union Pending /\ Applied' \subseteq Applied \union NumsOf(op.body)
        /\ AppliedInOrder' /\ durable' \in Seq(1 .. MaxStmts)
    BY <1>1, <2>1, AppliesPending
  <2>3. ProgressInv'
    BY <1>1, <1>2, <1>9 DEF ProgressInv
  <2>4. op.trans /\ AllPrepared(op.body) => NumsOf(op.body) \subseteq Applied'
    BY <1>1, <1>9, <2>2 DEF TransInv, PreparedInv, ProgressInv
  <2>5. PreparedInv'
    BY <1>1, <1>2, <1>9, <2>4 DEF PreparedInv
  <2> QED BY <1>1, <1>5, <1>6, <2>2, <2>3, <2>5, GoesOn DEF clientVars
<1> QED BY <1>1, <1>7, <1>8, <1>9

-----------------------------------------------------------------------------
(* The end of a transaction. *)

LEMMA NextCommit ==
    ASSUME TransInv, Commit
    PROVE  TransInv'
<1>1. /\ pc = "commit" /\ End(link) /\ link \in BOOLEAN
      /\ UNCHANGED <<inTrans, body, stmts, discarded, delayQueue, handle, link, losses, disturbed>>
  BY DEF Commit, clientVars, TransInv, TypeOK
<1>2. op.trans /\ op.body # <<>> /\ (~disturbed => link)
  BY <1>1 DEF TransInv, PlaceInv, Whole
<1>3. durable' \in Seq(1 .. MaxStmts) /\ pending' = <<>> /\ inTx' \in BOOLEAN => TypeOK'
  <2>1. <<>> \in Seq(1 .. MaxStmts)
    OBVIOUS
  <2> QED BY <1>1, <2>1, EndTypes, Zenon DEF TransInv, TypeOK
<1>4. CASE link
  <2>1. durable' = durable \o pending /\ pending' = <<>> /\ inTx' = FALSE
    BY <1>4, Zenon DEF Commit
  <2>2. ~inTx' /\ inTx' \in BOOLEAN
    BY <2>1, Zenon
  <2>3. /\ Applied' = Applied \union Pending /\ Applied' \subseteq Applied \union NumsOf(op.body)
        /\ AppliedInOrder' /\ durable' \in Seq(1 .. MaxStmts)
    BY <1>1, <2>1, AppliesPending
  <2>4. /\ ~disturbed => NumsOf(op.body) \subseteq Applied'
        /\ AllPrepared(op.body) => NumsOf(op.body) \subseteq Applied'
    BY <1>1, <1>2, <1>4, <2>3 DEF TransInv, ProgressInv, PreparedInv
  <2>5. SessionInv'
    BY <1>1, <1>4, <2>1, <2>2 DEF TransInv, SessionInv
  <2>6. End(TRUE)
    BY <1>1, <1>4 DEF TransInv, TypeOK
  <2> QED BY <1>1, <1>2, <1>3, <2>1, <2>2, <2>3, <2>4, <2>5, <2>6, Ends DEF clientVars
<1>5. CASE ~link
  <2>1. UNCHANGED <<durable, pending, inTx>>
    BY <1>5, Zenon DEF Commit
  <2>2. ~inTx /\ ~inTx' /\ pending' = <<>> /\ inTx' \in BOOLEAN
    BY <1>5, <2>1 DEF TransInv, SessionInv, TypeOK
  <2>3. Applied' = Applied /\ AppliedInOrder' /\ durable' \in Seq(1 .. MaxStmts)
    BY <1>1, <2>1 DEF Applied, TransInv, AppliedInOrder, TypeOK
  <2>4. AllPrepared(op.body) => \/ NumsOf(op.body) \subseteq Applied'
                                \/ NumsOf(op.body) \intersect Applied' = {}
    <3>1. Applied \in SUBSET Int
      BY AppliedNumbers
    <3> QED BY <1>1, <1>2, <2>2, <2>3, <3>1, Disjoint DEF TransInv, PreparedInv
  <2>5. SessionInv'
    BY <1>1, <1>5, <2>2 DEF SessionInv
  <2> QED BY <1>1, <1>2, <1>3, <1>5, <2>2, <2>3, <2>4, <2>5, Ends DEF clientVars
<1> QED BY <1>4, <1>5

LEMMA NextRollback ==
    ASSUME TransInv, Rollback
    PROVE  TransInv'
<1>1. /\ pc = "rollback" /\ End(FALSE)
      /\ pending' = <<>> /\ inTx' = FALSE
      /\ UNCHANGED <<inTrans, body, stmts, discarded, delayQueue, handle, link, durable,
                     losses, disturbed>>
  BY DEF Rollback, clientVars
<1>2. ~inTx' /\ inTx' \in BOOLEAN
  BY <1>1, Zenon
<1>3. op.trans /\ op.body # <<>>
  BY <1>1 DEF TransInv, PlaceInv
<1>4. TypeOK'
  <2>1. pending' \in Seq(1 .. MaxStmts)
    BY <1>1
  <2> QED BY <1>1, <1>2, <2>1, EndTypes, Zenon DEF TransInv, TypeOK
<1>5. Applied' = Applied /\ AppliedInOrder'
  BY <1>1 DEF Applied, TransInv, AppliedInOrder
<1>6. /\ ~disturbed => NumsOf(op.body) \intersect Applied' = {}
      /\ AllPrepared(op.body) => NumsOf(op.body) \intersect Applied' = {}
  <2>1. Applied \in SUBSET Int
    BY AppliedNumbers
  <2> QED BY <1>1, <1>3, <1>5, <2>1, Disjoint DEF TransInv, ProgressInv, PreparedInv
<1>7. SessionInv'
  BY <1>1, <1>2 DEF TransInv, SessionInv
<1> QED BY <1>1, <1>2, <1>3, <1>4, <1>5, <1>6, <1>7, Ends DEF clientVars

-----------------------------------------------------------------------------
(* The client, and the queue between the two. *)

\* What waits, by its place.
LEMMA WaitingBody ==
    ASSUME TransInv, NEW i \in 1 .. Len(delayQueue)
    PROVE  /\ delayQueue[i] \in Operation /\ delayQueue[i].body \in Seq(Stmt)
           /\ NumsOf(delayQueue[i].body) \subseteq 1 .. MaxStmts
<1>1. delayQueue[i] \in Operation
  BY ElementOfSeq DEF TransInv, TypeOK
<1> QED BY <1>1, Bodies DEF Operation

\* What the client does changes nothing of what the worker and the server have.
LEMMA ClientStep ==
    ASSUME TransInv, UNCHANGED <<sessionVars, workerVars, losses>>,
           TypeOK', ClientInv', DelayInv', TakenInv', DiscardedInv'
    PROVE  TransInv'
<1> USE DEF sessionVars, workerVars
<1>1. Applied' = Applied /\ Outcomes' = Outcomes /\ Pending' = Pending
  BY DEF Applied, Outcomes, Pending
<1>2. SessionInv' /\ PlaceInv' /\ ProgressInv' /\ PreparedInv'
  BY <1>1 DEF TransInv, SessionInv, PlaceInv, ProgressInv, PreparedInv, Whole
<1>3. AppliedInOrder'
  BY DEF TransInv, AppliedInOrder
<1>4. PreparedTransactionAtomic'
  BY <1>1 DEF TransInv, PreparedTransactionAtomic, AllOrNothing
<1>5. OutcomeIsExact'
  <2>1. discarded' \intersect Applied' = {}
    BY DEF DiscardedInv
  <2> QED BY <1>1, <2>1 DEF TransInv, OutcomeIsExact
<1> QED BY <1>2, <1>3, <1>4, <1>5 DEF TransInv

LEMMA TakenNumbers ==
    ASSUME TransInv
    PROVE  Taken \subseteq 1 .. MaxStmts
<1>1. Ended \subseteq 1 .. MaxStmts
  <2>1. \A k \in 1 .. Len(outcomes) : outcomes[k] \in Outcome
    BY ElementOfSeq DEF TransInv
  <2>2. \A o \in Outcomes : o.body \subseteq 1 .. MaxStmts
    BY <2>1 DEF Outcomes, Outcome
  <2> QED BY <2>2 DEF Ended
<1>2. NumsOf(op.body) \subseteq 1 .. MaxStmts
  <2>1. op.body \in Seq(Stmt)
    BY DEF TransInv, TypeOK, Operation
  <2> QED BY <2>1, Bodies
<1> QED BY <1>1, <1>2, AppliedNumbers DEF Taken

\* An operation is put behind what waits.
LEMMA Enqueued ==
    ASSUME TransInv, NEW o \in Operation, delayQueue' = Append(delayQueue, o),
           UNCHANGED <<durable, op, outcomes>>,
           stmts' >= stmts, stmts' \in Nat, NumsOf(body') = {},
           Ordered(o.body), ~o.trans => Len(o.body) = 1,
           \A x \in NumsOf(o.body) : x <= stmts' /\ x \notin discarded',
           Precede(Taken, NumsOf(o.body)),
           \A i \in 1 .. Len(delayQueue) : Precede(NumsOf(delayQueue[i].body), NumsOf(o.body)),
           UNCHANGED discarded
    PROVE  DelayInv' /\ TakenInv' /\ DiscardedInv' /\ delayQueue' \in Seq(Operation)
<1>1. delayQueue \in Seq(Operation) /\ stmts \in Nat
  BY DEF TransInv, TypeOK
<1>2. /\ delayQueue' \in Seq(Operation)
      /\ Len(delayQueue') = Len(delayQueue) + 1 /\ Len(delayQueue) \in Nat
      /\ \A i \in 1 .. Len(delayQueue) : delayQueue'[i] = delayQueue[i]
      /\ delayQueue'[Len(delayQueue) + 1] = o
  BY <1>1, SetAppend
<1>3. \A i \in 1 .. Len(delayQueue') : i \in 1 .. Len(delayQueue) \/ i = Len(delayQueue) + 1
  BY <1>2
<1>4. Taken' = Taken /\ Applied' = Applied
  BY DEF Taken, Ended, Outcomes, Applied
<1>5. /\ Taken \subseteq Int
      /\ \A i \in 1 .. Len(delayQueue) : NumsOf(delayQueue[i].body) \subseteq Int
  <2>3. Taken \subseteq 1 .. MaxStmts
    BY TakenNumbers
  <2>4. \A i \in 1 .. Len(delayQueue) : NumsOf(delayQueue[i].body) \subseteq 1 .. MaxStmts
    BY WaitingBody
  <2>5. 1 .. MaxStmts \subseteq Int
    OBVIOUS
  <2> QED BY <2>3, <2>4, <2>5
<1>6. DelayInv'
  <2> SUFFICES ASSUME NEW i \in 1 .. Len(delayQueue')
               PROVE  /\ Ordered(delayQueue'[i].body)
                      /\ ~delayQueue'[i].trans => Len(delayQueue'[i].body) = 1
                      /\ \A x \in NumsOf(delayQueue'[i].body) : x <= stmts'
                      /\ \A j \in 1 .. Len(delayQueue') :
                            i < j => Precede(NumsOf(delayQueue'[i].body), NumsOf(delayQueue'[j].body))
                      /\ Precede(NumsOf(delayQueue'[i].body), NumsOf(body'))
    BY DEF DelayInv
  <2>1. Precede(NumsOf(delayQueue'[i].body), NumsOf(body'))
    BY DEF Precede
  <2>2. CASE i \in 1 .. Len(delayQueue)
    <3>1. delayQueue'[i] = delayQueue[i]
      BY <1>2, <2>2
    <3>2. \A x \in NumsOf(delayQueue[i].body) : x <= stmts'
      <4> SUFFICES ASSUME NEW x \in NumsOf(delayQueue[i].body) PROVE x <= stmts'
        OBVIOUS
      <4>1. x \in Int /\ x <= stmts
        BY <1>5, <2>2 DEF TransInv, DelayInv
      <4> QED BY <1>1, <4>1
    <3>3. \A j \in 1 .. Len(delayQueue') :
              i < j => Precede(NumsOf(delayQueue[i].body), NumsOf(delayQueue'[j].body))
      BY <1>2, <1>3, <2>2 DEF TransInv, DelayInv
    <3> QED BY <2>1, <2>2, <3>1, <3>2, <3>3 DEF TransInv, DelayInv
  <2>3. CASE i = Len(delayQueue) + 1
    <3>1. \A j \in 1 .. Len(delayQueue') : ~(i < j)
      BY <1>2, <2>3
    <3> QED BY <1>2, <2>1, <2>3, <3>1
  <2> QED BY <1>3, <2>2, <2>3
<1>7. TakenInv'
  <2>1. \A x \in Taken : x <= stmts'
    BY <1>1, <1>5 DEF TransInv, TakenInv
  <2>2. \A i \in 1 .. Len(delayQueue') : Precede(Taken, NumsOf(delayQueue'[i].body))
    BY <1>2, <1>3 DEF TransInv, TakenInv
  <2>3. Precede(Taken, NumsOf(body'))
    BY DEF Precede
  <2>4. Precede(Ended', NumsOf(op'.body))
    BY DEF TransInv, TakenInv, Ended, Outcomes
  <2> QED BY <1>4, <2>1, <2>2, <2>3, <2>4 DEF TransInv, TakenInv
<1>8. DiscardedInv'
  <2>1. \A i \in 1 .. Len(delayQueue') : discarded' \intersect NumsOf(delayQueue'[i].body) = {}
    BY <1>2, <1>3 DEF TransInv, DiscardedInv
  <2>2. \A x \in discarded : x <= stmts'
    BY <1>1 DEF TransInv, DiscardedInv, TypeOK
  <2> QED BY <1>4, <2>1, <2>2 DEF TransInv, DiscardedInv
<1> QED BY <1>2, <1>6, <1>7, <1>8

\* A statement is issued: into the open transaction, or on its own.
LEMMA NextExecute ==
    ASSUME TransInv, NEW prepared \in BOOLEAN, Execute(prepared)
    PROVE  TransInv'
<1> DEFINE stmt == [n |-> stmts + 1, prepared |-> prepared]
<1>1. /\ stmts < MaxStmts /\ stmts' = stmts + 1
      /\ UNCHANGED <<inTrans, discarded, losses, sessionVars, workerVars>>
  BY DEF Execute
<1>2. stmts \in Nat /\ stmts' \in 0 .. MaxStmts /\ stmts + 1 \in 1 .. MaxStmts
  BY <1>1, BoundsAssumption DEF TransInv, TypeOK
<1>3. stmt \in Stmt /\ stmt.n = stmts + 1
  BY <1>2 DEF Stmt
<1> HIDE DEF stmt
<1>4. body \in Seq(Stmt) /\ delayQueue \in Seq(Operation) /\ Len(body) \in Nat
  BY DEF TransInv, TypeOK
<1>5. /\ \A x \in Taken : x \in Int /\ x < stmts + 1
      /\ \A i \in 1 .. Len(delayQueue) : \A x \in NumsOf(delayQueue[i].body) :
            x \in Int /\ x < stmts + 1
      /\ \A x \in NumsOf(body) : x \in Int /\ x < stmts + 1
      /\ stmts + 1 \notin discarded
  <2>1. \A x \in Taken : x \in Int /\ x <= stmts
    BY TakenNumbers DEF TransInv, TakenInv
  <2>2. \A i \in 1 .. Len(delayQueue) : \A x \in NumsOf(delayQueue[i].body) : x \in Int /\ x <= stmts
    BY WaitingBody DEF TransInv, DelayInv
  <2>3. \A x \in NumsOf(body) : x \in Int /\ x <= stmts
    BY <1>4, Bodies DEF TransInv, ClientInv
  <2>4. stmts + 1 \notin discarded
    BY <1>2 DEF TransInv, DiscardedInv
  <2>5. \A x \in Int : x <= stmts => x < stmts + 1
    BY <1>2
  <2>6. \A x \in Taken : x \in Int /\ x < stmts + 1
    BY <2>1, <2>5, Zenon
  <2>7. \A i \in 1 .. Len(delayQueue) : \A x \in NumsOf(delayQueue[i].body) :
            x \in Int /\ x < stmts + 1
    BY <2>2, <2>5, Zenon
  <2>8. \A x \in NumsOf(body) : x \in Int /\ x < stmts + 1
    BY <2>3, <2>5, Zenon
  <2> QED BY <2>4, <2>6, <2>7, <2>8
<1>6. CASE inTrans
  <2>1. body' = Append(body, stmt) /\ delayQueue' = delayQueue
    BY <1>1, <1>6 DEF Execute, stmt
  <2>2. /\ NumsOf(body') = NumsOf(body) \union {stmts + 1}
        /\ Len(body') = Len(body) + 1
        /\ Ordered(body) /\ Len(body) <= stmts
        /\ Ordered(body) /\ Len(body) < stmts + 1 => Ordered(body')
        /\ body' \in Seq(Stmt)
    BY <1>3, <1>4, <1>5, <2>1, BodyAppend DEF TransInv, ClientInv
  <2>3. ClientInv'
    <3>1. \A x \in NumsOf(body') : x <= stmts'
      BY <1>1, <1>2, <1>5, <2>2
    <3>2. Ordered(body') /\ Len(body') <= stmts' /\ inTrans'
      BY <1>1, <1>2, <1>4, <1>6, <2>2
    <3> QED BY <3>1, <3>2 DEF ClientInv
  <2>4. DelayInv'
    <3>1. \A i \in 1 .. Len(delayQueue) : \A x \in NumsOf(delayQueue[i].body) : x <= stmts'
      BY <1>1, <1>2, <1>5
    <3>2. \A i \in 1 .. Len(delayQueue) : Precede(NumsOf(delayQueue[i].body), NumsOf(body'))
      BY <1>5, <2>2 DEF TransInv, DelayInv, Precede
    <3> QED BY <2>1, <3>1, <3>2 DEF TransInv, DelayInv
  <2>5. Taken' = Taken /\ Ended' = Ended /\ Applied' = Applied /\ op' = op
    BY <1>1 DEF Taken, Ended, Outcomes, Applied, sessionVars, workerVars
  <2>6. TakenInv'
    <3>1. \A x \in Taken : x <= stmts'
      BY <1>1, <1>2, <1>5
    <3>2. Precede(Taken, NumsOf(body'))
      BY <1>5, <2>2 DEF TransInv, TakenInv, Precede
    <3> QED BY <2>1, <2>5, <3>1, <3>2 DEF TransInv, TakenInv
  <2>7. DiscardedInv'
    <3>1. \A x \in discarded : x <= stmts' /\ x \notin NumsOf(body')
      <4>1. \A x \in discarded : x \in Int
        BY DEF TransInv, TypeOK
      <4> QED BY <1>1, <1>2, <1>5, <2>2, <4>1 DEF TransInv, DiscardedInv
    <3> QED BY <1>1, <2>1, <2>5, <3>1 DEF TransInv, DiscardedInv
  <2>8. TypeOK'
    BY <1>1, <1>2, <2>1, <2>2, Zenon DEF TransInv, TypeOK, sessionVars, workerVars
  <2> QED BY <1>1, <2>3, <2>4, <2>6, <2>7, <2>8, ClientStep
<1>7. CASE ~inTrans
  <2> DEFINE o == [trans |-> FALSE, body |-> <<stmt>>]
  <2>1. delayQueue' = Append(delayQueue, o) /\ body' = body
    BY <1>1, <1>7 DEF Execute, stmt
  <2>2. <<stmt>> \in Seq(Stmt) /\ Len(<<stmt>>) = 1 /\ <<stmt>>[1] = stmt
    BY <1>3
  <2>3. o \in Operation /\ o.body = <<stmt>> /\ ~o.trans
    BY <2>2 DEF Operation
  <2>4. NumsOf(o.body) = {stmts + 1} /\ Ordered(o.body) /\ Len(o.body) = 1
    BY <1>2, <1>3, <2>2, <2>3 DEF NumsOf, Ordered
  <2> HIDE DEF o
  <2>5. NumsOf(body') = {} /\ ClientInv'
    <3>1. body = <<>>
      BY <1>7 DEF TransInv, ClientInv
    <3> QED BY <1>1, <1>2, <2>1, <3>1, EmptyBody DEF ClientInv
  <2>6. DelayInv' /\ TakenInv' /\ DiscardedInv' /\ delayQueue' \in Seq(Operation)
    <3>1. UNCHANGED <<durable, op, outcomes, discarded>>
      BY <1>1 DEF sessionVars, workerVars
    <3>2. /\ Ordered(o.body) /\ (~o.trans => Len(o.body) = 1)
          /\ \A x \in NumsOf(o.body) : x <= stmts' /\ x \notin discarded'
      BY <1>1, <1>2, <1>5, <2>3, <2>4, <3>1
    <3>3. /\ Precede(Taken, NumsOf(o.body))
          /\ \A i \in 1 .. Len(delayQueue) : Precede(NumsOf(delayQueue[i].body), NumsOf(o.body))
      BY <1>5, <2>4 DEF Precede
    <3>4. stmts' >= stmts /\ stmts' \in Nat
      BY <1>1, <1>2
    <3> QED BY <2>1, <2>3, <2>5, <3>1, <3>2, <3>3, <3>4, Enqueued
  <2>7. TypeOK'
    BY <1>1, <1>2, <2>1, <2>6, Zenon DEF TransInv, TypeOK, sessionVars, workerVars
  <2> QED BY <1>1, <2>5, <2>6, <2>7, ClientStep
<1> QED BY <1>6, <1>7

\* A transaction is committed: the worker will have it.
LEMMA NextCommitTransaction ==
    ASSUME TransInv, CommitTransaction
    PROVE  TransInv'
<1> DEFINE o == [trans |-> TRUE, body |-> body]
<1>1. /\ delayQueue' = Append(delayQueue, o) /\ body' = <<>> /\ inTrans' = FALSE
      /\ UNCHANGED <<stmts, discarded, losses, sessionVars, workerVars>>
  BY DEF CommitTransaction
<1>2. o \in Operation /\ o.body = body /\ o.trans
  BY DEF TransInv, TypeOK, Operation
<1> HIDE DEF o
<1>3. stmts \in Nat /\ NumsOf(body') = {} /\ Ordered(body')
  BY <1>1, EmptyBody DEF TransInv, TypeOK
<1>4. ClientInv'
  BY <1>1, <1>3 DEF ClientInv
<1>5. DelayInv' /\ TakenInv' /\ DiscardedInv' /\ delayQueue' \in Seq(Operation)
  <2>1. /\ \A x \in NumsOf(o.body) : x <= stmts' /\ x \notin discarded'
        /\ Precede(Taken, NumsOf(o.body)) /\ Ordered(o.body)
        /\ \A i \in 1 .. Len(delayQueue) : Precede(NumsOf(delayQueue[i].body), NumsOf(o.body))
    BY <1>1, <1>2 DEF TransInv, ClientInv, DelayInv, TakenInv, DiscardedInv
  <2> QED BY <1>1, <1>2, <1>3, <2>1, Enqueued DEF sessionVars, workerVars
<1>6. TypeOK'
  <2>1. inTrans' \in BOOLEAN
    BY <1>1, Zenon
  <2>9. body' \in Seq(Stmt)
    <3>1. <<>> \in Seq(Stmt)
      OBVIOUS
    <3> QED BY <1>1, <3>1
  <2> QED BY <1>1, <1>5, <2>1, <2>9, Zenon DEF TransInv, TypeOK, sessionVars, workerVars
<1> QED BY <1>1, <1>4, <1>5, <1>6, ClientStep

\* What is rolled back was nowhere but with the client.
LEMMA NextRollbackTransaction ==
    ASSUME TransInv, RollbackTransaction
    PROVE  TransInv'
<1>1. /\ discarded' = discarded \union NumsOf(body)
      /\ body' = <<>> /\ inTrans' = FALSE
      /\ UNCHANGED <<stmts, delayQueue, losses, sessionVars, workerVars>>
  BY DEF RollbackTransaction, NumsOf
<1>2. NumsOf(body') = {} /\ Ordered(body') /\ stmts \in Nat
  BY <1>1, EmptyBody DEF TransInv, TypeOK
<1>3. ClientInv'
  BY <1>1, <1>2 DEF ClientInv
<1>4. Taken' = Taken /\ Ended' = Ended /\ Applied' = Applied /\ op' = op
  BY <1>1 DEF Taken, Ended, Outcomes, Applied, sessionVars, workerVars
<1>5. DelayInv' /\ TakenInv'
  BY <1>1, <1>2, <1>4 DEF TransInv, DelayInv, TakenInv, Precede
<1>6. DiscardedInv'
  <2>1. NumsOf(body) \subseteq Int /\ \A x \in NumsOf(body) : x <= stmts /\ ~(x < x)
    <3>1. body \in Seq(Stmt)
      BY DEF TransInv, TypeOK
    <3>2. NumsOf(body) \subseteq 1 .. MaxStmts
      BY <3>1, Bodies
    <3> QED BY <3>2 DEF TransInv, ClientInv
  <2>2. \A x \in NumsOf(body) : x \notin Taken
    BY <2>1 DEF TransInv, TakenInv, Precede
  <2>3. \A i \in 1 .. Len(delayQueue) : NumsOf(body) \intersect NumsOf(delayQueue[i].body) = {}
    BY <2>1 DEF TransInv, DelayInv, Precede
  <2>4. \A x \in NumsOf(body) : x \notin Applied /\ x \notin NumsOf(op.body)
    BY <2>2 DEF Taken
  <2> QED BY <1>1, <1>2, <1>4, <2>1, <2>3, <2>4 DEF TransInv, DiscardedInv
<1>7. TypeOK'
  <2>1. inTrans' \in BOOLEAN
    BY <1>1, Zenon
  <2>9. body' \in Seq(Stmt)
    <3>1. <<>> \in Seq(Stmt)
      OBVIOUS
    <3> QED BY <1>1, <3>1
  <2>2. discarded' \subseteq 1 .. MaxStmts
    BY <1>1, Bodies DEF TransInv, TypeOK
  <2> QED BY <1>1, <2>1, <2>2, <2>9, Zenon DEF TransInv, TypeOK, sessionVars, workerVars
<1> QED BY <1>1, <1>3, <1>5, <1>6, <1>7, ClientStep

LEMMA NextBeginTransaction ==
    ASSUME TransInv, BeginTransaction
    PROVE  TransInv'
<1>1. /\ inTrans' = TRUE
      /\ UNCHANGED <<body, stmts, discarded, delayQueue, losses, sessionVars, workerVars>>
  BY DEF BeginTransaction
<1>2. Taken' = Taken /\ Ended' = Ended /\ Applied' = Applied /\ op' = op
  BY <1>1 DEF Taken, Ended, Outcomes, Applied, sessionVars, workerVars
<1>3. ClientInv' /\ DelayInv' /\ TakenInv' /\ DiscardedInv'
  BY <1>1, <1>2 DEF TransInv, ClientInv, DelayInv, TakenInv, DiscardedInv
<1>4. TypeOK'
  <2>1. inTrans' \in BOOLEAN
    BY <1>1, Zenon
  <2> QED BY <1>1, <2>1, Zenon DEF TransInv, TypeOK, sessionVars, workerVars
<1> QED BY <1>1, <1>3, <1>4, ClientStep

-----------------------------------------------------------------------------
(* The worker takes an operation. *)

\* The oldest of what waits becomes the current operation; the order of all
\* that is on its way stays.
LEMMA Dequeued ==
    ASSUME TransInv, delayQueue # <<>>, delayQueue' = Tail(delayQueue), op = NoOp,
           UNCHANGED <<inTrans, body, stmts, discarded, durable, outcomes>>,
           NumsOf(op'.body) = NumsOf(delayQueue[1].body),
           Ordered(op'.body)
    PROVE  ClientInv' /\ DelayInv' /\ TakenInv' /\ DiscardedInv'
<1>1. delayQueue \in Seq(Operation) /\ 1 \in 1 .. Len(delayQueue)
  <2>1. delayQueue \in Seq(Operation)
    BY DEF TransInv, TypeOK
  <2> QED BY <2>1, EmptySeq
<1>2. /\ Len(delayQueue) \in Nat /\ Len(delayQueue') = Len(delayQueue) - 1
      /\ \A i \in 1 .. Len(delayQueue') :
            i + 1 \in 1 .. Len(delayQueue) /\ delayQueue'[i] = delayQueue[i + 1]
  BY <1>1
<1>3. /\ Applied' = Applied /\ Ended' = Ended
      /\ Taken = Ended \union Applied
      /\ Taken' = Taken \union NumsOf(delayQueue[1].body)
  BY EmptyBody DEF Taken, Applied, Ended, Outcomes
<1>4. ClientInv'
  BY DEF TransInv, ClientInv, NumsOf, Ordered
<1>5. NumsOf(body') = NumsOf(body)
  BY DEF NumsOf
<1>6. DelayInv'
  <2> SUFFICES ASSUME NEW i \in 1 .. Len(delayQueue')
               PROVE  /\ Ordered(delayQueue'[i].body)
                      /\ ~delayQueue'[i].trans => Len(delayQueue'[i].body) = 1
                      /\ \A x \in NumsOf(delayQueue'[i].body) : x <= stmts'
                      /\ \A j \in 1 .. Len(delayQueue') :
                            i < j => Precede(NumsOf(delayQueue'[i].body), NumsOf(delayQueue'[j].body))
                      /\ Precede(NumsOf(delayQueue'[i].body), NumsOf(body'))
    BY DEF DelayInv
  <2>1. i + 1 \in 1 .. Len(delayQueue) /\ delayQueue'[i] = delayQueue[i + 1]
    BY <1>2
  <2>2. \A j \in 1 .. Len(delayQueue') :
            i < j => Precede(NumsOf(delayQueue'[i].body), NumsOf(delayQueue'[j].body))
    <3> SUFFICES ASSUME NEW j \in 1 .. Len(delayQueue'), i < j
                 PROVE  Precede(NumsOf(delayQueue'[i].body), NumsOf(delayQueue'[j].body))
      OBVIOUS
    <3>1. j + 1 \in 1 .. Len(delayQueue) /\ delayQueue'[j] = delayQueue[j + 1] /\ i + 1 < j + 1
      BY <1>2
    <3> QED BY <2>1, <3>1 DEF TransInv, DelayInv
  <2> QED BY <1>5, <2>1, <2>2 DEF TransInv, DelayInv
<1>7. TakenInv'
  <2>1. /\ \A x \in Taken' : x <= stmts'
        /\ Precede(Taken', NumsOf(body'))
    BY <1>1, <1>3, <1>5 DEF TransInv, TakenInv, DelayInv, Precede
  <2>2. Precede(Ended', NumsOf(op'.body))
    BY <1>1, <1>3 DEF TransInv, TakenInv, Precede
  <2>3. ASSUME NEW i \in 1 .. Len(delayQueue')
        PROVE  Precede(Taken', NumsOf(delayQueue'[i].body))
    <3>1. i + 1 \in 1 .. Len(delayQueue) /\ delayQueue'[i] = delayQueue[i + 1] /\ 1 < i + 1
      BY <1>2
    <3>2. Precede(NumsOf(delayQueue[1].body), NumsOf(delayQueue[i + 1].body))
      BY <1>1, <3>1 DEF TransInv, DelayInv
    <3>3. Precede(Taken, NumsOf(delayQueue[i + 1].body))
      BY <3>1 DEF TransInv, TakenInv
    <3> QED BY <1>3, <3>1, <3>2, <3>3 DEF Precede
  <2> QED BY <2>1, <2>2, <2>3 DEF TakenInv
<1>8. DiscardedInv'
  BY <1>1, <1>2, <1>3, <1>5 DEF TransInv, DiscardedInv
<1> QED BY <1>4, <1>6, <1>7, <1>8

\* Before the first statement nothing of the operation is with the server.
LEMMA NextTakeOperation ==
    ASSUME TransInv, TakeOperation
    PROVE  TransInv'
<1>1. /\ pc = "idle" /\ delayQueue # <<>> /\ delayQueue' = Tail(delayQueue)
      /\ UNCHANGED <<inTrans, body, stmts, discarded, index, handle, losses, link, inTx,
                     pending, durable, outcomes>>
      /\ op = NoOp /\ index = 1
  BY DEF TakeOperation, TransInv, PlaceInv, clientVars, sessionVars
<1>2. delayQueue \in Seq(Operation) /\ 1 \in 1 .. Len(delayQueue) /\ Head(delayQueue) = delayQueue[1]
  <2>1. delayQueue \in Seq(Operation)
    BY DEF TransInv, TypeOK
  <2> QED BY <1>1, <2>1, EmptySeq
<1>3. /\ delayQueue[1] \in Operation /\ delayQueue[1].body \in Seq(Stmt)
      /\ Ordered(delayQueue[1].body)
      /\ ~delayQueue[1].trans => Len(delayQueue[1].body) = 1
      /\ Precede(Applied, NumsOf(delayQueue[1].body))
      /\ delayQueue' \in Seq(Operation)
  BY <1>1, <1>2, WaitingBody DEF TransInv, DelayInv, TakenInv, Taken, Precede
<1>4. Applied' = Applied /\ Outcomes' = Outcomes /\ Pending' = Pending
  BY <1>1 DEF Applied, Outcomes, Pending
<1>5. ~inTx /\ pending = <<>> /\ Pending = {}
  BY <1>1 DEF TransInv, SessionInv, Pending
<1>6. AppliedInOrder' /\ SessionInv'
  BY <1>1, <1>5 DEF TransInv, AppliedInOrder, SessionInv
<1>7. PreparedTransactionAtomic' /\ OutcomeIsExact'
  BY <1>1, <1>4 DEF TransInv, PreparedTransactionAtomic, OutcomeIsExact, AllOrNothing
<1>8. CASE delayQueue[1].body = <<>>
  <2>1. UNCHANGED <<op, pc, disturbed>>
    BY <1>2, <1>8 DEF TakeOperation
  <2>2. NumsOf(op'.body) = NumsOf(delayQueue[1].body) /\ Ordered(op'.body)
    BY <1>1, <1>8, <2>1, EmptyBody
  <2>3. ClientInv' /\ DelayInv' /\ TakenInv' /\ DiscardedInv'
    BY <1>1, <2>2, Dequeued
  <2>4. PlaceInv' /\ ProgressInv' /\ PreparedInv'
    BY <1>1, <2>1 DEF PlaceInv, ProgressInv, PreparedInv
  <2>5. TypeOK'
    BY <1>1, <1>3, <2>1, Zenon DEF TransInv, TypeOK
  <2> QED BY <1>1, <1>6, <1>7, <2>3, <2>4, <2>5 DEF TransInv
<1>9. CASE delayQueue[1].body # <<>>
  <2>1. /\ op' = delayQueue[1]
        /\ pc' = IF op'.trans THEN "begin" ELSE "statement"
        /\ disturbed' = ~Whole
    BY <1>2, <1>9, Zenon DEF TakeOperation
  <2>2. ClientInv' /\ DelayInv' /\ TakenInv' /\ DiscardedInv'
    BY <1>1, <1>3, <2>1, Dequeued
  <2>3. /\ op'.body \in Seq(Stmt) /\ Len(op'.body) \in Nat /\ 1 \in 1 .. Len(op'.body)
        /\ op'.body[1].n \in NumsOf(op'.body) /\ op'.body # <<>>
        /\ Precede(Applied, NumsOf(op'.body))
        /\ ~op'.trans => Len(op'.body) = 1
    BY <1>3, <1>9, <2>1, Bodies
  <2>4. /\ pc' \in {"begin", "statement"}
        /\ pc' = "begin" => op'.trans
        /\ pc' = "statement" => ~op'.trans
    BY <2>1
  <2>5. (~disturbed' => Whole') /\ ~inTx' /\ index' = 1
    <3>1. Whole' = Whole
      BY <1>1 DEF Whole
    <3> QED BY <1>1, <1>5, <2>1, <3>1, Zenon
  <2>6. PlaceInv' /\ PreparedInv'
    BY <1>1, <1>4, <2>3, <2>4, <2>5 DEF PlaceInv, PreparedInv
  <2>7. ProgressInv'
    BY <1>4, <1>5, <2>3, <2>4, <2>5 DEF ProgressInv, Precede
  <2>8. TypeOK'
    <3>1. disturbed' \in BOOLEAN
      BY <2>1, Zenon
    <3>2. pc' \in {"idle", "begin", "statement", "commit", "rollback", "crashed"}
      BY <2>4
    <3> QED BY <1>1, <1>3, <2>1, <3>1, <3>2, Zenon DEF TransInv, TypeOK
  <2> QED BY <1>1, <1>6, <1>7, <2>2, <2>6, <2>7, <2>8 DEF TransInv
<1> QED BY <1>8, <1>9

-----------------------------------------------------------------------------
(* The theorems. *)

LEMMA NextTransInv == TransInv /\ [Next]_vars => TransInv'
<1> SUFFICES ASSUME TransInv, [Next]_vars PROVE TransInv'
  OBVIOUS
<1>1. CASE Client
  BY <1>1, NextBeginTransaction, NextExecute, NextCommitTransaction, NextRollbackTransaction
     DEF Client
<1>2. CASE Worker
  <2>1. CASE TakeOperation \/ Crash \/ StartTransaction
    BY <2>1, NextTakeOperation, NextCrash, NextStartTransaction
  <2>2. CASE StatementSucceeds
    BY <2>2, NextStatementSucceeds
  <2>3. CASE (\E deadlock \in BOOLEAN : StatementRefused(deadlock)) \/ StatementFails
    BY <2>3, NextStatementFails
  <2>4. CASE \E ok \in BOOLEAN : HandleMySQLError(ok)
    <3>1. HandleMySQLError(TRUE) \/ HandleMySQLError(FALSE)
      BY <2>4, Zenon
    <3> QED BY <3>1, NextReconnects, NextStatementFails
  <2>5. CASE Commit \/ Rollback
    BY <2>5, NextCommit, NextRollback
  <2>6. CASE \E ok \in BOOLEAN : Ping(ok)
    BY <2>6, NextPing
  <2> QED BY <1>2, <2>1, <2>2, <2>3, <2>4, <2>5, <2>6, Zenon DEF Worker
<1>3. CASE LoseConnection
  BY <1>3, NextLoseConnection
<1>4. CASE AnswerLost
  BY <1>4, NextAnswerLost
<1>5. CASE UNCHANGED vars
  <2> USE <1>5 DEF vars
  <2>1. TypeOK' /\ outcomes' \in Seq(Outcome)
    BY DEF TransInv, TypeOK
  <2>2. Applied' = Applied /\ Outcomes' = Outcomes /\ Pending' = Pending
    BY DEF Applied, Outcomes, Pending
  <2>3. Ended' = Ended /\ Taken' = Taken /\ Whole' = Whole
    BY <2>2 DEF Ended, Taken, Whole
  <2>4. ClientInv' /\ DelayInv' /\ TakenInv' /\ DiscardedInv'
    BY <2>2, <2>3 DEF TransInv, ClientInv, DelayInv, TakenInv, DiscardedInv
  <2>5. SessionInv' /\ PlaceInv' /\ ProgressInv' /\ PreparedInv'
    BY <2>2, <2>3 DEF TransInv, SessionInv, PlaceInv, ProgressInv, PreparedInv
  <2>6. AppliedInOrder' /\ OutcomeIsExact' /\ PreparedTransactionAtomic'
    BY <2>2 DEF TransInv, AppliedInOrder, OutcomeIsExact, PreparedTransactionAtomic, AllOrNothing
  <2> QED BY <2>1, <2>4, <2>5, <2>6 DEF TransInv
<1> QED BY <1>1, <1>2, <1>3, <1>4, <1>5, Zenon DEF Next

\* The invariant holds in every state that the client, the worker and a
\* server that drops connections and loses answers can reach.
THEOREM Invariance == Spec => []TransInv
<1>1. Init => TransInv
  BY InitTransInv
<1>2. TransInv /\ [Next]_vars => TransInv'
  BY NextTransInv
<1> QED BY <1>1, <1>2, PTL DEF Spec

\* The state has the types the code declares.
THEOREM TypeCorrect == Spec => []TypeOK
<1>1. TransInv => TypeOK
  BY DEF TransInv
<1> QED BY <1>1, Invariance, PTL

\* A transaction of prepared statements is applied whole or not at all,
\* wherever the connection was lost: none of its statements reconnects, so
\* none is run outside of the server's transaction.
THEOREM PreparedAtomic == Spec => []PreparedTransactionAtomic
<1>1. TransInv => PreparedTransactionAtomic
  BY DEF TransInv
<1> QED BY <1>1, Invariance, PTL

\* An operation during which the connection was whole did what
\* SqlTransaction::Execute returned, and what TransHelper threw away is
\* never applied.
THEOREM ExactOutcome == Spec => []OutcomeIsExact
<1>1. TransInv => OutcomeIsExact
  BY DEF TransInv
<1> QED BY <1>1, Invariance, PTL

\* The server applies statements in the order of their issue; one is applied
\* a second time only when an answer was lost with the connection.
THEOREM OrderKept == Spec => []AppliedInOrder
<1>1. TransInv => AppliedInOrder
  BY DEF TransInv
<1> QED BY <1>1, Invariance, PTL

-----------------------------------------------------------------------------
(* The result queue: membership and order of its queues. *)

\* An appended element comes last and is the only one that is new.
LEMMA QueuedAppend ==
    ASSUME NEW S, NEW q \in Seq(S), NEW x, NEW i
    PROVE  Queued(i, Append(q, x)) <=> Queued(i, q) \/ i = x
<1>1. /\ Len(Append(q, x)) = Len(q) + 1 /\ Len(q) \in Nat
      /\ \A k \in 1 .. Len(q) : Append(q, x)[k] = q[k]
      /\ Append(q, x)[Len(q) + 1] = x
  BY SMTT(20)
<1>2. ASSUME Queued(i, Append(q, x)) PROVE Queued(i, q) \/ i = x
  <2>1. PICK k \in 1 .. Len(q) + 1 : Append(q, x)[k] = i
    BY <1>1, <1>2 DEF Queued
  <2>2. CASE k = Len(q) + 1
    BY <2>1, <2>2, <1>1
  <2>3. CASE k \in 1 .. Len(q)
    BY <2>1, <2>3, <1>1 DEF Queued
  <2> QED BY <2>2, <2>3, <1>1
<1>3. ASSUME Queued(i, q) PROVE Queued(i, Append(q, x))
  <2>1. PICK k \in 1 .. Len(q) : q[k] = i
    BY <1>3 DEF Queued
  <2> QED BY <2>1, <1>1 DEF Queued
<1>4. ASSUME i = x PROVE Queued(i, Append(q, x))
  BY <1>1, <1>4 DEF Queued
<1> QED BY <1>2, <1>3, <1>4

\* Taking the head leaves the other elements.
LEMMA QueuedTail ==
    ASSUME NEW S, NEW q \in Seq(S), q # <<>>, NEW i
    PROVE  Queued(i, q) <=> i = Head(q) \/ Queued(i, Tail(q))
<1>1. /\ Len(q) \in Nat \ {0} /\ Len(Tail(q)) = Len(q) - 1
      /\ Head(q) = q[1]
      /\ \A k \in 1 .. Len(Tail(q)) : Tail(q)[k] = q[k + 1]
  BY HeadTailProperties, EmptySeq, LenProperties
<1>2. ASSUME Queued(i, q) PROVE i = Head(q) \/ Queued(i, Tail(q))
  <2>1. PICK k \in 1 .. Len(q) : q[k] = i
    BY <1>2 DEF Queued
  <2>2. CASE k = 1
    BY <2>1, <2>2, <1>1
  <2>3. CASE k # 1
    <3>1. k - 1 \in 1 .. Len(Tail(q)) /\ Tail(q)[k - 1] = q[k]
      BY <2>1, <2>3, <1>1
    <3> QED BY <2>1, <3>1 DEF Queued
  <2> QED BY <2>2, <2>3
<1>3. ASSUME i = Head(q) PROVE Queued(i, q)
  BY <1>1, <1>3 DEF Queued
<1>4. ASSUME Queued(i, Tail(q)) PROVE Queued(i, q)
  <2>1. PICK k \in 1 .. Len(Tail(q)) : Tail(q)[k] = i
    BY <1>4 DEF Queued
  <2>2. k + 1 \in 1 .. Len(q) /\ q[k + 1] = i
    BY <2>1, <1>1
  <2> QED BY <2>2 DEF Queued
<1> QED BY <1>2, <1>3, <1>4

\* A number larger than all the others keeps a queue sorted.
LEMMA SortedAppend ==
    ASSUME NEW S \in SUBSET Nat, NEW q \in Seq(S), NEW x \in Nat, Sorted(q),
           \A i \in S : Queued(i, q) => i < x
    PROVE  Sorted(Append(q, x))
<1>1. /\ Len(Append(q, x)) = Len(q) + 1 /\ Len(q) \in Nat
      /\ \A k \in 1 .. Len(q) : Append(q, x)[k] = q[k] /\ q[k] \in S
      /\ Append(q, x)[Len(q) + 1] = x
  BY LenProperties, ElementOfSeq
<1>2. SUFFICES ASSUME NEW k \in 1 .. Len(q) + 1, NEW l \in 1 .. Len(q) + 1, k < l
               PROVE  Append(q, x)[k] < Append(q, x)[l]
  BY <1>1 DEF Sorted
<1>3. CASE l = Len(q) + 1
  <2>1. k \in 1 .. Len(q) /\ q[k] \in S /\ Queued(q[k], q)
    BY <1>1, <1>2, <1>3 DEF Queued
  <2> QED BY <2>1, <1>1, <1>3
<1>4. CASE l \in 1 .. Len(q)
  BY <1>1, <1>2, <1>4 DEF Sorted
<1> QED BY <1>3, <1>4, <1>1

\* A sorted queue without its head is sorted, and all of it comes after the head.
LEMMA SortedTail ==
    ASSUME NEW S \in SUBSET Nat, NEW q \in Seq(S), q # <<>>, Sorted(q)
    PROVE  /\ Sorted(Tail(q))
           /\ \A i \in S : Queued(i, Tail(q)) => Head(q) < i
<1>1. /\ Len(q) \in Nat \ {0} /\ Len(Tail(q)) = Len(q) - 1
      /\ Head(q) = q[1]
      /\ \A k \in 1 .. Len(Tail(q)) : Tail(q)[k] = q[k + 1]
  BY HeadTailProperties, EmptySeq, LenProperties
<1>2. Sorted(Tail(q))
  BY <1>1 DEF Sorted
<1>3. ASSUME NEW i \in S, Queued(i, Tail(q)) PROVE Head(q) < i
  <2>1. PICK k \in 1 .. Len(Tail(q)) : Tail(q)[k] = i
    BY <1>3 DEF Queued
  <2> QED BY <2>1, <1>1 DEF Sorted
<1> QED BY <1>2, <1>3

\* Taking the head of a queue: the types of what is taken and of what stays.
LEMMA QueueTail ==
    ASSUME NEW S, NEW q \in Seq(S), q # <<>>
    PROVE  Tail(q) \in Seq(S) /\ Head(q) \in S
BY HeadTailProperties

-----------------------------------------------------------------------------
\* Where a callback that has not run waits.
Held(c) == Queued(c, queue) \/ Queued(c, deferred) \/ c \in load \/ c \in left

HeldInv ==
    /\ \A c \in Callbacks : ran[c] \in {0, 1}
    /\ \A c \in Callbacks : c \notin Arrived => ran[c] = 0
    /\ \A c \in Arrived : ran[c] = 0 <=> Held(c)

\* No callback is in two places.
OnePlaceInv ==
    /\ \A c \in Arrived : Queued(c, queue) => ~Queued(c, deferred) /\ c \notin load /\ c \notin left
    /\ \A c \in Arrived : Queued(c, deferred) => Unsafe(c) /\ c \notin load /\ c \notin left
    /\ \A c \in Arrived : c \in load \/ c \in left => ~Unsafe(c)

\* Everything deferred arrived before everything queued.
OrderInv ==
    /\ Sorted(queue)
    /\ Sorted(deferred)
    /\ \A c, d \in Arrived : Queued(c, deferred) /\ Queued(d, queue) => c < d

\* What each part of Update has and leaves.
PhaseInv ==
    /\ ~waiting => left = {}
    /\ load # {} => updater = "drain"
    /\ updater \in {"idle", "drain", "cancel", "closed"} => ~waiting
    /\ ~Timeout /\ updater \notin {"drain", "unsafe"} => deferred = <<>>

ResultsInv == ResultsTypeOK /\ HeldInv /\ OnePlaceInv /\ OrderInv /\ PhaseInv /\ UnsafeInOrder

-----------------------------------------------------------------------------
\* What arrived is numbered from 1, within the bound.
LEMMA ArrivedCallbacks ==
    ASSUME ResultsTypeOK
    PROVE  /\ Len(arrived) \in Nat
           /\ Arrived \subseteq Callbacks
           /\ Arrived \in SUBSET Nat
BY LenProperties, CallbacksAssumption DEF ResultsTypeOK, Arrived, Callbacks

\* Nothing has arrived when the queue is made.
LEMMA InitResultsInv == ResultsInit => ResultsInv
<1> SUFFICES ASSUME ResultsInit PROVE ResultsInv
  OBVIOUS
<1>1. Arrived = {} /\ Len(<<>>) = 0
  BY DEF ResultsInit, Arrived
<1>2. ResultsTypeOK
  <2>1. <<>> \in Seq(Arrived) /\ <<>> \in Seq({"safe", "unsafe"}) /\ Len(<<>>) <= MaxCallbacks
    BY <1>1, CallbacksAssumption, EmptySeq
  <2> QED BY <2>1 DEF ResultsInit, Pool!Init, ResultsTypeOK, Callbacks, PCs
<1>3. HeldInv
  BY <1>1 DEF ResultsInit, HeldInv
<1>4. OnePlaceInv /\ UnsafeInOrder
  BY <1>1 DEF OnePlaceInv, UnsafeInOrder
<1>5. OrderInv
  BY <1>1 DEF ResultsInit, OrderInv, Sorted
<1>6. PhaseInv
  BY DEF ResultsInit, Pool!Init, PhaseInv
<1> QED BY <1>2, <1>3, <1>4, <1>5, <1>6 DEF ResultsInv

\* A worker's callback is the youngest and goes to the end of the queue.
LEMMA AddCallbackInv ==
    ASSUME ResultsInv, NEW kind \in {"safe", "unsafe"}, AddCallback(kind)
    PROVE  ResultsInv'
<1> DEFINE id == Len(arrived) + 1
<1>1. /\ Len(arrived) \in Nat /\ Len(arrived') = id /\ arrived' \in Seq({"safe", "unsafe"})
      /\ \A c \in Arrived : arrived'[c] = arrived[c]
      /\ arrived'[id] = kind
  BY AppendProperties, LenProperties DEF ResultsInv, ResultsTypeOK, AddCallback, Arrived
<1>2. /\ Arrived' = Arrived \union {id} /\ id \notin Arrived /\ id \in Nat /\ id \in Callbacks
      /\ \A c \in Arrived : c < id
      /\ \A c \in Arrived : Unsafe(c)' <=> Unsafe(c)
  BY <1>1, CallbacksAssumption DEF ResultsInv, ResultsTypeOK, AddCallback, Arrived, Callbacks, Unsafe
<1>3. /\ queue \in Seq(Arrived) /\ deferred \in Seq(Arrived)
      /\ queue' = Append(queue, id) /\ UNCHANGED <<deferred, load, waiting, left, ran, updater>>
  BY DEF ResultsInv, ResultsTypeOK, AddCallback
<1>4. /\ \A c : Queued(c, queue') <=> Queued(c, queue) \/ c = id
      /\ ~Queued(id, queue) /\ ~Queued(id, deferred) /\ id \notin load /\ id \notin left
  <2>1. \A c : Queued(c, queue') <=> Queued(c, queue) \/ c = id
    BY <1>3, QueuedAppend
  <2>2. \A q \in Seq(Arrived) : ~Queued(id, q)
    BY <1>2, ElementOfSeq DEF Queued
  <2> QED BY <2>1, <2>2, <1>2, <1>3 DEF ResultsInv, ResultsTypeOK
<1>5. ResultsTypeOK'
  <2>1. queue \in Seq(Arrived') /\ deferred \in Seq(Arrived')
    BY <1>2, <1>3, SeqMonotonic
  <2>2. queue' \in Seq(Arrived')
    BY <2>1, <1>2, <1>3, AppendProperties
  <2>3. Len(arrived') <= MaxCallbacks
    BY <1>1, CallbacksAssumption DEF AddCallback
  <2>4. load \subseteq Arrived' /\ left \subseteq Arrived'
    BY <1>2 DEF ResultsInv, ResultsTypeOK
  <2>5. waiting \in BOOLEAN /\ ran \in [Callbacks -> Nat] /\ updater \in PCs
    BY DEF ResultsInv, ResultsTypeOK
  <2> QED BY <2>1, <2>2, <2>3, <2>4, <2>5, <1>1, <1>3 DEF ResultsTypeOK
<1>6. HeldInv'
  BY <1>2, <1>3, <1>4 DEF ResultsInv, HeldInv, Held
<1>7. OnePlaceInv'
  BY <1>2, <1>3, <1>4 DEF ResultsInv, OnePlaceInv
<1>8. OrderInv'
  <2>1. Sorted(queue')
    BY <1>2, <1>3, SortedAppend, ArrivedCallbacks DEF ResultsInv, OrderInv
  <2> QED BY <2>1, <1>2, <1>3, <1>4 DEF ResultsInv, OrderInv
<1>9. PhaseInv'
  BY <1>3 DEF ResultsInv, PhaseInv
<1>10. UnsafeInOrder'
  <2>1. ran[id] = 0
    BY <1>2 DEF ResultsInv, HeldInv
  <2>2. ASSUME NEW c \in Arrived', NEW d \in Arrived', c < d, Unsafe(c)', Unsafe(d)', ran[d] > 0
        PROVE  c \in Arrived /\ d \in Arrived /\ Unsafe(c) /\ Unsafe(d)
    <3>1. d # id
      BY <2>1, <2>2
    <3>2. d \in Arrived /\ d < id
      BY <3>1, <2>2, <1>2
    <3>3. c \in Nat /\ d \in Nat /\ c # id
      BY <3>2, <2>2, <1>2 DEF Arrived
    <3> QED BY <3>2, <3>3, <2>2, <1>2
  <2> QED BY <2>2, <1>3 DEF ResultsInv, UnsafeInOrder
<1> QED BY <1>5, <1>6, <1>7, <1>8, <1>9, <1>10 DEF ResultsInv

\* What a step leaves when it moves no callback.
LEMMA NothingMoves ==
    ASSUME ResultsInv, UNCHANGED <<arrived, queue, deferred, load, left, ran>>,
           waiting' \in BOOLEAN, updater' \in PCs,
           updater \in {"cancel", "closed"} => updater' \in {"cancel", "closed"},
           PhaseInv'
    PROVE  ResultsInv'
<1>1. Arrived' = Arrived /\ \A c : Unsafe(c)' <=> Unsafe(c)
  BY DEF Arrived, Unsafe
<1>2. ResultsTypeOK'
  BY <1>1 DEF ResultsInv, ResultsTypeOK
<1>3. HeldInv' /\ OnePlaceInv' /\ OrderInv'
  BY <1>1 DEF ResultsInv, HeldInv, OnePlaceInv, OrderInv, Held
<1>4. UnsafeInOrder'
  BY <1>1 DEF ResultsInv, UnsafeInOrder
<1> QED BY <1>2, <1>3, <1>4 DEF ResultsInv

\* The head of the queue is the oldest there and is nowhere else; what is taken
\* from it is deferred behind what is older.
LEMMA RouteInv ==
    ASSUME ResultsInv, Route
    PROVE  ResultsInv'
<1> DEFINE h == Head(queue)
<1>1. Arrived' = Arrived /\ \A c : Unsafe(c)' <=> Unsafe(c)
  BY DEF Route, Arrived, Unsafe
<1>2. queue \in Seq(Arrived) /\ queue # <<>> /\ Sorted(queue)
  BY DEF ResultsInv, ResultsTypeOK, OrderInv, Route
<1>3. /\ h \in Arrived /\ Tail(queue) \in Seq(Arrived) /\ Sorted(Tail(queue))
      /\ \A c : Queued(c, queue) <=> c = h \/ Queued(c, Tail(queue))
      /\ \A c \in Arrived : Queued(c, Tail(queue)) => h < c
  BY <1>2, QueueTail, QueuedTail, SortedTail, ArrivedCallbacks DEF ResultsInv
<1>4. queue' = Tail(queue) /\ UNCHANGED <<arrived, waiting, left, ran, updater>>
  BY DEF Route
<1>5. Arrived \subseteq Nat
  BY DEF Arrived
<1>6. deferred \in Seq(Arrived) /\ Sorted(deferred)
  BY DEF ResultsInv, ResultsTypeOK, OrderInv
<1> HIDE DEF h
<1>7. CASE Unsafe(h)
  <2>1. deferred' = Append(deferred, h) /\ load' = load
    BY <1>7 DEF Route, h
  <2>2. \A c : Queued(c, deferred') <=> Queued(c, deferred) \/ c = h
    BY <2>1, <1>6, QueuedAppend
  <2>3. ResultsTypeOK'
    <3>1. deferred' \in Seq(Arrived)
      BY <2>1, <1>3, <1>6, AppendProperties
    <3> QED BY <3>1, <2>1, <1>1, <1>3, <1>4 DEF ResultsInv, ResultsTypeOK
  <2>4. HeldInv'
    BY <2>1, <2>2, <1>1, <1>3, <1>4 DEF ResultsInv, HeldInv, Held
  <2>5. OnePlaceInv'
    <3>1. ~Queued(h, Tail(queue))
      BY <1>3, <1>5
    <3> QED BY <3>1, <2>1, <2>2, <1>1, <1>3, <1>4, <1>7 DEF ResultsInv, OnePlaceInv
  <2>6. OrderInv'
    <3>1. \A c \in Arrived : Queued(c, deferred) => c < h
      BY <1>3 DEF ResultsInv, OrderInv
    <3>2. Sorted(deferred')
      BY <3>1, <2>1, <1>3, <1>5, <1>6, SortedAppend
    <3> QED BY <3>2, <2>2, <1>1, <1>3, <1>4 DEF ResultsInv, OrderInv
  <2>7. PhaseInv'
    BY <2>1, <1>4 DEF Route, ResultsInv, PhaseInv
  <2>8. UnsafeInOrder'
    BY <1>1, <1>4 DEF ResultsInv, UnsafeInOrder
  <2> QED BY <2>3, <2>4, <2>5, <2>6, <2>7, <2>8 DEF ResultsInv
<1>8. CASE ~Unsafe(h)
  <2>1. deferred' = deferred /\ load' = load \union {h}
    BY <1>8 DEF Route, h
  <2>2. ResultsTypeOK'
    BY <2>1, <1>1, <1>3, <1>4 DEF ResultsInv, ResultsTypeOK
  <2>3. HeldInv'
    BY <2>1, <1>1, <1>3, <1>4 DEF ResultsInv, HeldInv, Held
  <2>4. OnePlaceInv'
    <3>1. ~Queued(h, Tail(queue))
      BY <1>3, <1>5
    <3> QED BY <3>1, <2>1, <1>1, <1>3, <1>4, <1>8 DEF ResultsInv, OnePlaceInv
  <2>5. OrderInv'
    BY <2>1, <1>1, <1>3, <1>4 DEF ResultsInv, OrderInv
  <2>6. PhaseInv'
    BY <2>1, <1>4 DEF Route, ResultsInv, PhaseInv
  <2>7. UnsafeInOrder'
    BY <1>1, <1>4 DEF ResultsInv, UnsafeInOrder
  <2> QED BY <2>2, <2>3, <2>4, <2>5, <2>6, <2>7 DEF ResultsInv
<1> QED BY <1>7, <1>8

\* The load becomes the batch of the pool, which has none yet.
LEMMA ProcessWorkloadInv ==
    ASSUME ResultsInv, ProcessWorkload
    PROVE  ResultsInv'
<1>1. Arrived' = Arrived /\ \A c : Unsafe(c)' <=> Unsafe(c)
  BY DEF ProcessWorkload, Arrived, Unsafe
<1>2. left = {} /\ ~waiting
  BY DEF ResultsInv, PhaseInv, ProcessWorkload
<1>3. /\ left' = load /\ load' = {} /\ updater' = "unsafe" /\ waiting' \in BOOLEAN
      /\ ~waiting' => left' = {}
      /\ UNCHANGED <<arrived, queue, deferred, ran>>
  <2>1. CASE load = {}
    BY <1>2, <2>1 DEF ProcessWorkload, ResultsInv, ResultsTypeOK
  <2>2. CASE load # {}
    BY <2>2 DEF ProcessWorkload, Pool!Submit
  <2> QED BY <2>1, <2>2
<1>4. ResultsTypeOK'
  BY <1>1, <1>3 DEF ResultsInv, ResultsTypeOK, PCs
<1>5. HeldInv'
  BY <1>1, <1>2, <1>3 DEF ResultsInv, HeldInv, Held
<1>6. OnePlaceInv' /\ OrderInv'
  BY <1>1, <1>2, <1>3 DEF ResultsInv, OnePlaceInv, OrderInv
<1>7. PhaseInv'
  BY <1>3 DEF PhaseInv
<1>8. UnsafeInOrder'
  BY <1>1, <1>3 DEF ResultsInv, UnsafeInOrder, ProcessWorkload
<1> QED BY <1>4, <1>5, <1>6, <1>7, <1>8 DEF ResultsInv

\* Executing a callback that has not run: it has run once then, the others as before.
LEMMA RunCallbackOnce ==
    ASSUME ResultsInv, NEW c \in Arrived, Held(c), RunCallback(c)
    PROVE  /\ ran' \in [Callbacks -> Nat]
           /\ ran'[c] = 1
           /\ \A d \in Callbacks : d # c => ran'[d] = ran[d]
<1>1. c \in Callbacks /\ ran[c] = 0 /\ ran \in [Callbacks -> Nat]
  BY ArrivedCallbacks DEF ResultsInv, HeldInv, ResultsTypeOK
<1> QED BY <1>1 DEF RunCallback

\* A thread of the pool runs a callback of the batch, which is thread-safe.
LEMMA RunSafeInv ==
    ASSUME ResultsInv, NEW c \in Callbacks, RunSafe(c)
    PROVE  ResultsInv'
<1>1. Arrived' = Arrived /\ \A d : Unsafe(d)' <=> Unsafe(d)
  BY DEF RunSafe, Arrived, Unsafe
<1>2. /\ waiting /\ c \in left /\ left' = left \ {c}
      /\ UNCHANGED <<arrived, queue, deferred, load, waiting, updater>>
  BY DEF RunSafe, Pool!Run
<1>3. c \in Arrived /\ Held(c) /\ ~Unsafe(c) /\ ~Queued(c, queue) /\ ~Queued(c, deferred)
  BY <1>2 DEF ResultsInv, ResultsTypeOK, Held, OnePlaceInv
<1>4. /\ ran' \in [Callbacks -> Nat] /\ ran'[c] = 1
      /\ \A d \in Callbacks : d # c => ran'[d] = ran[d]
  BY <1>3, RunCallbackOnce DEF RunSafe
<1>5. c \notin load
  BY <1>2 DEF ResultsInv, PhaseInv
<1>6. ResultsTypeOK'
  BY <1>1, <1>2, <1>4 DEF ResultsInv, ResultsTypeOK
<1>7. HeldInv'
  BY <1>1, <1>2, <1>3, <1>4, <1>5, ArrivedCallbacks DEF ResultsInv, HeldInv, Held
<1>8. OnePlaceInv' /\ OrderInv'
  BY <1>1, <1>2 DEF ResultsInv, OnePlaceInv, OrderInv
<1>9. PhaseInv'
  BY <1>2 DEF ResultsInv, PhaseInv
<1>10. UnsafeInOrder'
  BY <1>1, <1>2, <1>3, <1>4, ArrivedCallbacks DEF ResultsInv, UnsafeInOrder
<1> QED BY <1>6, <1>7, <1>8, <1>9, <1>10 DEF ResultsInv

\* A callback that is not thread-safe and older than the head of what is
\* deferred has run: anything older that had not would be held before it.
LEMMA OlderHasRun ==
    ASSUME ResultsInv, deferred # <<>>, NEW c \in Arrived, c < Head(deferred), Unsafe(c)
    PROVE  ran[c] > 0
<1> DEFINE h == Head(deferred)
<1>1. deferred \in Seq(Arrived) /\ Sorted(deferred) /\ Arrived \subseteq Nat
  BY DEF ResultsInv, ResultsTypeOK, OrderInv, Arrived
<1>2. /\ h \in Arrived
      /\ \A d : Queued(d, deferred) <=> d = h \/ Queued(d, Tail(deferred))
      /\ \A d \in Arrived : Queued(d, Tail(deferred)) => h < d
  BY <1>1, QueueTail, QueuedTail, SortedTail
<1>3. c < h
  OBVIOUS
<1> HIDE DEF h
<1>4. c # h /\ ~(h < c)
  BY <1>3, <1>1, <1>2
<1>5. ~Queued(c, deferred)
  BY <1>4, <1>2
<1>6. ~Queued(c, queue)
  BY <1>4, <1>2 DEF ResultsInv, OrderInv
<1>7. ~Held(c)
  BY <1>5, <1>6 DEF ResultsInv, OnePlaceInv, Held
<1> QED BY <1>7, ArrivedCallbacks DEF ResultsInv, HeldInv

\* The world thread runs the oldest of what is deferred.
LEMMA RunUnsafeInv ==
    ASSUME ResultsInv, NEW timeUp \in BOOLEAN, RunUnsafe(timeUp)
    PROVE  ResultsInv'
<1> DEFINE h == Head(deferred)
<1>1. Arrived' = Arrived /\ (\A d : Unsafe(d)' <=> Unsafe(d)) /\ Arrived \subseteq Nat
  BY DEF RunUnsafe, Arrived, Unsafe
<1>2. deferred \in Seq(Arrived) /\ deferred # <<>> /\ Sorted(deferred)
  BY DEF ResultsInv, ResultsTypeOK, OrderInv, RunUnsafe
<1>3. /\ h \in Arrived /\ Tail(deferred) \in Seq(Arrived) /\ Sorted(Tail(deferred))
      /\ \A c : Queued(c, deferred) <=> c = h \/ Queued(c, Tail(deferred))
      /\ \A c \in Arrived : Queued(c, Tail(deferred)) => h < c
  BY <1>1, <1>2, QueueTail, QueuedTail, SortedTail
<1>4. /\ deferred' = Tail(deferred) /\ updater = "unsafe" /\ updater' \in {"wait", "unsafe"}
      /\ updater' = "wait" => Timeout
      /\ UNCHANGED <<arrived, queue, load, waiting, left>>
  BY DEF RunUnsafe
<1>5. \A c \in Arrived : c < h /\ Unsafe(c) => ran[c] > 0
  BY <1>2, OlderHasRun
<1>6. Held(h) /\ RunCallback(h)
  BY <1>3 DEF Held, RunUnsafe
<1> HIDE DEF h
<1>7. /\ ran' \in [Callbacks -> Nat] /\ ran'[h] = 1
      /\ \A d \in Callbacks : d # h => ran'[d] = ran[d]
  BY <1>3, <1>6, RunCallbackOnce
<1>8. ~Queued(h, Tail(deferred)) /\ ~Queued(h, queue) /\ h \notin load /\ h \notin left
  BY <1>1, <1>3 DEF ResultsInv, OnePlaceInv
<1>9. ResultsTypeOK'
  BY <1>1, <1>3, <1>4, <1>7 DEF ResultsInv, ResultsTypeOK, PCs
<1>10. HeldInv'
  BY <1>1, <1>3, <1>4, <1>7, <1>8, ArrivedCallbacks DEF ResultsInv, HeldInv, Held
<1>11. OnePlaceInv' /\ OrderInv'
  BY <1>1, <1>3, <1>4 DEF ResultsInv, OnePlaceInv, OrderInv
<1>12. PhaseInv'
  BY <1>4 DEF ResultsInv, PhaseInv
<1>13. UnsafeInOrder'
  <2>1. SUFFICES ASSUME NEW c \in Arrived, NEW d \in Arrived,
                        c < d, Unsafe(c), Unsafe(d), ran'[d] > 0
                 PROVE  ran'[c] > 0
    BY <1>1 DEF UnsafeInOrder
  <2>2. c \in Callbacks /\ d \in Callbacks
    BY ArrivedCallbacks DEF ResultsInv
  <2>3. CASE c = h
    BY <2>3, <1>7
  <2>4. CASE c # h /\ d = h
    BY <2>1, <2>2, <2>4, <1>5, <1>7
  <2>5. CASE c # h /\ d # h
    BY <2>1, <2>2, <2>5, <1>4, <1>7 DEF ResultsInv, UnsafeInOrder
  <2> QED BY <2>3, <2>4, <2>5
<1> QED BY <1>9, <1>10, <1>11, <1>12, <1>13 DEF ResultsInv

\* CancelAll runs the head of the queue; without a time-out nothing is deferred.
LEMMA CancelNextInv ==
    ASSUME ResultsInv, CancelNext
    PROVE  ResultsInv'
<1> DEFINE h == Head(queue)
<1>1. Arrived' = Arrived /\ (\A d : Unsafe(d)' <=> Unsafe(d)) /\ Arrived \subseteq Nat
  BY DEF CancelNext, Arrived, Unsafe
<1>2. queue \in Seq(Arrived) /\ queue # <<>> /\ Sorted(queue)
  BY DEF ResultsInv, ResultsTypeOK, OrderInv, CancelNext
<1>3. /\ h \in Arrived /\ Tail(queue) \in Seq(Arrived) /\ Sorted(Tail(queue))
      /\ \A c : Queued(c, queue) <=> c = h \/ Queued(c, Tail(queue))
      /\ \A c \in Arrived : Queued(c, Tail(queue)) => h < c
  BY <1>1, <1>2, QueueTail, QueuedTail, SortedTail
<1>4. /\ queue' = Tail(queue) /\ updater = "cancel"
      /\ UNCHANGED <<arrived, deferred, load, waiting, left, updater>>
  BY DEF CancelNext
<1>5. Held(h) /\ RunCallback(h)
  BY <1>3 DEF Held, CancelNext
<1> HIDE DEF h
<1>6. /\ ran' \in [Callbacks -> Nat] /\ ran'[h] = 1
      /\ \A d \in Callbacks : d # h => ran'[d] = ran[d]
  BY <1>3, <1>5, RunCallbackOnce
<1>7. ~Queued(h, Tail(queue)) /\ ~Queued(h, deferred) /\ h \notin load /\ h \notin left
  BY <1>1, <1>3 DEF ResultsInv, OnePlaceInv
<1>8. ResultsTypeOK'
  BY <1>1, <1>3, <1>4, <1>6 DEF ResultsInv, ResultsTypeOK
<1>9. HeldInv'
  BY <1>1, <1>3, <1>4, <1>6, <1>7, ArrivedCallbacks DEF ResultsInv, HeldInv, Held
<1>10. OnePlaceInv' /\ OrderInv'
  BY <1>1, <1>3, <1>4 DEF ResultsInv, OnePlaceInv, OrderInv
<1>11. PhaseInv'
  BY <1>4 DEF ResultsInv, PhaseInv
<1>12. UnsafeInOrder'
  <2>1. SUFFICES ASSUME ~Timeout, NEW c \in Arrived, NEW d \in Arrived,
                        c < d, Unsafe(c), Unsafe(d), ran'[d] > 0
                 PROVE  ran'[c] > 0
    BY <1>1, <1>4, TimeoutAssumption DEF UnsafeInOrder
  <2>2. c \in Callbacks /\ d \in Callbacks
    BY ArrivedCallbacks DEF ResultsInv
  <2>3. CASE c = h
    BY <2>3, <1>6
  <2>4. CASE c # h /\ d = h
    <3>1. deferred = <<>> /\ deferred \in Seq(Arrived)
      BY <2>1, <1>4 DEF ResultsInv, PhaseInv, ResultsTypeOK
    <3>2. ~Queued(c, deferred)
      BY <3>1 DEF Queued
    <3>3. ~Queued(c, queue)
      BY <2>1, <2>4, <1>1, <1>3
    <3>4. ~Held(c)
      BY <3>2, <3>3, <2>1 DEF ResultsInv, OnePlaceInv, Held
    <3> QED BY <3>4, <2>2, <2>4, <1>6 DEF ResultsInv, HeldInv
  <2>5. CASE c # h /\ d # h
    BY <2>1, <2>2, <2>5, <1>6 DEF ResultsInv, UnsafeInOrder
  <2> QED BY <2>3, <2>4, <2>5
<1> QED BY <1>8, <1>9, <1>10, <1>11, <1>12 DEF ResultsInv

\* Every step keeps the invariant.
LEMMA NextResultsInv == ResultsInv /\ [ResultsNext]_resultsVars => ResultsInv'
<1> SUFFICES ASSUME ResultsInv, [ResultsNext]_resultsVars PROVE ResultsInv'
  OBVIOUS
<1>0. updater \in PCs /\ waiting \in BOOLEAN
  BY DEF ResultsInv, ResultsTypeOK
<1>1. CASE \E kind \in {"safe", "unsafe"} : AddCallback(kind)
  BY <1>1, AddCallbackInv
<1>2. CASE BeginUpdate
  BY <1>0, <1>2, NothingMoves DEF BeginUpdate, ResultsInv, PhaseInv, PCs
<1>3. CASE Route
  BY <1>3, RouteInv
<1>4. CASE ProcessWorkload
  BY <1>4, ProcessWorkloadInv
<1>5. CASE \E timeUp \in BOOLEAN : RunUnsafe(timeUp)
  BY <1>5, RunUnsafeInv
<1>6. CASE NoUnsafeLeft
  BY <1>0, <1>6, NothingMoves DEF NoUnsafeLeft, ResultsInv, PhaseInv, PCs
<1>7. CASE EndUpdate
  BY <1>0, <1>7, NothingMoves DEF EndUpdate, Pool!Return, ResultsInv, PhaseInv, PCs
<1>8. CASE \E c \in Callbacks : RunSafe(c)
  BY <1>8, RunSafeInv
<1>9. CASE StopServer
  BY <1>0, <1>9, NothingMoves DEF StopServer, ResultsInv, PhaseInv, PCs
<1>10. CASE CancelNext
  BY <1>10, CancelNextInv
<1>11. CASE Close
  BY <1>0, <1>11, NothingMoves DEF Close, ResultsInv, PhaseInv, PCs
<1>12. CASE UNCHANGED resultsVars
  BY <1>0, <1>12, NothingMoves DEF resultsVars, ResultsInv, PhaseInv
<1> QED BY <1>1, <1>2, <1>3, <1>4, <1>5, <1>6, <1>7, <1>8, <1>9, <1>10, <1>11, <1>12
        DEF ResultsNext, WorldStep

-----------------------------------------------------------------------------
\* The invariant holds in every state the result queue can reach.
THEOREM ResultsInvariance == ResultsSpec => []ResultsInv
<1>1. ResultsInv /\ [ResultsNext]_resultsVars => ResultsInv'
  BY NextResultsInv
<1> QED BY <1>1, InitResultsInv, PTL DEF ResultsSpec

\* The state has its types, whatever the number of callbacks.
THEOREM ResultsTypeCorrect == ResultsSpec => []ResultsTypeOK
<1>1. ResultsInv => ResultsTypeOK
  BY DEF ResultsInv
<1> QED BY <1>1, ResultsInvariance, PTL

\* No callback is lost between the result queue, what a time-out deferred and
\* what was given to the pool, and none, which deletes itself, is executed a
\* second time.
THEOREM Once == ResultsSpec => []CallbackOnce
<1>1. ResultsInv => CallbackOnce
  BY ArrivedCallbacks DEF ResultsInv, HeldInv, Held, ResultsTypeOK, CallbackOnce
<1> QED BY <1>1, ResultsInvariance, PTL

\* Callbacks that are not thread-safe run in the order of arrival.
THEOREM InOrder == ResultsSpec => []UnsafeInOrder
<1>1. ResultsInv => UnsafeInOrder
  BY DEF ResultsInv
<1> QED BY <1>1, ResultsInvariance, PTL

\* The pool is idle while the world thread is outside of Update.
THEOREM Quiet == ResultsSpec => []QuietOutsideUpdate
<1>1. ResultsInv => QuietOutsideUpdate
  BY DEF ResultsInv, PhaseInv, QuietOutsideUpdate
<1> QED BY <1>1, ResultsInvariance, PTL
=============================================================================
