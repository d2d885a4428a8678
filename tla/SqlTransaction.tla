--------------------------- MODULE SqlTransaction ---------------------------
(***************************************************************************)
(* What becomes of the statements themselves: one client thread gathers    *)
(* them in a transaction, one worker runs SqlTransaction::Execute on its   *)
(* MySQLConnection, and the server may drop the connection at any time,    *)
(* answer with an error, or be unreachable when the worker reconnects.     *)
(*                                                                         *)
(* A statement is its number, in the order the client issued them, and     *)
(* whether it is a prepared one: only plain statements go through          *)
(* MySQLConnection::Execute, which reconnects and tries again.             *)
(***************************************************************************)
EXTENDS Integers, Sequences

CONSTANTS
    MaxStmts,    \* bound: statements issued
    MaxLosses,   \* bound: times the server drops the connection
    MaxQueue     \* bound: operations waiting in the delay queue

ASSUME BoundsAssumption == MaxStmts \in Nat /\ MaxLosses \in Nat /\ MaxQueue \in Nat

VARIABLES
    inTrans,     \* the client thread has an open transaction (TransHelper)
    body,        \* SqlTransaction::m_queue of the open transaction
    stmts,       \* statements issued so far
    discarded,   \* statements the client rolled back
    delayQueue,  \* operations committed and not yet taken by the worker
    op,          \* the operation the worker executes
    index,       \* loop index in SqlTransaction::Execute
    pc,          \* where the worker is
    handle,      \* MySQLConnection::mMysql is not null
    link,        \* the server still has the session behind the handle
    inTx,        \* server: the session has an explicit transaction open
    pending,     \* server: what that transaction has changed so far
    durable,     \* server: statements applied for good, in order
    losses,      \* connections lost so far
    disturbed,   \* the connection was not whole during the whole of op
    outcomes     \* for each operation that ended: what it was and returned

vars == <<inTrans, body, stmts, discarded, delayQueue, op, index, pc, handle,
          link, inTx, pending, durable, losses, disturbed, outcomes>>

clientVars  == <<inTrans, body, stmts, discarded>>
sessionVars == <<link, inTx, pending, durable>>
workerVars  == <<op, index, pc, handle, disturbed, outcomes>>

Stmt == [n: 1 .. MaxStmts, prepared: BOOLEAN]

\* A SqlTransaction, or a SqlPlainRequest or SqlPreparedRequest on its own.
Operation == [trans: BOOLEAN, body: Seq(Stmt)]
NoOp == [trans |-> FALSE, body |-> <<>>]

-----------------------------------------------------------------------------
BeginTransaction ==
    /\ ~inTrans
    /\ inTrans' = TRUE
    /\ UNCHANGED <<body, stmts, discarded, delayQueue, losses, sessionVars, workerVars>>

Execute(prepared) ==
    /\ stmts < MaxStmts
    /\ stmts' = stmts + 1
    /\ LET stmt == [n |-> stmts + 1, prepared |-> prepared] IN
       IF inTrans
       THEN body' = Append(body, stmt) /\ UNCHANGED delayQueue
       ELSE /\ Len(delayQueue) < MaxQueue
            /\ delayQueue' = Append(delayQueue, [trans |-> FALSE, body |-> <<stmt>>])
            /\ UNCHANGED body
    /\ UNCHANGED <<inTrans, discarded, losses, sessionVars, workerVars>>

CommitTransaction ==
    /\ inTrans
    /\ Len(delayQueue) < MaxQueue
    /\ delayQueue' = Append(delayQueue, [trans |-> TRUE, body |-> body])
    /\ inTrans' = FALSE
    /\ body' = <<>>
    /\ UNCHANGED <<stmts, discarded, losses, sessionVars, workerVars>>

RollbackTransaction ==
    /\ inTrans
    /\ discarded' = discarded \union {body[k].n : k \in 1 .. Len(body)}
    /\ inTrans' = FALSE
    /\ body' = <<>>
    /\ UNCHANGED <<stmts, delayQueue, losses, sessionVars, workerVars>>

-----------------------------------------------------------------------------
\* The session is gone: the server rolls back what was not committed.
Dropped == link' = FALSE /\ inTx' = FALSE /\ pending' = <<>>

\* The server restarts, or the network or wait_timeout ends the session.
LoseConnection ==
    /\ link
    /\ losses < MaxLosses
    /\ losses' = losses + 1
    /\ Dropped
    /\ disturbed' = TRUE
    /\ UNCHANGED <<clientVars, delayQueue, op, index, pc, handle, durable, outcomes>>

\* The server carries out one statement.
Apply(stmt) ==
    IF inTx
    THEN pending' = Append(pending, stmt.n) /\ UNCHANGED <<inTx, durable>>
    ELSE durable' = Append(durable, stmt.n) /\ UNCHANGED <<inTx, pending>>

\* mysql_close and Reconnect; a handle that cannot be opened stays null.
\* A new session is in autocommit mode and in no transaction.
Reconnect(ok) ==
    /\ handle' = ok
    /\ link' = ok
    /\ UNCHANGED <<inTx, pending, durable>>

-----------------------------------------------------------------------------
Whole == handle /\ link

\* The operation is over: the worker deletes it, whatever it returned.
End(ok) ==
    /\ pc' = "idle"
    /\ op' = NoOp
    /\ index' = 1
    /\ outcomes' = Append(outcomes,
           [trans |-> op.trans, ok |-> ok, disturbed |-> disturbed,
            prepared |-> \A k \in 1 .. Len(op.body) : op.body[k].prepared,
            body |-> {op.body[k].n : k \in 1 .. Len(op.body)}])

\* A plausible slip: the youngest operation is taken first.
TakeOperation_takes_last ==
    /\ pc = "idle"
    /\ delayQueue # <<>>
    /\ LET last == delayQueue[Len(delayQueue)] IN
       /\ delayQueue' = SubSeq(delayQueue, 1, Len(delayQueue) - 1)
       /\ IF last.body = <<>>
          THEN UNCHANGED <<op, pc, disturbed>>
          ELSE /\ op' = last
               /\ pc' = IF last.trans THEN "begin" ELSE "statement"
               /\ disturbed' = ~Whole
    /\ UNCHANGED <<clientVars, index, handle, losses, sessionVars, outcomes>>

\* ProcessRequests takes an operation.  An empty transaction returns true
\* without a word to the server.
TakeOperation ==
    /\ pc = "idle"
    /\ delayQueue # <<>>
    /\ delayQueue' = Tail(delayQueue)
    /\ IF Head(delayQueue).body = <<>>
       THEN UNCHANGED <<op, pc, disturbed>>
       ELSE /\ op' = Head(delayQueue)
            /\ pc' = IF op'.trans THEN "begin" ELSE "statement"
            /\ disturbed' = ~Whole
    /\ UNCHANGED <<clientVars, index, handle, losses, sessionVars, outcomes>>

\* _TransactionCmd does not look at mMysql: with a null handle mysql_query
\* is undefined, and the process dies.
Crash ==
    /\ pc \in {"begin", "rollback"}
    /\ ~handle
    /\ pc' = "crashed"
    /\ UNCHANGED <<clientVars, delayQueue, op, index, handle, disturbed, outcomes,
                   losses, sessionVars>>

\* conn->BeginTransaction(): when the command fails that is logged only.
StartTransaction ==
    /\ pc = "begin"
    /\ handle
    /\ pc' = "statement"
    /\ inTx' = link
    /\ UNCHANGED <<clientVars, delayQueue, op, index, handle, disturbed, outcomes,
                   losses, link, pending, durable>>

\* A plausible slip: the loop goes on after a statement that failed.
StatementReturns_ignores_failure(ok) ==
    IF ~op.trans THEN End(ok)
    ELSE /\ index' = IF index < Len(op.body) THEN index + 1 ELSE index
         /\ pc' = IF index < Len(op.body) THEN "statement" ELSE "commit"
         /\ UNCHANGED <<op, outcomes>>

\* pStmt->Execute(conn) returned ok.
StatementReturns(ok) ==
    IF ~op.trans THEN End(ok)
    ELSE /\ index' = IF ok /\ index < Len(op.body) THEN index + 1 ELSE index
         /\ pc' = IF ~ok THEN "rollback"
                  ELSE IF index < Len(op.body) THEN "statement" ELSE "commit"
         /\ UNCHANGED <<op, outcomes>>

\* The server runs the statement.
StatementSucceeds ==
    /\ pc = "statement"
    /\ Whole
    /\ Apply(op.body[index])
    /\ StatementReturns(TRUE)
    /\ UNCHANGED <<clientVars, delayQueue, handle, link, losses, disturbed>>

\* The server refuses it (ER_DUP_ENTRY and the like); on ER_LOCK_DEADLOCK it
\* also rolls the session's transaction back.
StatementRefused(deadlock) ==
    /\ pc = "statement"
    /\ Whole
    /\ IF deadlock THEN inTx /\ inTx' = FALSE /\ pending' = <<>>
       ELSE UNCHANGED <<inTx, pending>>
    /\ StatementReturns(FALSE)
    /\ UNCHANGED <<clientVars, delayQueue, handle, link, durable, losses, disturbed>>

\* The server runs the statement and the connection is lost before the
\* answer arrives: the client sees the same error as when it never ran.
AnswerLost ==
    /\ pc \in {"statement", "commit"}
    /\ Whole
    /\ losses < MaxLosses
    /\ losses' = losses + 1
    /\ durable' = IF pc = "commit" THEN durable \o pending
                  ELSE IF inTx THEN durable ELSE Append(durable, op.body[index].n)
    /\ Dropped
    /\ disturbed' = TRUE
    /\ UNCHANGED <<clientVars, delayQueue, op, index, pc, handle, outcomes>>

\* CR_SERVER_GONE_ERROR or CR_SERVER_LOST on a plain statement: reconnect
\* and try the same statement again, or give up.
HandleMySQLError(ok) ==
    /\ pc = "statement"
    /\ ~op.body[index].prepared
    /\ handle
    /\ ~link
    /\ Reconnect(ok)
    /\ IF ok THEN UNCHANGED <<op, index, pc, outcomes>> ELSE StatementReturns(FALSE)
    /\ UNCHANGED <<clientVars, delayQueue, losses, disturbed>>

\* A prepared statement fails on a dead connection, and so does any
\* statement without a handle; neither reconnects.
StatementFails ==
    /\ pc = "statement"
    /\ ~handle \/ (~link /\ op.body[index].prepared)
    /\ StatementReturns(FALSE)
    /\ UNCHANGED <<clientVars, delayQueue, handle, losses, sessionVars, disturbed>>

\* return conn->CommitTransaction().
Commit ==
    /\ pc = "commit"
    /\ IF link THEN durable' = durable \o pending /\ pending' = <<>> /\ inTx' = FALSE
       ELSE UNCHANGED <<durable, pending, inTx>>
    /\ End(link)
    /\ UNCHANGED <<clientVars, delayQueue, handle, link, losses, disturbed>>

\* A plausible slip: the server is not told.
Rollback_forgotten ==
    /\ pc = "rollback"
    /\ handle
    /\ End(FALSE)
    /\ UNCHANGED <<clientVars, delayQueue, handle, sessionVars, losses, disturbed>>

\* conn->RollbackTransaction(); return false.
Rollback ==
    /\ pc = "rollback"
    /\ handle
    /\ pending' = <<>>
    /\ inTx' = FALSE
    /\ End(FALSE)
    /\ UNCHANGED <<clientVars, delayQueue, handle, link, durable, losses, disturbed>>

\* SqlDelayThread::run asks "SELECT 1" between two rounds: _Query reconnects
\* on a null handle as well as on a dead connection.
Ping(ok) ==
    /\ pc = "idle"
    /\ ~Whole
    /\ Reconnect(ok)
    /\ UNCHANGED <<clientVars, delayQueue, op, index, pc, losses, disturbed, outcomes>>

-----------------------------------------------------------------------------
Init ==
    /\ inTrans = FALSE
    /\ body = <<>>
    /\ stmts = 0
    /\ discarded = {}
    /\ delayQueue = <<>>
    /\ op = NoOp
    /\ index = 1
    /\ pc = "idle"
    /\ handle = TRUE
    /\ link = TRUE
    /\ inTx = FALSE
    /\ pending = <<>>
    /\ durable = <<>>
    /\ losses = 0
    /\ disturbed = FALSE
    /\ outcomes = <<>>

Client ==
    \/ BeginTransaction
    \/ \E prepared \in BOOLEAN : Execute(prepared)
    \/ CommitTransaction
    \/ RollbackTransaction

Worker ==
    \/ TakeOperation
    \/ Crash
    \/ StartTransaction
    \/ StatementSucceeds
    \/ \E deadlock \in BOOLEAN : StatementRefused(deadlock)
    \/ \E ok \in BOOLEAN : HandleMySQLError(ok)
    \/ StatementFails
    \/ Commit
    \/ Rollback
    \/ \E ok \in BOOLEAN : Ping(ok)

Next == Client \/ Worker \/ LoseConnection \/ AnswerLost

Spec == Init /\ [][Next]_vars

-----------------------------------------------------------------------------
Applied == {durable[k] : k \in 1 .. Len(durable)}

AllOrNothing(outcome) ==
    outcome.body \subseteq Applied \/ outcome.body \intersect Applied = {}

Outcomes == {outcomes[k] : k \in 1 .. Len(outcomes)}

\* The state has the types the code declares.
TypeOK ==
    /\ inTrans \in BOOLEAN /\ handle \in BOOLEAN /\ link \in BOOLEAN
    /\ inTx \in BOOLEAN /\ disturbed \in BOOLEAN
    /\ body \in Seq(Stmt)
    /\ stmts \in 0 .. MaxStmts /\ discarded \subseteq 1 .. MaxStmts
    /\ delayQueue \in Seq(Operation) /\ op \in Operation /\ index \in 1 .. MaxStmts + 1
    /\ pc \in {"idle", "begin", "statement", "commit", "rollback", "crashed"}
    /\ pending \in Seq(1 .. MaxStmts) /\ durable \in Seq(1 .. MaxStmts)
    /\ losses \in 0 .. MaxLosses

\* "mangos use transactions, autocommit is turned of during it. Setting it to
\* on makes atomic updates work" (DatabaseMysql.cpp): once a transaction is
\* over, the server has applied all of it or nothing.
TransactionAtomic == \A o \in Outcomes : o.trans => AllOrNothing(o)

\* A transaction of prepared statements is atomic whatever the connection
\* does, because no prepared statement reconnects in the middle of it.
PreparedTransactionAtomic ==
    \A o \in Outcomes : o.trans /\ o.prepared => AllOrNothing(o)

\* While the connection is whole, Execute tells the truth: what returned
\* true has been applied and what returned false has left no trace, also
\* after a refused statement or a deadlock in the middle of a transaction.
\* What the client rolled back never reaches the server's tables at all, in
\* particular not with the next transaction of its thread.
OutcomeIsExact ==
    /\ \A o \in Outcomes : ~o.disturbed =>
          IF o.ok THEN o.body \subseteq Applied ELSE o.body \intersect Applied = {}
    /\ discarded \intersect Applied = {}

\* The server applies statements in the order in which the client issued
\* them, across transactions, retries and reconnections, and none twice
\* unless an answer was lost with the connection.
AppliedInOrder ==
    \A k, l \in 1 .. Len(durable) :
        k < l => \/ durable[k] < durable[l]
                 \/ durable[k] = durable[l] /\ losses > 0
=============================================================================
