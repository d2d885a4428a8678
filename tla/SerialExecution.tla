-------------------------- MODULE SerialExecution --------------------------
(***************************************************************************)
(* What Database promises the caller of operations with a serial id: the   *)
(* operations of one id stand in a line, in the order of submission, and   *)
(* the first of the line is executed, one at a time and each once.  The    *)
(* lines of different ids move independently.  An operation is its number. *)
(***************************************************************************)
EXTENDS Integers

CONSTANT SerialIds

VARIABLES
    submitted,  \* how many operations there were
    line        \* those of each serial id that have not been executed

lineVars == <<submitted, line>>

Init ==
    /\ submitted = 0
    /\ line = [s \in SerialIds |-> {}]

Submit(s) ==
    /\ submitted' = submitted + 1
    /\ line' = [line EXCEPT ![s] = @ \union {submitted + 1}]

\* An operation without a serial id, or one that its caller executes.
SubmitElsewhere ==
    /\ submitted' = submitted + 1
    /\ UNCHANGED line

\* SqlDelayThread: the oldest operation of the line is executed.
Execute(s) ==
    \E i \in line[s] :
        /\ \A j \in line[s] : i <= j
        /\ line' = [line EXCEPT ![s] = @ \ {i}]
        /\ UNCHANGED submitted

Next ==
    \/ \E s \in SerialIds : Submit(s) \/ Execute(s)
    \/ SubmitElsewhere

Spec == Init /\ [][Next]_lineVars
=============================================================================
