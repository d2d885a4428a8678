------------------------------ MODULE TaskBatch ------------------------------
(***************************************************************************)
(* What a ThreadPool promises its owner: a batch of tasks is submitted,    *)
(* each task of it runs once, in any order, and the owner goes on only     *)
(* when none is left.  Nothing else may run in between.                    *)
(***************************************************************************)
EXTENDS Integers

CONSTANT Tasks

VARIABLES
    waiting,   \* the owner waits for its batch
    left       \* tasks of the batch that have not run

batchVars == <<waiting, left>>

Init == waiting = FALSE /\ left = {}

Submit(batch) ==
    /\ ~waiting
    /\ waiting' = TRUE
    /\ left' = batch

Run(t) ==
    /\ waiting
    /\ t \in left
    /\ left' = left \ {t}
    /\ UNCHANGED waiting

Return ==
    /\ waiting
    /\ left = {}
    /\ waiting' = FALSE
    /\ UNCHANGED left

Next ==
    \/ \E batch \in SUBSET Tasks : batch # {} /\ Submit(batch)
    \/ \E t \in Tasks : Run(t)
    \/ Return

Spec == Init /\ [][Next]_batchVars
=============================================================================
