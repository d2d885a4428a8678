-------------------------- MODULE MCAsyncDatabase --------------------------
(* Instances of AsyncDatabase for TLC: threads are model values. *)
EXTENDS AsyncDatabase
=============================================================================
