---------------------------- MODULE MCLoginQueue ----------------------------
(* Instances of LoginQueue for TLC: accounts are model values. *)
EXTENDS LoginQueue
=============================================================================
