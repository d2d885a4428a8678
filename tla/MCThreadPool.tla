---------------------------- MODULE MCThreadPool ----------------------------
(* Instances of ThreadPool for TLC: the constants are numbers and mode names *)
(* that the cfgs give.                                                       *)
EXTENDS ThreadPool
=============================================================================
