-------------------------- MODULE MCSqlResultQueue --------------------------
(* Instances of SqlResultQueue for TLC. *)
EXTENDS SqlResultQueue
=============================================================================
