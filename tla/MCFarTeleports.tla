--------------------------- MODULE MCFarTeleports ---------------------------
(* Instances of FarTeleports for TLC: maps are model values. *)
EXTENDS FarTeleports
=============================================================================
