---------------------------- MODULE MCMapUpdate ----------------------------
(* Instances of MapUpdate for TLC: maps and players are model values. *)
EXTENDS MapUpdate
=============================================================================
