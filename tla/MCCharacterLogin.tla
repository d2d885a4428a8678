-------------------------- MODULE MCCharacterLogin --------------------------
(* Instances of CharacterLogin for TLC: characters are model values. *)
EXTENDS CharacterLogin
=============================================================================
