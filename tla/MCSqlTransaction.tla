--------------------------- MODULE MCSqlTransaction ---------------------------
(* Instances of SqlTransaction for TLC: the constants are numbers, which the *)
(* cfgs give.                                                                *)
EXTENDS SqlTransaction
=============================================================================
