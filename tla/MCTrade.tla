------------------------------ MODULE MCTrade ------------------------------
(* Instances of Trade for TLC: players and items are model values. *)
EXTENDS Trade, TLC

TradeSymmetry == Permutations(Players) \union Permutations(Items)
=============================================================================
