------------------------ MODULE MCBattleGroundQueue ------------------------
(* Instances of BattleGroundQueue for TLC: players are model values. *)
EXTENDS BattleGroundQueue, TLC

TeamSymmetry == Permutations(Alliance) \union Permutations(Horde)
\* Bound: not more than two players are out of the world at once.
FewAway == Cardinality({p \in Players : ~InWorld(p)}) <= 2
=============================================================================
