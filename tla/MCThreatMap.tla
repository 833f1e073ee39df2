---------------------------- MODULE MCThreatMap ----------------------------
(***************************************************************************)
(* An instance of ThreatMap for TLC: a strip of two cells, an armed enemy *)
(* whose LOS range covers both cells and an unarmed one that first shows  *)
(* up as a radar blip with a predicted threat.  Their footprints overlap, *)
(* so that a wrong removal shows in a shared cell; health -1 or 2 gives a  *)
(* threat of 0 or 2.                                                      *)
(***************************************************************************)
EXTENDS ThreatMap

CONSTANTS a1, a2

TwoEnemies == {a1, a2}
IdOrder == <<a1, a2>>
Dps == [e \in Enemies |-> IF e = a1 THEN 1 ELSE 0]
Ranges == [e \in Enemies |-> IF e = a1 THEN 1 ELSE 0]
TwoHealths == {-1, 2}
OneEnemy == {a1}
OneOrder == <<a1>>
=============================================================================
