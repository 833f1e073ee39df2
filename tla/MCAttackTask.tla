--------------------------- MODULE MCAttackTask ---------------------------
(* Two squads, three units and two enemies.  u1 is a lander, u2 is        *)
(* amphibious and may join it, u3 flies and only leads its own squad.     *)
EXTENDS AttackTask

CONSTANTS t1, t2, u1, u2, u3, e1, e2

TwoTasks == {t1, t2}
ThreeUnits == {u1, u2, u3}
TwoEnemies == {e1, e2}
UnitPower == [u \in ThreeUnits |-> 1]
UnitFlags == [u \in ThreeUnits |->
                 IF u = u1 THEN {"lander"} ELSE IF u = u2 THEN {"amph"} ELSE {"fly"}]
=============================================================================
