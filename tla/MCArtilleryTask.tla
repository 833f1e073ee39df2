-------------------------- MODULE MCArtilleryTask --------------------------
(* One task, two artillery units and a scout, two enemies.  An enemy is  *)
(* seen as one of five views: threatening in range, harmless in range and *)
(* chaseable, harmless in range and not to be chased, static out of range *)
(* and near, or filtered out.                                             *)
EXTENDS ArtilleryTask

CONSTANTS t1, u1, u2, u3, e1, e2

OneTask == {t1}
ThreeUnits == {u1, u2, u3}
TwoArty == {u1, u2}
TwoEnemies == {e1, e2}
FiveViews ==
    {[eligible |-> TRUE, radar |-> TRUE, inRange |-> TRUE, threat |-> 1,
      noChase |-> TRUE, mobile |-> TRUE, near |-> TRUE],
     [eligible |-> TRUE, radar |-> TRUE, inRange |-> TRUE, threat |-> 0,
      noChase |-> FALSE, mobile |-> TRUE, near |-> TRUE],
     [eligible |-> TRUE, radar |-> TRUE, inRange |-> TRUE, threat |-> 0,
      noChase |-> TRUE, mobile |-> TRUE, near |-> TRUE],
     [eligible |-> TRUE, radar |-> FALSE, inRange |-> FALSE, threat |-> 0,
      noChase |-> FALSE, mobile |-> FALSE, near |-> TRUE],
     [eligible |-> FALSE, radar |-> TRUE, inRange |-> TRUE, threat |-> 1,
      noChase |-> FALSE, mobile |-> TRUE, near |-> TRUE]}
=============================================================================
