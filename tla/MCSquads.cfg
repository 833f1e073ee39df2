\* Attack squads: membership, merge, abort and target selection.
CONSTANTS
    t1 = t1  t2 = t2  u1 = u1  u2 = u2  u3 = u3  e1 = e1  e2 = e2
    None = None
    Tasks <- TwoTasks
    Units <- ThreeUnits
    Enemies <- TwoEnemies
    Power <- UnitPower
    Flags <- UnitFlags
    MaxUpd = 3
    MaxMinPower = 4
INIT Init
NEXT Next
INVARIANTS SquadOwnership TargetExclusive LiveSquadManned
\* Task objects are never reused, so the bounded instance stops once both
\* squads have died; the running AI creates new tasks without end.
CHECK_DEADLOCK FALSE
