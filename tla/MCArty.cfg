\* Artillery tasks: one unit per task, and the target priority of FindTarget.
CONSTANTS
    t1 = t1  u1 = u1  u2 = u2  u3 = u3  e1 = e1  e2 = e2
    None = None
    Tasks <- OneTask
    Units <- ThreeUnits
    ArtyUnits <- TwoArty
    Enemies <- TwoEnemies
    EnemyViews <- FiveViews
    MaxUpd = 4
INIT Init
NEXT Next
INVARIANTS TargetPriority ArtyOneUnit
\* Task objects are never reused, so the bounded instance stops once its
\* task has died; the running AI creates new tasks without end.
CHECK_DEADLOCK FALSE
