--------------------------- MODULE ArtilleryTask ---------------------------
(***************************************************************************)
(* The artillery tasks of src/src/circuit/task/fighter/ArtilleryTask.cpp. *)
(*                                                                         *)
(* A CArtilleryTask drives one artillery unit.  Every 4th Update (or a     *)
(* forced one) Execute asks FindTarget for an enemy to shell or a place to *)
(* go: when the unit stands safe it picks, among the enemies it sees in    *)
(* range, the most threatening one, else one it may chase, else any; when  *)
(* nothing is in range it paths towards static enemies nearby, and back to *)
(* base when that path is unsafe.  A unit that goes idle leaves the task,  *)
(* and a task without a unit is aborted.                                   *)
(*                                                                         *)
(* An enemy, as the loop of FindTarget sees it, is a record of the tests   *)
(* it applies (EnemyViews); the enemies are visited in the order of their  *)
(* ids, which is any order.  Paths are "none", "short" (at most two        *)
(* waypoints) or "long"; the pathfinder's and the threat map's answers are *)
(* inputs of the step.  IFighterTask and the task manager are not in the   *)
(* repository: a task holds a set of units and AbortTask releases them.    *)
(***************************************************************************)
EXTENDS Integers, FiniteSets, Sequences

CONSTANTS
    Tasks,      \* task objects the manager may create, each used once
    Units,      \* our units
    ArtyUnits,  \* the units whose definition IsRoleArty()
    Enemies,    \* enemy units
    EnemyViews, \* what the tests of FindTarget see of one enemy
    MaxUpd,     \* bound on Update calls per task
    None        \* nullptr

ASSUME ArtyAssumptions ==
    /\ ArtyUnits \subseteq Units /\ IsFiniteSet(Enemies) /\ Enemies # {}
    /\ EnemyViews \subseteq [eligible : BOOLEAN, radar : BOOLEAN,
                             inRange : BOOLEAN, threat : Nat,
                             noChase : BOOLEAN, mobile : BOOLEAN,
                             near : BOOLEAN]
    /\ MaxUpd \in Nat
    /\ None \notin Tasks \cup Units \cup Enemies

Paths == {"none", "short", "long"}

\* Where CArtilleryTask::position points.
Places == {"base", "enemy", "pathEnd", "scout", "random"}

Views == [Enemies -> EnemyViews]
\* Every order in which the loop may visit the enemies, each once.
Orders ==
    {ord \in [1 .. Cardinality(Enemies) -> Enemies] :
        \A i, j \in DOMAIN ord : ord[i] = ord[j] => i = j}

VARIABLES
    status,     \* "new", "live", or "dead" after AbortTask
    squad,      \* IFighterTask::units
    owner,      \* the task of each unit, or None
    updCount,   \* IFighterTask::updCount
    position,   \* CArtilleryTask::position
    moveActive, \* the unit's CMoveAction is active
    attack,     \* the enemy of the unit's last Attack order, or None
    lastView,   \* the enemies as the last safe FindTarget saw them
    lastPick    \* the target that FindTarget returned then

vars == <<status, squad, owner, updCount, position, moveActive, attack,
          lastView, lastPick>>

TypeOK ==
    /\ status \in [Tasks -> {"new", "live", "dead"}]
    /\ squad \in [Tasks -> SUBSET Units]
    /\ owner \in [Units -> Tasks \cup {None}]
    /\ updCount \in [Tasks -> 0..MaxUpd]
    /\ position \in [Tasks -> Places]
    /\ moveActive \in [Tasks -> BOOLEAN]
    /\ attack \in [Tasks -> Enemies \cup {None}]
    /\ lastView \in Views \cup {None}
    /\ lastPick \in Enemies \cup {None}

\* The constructor sets position to the base position.
Init ==
    /\ status = [t \in Tasks |-> "new"]
    /\ squad = [t \in Tasks |-> {}]
    /\ owner = [u \in Units |-> None]
    /\ updCount = [t \in Tasks |-> 0]
    /\ position = [t \in Tasks |-> "base"]
    /\ moveActive = [t \in Tasks |-> FALSE]
    /\ attack = [t \in Tasks |-> None]
    /\ lastView = None
    /\ lastPick = None

Live == {t \in Tasks : status[t] = "live"}

CanAssignToNoEmpty(t, u) == u \in ArtyUnits

\* CanAssignTo: a task takes one artillery unit and no more.
CanAssignTo(t, u) == squad[t] = {} /\ u \in ArtyUnits

\* AssignTo: IFighterTask::AssignTo, plus an inactive move action.
AssignTo(t, u) ==
    /\ squad' = [squad EXCEPT ![t] = @ \cup {u}]
    /\ owner' = [owner EXCEPT ![u] = t]
    /\ moveActive' = [moveActive EXCEPT ![t] = FALSE]

\* The manager assigns an idle unit to a new task that accepts it.
Assign(t, u) ==
    /\ status[t] # "dead" /\ owner[u] = None /\ CanAssignTo(t, u)
    /\ status' = [status EXCEPT ![t] = "live"]
    /\ AssignTo(t, u)
    /\ UNCHANGED <<updCount, position, attack, lastView, lastPick>>

(* RemoveAssignee: the unit leaves (IFighterTask::RemoveAssignee); a task *)
(* left without units is aborted and releases what it still holds.  The  *)
(* manager calls it, and so does OnUnitIdle for an idle member.          *)
RemoveAssignee(t, u) ==
    /\ t \in Live /\ u \in squad[t]
    /\ IF squad[t] \ {u} = {}
       THEN /\ status' = [status EXCEPT ![t] = "dead"]
            /\ squad' = [squad EXCEPT ![t] = {}]
            /\ owner' = [x \in Units |-> IF x \in squad[t] THEN None ELSE owner[x]]
       ELSE /\ squad' = [squad EXCEPT ![t] = @ \ {u}]
            /\ owner' = [owner EXCEPT ![u] = None]
            /\ UNCHANGED status
    /\ UNCHANGED <<updCount, position, moveActive, attack, lastView, lastPick>>

(***************************************************************************)
(* The enemy loop of FindTarget when the unit stands safe (lines 177-221). *)
(* The accumulator holds bestTarget, mediumTarget, worstTarget, maxThreat  *)
(* and whether a static enemy position was collected.                      *)
(***************************************************************************)
Acc0 == [best |-> None, medium |-> None, worst |-> None, maxThreat |-> 0,
         positions |-> FALSE]

SelectStepGeq(a, e, v) ==
    IF ~v.eligible THEN a
    ELSE IF v.radar /\ v.inRange
    THEN IF v.threat >= a.maxThreat
         THEN [a EXCEPT !.best = e, !.maxThreat = v.threat]
         ELSE IF a.best # None THEN a
         ELSE IF ~v.noChase THEN [a EXCEPT !.medium = e]
         ELSE IF a.medium = None THEN [a EXCEPT !.worst = e]
         ELSE a
    ELSE IF v.mobile \/ v.noChase \/ ~v.near THEN a
    ELSE [a EXCEPT !.positions = TRUE]

SelectStep(a, e, v) ==
    IF ~v.eligible THEN a
    ELSE IF v.radar /\ v.inRange
    THEN IF v.threat > a.maxThreat
         THEN [a EXCEPT !.best = e, !.maxThreat = v.threat]
         ELSE IF a.best # None THEN a
         ELSE IF ~v.noChase THEN [a EXCEPT !.medium = e]
         ELSE IF a.medium = None THEN [a EXCEPT !.worst = e]
         ELSE a
    ELSE IF v.mobile \/ v.noChase \/ ~v.near THEN a
    ELSE [a EXCEPT !.positions = TRUE]

\* The loop over the enemies in the order ord, from the accumulator Acc0.
SelectLoop(v, ord) ==
    LET acc[i \in 0 .. Len(ord)] ==
          IF i = 0 THEN Acc0 ELSE SelectStep(acc[i - 1], ord[i], v[ord[i]])
    IN acc[Len(ord)]

\* Lines 219-221: the best target, else the medium one, else the worst.
Pick(a) ==
    IF a.best # None THEN a.best
    ELSE IF a.medium # None THEN a.medium ELSE a.worst

\* The enemy loop when the unit is under threat (lines 256-280).
UnsafeSpots(v) ==
    \E e \in Enemies :
       v[e].eligible /\ ~v[e].mobile /\ ~v[e].noChase /\ ~v[e].inRange /\ v[e].near

(* The path FindTarget leaves and where it points position: nothing to    *)
(* go to; a safe path to the enemies' positions (shrunk to weapon range   *)
(* when the unit stands safe); or the fallback to base when no path is    *)
(* found or its end is threatened.                                        *)
PathOutcomes(t, spots) ==
    IF ~spots THEN {[path |-> "none", place |-> position[t]]}
    ELSE {[path |-> p, place |-> "pathEnd"] : p \in {"short", "long"}}
         \cup {[path |-> p, place |-> "base"] : p \in Paths}

(* Execute after FindTarget returned no enemy (lines 97-139): follow the  *)
(* path, or head for the scouting position, or fight towards a random one.*)
ExecuteMove(t, isUpdating, r) ==
    \/ /\ r.path = "long"
       /\ position' = [position EXCEPT ![t] = r.place]
       /\ moveActive' = [moveActive EXCEPT ![t] = TRUE]
       /\ UNCHANGED attack
    \/ /\ r.path = "short"
       /\ position' = [position EXCEPT ![t] = r.place]
       /\ attack' = [attack EXCEPT ![t] = None]
       /\ UNCHANGED moveActive
    \/ /\ r.path = "none"
       /\ \E lowThreat, reachable \in BOOLEAN :
          LET proceed == isUpdating /\ lowThreat
              goal == IF proceed THEN r.place ELSE "scout"
          IN IF reachable
             THEN /\ position' = [position EXCEPT ![t] = goal]
                  /\ moveActive' = [moveActive EXCEPT ![t] = TRUE]
                  /\ UNCHANGED attack
             ELSE IF proceed
             THEN /\ position' = [position EXCEPT ![t] = goal]
                  /\ UNCHANGED <<moveActive, attack>>
             ELSE /\ position' = [position EXCEPT ![t] = "random"]
                  /\ attack' = [attack EXCEPT ![t] = None]
                  /\ moveActive' = [moveActive EXCEPT ![t] = FALSE]

(* Execute(unit, isUpdating) with FindTarget: shell the chosen enemy, or  *)
(* move.  The unit's last action is its move action (the early return of *)
(* line 81 changes nothing).                                              *)
Execute(t, isUpdating) ==
    \E v \in Views, ord \in Orders, safe \in BOOLEAN :
    LET acc == SelectLoop(v, ord)
        pick == IF safe THEN Pick(acc) ELSE None
        spots == IF safe THEN acc.positions ELSE UnsafeSpots(v)
    IN /\ lastView' = IF safe THEN v ELSE lastView
       /\ lastPick' = IF safe THEN pick ELSE lastPick
       /\ IF pick # None
          THEN /\ position' = [position EXCEPT ![t] = "enemy"]
               /\ attack' = [attack EXCEPT ![t] = pick]
               /\ moveActive' = [moveActive EXCEPT ![t] = FALSE]
          ELSE \E r \in PathOutcomes(t, spots) : ExecuteMove(t, isUpdating, r)

\* The manager's Execute(unit) call: Execute(unit, false).
ExecuteUnit(t, u) ==
    /\ t \in Live /\ u \in squad[t]
    /\ Execute(t, FALSE)
    /\ UNCHANGED <<status, squad, owner, updCount>>

(* Update: every 4th call, or when the unit asks for it, executes with    *)
(* isUpdating; otherwise IFighterTask::Update leaves the orders as they   *)
(* are.                                                                   *)
Update(t) ==
    /\ t \in Live /\ updCount[t] < MaxUpd
    /\ updCount' = [updCount EXCEPT ![t] = @ + 1]
    /\ \/ /\ (updCount[t] + 1) % 4 # 0
          /\ UNCHANGED <<position, moveActive, attack, lastView, lastPick>>
       \/ Execute(t, TRUE)
    /\ UNCHANGED <<status, squad, owner>>

Next ==
    \/ \E t \in Tasks, u \in Units :
          Assign(t, u) \/ RemoveAssignee(t, u) \/ ExecuteUnit(t, u)
    \/ \E t \in Tasks : Update(t)

Spec == Init /\ [][Next]_vars

-----------------------------------------------------------------------------
(* The target of a safe FindTarget, independent of the order of the       *)
(* enemies: the most threatening enemy seen in range when one has positive *)
(* threat, else one we may chase, else any enemy seen in range, else none. *)
RefPick(v) ==
    LET cand == {e \in Enemies : v[e].eligible /\ v[e].radar /\ v[e].inRange}
        top == {e \in cand : v[e].threat > 0 /\
                             \A x \in cand : v[x].threat <= v[e].threat}
        chase == {e \in cand : ~v[e].noChase}
    IN IF top # {} THEN top
       ELSE IF chase # {} THEN chase
       ELSE IF cand # {} THEN cand ELSE {None}

(* The bestTarget / mediumTarget / worstTarget loop of FindTarget, in     *)
(* whatever order the enemies are visited, returns an enemy RefPick        *)
(* allows: no zero-threat enemy is shelled while a threatening one is in   *)
(* range, and no enemy we may not chase while one we may chase is there.  *)
TargetPriority ==
    lastView # None => lastPick \in RefPick(lastView)

(* A live artillery task holds exactly one unit, and that unit is         *)
(* assigned to it.  It is about CanAssignTo's units.empty() test and the  *)
(* abort in RemoveAssignee, interleaved with OnUnitIdle.                  *)
ArtyOneUnit ==
    \A t \in Live : \E u \in Units : squad[t] = {u} /\ owner[u] = t

=============================================================================
