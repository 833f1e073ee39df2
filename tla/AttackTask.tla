---------------------------- MODULE AttackTask ----------------------------
(***************************************************************************)
(* The attack squads of src/src/circuit/task/fighter/AttackTask.cpp.      *)
(*                                                                         *)
(* A CAttackTask is a squad of units (ISquadTask) that roams towards a     *)
(* position, engages the enemy it chose in FindTarget, or regroups.  The   *)
(* military manager creates squads, recruits idle units into them          *)
(* (CanAssignTo, AssignTo), takes units away (RemoveAssignee) and calls    *)
(* Update on every live squad.  Update merges the squad into another one   *)
(* every 32 updates and re-selects its target every 4.                     *)
(*                                                                         *)
(* The squad base class ISquadTask and the task manager are not in the    *)
(* repository; what this module assumes of them is what AttackTask.cpp     *)
(* relies on: attackPower is the sum of the members' power, the leader is  *)
(* a member (nullptr when there is none), SetTarget keeps the enemy's list *)
(* of hunting tasks, Merge moves the members over, and AbortTask releases  *)
(* the squad's units and target.                                           *)
(*                                                                         *)
(* Unit orders, paths and positions are left out: they change no state a   *)
(* property reads.  Every geometric test is an input of the step.         *)
(***************************************************************************)
EXTENDS Integers, FiniteSets, Folds

CONSTANTS
    Tasks,      \* task objects the manager may create, each used once
    Units,      \* our combat units
    Enemies,    \* enemy units the squads may hunt
    Power,      \* CCircuitDef::GetPower() of each unit, an integer
    Flags,      \* the mobility flags of each unit's definition
    MaxUpd,     \* bound on Update calls per task
    MaxMinPower,\* bound on 4 * minPower, which only ever grows
    None        \* nullptr

MobilityFlags == {"amph", "lander", "floater", "fly"}

ASSUME SquadAssumptions ==
    /\ IsFiniteSet(Units) /\ IsFiniteSet(Tasks) /\ IsFiniteSet(Enemies)
    /\ Power \in [Units -> Nat]
    /\ Flags \in [Units -> SUBSET MobilityFlags]
    /\ MaxUpd \in Nat /\ MaxMinPower \in Nat
    /\ None \notin Tasks \cup Units \cup Enemies

\* The three squad states of ISquadTask.
States == {"ROAM", "ENGAGE", "REGROUP"}

VARIABLES
    status,     \* "new" before creation, "live", "dead" after AbortTask
    squad,      \* ISquadTask::units
    owner,      \* the task a unit is assigned to, or None
    leader,     \* ISquadTask::leader
    minPower,   \* 4 * CAttackTask::minPower
    state,      \* ISquadTask::state
    target,     \* ISquadTask::target
    hunters,    \* CEnemyUnit::GetTasks() of each enemy
    updCount    \* ISquadTask::updCount

squadVars == <<status, squad, owner, leader, minPower>>
huntVars == <<state, target, hunters, updCount>>
vars == <<squadVars, huntVars>>

\* ISquadTask::attackPower of a set of members.
AttackPower(members) ==
    MapThenFoldSet(+, 0, LAMBDA u : Power[u], LAMBDA s : CHOOSE x \in s : TRUE, members)

TypeOK ==
    /\ status \in [Tasks -> {"new", "live", "dead"}]
    /\ squad \in [Tasks -> SUBSET Units]
    /\ owner \in [Units -> Tasks \cup {None}]
    /\ leader \in [Tasks -> Units \cup {None}]
    /\ minPower \in [Tasks -> 0..MaxMinPower]
    /\ state \in [Tasks -> States]
    /\ target \in [Tasks -> Enemies \cup {None}]
    /\ hunters \in [Enemies -> SUBSET Tasks]
    /\ updCount \in [Tasks -> 0..MaxUpd]

\* The constructor: minPower(.0f); no task exists yet.
Init ==
    /\ status = [t \in Tasks |-> "new"]
    /\ squad = [t \in Tasks |-> {}]
    /\ owner = [u \in Units |-> None]
    /\ leader = [t \in Tasks |-> None]
    /\ minPower = [t \in Tasks |-> 0]
    /\ state = [t \in Tasks |-> "ROAM"]
    /\ target = [t \in Tasks |-> None]
    /\ hunters = [e \in Enemies |-> {}]
    /\ updCount = [t \in Tasks |-> 0]

Live == {t \in Tasks : status[t] = "live"}

(* CanAssignTo: the distance test is an input (the manager simply does not *)
(* recruit); the mobility test is translated.                             *)
CanAssignTo(t, u) ==
    LET l == leader[t] IN
    \/ "amph" \in Flags[u] /\ Flags[l] \cap {"amph", "lander", "floater"} # {}
    \/ \E f \in {"fly", "lander", "floater"} : f \in Flags[l] \cap Flags[u]

(* AssignTo: ISquadTask::AssignTo adds the member (the first one leads),   *)
(* then minPower grows by a quarter of the unit's power (4 * minPower by *)
(* the whole power, which keeps the arithmetic exact).                    *)
AssignTo(t, u) ==
    /\ minPower[t] + Power[u] <= MaxMinPower
    /\ squad' = [squad EXCEPT ![t] = @ \cup {u}]
    /\ owner' = [owner EXCEPT ![u] = t]
    /\ leader' = IF leader[t] = None THEN [leader EXCEPT ![t] = u] ELSE leader
    /\ minPower' = [minPower EXCEPT ![t] = @ + Power[u]]

\* SetTarget: the task leaves its old enemy's list and joins the new one's.
Retarget(h, t, e) ==
    [x \in Enemies |-> (h[x] \ {t}) \cup (IF x = e THEN {t} ELSE {})]

\* The manager creates a task for an idle unit and assigns it.
Create(t, u) ==
    /\ status[t] = "new" /\ owner[u] = None
    /\ status' = [status EXCEPT ![t] = "live"]
    /\ AssignTo(t, u)
    /\ UNCHANGED huntVars

\* The manager recruits an idle unit that CanAssignTo accepts.
Recruit(t, u) ==
    /\ t \in Live /\ owner[u] = None /\ CanAssignTo(t, u)
    /\ AssignTo(t, u)
    /\ UNCHANGED <<status, huntVars>>

(* The task part of manager->AbortTask(task): the task dies and drops its *)
(* target.  The callers say what happens to its members.                  *)
Release(t) ==
    /\ status' = [status EXCEPT ![t] = "dead"]
    /\ leader' = [leader EXCEPT ![t] = None]
    /\ hunters' = Retarget(hunters, t, None)
    /\ target' = [target EXCEPT ![t] = None]

(* Abort with the members still in the task: they go back to the idle     *)
(* pool.                                                                   *)
AbortTask(t) ==
    /\ Release(t)
    /\ squad' = [squad EXCEPT ![t] = {}]
    /\ owner' = [u \in Units |-> IF u \in squad[t] THEN None ELSE owner[u]]

\* ISquadTask::RemoveAssignee: the member leaves; a new leader is elected.
LeaderAfter(t, u, rest) ==
    IF leader[t] # u THEN {leader[t]}
    ELSE IF rest = {} THEN {None} ELSE rest

\* The abort test of line 91: attackPower <= minPower, or no leader left.
TooWeak(t, rest) == 4 * AttackPower(rest) <= minPower[t] \/ rest = {}

RemoveAssigneeNoAbort(t, u) ==
    /\ t \in Live /\ u \in squad[t]
    /\ LET rest == squad[t] \ {u} IN
       \E l \in LeaderAfter(t, u, rest) :
          /\ squad' = [squad EXCEPT ![t] = rest]
          /\ owner' = [owner EXCEPT ![u] = None]
          /\ leader' = [leader EXCEPT ![t] = l]
    /\ UNCHANGED <<status, minPower, huntVars>>

(* RemoveAssignee: the manager takes a unit away (it died, or is needed   *)
(* elsewhere).  The squad aborts when what is left is too weak.           *)
RemoveAssignee(t, u) ==
    /\ t \in Live /\ u \in squad[t]
    /\ LET rest == squad[t] \ {u} IN
       IF TooWeak(t, rest)
       THEN /\ AbortTask(t)
            /\ UNCHANGED <<minPower, state, updCount>>
       ELSE \E l \in LeaderAfter(t, u, rest) :
              /\ squad' = [squad EXCEPT ![t] = rest]
              /\ owner' = [owner EXCEPT ![u] = None]
              /\ leader' = [leader EXCEPT ![t] = l]
              /\ UNCHANGED <<status, minPower, huntVars>>

MergeNoClear(t, into) ==
    /\ minPower[into] + AttackPower(squad[t]) <= MaxMinPower
    /\ squad' = [squad EXCEPT ![into] = @ \cup squad[t], ![t] = {}]
    /\ owner' = [u \in Units |-> IF u \in squad[t] THEN None ELSE owner[u]]
    /\ minPower' = [minPower EXCEPT ![into] = @ + AttackPower(squad[t])]
    /\ Release(t)

(* Lines 117-125 with CAttackTask::Merge: task->Merge(this) moves our     *)
(* members into the other squad, whose minPower grows by a quarter of our *)
(* attackPower; units.clear(); AbortTask(this).                           *)
Merge(t, into) ==
    /\ minPower[into] + AttackPower(squad[t]) <= MaxMinPower
    /\ squad' = [squad EXCEPT ![into] = @ \cup squad[t], ![t] = {}]
    /\ owner' = [u \in Units |-> IF u \in squad[t] THEN into ELSE owner[u]]
    /\ minPower' = [minPower EXCEPT ![into] = @ + AttackPower(squad[t])]
    /\ Release(t)

FindTargetAnyEnemy(t) ==
    LET h0 == Retarget(hunters, t, None) IN
    \E best \in Enemies \cup {None} :
       /\ hunters' = Retarget(h0, t, best)
       /\ target' = [target EXCEPT ![t] = best]

(* FindTarget: SetTarget(nullptr), then the nearest enemy that no other   *)
(* task hunts and that passes the threat, terrain and category filters    *)
(* (the filters and the distances are inputs), or none.                   *)
FindTarget(t) ==
    LET h0 == Retarget(hunters, t, None) IN
    \E best \in {e \in Enemies : h0[e] = {}} \cup {None} :
       /\ hunters' = Retarget(h0, t, best)
       /\ target' = [target EXCEPT ![t] = best]

(* IsMustRegroup (ISquadTask): a scattered squad enters REGROUP, a        *)
(* gathered one leaves it for ROAM.                                       *)
RegroupState(t, mustRegroup) ==
    IF mustRegroup THEN "REGROUP"
    ELSE IF state[t] = "REGROUP" THEN "ROAM" ELSE state[t]

(* Update without a merge (lines 131-228): a regrouping squad only        *)
(* gathers; otherwise only every 4th update (or a forced one) re-selects  *)
(* the target and engages when a member is within range of it.           *)
Proceed(t, n) ==
    \E mustRegroup \in BOOLEAN :
    LET st == RegroupState(t, mustRegroup) IN
    \/ /\ st = "REGROUP"
       /\ state' = [state EXCEPT ![t] = st]
       /\ UNCHANGED <<target, hunters>>
    \/ /\ st # "REGROUP" /\ n % 4 # 2
       /\ state' = [state EXCEPT ![t] = st]
       /\ UNCHANGED <<target, hunters>>
    \/ /\ st # "REGROUP"
       /\ FindTarget(t)
       /\ \E s \in IF target'[t] = None THEN {"ROAM"} ELSE {"ROAM", "ENGAGE"} :
             state' = [state EXCEPT ![t] = s]

(* CAttackTask::Update: every 32nd update GetMergeTask may name another   *)
(* squad to merge into; otherwise the squad goes on.                      *)
Update(t) ==
    /\ t \in Live /\ updCount[t] < MaxUpd
    /\ LET n == updCount[t] + 1 IN
       /\ updCount' = [updCount EXCEPT ![t] = n]
       /\ \/ /\ n % 32 = 1
             /\ \E into \in Live \ {t} : Merge(t, into)
             /\ UNCHANGED state
          \/ /\ Proceed(t, n)
             /\ UNCHANGED squadVars

Next ==
    \/ \E t \in Tasks, u \in Units :
          Create(t, u) \/ Recruit(t, u) \/ RemoveAssignee(t, u)
    \/ \E t \in Tasks : Update(t)

Spec == Init /\ [][Next]_vars

-----------------------------------------------------------------------------
(* Every unit is in the squad of the task it is assigned to and in no     *)
(* other, and dead tasks hold no unit.  It is about the merge path of     *)
(* Update (members moved, then units.clear() before AbortTask) and the    *)
(* abort in RemoveAssignee, interleaved with recruiting.                  *)
SquadOwnership ==
    /\ \A u \in Units, t \in Tasks : u \in squad[t] <=> owner[u] = t
    /\ \A t \in Tasks \ Live : squad[t] = {}

(* An enemy is hunted by at most one live attack task, and its list of    *)
(* hunting tasks names exactly the live tasks targeting it.  It is about  *)
(* FindTarget skipping enemies whose GetTasks() is not empty, after       *)
(* SetTarget(nullptr), and about tasks dying by merge or abort.           *)
TargetExclusive ==
    \A e \in Enemies :
       /\ hunters[e] = {t \in Live : target[t] = e}
       /\ Cardinality(hunters[e]) <= 1

(* A live squad always has a leader among its members, so Update and      *)
(* FindTarget never read leader == nullptr.  It is about the abort of     *)
(* RemoveAssignee when the last member leaves, and the merge path.        *)
LiveSquadManned ==
    \A t \in Live : leader[t] \in squad[t]

=============================================================================
