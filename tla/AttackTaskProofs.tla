------------------------- MODULE AttackTaskProofs -------------------------
(***************************************************************************)
(* Proofs about the attack squads of AttackTask.tla, for every set of      *)
(* tasks, units and enemies.                                               *)
(*                                                                         *)
(* SquadOwnership, LiveSquadManned and TargetExclusive are not inductive   *)
(* as they stand.  Creating a task (Create) relies on a task that is not   *)
(* live having no leader and no target, and FindTarget relies on the list *)
(* of hunters naming at most one task, which the proofs below keep in the *)
(* form "any two hunters are equal".  minPower is left out: the guards    *)
(* that read it only restrict which steps happen.                          *)
(***************************************************************************)
EXTENDS AttackTask, FiniteSetTheorems, TLAPS

\* The types of the variables the invariants read.
TypeInv ==
    /\ status \in [Tasks -> {"new", "live", "dead"}]
    /\ squad \in [Tasks -> SUBSET Units]
    /\ owner \in [Units -> Tasks \cup {None}]
    /\ leader \in [Tasks -> Units \cup {None}]
    /\ target \in [Tasks -> Enemies \cup {None}]
    /\ hunters \in [Enemies -> SUBSET Tasks]

\* A task that is not live (not yet created, or aborted) has no leader and
\* no target: AbortTask clears both, and the constructor sets neither.
Idle == \A t \in Tasks \ Live : leader[t] = None /\ target[t] = None

\* CEnemyUnit::GetTasks() names exactly the live tasks targeting the enemy.
HuntersExact == \A e \in Enemies : hunters[e] = {t \in Live : target[t] = e}

\* Any two tasks hunting the same enemy are the same task.
HuntedOnce == \A e \in Enemies : \A t1, t2 \in hunters[e] : t1 = t2

\* The inductive invariant.
IInv ==
    /\ TypeInv
    /\ SquadOwnership
    /\ LiveSquadManned
    /\ Idle
    /\ HuntersExact
    /\ HuntedOnce

-----------------------------------------------------------------------------
\* The facts about the constants that the proofs use.
LEMMA ConstantFacts ==
    /\ None \notin Tasks /\ None \notin Units /\ None \notin Enemies
    /\ IsFiniteSet(Tasks)
BY SquadAssumptions

\* A set whose elements are all equal has at most one element.
LEMMA AtMostOne ==
    ASSUME NEW S, \A x, y \in S : x = y
    PROVE  Cardinality(S) <= 1
<1>1. CASE S = {}
  BY <1>1, FS_EmptySet
<1>2. CASE S # {}
  <2>1. PICK x \in S : TRUE
    BY <1>2
  <2>2. S = {x}
    BY <2>1
  <2>. QED
    BY <2>2, FS_Singleton
<1>. QED
  BY <1>1, <1>2

\* Retarget keeps the hunter lists typed.
LEMMA RetargetType ==
    ASSUME NEW h \in [Enemies -> SUBSET Tasks], NEW t \in Tasks,
           NEW e \in Enemies \cup {None}
    PROVE  Retarget(h, t, e) \in [Enemies -> SUBSET Tasks]
BY DEF Retarget

LEMMA InitIInv == Init => IInv
BY ConstantFacts DEF Init, IInv, TypeInv, SquadOwnership, LiveSquadManned,
                     Idle, HuntersExact, HuntedOnce, Live
\* Create: a task that was never live takes one idle unit and leads it.
LEMMA CreateIInv ==
    ASSUME IInv, NEW t \in Tasks, NEW u \in Units, Create(t, u)
    PROVE  IInv'
<1>. USE ConstantFacts
<1>1. /\ status[t] = "new" /\ owner[u] = None
      /\ status' = [status EXCEPT ![t] = "live"]
      /\ squad' = [squad EXCEPT ![t] = @ \cup {u}]
      /\ owner' = [owner EXCEPT ![u] = t]
      /\ leader' = IF leader[t] = None THEN [leader EXCEPT ![t] = u] ELSE leader
      /\ UNCHANGED <<target, hunters>>
  BY DEF Create, AssignTo, huntVars
<1>2. /\ squad[t] = {} /\ leader[t] = None /\ target[t] = None
  BY <1>1 DEF IInv, SquadOwnership, Idle, Live
<1>3. leader' = [leader EXCEPT ![t] = u] /\ squad' = [squad EXCEPT ![t] = {u}]
  BY <1>1, <1>2
<1>4. Live' = Live \cup {t}
  BY <1>1 DEF Live, IInv, TypeInv
<1>5. TypeInv'
  BY <1>1, <1>3 DEF IInv, TypeInv
<1>6. SquadOwnership'
  BY <1>1, <1>3, <1>4 DEF IInv, TypeInv, SquadOwnership
<1>7. LiveSquadManned'
  BY <1>1, <1>3, <1>4 DEF IInv, TypeInv, LiveSquadManned
<1>8. Idle'
  BY <1>1, <1>3, <1>4 DEF IInv, TypeInv, Idle
<1>9. HuntersExact'
  BY <1>1, <1>2, <1>4 DEF IInv, TypeInv, HuntersExact
<1>10. HuntedOnce'
  BY <1>1 DEF IInv, HuntedOnce
<1>. QED
  BY <1>5, <1>6, <1>7, <1>8, <1>9, <1>10 DEF IInv

\* Recruit: a live squad takes one more idle unit; its leader stays.
LEMMA RecruitIInv ==
    ASSUME IInv, NEW t \in Tasks, NEW u \in Units, Recruit(t, u)
    PROVE  IInv'
<1>. USE ConstantFacts
<1>1. /\ t \in Live /\ owner[u] = None
      /\ squad' = [squad EXCEPT ![t] = @ \cup {u}]
      /\ owner' = [owner EXCEPT ![u] = t]
      /\ leader' = IF leader[t] = None THEN [leader EXCEPT ![t] = u] ELSE leader
      /\ UNCHANGED <<status, target, hunters>>
  BY DEF Recruit, AssignTo, huntVars
<1>2. leader[t] \in squad[t]
  BY <1>1 DEF IInv, LiveSquadManned
<1>3. leader' = leader /\ Live' = Live
  BY <1>1, <1>2 DEF IInv, TypeInv, Live
<1>5. TypeInv'
  BY <1>1, <1>3 DEF IInv, TypeInv
<1>6. SquadOwnership'
  BY <1>1, <1>3 DEF IInv, TypeInv, SquadOwnership
<1>7. LiveSquadManned'
  BY <1>1, <1>3 DEF IInv, TypeInv, LiveSquadManned
<1>8. Idle' /\ HuntersExact' /\ HuntedOnce'
  BY <1>1, <1>3 DEF IInv, Idle, HuntersExact, HuntedOnce
<1>. QED
  BY <1>5, <1>6, <1>7, <1>8 DEF IInv
(* The task part of AbortTask: a live task dies and leaves its enemy's    *)
(* list, which keeps the hunter lists exact and the dead task idle.       *)
LEMMA ReleaseHunt ==
    ASSUME IInv, NEW t \in Live, Release(t)
    PROVE  /\ Live' = Live \ {t}
           /\ status' \in [Tasks -> {"new", "live", "dead"}]
           /\ leader' \in [Tasks -> Units \cup {None}]
           /\ target' \in [Tasks -> Enemies \cup {None}]
           /\ hunters' \in [Enemies -> SUBSET Tasks]
           /\ \A s \in Live' : leader'[s] = leader[s]
           /\ Idle' /\ HuntersExact' /\ HuntedOnce'
<1>. USE ConstantFacts
<1>1. /\ status' = [status EXCEPT ![t] = "dead"]
      /\ leader' = [leader EXCEPT ![t] = None]
      /\ hunters' = [x \in Enemies |-> hunters[x] \ {t}]
      /\ target' = [target EXCEPT ![t] = None]
  BY DEF Release, Retarget
<1>2. Live' = Live \ {t}
  BY <1>1 DEF Live, IInv, TypeInv
<1>3. /\ status' \in [Tasks -> {"new", "live", "dead"}]
      /\ leader' \in [Tasks -> Units \cup {None}]
      /\ target' \in [Tasks -> Enemies \cup {None}]
      /\ hunters' \in [Enemies -> SUBSET Tasks]
  BY <1>1 DEF IInv, TypeInv, Live
<1>4. \A s \in Live' : leader'[s] = leader[s]
  BY <1>1, <1>2
<1>5. Idle'
  BY <1>1, <1>2 DEF IInv, TypeInv, Idle
<1>6. HuntersExact'
  BY <1>1, <1>2 DEF IInv, TypeInv, HuntersExact
<1>7. HuntedOnce'
  BY <1>1 DEF IInv, HuntedOnce
<1>. QED
  BY <1>2, <1>3, <1>4, <1>5, <1>6, <1>7

\* AbortTask: the dead task's members return to the idle pool.
LEMMA AbortIInv ==
    ASSUME IInv, NEW t \in Live, AbortTask(t)
    PROVE  IInv'
<1>. USE ConstantFacts
<1>1. /\ squad' = [squad EXCEPT ![t] = {}]
      /\ owner' = [u \in Units |-> IF u \in squad[t] THEN None ELSE owner[u]]
      /\ Release(t)
  BY DEF AbortTask
<1>2. /\ Live' = Live \ {t}
      /\ status' \in [Tasks -> {"new", "live", "dead"}]
      /\ leader' \in [Tasks -> Units \cup {None}]
      /\ target' \in [Tasks -> Enemies \cup {None}]
      /\ hunters' \in [Enemies -> SUBSET Tasks]
      /\ \A s \in Live' : leader'[s] = leader[s]
      /\ Idle' /\ HuntersExact' /\ HuntedOnce'
  BY <1>1, ReleaseHunt
<1>3. TypeInv'
  BY <1>1, <1>2 DEF IInv, TypeInv
<1>4. SquadOwnership'
  BY <1>1, <1>2 DEF IInv, TypeInv, SquadOwnership, Live
<1>5. LiveSquadManned'
  BY <1>1, <1>2 DEF IInv, TypeInv, LiveSquadManned, Live
<1>. QED
  BY <1>2, <1>3, <1>4, <1>5 DEF IInv

(* Merge: the members move to another live squad, whose leader stays, and *)
(* the merged task dies.                                                  *)
LEMMA MergeIInv ==
    ASSUME IInv, NEW t \in Live, NEW into \in Live \ {t}, Merge(t, into)
    PROVE  IInv'
<1>. USE ConstantFacts
<1>1. /\ squad' = [squad EXCEPT ![into] = @ \cup squad[t], ![t] = {}]
      /\ owner' = [u \in Units |-> IF u \in squad[t] THEN into ELSE owner[u]]
      /\ Release(t)
  BY DEF Merge
<1>2. /\ Live' = Live \ {t}
      /\ status' \in [Tasks -> {"new", "live", "dead"}]
      /\ leader' \in [Tasks -> Units \cup {None}]
      /\ target' \in [Tasks -> Enemies \cup {None}]
      /\ hunters' \in [Enemies -> SUBSET Tasks]
      /\ \A s \in Live' : leader'[s] = leader[s]
      /\ Idle' /\ HuntersExact' /\ HuntedOnce'
  BY <1>1, ReleaseHunt
<1>3. TypeInv'
  BY <1>1, <1>2 DEF IInv, TypeInv, Live
<1>4. SquadOwnership'
  BY <1>1, <1>2 DEF IInv, TypeInv, SquadOwnership, Live
<1>5. LiveSquadManned'
  BY <1>1, <1>2 DEF IInv, TypeInv, LiveSquadManned, Live
<1>. QED
  BY <1>2, <1>3, <1>4, <1>5 DEF IInv
(* FindTarget: the task leaves its enemy's list and joins the list of an  *)
(* enemy no other task hunts, or targets nothing.                         *)
LEMMA FindTargetIInv ==
    ASSUME IInv, NEW t \in Live, FindTarget(t),
           UNCHANGED <<status, squad, owner, leader>>
    PROVE  IInv'
<1>. USE ConstantFacts
<1>. DEFINE h0 == Retarget(hunters, t, None)
<1>a. h0 = [x \in Enemies |-> hunters[x] \ {t}]
  BY DEF Retarget
<1>b. PICK best \in {e \in Enemies : h0[e] = {}} \cup {None} :
         /\ hunters' = Retarget(h0, t, best)
         /\ target' = [target EXCEPT ![t] = best]
  BY DEF FindTarget
<1>1. /\ best \in Enemies \cup {None}
      /\ best \in Enemies => hunters[best] \subseteq {t}
      /\ hunters' = [x \in Enemies |-> (hunters[x] \ {t}) \cup (IF x = best THEN {t} ELSE {})]
      /\ target' = [target EXCEPT ![t] = best]
  BY <1>a, <1>b DEF Retarget
<1>0. status' = status /\ squad' = squad /\ owner' = owner /\ leader' = leader
  OBVIOUS
<1>2. Live' = Live
  BY <1>0 DEF Live
<1>3. TypeInv'
  BY <1>0, <1>1 DEF IInv, TypeInv, Live
<1>4. SquadOwnership' /\ LiveSquadManned'
  BY <1>0, <1>2 DEF IInv, SquadOwnership, LiveSquadManned
<1>5. Idle'
  BY <1>0, <1>1, <1>2 DEF IInv, TypeInv, Idle
<1>6. HuntersExact'
  <2>. SUFFICES ASSUME NEW e \in Enemies
               PROVE  hunters'[e] = {s \in Live : target'[s] = e}
    BY <1>2 DEF HuntersExact
  <2>1. hunters'[e] = (hunters[e] \ {t}) \cup (IF e = best THEN {t} ELSE {})
    BY <1>1
  <2>2. hunters[e] \ {t} = {s \in Live \ {t} : target'[s] = e}
    BY <1>1 DEF IInv, TypeInv, HuntersExact
  <2>3. t \in {s \in Live : target'[s] = e} <=> e = best
    BY <1>1 DEF IInv, TypeInv, Live
  <2>. QED
    BY <2>1, <2>2, <2>3
<1>7. HuntedOnce'
  <2>. SUFFICES ASSUME NEW e \in Enemies, NEW t1 \in hunters'[e], NEW t2 \in hunters'[e]
               PROVE  t1 = t2
    BY DEF HuntedOnce
  <2>1. CASE e = best
    BY <1>1, <2>1
  <2>2. CASE e # best
    BY <1>1, <2>2 DEF IInv, HuntedOnce
  <2>. QED
    BY <2>1, <2>2
<1>. QED
  BY <1>3, <1>4, <1>5, <1>6, <1>7 DEF IInv

(* RemoveAssignee: either the squad is too weak and aborts, or a member   *)
(* leaves and, when it led the squad, one of those left takes the lead.   *)
LEMMA RemoveIInv ==
    ASSUME IInv, NEW t \in Tasks, NEW u \in Units, RemoveAssignee(t, u)
    PROVE  IInv'
<1>. USE ConstantFacts
<1>. DEFINE rest == squad[t] \ {u}
<1>1. t \in Live /\ u \in squad[t]
  BY DEF RemoveAssignee
<1>2. CASE TooWeak(t, rest)
  BY <1>1, <1>2, AbortIInv DEF RemoveAssignee
<1>3. CASE ~TooWeak(t, rest)
  <2>1. rest # {}
    BY <1>3 DEF TooWeak
  <2>2. PICK l \in LeaderAfter(t, u, rest) :
          /\ squad' = [squad EXCEPT ![t] = rest]
          /\ owner' = [owner EXCEPT ![u] = None]
          /\ leader' = [leader EXCEPT ![t] = l]
          /\ UNCHANGED <<status, target, hunters>>
    BY <1>1, <1>3 DEF RemoveAssignee, huntVars
  <2>3. l \in rest
    BY <1>1, <2>1 DEF LeaderAfter, IInv, LiveSquadManned
  <2>4. Live' = Live
    BY <2>2 DEF Live
  <2>5. TypeInv'
    BY <2>2, <2>3 DEF IInv, TypeInv
  <2>6. SquadOwnership'
    BY <1>1, <2>2, <2>4 DEF IInv, TypeInv, SquadOwnership
  <2>7. LiveSquadManned'
    BY <1>1, <2>2, <2>3, <2>4 DEF IInv, TypeInv, LiveSquadManned
  <2>8. Idle' /\ HuntersExact' /\ HuntedOnce'
    BY <1>1, <2>2, <2>4 DEF IInv, TypeInv, Idle, HuntersExact, HuntedOnce
  <2>. QED
    BY <2>5, <2>6, <2>7, <2>8 DEF IInv
<1>. QED
  BY <1>2, <1>3
(* Update: every 32nd update may merge the squad into another live one;   *)
(* otherwise the squad regroups, keeps its target, or runs FindTarget.    *)
LEMMA UpdateIInv ==
    ASSUME IInv, NEW t \in Tasks, Update(t)
    PROVE  IInv'
<1>1. t \in Live
  BY DEF Update
<1>2. CASE \E into \in Live \ {t} : Merge(t, into)
  BY <1>1, <1>2, MergeIInv
<1>3. CASE Proceed(t, updCount[t] + 1) /\ UNCHANGED squadVars
  <2>1. UNCHANGED <<status, squad, owner, leader>>
    BY <1>3 DEF squadVars
  <2>2. CASE UNCHANGED <<target, hunters>>
    BY <2>1, <2>2 DEF IInv, TypeInv, SquadOwnership, LiveSquadManned, Idle,
                      HuntersExact, HuntedOnce, Live
  <2>3. CASE FindTarget(t)
    BY <1>1, <2>1, <2>3, FindTargetIInv
  <2>. QED
    BY <1>3, <2>2, <2>3 DEF Proceed
<1>. QED
  BY <1>2, <1>3 DEF Update

\* A step of the squads keeps the inductive invariant.
LEMMA NextIInv == IInv /\ [Next]_vars => IInv'
<1>. SUFFICES ASSUME IInv, [Next]_vars PROVE IInv'
  OBVIOUS
<1>1. ASSUME NEW t \in Tasks, NEW u \in Units, Create(t, u) PROVE IInv'
  BY <1>1, CreateIInv
<1>2. ASSUME NEW t \in Tasks, NEW u \in Units, Recruit(t, u) PROVE IInv'
  BY <1>2, RecruitIInv
<1>3. ASSUME NEW t \in Tasks, NEW u \in Units, RemoveAssignee(t, u) PROVE IInv'
  BY <1>3, RemoveIInv
<1>4. ASSUME NEW t \in Tasks, Update(t) PROVE IInv'
  BY <1>4, UpdateIInv
<1>5. CASE UNCHANGED vars
  BY <1>5 DEF vars, squadVars, huntVars, IInv, TypeInv, SquadOwnership,
              LiveSquadManned, Idle, HuntersExact, HuntedOnce, Live
<1>. QED
  BY <1>1, <1>2, <1>3, <1>4, <1>5 DEF Next

\* The inductive invariant holds in every reachable state.
THEOREM IInvHolds == Spec => []IInv
BY InitIInv, NextIInv, PTL DEF Spec

(* Every unit is in the squad of the task it is assigned to and in no     *)
(* other, and dead tasks hold no unit, across recruiting, RemoveAssignee  *)
(* with its abort, and the merge path of CAttackTask::Update.             *)
THEOREM SquadOwnershipHolds == Spec => []SquadOwnership
BY IInvHolds, PTL DEF IInv

(* A live squad always has a leader among its members, so Update and      *)
(* FindTarget never read a null leader.                                   *)
THEOREM LiveSquadMannedHolds == Spec => []LiveSquadManned
BY IInvHolds, PTL DEF IInv

(* No enemy is hunted by two live attack tasks, and its list of hunting   *)
(* tasks names exactly the live tasks targeting it (FindTarget skipping   *)
(* hunted enemies, SetTarget, AbortTask).                                 *)
THEOREM TargetExclusiveHolds == Spec => []TargetExclusive
<1>1. IInv => TargetExclusive
  <2>. SUFFICES ASSUME IInv, NEW e \in Enemies
                PROVE  /\ hunters[e] = {t \in Live : target[t] = e}
                       /\ Cardinality(hunters[e]) <= 1
    BY DEF TargetExclusive
  <2>1. hunters[e] = {t \in Live : target[t] = e}
    BY DEF IInv, HuntersExact
  <2>2. \A x, y \in hunters[e] : x = y
    BY DEF IInv, HuntedOnce
  <2>. QED
    BY <2>1, <2>2, AtMostOne
<1>. QED
  BY <1>1, IInvHolds, PTL
=============================================================================
