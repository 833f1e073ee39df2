------------------------ MODULE ArtilleryTaskProofs ------------------------
(***************************************************************************)
(* Proofs about the artillery tasks of ArtilleryTask.tla, for every set of *)
(* tasks, units and enemies.                                               *)
(*                                                                         *)
(* ArtyOneUnit is not inductive as it stands: Assign relies on a task that *)
(* is not live holding no unit, and on a unit being in the squad of the    *)
(* task it is assigned to and of no other, so the inductive invariant adds *)
(* both.  Execute and Update never touch status, squad or owner.           *)
(***************************************************************************)
EXTENDS ArtilleryTask, FiniteSetTheorems, WellFoundedInduction, TLAPS

\* The types of the variables the invariant reads.
TypeInv ==
    /\ status \in [Tasks -> {"new", "live", "dead"}]
    /\ squad \in [Tasks -> SUBSET Units]
    /\ owner \in [Units -> Tasks \cup {None}]

\* A unit is in the squad of exactly the task it is assigned to.
Membership == \A u \in Units, t \in Tasks : u \in squad[t] <=> owner[u] = t

\* A task that is not live holds no unit.
IdleEmpty == \A t \in Tasks \ Live : squad[t] = {}

\* The inductive invariant.
IInv == TypeInv /\ Membership /\ IdleEmpty /\ ArtyOneUnit

LEMMA ConstantFacts == None \notin Tasks /\ None \notin Units
BY ArtyAssumptions

LEMMA InitIInv == Init => IInv
BY ConstantFacts DEF Init, IInv, TypeInv, Membership, IdleEmpty, ArtyOneUnit, Live

(* Assign: CanAssignTo accepts only a task with no unit, which is then a  *)
(* new task, and it becomes live with exactly that unit.                  *)
LEMMA AssignIInv ==
    ASSUME IInv, NEW t \in Tasks, NEW u \in Units, Assign(t, u)
    PROVE  IInv'
<1>. USE ConstantFacts
<1>1. /\ status[t] # "dead" /\ owner[u] = None /\ squad[t] = {}
      /\ status' = [status EXCEPT ![t] = "live"]
      /\ squad' = [squad EXCEPT ![t] = {u}]
      /\ owner' = [owner EXCEPT ![u] = t]
  BY DEF Assign, AssignTo, CanAssignTo
<1>2. Live' = Live \cup {t}
  BY <1>1 DEF Live, IInv, TypeInv
<1>3. TypeInv'
  BY <1>1 DEF IInv, TypeInv
<1>4. Membership'
  <2>. SUFFICES ASSUME NEW v \in Units, NEW s \in Tasks
                PROVE  v \in squad'[s] <=> owner'[v] = s
    BY DEF Membership
  <2>1. CASE v = u
    BY <1>1, <2>1 DEF IInv, TypeInv, Membership
  <2>2. CASE v # u /\ s = t
    BY <1>1, <2>2 DEF IInv, TypeInv, Membership
  <2>3. CASE v # u /\ s # t
    <3>1. squad'[s] = squad[s] /\ owner'[v] = owner[v]
      BY <1>1, <2>3 DEF IInv, TypeInv
    <3>. QED
      BY <3>1 DEF IInv, Membership
  <2>. QED
    BY <2>1, <2>2, <2>3
<1>5. IdleEmpty'
  BY <1>1, <1>2 DEF IInv, TypeInv, IdleEmpty
<1>6. ArtyOneUnit'
  <2>. SUFFICES ASSUME NEW s \in Live'
                PROVE  \E w \in Units : squad'[s] = {w} /\ owner'[w] = s
    BY DEF ArtyOneUnit
  <2>1. CASE s = t
    BY <1>1, <2>1 DEF IInv, TypeInv
  <2>2. CASE s # t
    <3>1. PICK w \in Units : squad[s] = {w} /\ owner[w] = s
      BY <1>2, <2>2 DEF IInv, ArtyOneUnit
    <3>2. w # u
      BY <1>1, <3>1, <1>2 DEF Live
    <3>. QED
      BY <1>1, <2>2, <3>1, <3>2 DEF IInv, TypeInv, Live
  <2>. QED
    BY <2>1, <2>2
<1>. QED
  BY <1>3, <1>4, <1>5, <1>6 DEF IInv

(* RemoveAssignee: the task's only unit leaves, so the task is aborted    *)
(* and the unit goes back to the idle pool.                               *)
LEMMA RemoveIInv ==
    ASSUME IInv, NEW t \in Tasks, NEW u \in Units, RemoveAssignee(t, u)
    PROVE  IInv'
<1>. USE ConstantFacts
<1>1. t \in Live /\ u \in squad[t]
  BY DEF RemoveAssignee
<1>2. squad[t] = {u}
  BY <1>1 DEF IInv, ArtyOneUnit
<1>3. /\ status' = [status EXCEPT ![t] = "dead"]
      /\ squad' = [squad EXCEPT ![t] = {}]
      /\ owner' = [x \in Units |-> IF x \in squad[t] THEN None ELSE owner[x]]
  BY <1>2 DEF RemoveAssignee
<1>4. Live' = Live \ {t}
  BY <1>3 DEF Live, IInv, TypeInv
<1>5. TypeInv'
  BY <1>3 DEF IInv, TypeInv
<1>6. Membership'
  BY <1>3 DEF IInv, TypeInv, Membership
<1>7. IdleEmpty'
  BY <1>3, <1>4 DEF IInv, TypeInv, IdleEmpty, Live
<1>8. ArtyOneUnit'
  <2>. SUFFICES ASSUME NEW s \in Live'
                PROVE  \E w \in Units : squad'[s] = {w} /\ owner'[w] = s
    BY DEF ArtyOneUnit
  <2>1. s \in Live /\ s # t
    BY <1>4
  <2>2. PICK w \in Units : squad[s] = {w} /\ owner[w] = s
    BY <2>1 DEF IInv, ArtyOneUnit
  <2>3. w \notin squad[t]
    BY <2>1, <2>2 DEF IInv, Membership, Live
  <2>4. squad'[s] = {w} /\ owner'[w] = s
    BY <1>3, <2>1, <2>2, <2>3 DEF Live
  <2>. QED
    BY <2>4
<1>. QED
  BY <1>5, <1>6, <1>7, <1>8 DEF IInv

\* Execute and Update leave status, squad and owner alone.
LEMMA OrdersIInv ==
    ASSUME IInv, UNCHANGED <<status, squad, owner>>
    PROVE  IInv'
BY DEF IInv, TypeInv, Membership, IdleEmpty, ArtyOneUnit, Live

\* A step of the artillery tasks keeps the inductive invariant.
LEMMA NextIInv == IInv /\ [Next]_vars => IInv'
<1>. SUFFICES ASSUME IInv, [Next]_vars PROVE IInv'
  OBVIOUS
<1>1. ASSUME NEW t \in Tasks, NEW u \in Units, Assign(t, u) PROVE IInv'
  BY <1>1, AssignIInv
<1>2. ASSUME NEW t \in Tasks, NEW u \in Units, RemoveAssignee(t, u) PROVE IInv'
  BY <1>2, RemoveIInv
<1>3. ASSUME NEW t \in Tasks, NEW u \in Units, ExecuteUnit(t, u) PROVE IInv'
  BY <1>3, OrdersIInv DEF ExecuteUnit
<1>4. ASSUME NEW t \in Tasks, Update(t) PROVE IInv'
  BY <1>4, OrdersIInv DEF Update
<1>5. CASE UNCHANGED vars
  BY <1>5, OrdersIInv DEF vars
<1>. QED
  BY <1>1, <1>2, <1>3, <1>4, <1>5 DEF Next

(* A live artillery task holds exactly one unit, assigned to it, whatever *)
(* the order of assignments, removals, OnUnitIdle and updates: the        *)
(* units.empty() test of CanAssignTo and the abort of RemoveAssignee.     *)
THEOREM ArtyOneUnitHolds == Spec => []ArtyOneUnit
<1>1. Spec => []IInv
  BY InitIInv, NextIInv, PTL DEF Spec
<1>. QED
  BY <1>1, PTL DEF IInv
-----------------------------------------------------------------------------
(***************************************************************************)
(* The target priority of FindTarget.  The loop over the enemies keeps an  *)
(* invariant about the enemies visited so far (LoopInv): maxThreat bounds  *)
(* their threat, bestTarget is one of them of that threat when it is       *)
(* positive, and while there is no bestTarget, mediumTarget and            *)
(* worstTarget are set exactly when a chaseable, resp. any, candidate has  *)
(* been seen.  An order of Orders visits every enemy, so after the loop    *)
(* the invariant speaks of all of them, and Pick lands in RefPick.         *)
(***************************************************************************)

\* The values the accumulator of the loop takes.
Accs == [best : Enemies \cup {None}, medium : Enemies \cup {None},
         worst : Enemies \cup {None}, maxThreat : Nat, positions : BOOLEAN]

\* The enemies the loop has visited after k iterations.
Visited(ord, k) == {ord[i] : i \in 1 .. k}

\* The enemies of S that FindTarget may shell: alive, seen and in range.
Cands(v, S) == {e \in S : v[e].eligible /\ v[e].radar /\ v[e].inRange}

\* What the accumulator a says of the enemies S the loop has visited.
LoopInv(a, v, S) ==
    /\ \A x \in Cands(v, S) : v[x].threat <= a.maxThreat
    /\ a.best = None => a.maxThreat = 0
    /\ a.best # None => /\ a.best \in Cands(v, S)
                       /\ v[a.best].threat = a.maxThreat
                       /\ a.maxThreat > 0
    /\ a.best = None =>
          /\ a.medium # None <=> \E x \in Cands(v, S) : ~v[x].noChase
          /\ a.medium # None => a.medium \in Cands(v, S) /\ ~v[a.medium].noChase
    /\ a.best = None /\ a.medium = None =>
          /\ a.worst # None <=> Cands(v, S) # {}
          /\ a.worst # None => a.worst \in Cands(v, S)

\* The prefix accumulators of the loop: acc of SelectLoop.
LoopFn(v, ord) ==
    CHOOSE f : f = [i \in 0 .. Len(ord) |->
                      IF i = 0 THEN Acc0
                      ELSE SelectStep(f[i - 1], ord[i], v[ord[i]])]

LEMMA SelectLoopFn ==
    ASSUME NEW v, NEW ord
    PROVE  SelectLoop(v, ord) = LoopFn(v, ord)[Len(ord)]
BY DEF SelectLoop, LoopFn

\* A non-empty set of naturals has a least element.
LEMMA NatLeast ==
    ASSUME NEW T \in SUBSET Nat, T # {}
    PROVE  \E k \in T : \A j \in T : ~(j < k)
<1>. DEFINE R == OpToRel(<, Nat)
<1>1. PICK k \in T : \A j \in T : ~(<<j, k>> \in R)
  BY NatLessThanWellFounded, WFMin
<1>2. \A j \in T : j < k => <<j, k>> \in R
  BY Zenon DEF OpToRel
<1>. QED
  BY <1>1, <1>2

\* The views of FindTarget carry a natural threat.
LEMMA ViewFacts ==
    ASSUME NEW v \in Views, NEW e \in Enemies
    PROVE  /\ v[e].threat \in Nat
           /\ v[e].eligible \in BOOLEAN /\ v[e].radar \in BOOLEAN
           /\ v[e].inRange \in BOOLEAN /\ v[e].noChase \in BOOLEAN
BY ArtyAssumptions DEF Views

\* One iteration of the loop keeps the accumulator in Accs.
LEMMA StepAccs ==
    ASSUME NEW a \in Accs, NEW v \in Views, NEW e \in Enemies
    PROVE  SelectStep(a, e, v[e]) \in Accs
BY ViewFacts DEF SelectStep, Accs

(* One iteration of the loop, at the enemy e, keeps LoopInv: one case per *)
(* branch of the if-chain of lines 190-216.                                *)
LEMMA StepInv ==
    ASSUME NEW v \in Views, NEW S \in SUBSET Enemies, NEW e \in Enemies,
           NEW a \in Accs, LoopInv(a, v, S)
    PROVE  LoopInv(SelectStep(a, e, v[e]), v, S \cup {e})
<1>. DEFINE b == SelectStep(a, e, v[e])
            w == v[e]
            C == Cands(v, S)
            C1 == Cands(v, S \cup {e})
<1>. USE DEF b, w, C, C1
<1>0. /\ w.threat \in Nat /\ a.maxThreat \in Nat /\ w.noChase \in BOOLEAN
      /\ a.best \in Enemies \cup {None} /\ a.medium \in Enemies \cup {None}
      /\ a.worst \in Enemies \cup {None}
      /\ \A x \in Enemies : v[x].threat \in Nat /\ v[x].noChase \in BOOLEAN
      /\ None \notin Enemies
  BY ViewFacts, ArtyAssumptions DEF Accs
<1>1. CASE ~(w.eligible /\ w.radar /\ w.inRange)
  <2>1. C1 = C
    BY <1>1 DEF Cands
  <2>2. /\ b.best = a.best /\ b.medium = a.medium /\ b.worst = a.worst
        /\ b.maxThreat = a.maxThreat
    BY <1>1 DEF SelectStep, Accs
  <2>. QED
    BY <2>1, <2>2 DEF LoopInv
<1>2. CASE w.eligible /\ w.radar /\ w.inRange
  <2>0. C1 = C \cup {e}
    BY <1>2 DEF Cands
  <2>1. CASE w.threat > a.maxThreat
    <3>1. b = [a EXCEPT !.best = e, !.maxThreat = w.threat]
      BY <1>2, <2>1 DEF SelectStep
    <3>2. b.best = e /\ b.maxThreat = w.threat
      BY <3>1 DEF Accs
    <3>3. \A x \in C1 : v[x].threat <= b.maxThreat
      BY <1>0, <2>0, <2>1, <3>2 DEF LoopInv, Cands
    <3>4. b.best # None /\ b.best \in C1 /\ v[b.best].threat = b.maxThreat
          /\ b.maxThreat > 0
      BY <1>0, <2>0, <2>1, <3>2
    <3>. QED
      BY <3>3, <3>4 DEF LoopInv
  <2>2. CASE w.threat <= a.maxThreat /\ a.best # None
    <3>1. b = a
      BY <1>0, <1>2, <2>2 DEF SelectStep
    <3>. QED
      BY <1>0, <2>0, <2>2, <3>1 DEF LoopInv
  <2>3. CASE w.threat <= a.maxThreat /\ a.best = None /\ ~w.noChase
    <3>1. b = [a EXCEPT !.medium = e]
      BY <1>0, <1>2, <2>3 DEF SelectStep
    <3>2. b.best = None /\ b.medium = e /\ b.maxThreat = a.maxThreat
      BY <3>1, <2>3 DEF Accs
    <3>. QED
      BY <1>0, <2>0, <2>3, <3>2 DEF LoopInv
  <2>4. CASE w.threat <= a.maxThreat /\ a.best = None /\ w.noChase
             /\ a.medium = None
    <3>1. b = [a EXCEPT !.worst = e]
      BY <1>0, <1>2, <2>4 DEF SelectStep
    <3>2. /\ b.best = None /\ b.medium = None /\ b.worst = e
          /\ b.maxThreat = a.maxThreat
      BY <3>1, <2>4 DEF Accs
    <3>. QED
      BY <1>0, <2>0, <2>4, <3>2 DEF LoopInv
  <2>5. CASE w.threat <= a.maxThreat /\ a.best = None /\ w.noChase
             /\ a.medium # None
    <3>1. b = a
      BY <1>0, <1>2, <2>5 DEF SelectStep
    <3>. QED
      BY <1>0, <2>0, <2>5, <3>1 DEF LoopInv
  <2>6. w.threat > a.maxThreat \/ w.threat <= a.maxThreat
    BY <1>0
  <2>. QED
    BY <1>0, <2>6, <2>1, <2>2, <2>3, <2>4, <2>5, Zenon
<1>. QED
  BY <1>1, <1>2

\* The number of enemies, the length of every order.
NEnemies == Cardinality(Enemies)

\* An order is an injective sequence of the enemies, of their number.
LEMMA OrderFacts ==
    ASSUME NEW ord \in Orders
    PROVE  /\ NEnemies \in Nat
           /\ ord \in [1 .. NEnemies -> Enemies]
           /\ Len(ord) = NEnemies
           /\ \A i, j \in 1 .. NEnemies : ord[i] = ord[j] => i = j
<1>1. NEnemies \in Nat
  BY ArtyAssumptions, FS_CardinalityType DEF NEnemies
<1>. QED
  BY <1>1 DEF Orders, NEnemies

\* f is the function acc of SelectLoop(v, ord).
LoopEq(f, v, ord) ==
    f = [i \in 0 .. Len(ord) |->
           IF i = 0 THEN Acc0 ELSE SelectStep(f[i - 1], ord[i], v[ord[i]])]

LEMMA Acc0Accs == Acc0 \in Accs
BY DEF Acc0, Accs

(* The recursive definition of acc has a solution: the prefix of length k *)
(* exists for every k, by extending the one of length k - 1, the least    *)
(* length without one cannot exist.                                       *)
LEMMA LoopFnEq ==
    ASSUME NEW v \in Views, NEW ord \in Orders
    PROVE  LoopEq(LoopFn(v, ord), v, ord)
<1>. DEFINE L == Len(ord)
            Pre(k) == \E g \in [0 .. k -> Accs] :
                        /\ g[0] = Acc0
                        /\ \A i \in 1 .. k : g[i] = SelectStep(g[i - 1], ord[i], v[ord[i]])
<1>. USE DEF L, Pre
<1>1. L \in Nat /\ ord \in [1 .. L -> Enemies]
  BY OrderFacts
<1>2. \A k \in 0 .. L : Pre(k)
  <2>. SUFFICES ASSUME \E k \in 0 .. L : ~Pre(k) PROVE FALSE
    OBVIOUS
  <2>. DEFINE T == {k \in 0 .. L : ~Pre(k)}
  <2>. USE DEF T
  <2>1. T \subseteq Nat /\ T # {}
    BY <1>1
  <2>2. PICK k \in T : \A j \in T : ~(j < k)
    BY <2>1, NatLeast
  <2>3. Pre(0)
    <3>. DEFINE g0 == [i \in 0 .. 0 |-> Acc0]
    <3>. USE DEF g0
    <3>1. g0 \in [0 .. 0 -> Accs] /\ g0[0] = Acc0
      BY Acc0Accs
    <3>2. \A i \in 1 .. 0 : g0[i] = SelectStep(g0[i - 1], ord[i], v[ord[i]])
      OBVIOUS
    <3>. QED
      BY <3>1, <3>2
  <2>4. k # 0
    BY <2>3, Zenon
  <2>a. k - 1 \notin T
    <3>1. k \in 0 .. L
      OBVIOUS
    <3>2. k - 1 < k
      BY <3>1
    <3>. QED
      BY <3>2, <2>2
  <2>b. k \in 1 .. L /\ k - 1 \in 0 .. L
    BY <1>1, <2>4
  <2>c. Pre(k - 1)
    BY <2>a, <2>b
  <2>5. PICK g \in [0 .. k - 1 -> Accs] :
              /\ g[0] = Acc0
              /\ \A i \in 1 .. k - 1 : g[i] = SelectStep(g[i - 1], ord[i], v[ord[i]])
    BY <2>c
  <2>. DEFINE h == [i \in 0 .. k |-> IF i < k THEN g[i]
                                     ELSE SelectStep(g[k - 1], ord[k], v[ord[k]])]
  <2>. USE DEF h
  <2>6. SelectStep(g[k - 1], ord[k], v[ord[k]]) \in Accs
    <3>1. g[k - 1] \in Accs /\ ord[k] \in Enemies
      BY <1>1, <2>b, <2>5
    <3>. QED
      BY <3>1, StepAccs
  <2>7. h \in [0 .. k -> Accs] /\ h[0] = Acc0
    BY <2>b, <2>5, <2>6
  <2>8. \A i \in 1 .. k : h[i] = SelectStep(h[i - 1], ord[i], v[ord[i]])
    BY <2>b, <2>5
  <2>9. Pre(k)
    BY <2>7, <2>8
  <2>. QED
    BY <2>2, <2>9
<1>3. PICK g \in [0 .. L -> Accs] :
          /\ g[0] = Acc0
          /\ \A i \in 1 .. L : g[i] = SelectStep(g[i - 1], ord[i], v[ord[i]])
  <2>1. L \in 0 .. L
    BY <1>1
  <2>. QED
    BY <2>1, <1>2, Zenon
<1>4. LoopEq(g, v, ord)
  <2>1. \A i \in 0 .. L : g[i] = IF i = 0 THEN Acc0
                                ELSE SelectStep(g[i - 1], ord[i], v[ord[i]])
    BY <1>1, <1>3
  <2>2. DOMAIN g = 0 .. L
    BY <1>3
  <2>. QED
    BY <2>1, <2>2 DEF LoopEq
<1>. QED
  BY <1>4, Zenon DEF LoopEq, LoopFn

(* Every prefix accumulator of the loop satisfies LoopInv for the enemies *)
(* visited so far: the least prefix that does not would follow one that   *)
(* does, by StepInv.                                                        *)
LEMMA LoopInvAll ==
    ASSUME NEW v \in Views, NEW ord \in Orders, NEW f, LoopEq(f, v, ord)
    PROVE  \A k \in 0 .. Len(ord) : f[k] \in Accs /\ LoopInv(f[k], v, Visited(ord, k))
<1>. DEFINE L == Len(ord)
            Good(k) == f[k] \in Accs /\ LoopInv(f[k], v, Visited(ord, k))
<1>. USE DEF L
<1>1. L \in Nat /\ ord \in [1 .. L -> Enemies]
  BY OrderFacts
<1>2. \A i \in 0 .. L : f[i] = IF i = 0 THEN Acc0
                              ELSE SelectStep(f[i - 1], ord[i], v[ord[i]])
  BY DEF LoopEq
<1>. SUFFICES ASSUME \E k \in 0 .. L : ~Good(k) PROVE FALSE
  BY DEF Good
<1>. DEFINE T == {k \in 0 .. L : ~Good(k)}
<1>3. T \subseteq Nat /\ T # {}
  BY <1>1
<1>4. PICK k \in T : \A j \in T : ~(j < k)
  BY <1>3, NatLeast
<1>5. k \in 0 .. L /\ ~Good(k)
  OBVIOUS
<1>6. CASE k = 0
  <2>1. f[0] = Acc0 /\ Visited(ord, 0) = {}
    BY <1>1, <1>2 DEF Visited
  <2>2. Cands(v, {}) = {}
    BY DEF Cands
  <2>3. LoopInv(Acc0, v, {})
    BY <2>2 DEF LoopInv, Acc0
  <2>4. Good(0)
    BY <2>1, <2>3, Acc0Accs DEF Good
  <2>. QED
    BY <1>5, <1>6, <2>4
<1>7. CASE k # 0
  <2>1. k \in 1 .. L /\ k - 1 \in 0 .. L /\ k - 1 < k
    BY <1>1, <1>5, <1>7
  <2>2. Good(k - 1)
    BY <2>1, <1>4
  <2>3. f[k] = SelectStep(f[k - 1], ord[k], v[ord[k]])
    BY <1>2, <2>1
  <2>4. Visited(ord, k) = Visited(ord, k - 1) \cup {ord[k]}
    BY <2>1, <1>1 DEF Visited
  <2>5. ord[k] \in Enemies /\ Visited(ord, k - 1) \subseteq Enemies
    BY <2>1, <1>1 DEF Visited
  <2>6. f[k] \in Accs
    BY <2>2, <2>3, <2>5, StepAccs DEF Good
  <2>7. LoopInv(f[k], v, Visited(ord, k))
    <3>1. f[k - 1] \in Accs /\ LoopInv(f[k - 1], v, Visited(ord, k - 1))
      BY <2>2 DEF Good
    <3>2. LoopInv(SelectStep(f[k - 1], ord[k], v[ord[k]]), v,
                  Visited(ord, k - 1) \cup {ord[k]})
      BY <3>1, <2>5, StepInv
    <3>. QED
      BY <3>2, <2>3, <2>4
  <2>. QED
    BY <1>5, <2>6, <2>7 DEF Good
<1>. QED
  BY <1>6, <1>7

(* An order visits every enemy: an injection of 1 .. NEnemies into the    *)
(* NEnemies enemies is onto them.                                           *)
LEMMA VisitedAll ==
    ASSUME NEW ord \in Orders
    PROVE  Visited(ord, Len(ord)) = Enemies
<1>1. /\ NEnemies \in Nat /\ ord \in [1 .. NEnemies -> Enemies]
      /\ Len(ord) = NEnemies
      /\ \A i, j \in 1 .. NEnemies : ord[i] = ord[j] => i = j
  BY OrderFacts
<1>2. ord \in Injection(1 .. NEnemies, Enemies)
  BY <1>1 DEF Injection, IsInjective
<1>3. Cardinality(1 .. NEnemies) = NEnemies
  BY <1>1, FS_Interval
<1>4. ord \in Surjection(1 .. NEnemies, Enemies)
  BY <1>2, <1>3, ArtyAssumptions, FS_Injection DEF NEnemies
<1>. QED
  BY <1>1, <1>4 DEF Surjection, Visited

(* Once LoopInv speaks of all the enemies, Pick returns what RefPick      *)
(* allows: bestTarget is a most threatening candidate of positive threat;  *)
(* without one no candidate has positive threat, and mediumTarget, then    *)
(* worstTarget, is set exactly when a chaseable, then any, candidate is.   *)
LEMMA PickOK ==
    ASSUME NEW v \in Views, NEW a \in Accs, LoopInv(a, v, Enemies)
    PROVE  Pick(a) \in RefPick(v)
<1>. DEFINE cand == Cands(v, Enemies)
            top == {e \in cand : v[e].threat > 0 /\
                                 \A x \in cand : v[x].threat <= v[e].threat}
            chase == {e \in cand : ~v[e].noChase}
<1>. USE DEF cand, top, chase
<1>1. RefPick(v) = IF top # {} THEN top
                   ELSE IF chase # {} THEN chase
                   ELSE IF cand # {} THEN cand ELSE {None}
  BY DEF RefPick, Cands
<1>2. /\ a.maxThreat \in Nat
      /\ \A x \in Enemies : v[x].threat \in Nat /\ v[x].noChase \in BOOLEAN
  BY ViewFacts DEF Accs
<1>3. CASE a.best # None
  <2>1. a.best \in top
    BY <1>2, <1>3 DEF LoopInv
  <2>2. Pick(a) = a.best
    BY <1>3 DEF Pick
  <2>. QED
    BY <1>1, <2>1, <2>2
<1>4. CASE a.best = None
  <2>1. top = {}
    <3>1. \A x \in cand : x \in Enemies /\ v[x].threat <= 0
      BY <1>4 DEF LoopInv, Cands
    <3>. QED
      BY <3>1, <1>2
  <2>2. CASE a.medium # None
    <3>1. a.medium \in chase /\ Pick(a) = a.medium
      BY <1>4, <2>2 DEF LoopInv, Pick
    <3>. QED
      BY <1>1, <2>1, <3>1
  <2>3. CASE a.medium = None
    <3>1. chase = {}
      BY <1>2, <1>4, <2>3 DEF LoopInv
    <3>2. Pick(a) = a.worst
      BY <1>4, <2>3 DEF Pick
    <3>3. cand # {} => a.worst \in cand
      BY <1>4, <2>3 DEF LoopInv
    <3>4. cand = {} => a.worst = None
      BY <1>4, <2>3 DEF LoopInv
    <3>. QED
      BY <1>1, <2>1, <3>1, <3>2, <3>3, <3>4
  <2>. QED
    BY <2>2, <2>3
<1>. QED
  BY <1>3, <1>4

\* The loop of FindTarget, over any order of the enemies, picks by RefPick.
LEMMA LoopPick ==
    ASSUME NEW v \in Views, NEW ord \in Orders
    PROVE  Pick(SelectLoop(v, ord)) \in RefPick(v)
<1>. DEFINE f == LoopFn(v, ord)
            L == Len(ord)
<1>1. LoopEq(f, v, ord)
  BY LoopFnEq
<1>2. L \in 0 .. L
  BY OrderFacts
<1>3. f[L] \in Accs /\ LoopInv(f[L], v, Visited(ord, L))
  BY <1>1, <1>2, LoopInvAll
<1>4. Visited(ord, L) = Enemies
  BY VisitedAll
<1>5. SelectLoop(v, ord) = f[L]
  BY SelectLoopFn
<1>. QED
  BY <1>3, <1>4, <1>5, PickOK

(* The inductive invariant for TargetPriority: the last view FindTarget   *)
(* saw is a view of the enemies.                                           *)
TPInv == lastView \in Views \cup {None} /\ TargetPriority

(* Execute records a safe FindTarget's view and pick, which the loop       *)
(* lemma relates, and leaves both alone otherwise.                         *)
LEMMA ExecuteTP ==
    ASSUME TPInv, NEW t, NEW isUpdating, Execute(t, isUpdating)
    PROVE  TPInv'
<1>1. PICK v \in Views, ord \in Orders, safe \in BOOLEAN :
          /\ lastView' = IF safe THEN v ELSE lastView
          /\ lastPick' = IF safe THEN Pick(SelectLoop(v, ord)) ELSE lastPick
  BY DEF Execute
<1>2. CASE safe
  <2>1. lastView' = v /\ lastPick' = Pick(SelectLoop(v, ord))
    BY <1>1, <1>2
  <2>. QED
    BY <2>1, LoopPick DEF TPInv, TargetPriority
<1>3. CASE ~safe
  BY <1>1, <1>3 DEF TPInv, TargetPriority
<1>. QED
  BY <1>2, <1>3

LEMMA NextTP == TPInv /\ [Next]_vars => TPInv'
<1>. SUFFICES ASSUME TPInv, [Next]_vars PROVE TPInv'
  OBVIOUS
<1>1. CASE UNCHANGED <<lastView, lastPick>>
  BY <1>1 DEF TPInv, TargetPriority
<1>2. ASSUME NEW t \in Tasks, NEW u \in Units, Assign(t, u) PROVE TPInv'
  BY <1>2, <1>1 DEF Assign
<1>3. ASSUME NEW t \in Tasks, NEW u \in Units, RemoveAssignee(t, u) PROVE TPInv'
  BY <1>3, <1>1 DEF RemoveAssignee
<1>4. ASSUME NEW t \in Tasks, NEW u \in Units, ExecuteUnit(t, u) PROVE TPInv'
  BY <1>4, ExecuteTP DEF ExecuteUnit
<1>5. ASSUME NEW t \in Tasks, Update(t) PROVE TPInv'
  BY <1>5, <1>1, ExecuteTP DEF Update
<1>6. CASE UNCHANGED vars
  BY <1>6, <1>1 DEF vars
<1>. QED
  BY <1>2, <1>3, <1>4, <1>5, <1>6 DEF Next

(* Whatever order the loop of FindTarget visits the enemies in, the       *)
(* target of every safe FindTarget is one RefPick allows: a most          *)
(* threatening enemy in range when one has positive threat, else one we   *)
(* may chase, else any in range, else none (lines 187-221).               *)
THEOREM TargetPriorityHolds == Spec => []TargetPriority
<1>1. Init => TPInv
  BY DEF Init, TPInv, TargetPriority
<1>2. Spec => []TPInv
  BY <1>1, NextTP, PTL DEF Spec
<1>. QED
  BY <1>2, PTL DEF TPInv

=============================================================================
