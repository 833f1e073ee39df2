------------------------- MODULE EconomyClaimProofs -------------------------
(***************************************************************************)
(* Proofs that the planner's claims on metal spots, map features and       *)
(* geothermal spots never collide, for every value of the constants.       *)
(*                                                                         *)
(* None of SpotClaimExclusive, SalvageUnique and GeoClaimSound is          *)
(* inductive with the type invariant alone.                                *)
(*  - A MEXUP task may only be enqueued on a spot with no MEX task in      *)
(*    flight; the MEXUP stage only tests that the spot is closed and      *)
(*    carries our extractor, so the proof needs that a spot with a MEX    *)
(*    task in flight is closed and has no extractor of ours yet           *)
(*    (MexTaskAlone), and that no second MEXUP task is enqueued, which is *)
(*    UpgradeFlagTracksTasks.                                             *)
(*  - CBGeoTask::Cancel reopens a spot whose task was still queued; it is *)
(*    sound only because a queued task's spot has no plant               *)
(*    (GeoQueuedNoPlant).                                                 *)
(***************************************************************************)
EXTENDS EconomyPlannerProofs

USE ConstantFacts

\* A spot with an extractor task of ours in flight is closed and has no
\* extractor of ours yet: EnqueueMex only takes an open spot, which holds
\* none, and closes it.
MexTaskAlone ==
  \A s \in Spots : mexTasks[s] > 0 => mexTier[s] = 0 /\ ~mexOpen[s]

\* A geothermal spot whose task has not placed its nanoframe has no plant.
GeoQueuedNoPlant ==
  \A g \in GeoSpots : geoTask[g] = "queued" => ~geoPlant[g]

\* The strengthening for the metal spots.
SpotInv == SpotClaimExclusive /\ MexTaskAlone

\* The strengthening for the geothermal spots.
GeoInv == GeoClaimSound /\ GeoQueuedNoPlant

\* The inductive invariant of the claims.
ClaimInv ==
  /\ TypeOK /\ UpgradeFlagTracksTasks
  /\ SpotInv /\ SalvageUnique /\ GeoInv

-----------------------------------------------------------------------------
(* The metal spots. *)

\* A step that leaves the spot flags, tiers and task counters alone keeps
\* the spot claims.
LEMMA SpotFrame ==
  ASSUME SpotInv, UNCHANGED <<mexOpen, mexTier, mexTasks, mexUpTasks>>
  PROVE  SpotInv'
BY DEF SpotInv, SpotClaimExclusive, MexTaskAlone

\* The elementary effects of the planner keep the spot claims: a MEXUP
\* task goes to a closed spot of ours with no task in flight, a MEX task
\* to an open spot, which it closes.
LEMMA PlannerEffectSpot ==
  ASSUME TypeOK, UpgradeFlagTracksTasks, SpotInv, PlannerEffect
  PROVE  SpotInv'
<1>. USE DEF TypeOK, TaskTypeOK
<1>1. ASSUME NEW s \in Spots, IsUpgradeCandidate(s),
             NEW t \in UpgradeTiers(s), EnqueueMexUp(s, t)
      PROVE  SpotInv'
  <2>1. mexUpTasks[s] = 0 /\ mexTasks[s] = 0 /\ ~mexOpen[s]
    BY <1>1 DEF IsUpgradeCandidate, UpgradeFlagTracksTasks, SpotInv,
                MexTaskAlone
  <2>2. /\ mexUpTasks' = [mexUpTasks EXCEPT ![s] = 1]
        /\ UNCHANGED <<mexOpen, mexTier, mexTasks>>
    BY <1>1, <2>1 DEF EnqueueMexUp
  <2>. QED
    BY <2>1, <2>2 DEF SpotInv, SpotClaimExclusive, MexTaskAlone
<1>2. ASSUME NEW s \in Spots, NEW t \in MexTiers, IsOpenSpot(s), EnqueueMex(s, t)
      PROVE  SpotInv'
  <2>1. mexOpen[s]
    BY <1>2 DEF IsOpenSpot
  <2>2. ~(mexTier[s] > 0) /\ ~(mexUpTasks[s] > 0)
    BY <2>1 DEF SpotInv, SpotClaimExclusive
  <2>3. ~(mexTasks[s] > 0)
    BY <2>1 DEF SpotInv, MexTaskAlone
  <2>4. mexTier[s] \in MexTiers \cup {0} /\ MexTiers \subseteq Nat \ {0}
    BY ConstantFacts DEF Tiers
  <2>5. mexUpTasks[s] \in 0..MaxTasks /\ mexTasks[s] \in 0..MaxTasks
    BY DEF TypeOK, TaskTypeOK
  <2>6. mexUpTasks[s] = 0
    BY <2>2, <2>5
  <2>7. mexTasks[s] = 0
    BY <2>3, <2>5
  <2>8. mexTier[s] = 0
    <3>1. CASE mexTier[s] \in MexTiers
      <4>1. mexTier[s] \in Nat /\ mexTier[s] # 0
        BY <3>1, <2>4
      <4>. QED
        BY <4>1, <2>2
    <3>. QED
      BY <3>1, <2>4
  <2>9. mexUpTasks[s] = 0 /\ mexTasks[s] = 0 /\ mexTier[s] = 0
    BY <2>6, <2>7, <2>8
  <2>10. mexOpen' = [mexOpen EXCEPT ![s] = FALSE]
    BY <1>2 DEF IsOpenSpot, EnqueueMex, SetOpenSpot
  <2>11. /\ mexTasks' = [mexTasks EXCEPT ![s] = 1]
        /\ UNCHANGED <<mexTier, mexUpTasks>>
    BY <1>2, <2>9 DEF EnqueueMex
  <2>. QED
    BY <2>9, <2>10, <2>11 DEF SpotInv, SpotClaimExclusive, MexTaskAlone
<1>3. CASE NoNewTask
  BY <1>3, SpotFrame DEF NoNewTask, taskVars, mexVars
<1>4. CASE EnqueueConvert
  BY <1>4, SpotFrame DEF EnqueueConvert, mexVars
<1>5. ASSUME NEW f \in Features, EnqueueReclaim(f) \/ EnqueueResurrect(f)
      PROVE  SpotInv'
  BY <1>5, SpotFrame DEF EnqueueReclaim, EnqueueResurrect, mexVars
<1>6. ASSUME NEW d, EnqueueEnergy(d)
      PROVE  SpotInv'
  BY <1>6, SpotFrame DEF EnqueueEnergy, mexVars
<1>7. ASSUME NEW g \in GeoSpots, EnqueueGeo(g)
      PROVE  SpotInv'
  BY <1>7, SpotFrame DEF EnqueueGeo, mexVars
<1>. QED
  BY <1>1, <1>2, <1>3, <1>4, <1>5, <1>6, <1>7 DEF PlannerEffect

\* MEXUP and MEX task ends.  A MEXUP task ends on a closed spot that has
\* no MEX task; a MEX task that finishes leaves the spot closed, and one
\* that is cancelled gives back a spot that has no extractor and no MEXUP
\* task.
LEMMA MexStepSpot ==
  ASSUME TypeOK, SpotInv, NEW s \in Spots,
         \/ MexUpFinish(s) \/ MexUpCancel(s) \/ MexUpReclaimOld(s)
         \/ MexDestroyed(s) \/ MexTaskFinish(s) \/ MexTaskCancel(s)
  PROVE  SpotInv'
<1>. USE DEF TypeOK, TaskTypeOK, SpotInv, SpotClaimExclusive, MexTaskAlone
<1>1. CASE MexUpFinish(s) \/ MexUpCancel(s)
  <2>1. mexUpTasks[s] = 1 /\ mexTasks[s] = 0 /\ ~mexOpen[s]
    BY <1>1 DEF MexUpFinish, MexUpCancel
  <2>2. /\ mexUpTasks' = [mexUpTasks EXCEPT ![s] = 0]
        /\ mexTier' \in [Spots -> Tiers]
        /\ \A x \in Spots \ {s} : mexTier'[x] = mexTier[x]
        /\ UNCHANGED <<mexOpen, mexTasks>>
    BY <1>1, <2>1 DEF MexUpFinish, MexUpCancel
  <2>. QED
    BY <2>1, <2>2
<1>2. CASE MexUpReclaimOld(s) \/ MexDestroyed(s)
  <2>1. /\ mexTier' = [mexTier EXCEPT ![s] = 0]
        /\ UNCHANGED <<mexOpen, mexTasks, mexUpTasks>>
    BY <1>2 DEF MexUpReclaimOld, MexDestroyed
  <2>. QED
    BY <2>1
<1>3. CASE MexTaskFinish(s)
  <2>1. mexTasks[s] = 1 /\ mexUpTasks[s] = 0 /\ ~mexOpen[s]
    BY <1>3 DEF MexTaskFinish
  <2>2. /\ mexTasks' = [mexTasks EXCEPT ![s] = 0]
        /\ mexTier' \in [Spots -> Tiers]
        /\ \A x \in Spots \ {s} : mexTier'[x] = mexTier[x]
        /\ UNCHANGED <<mexOpen, mexUpTasks>>
    BY <1>3, <2>1 DEF MexTaskFinish
  <2>. QED
    BY <2>1, <2>2
<1>4. CASE MexTaskCancel(s)
  <2>1. mexTasks[s] = 1 /\ mexUpTasks[s] = 0 /\ mexTier[s] = 0 /\ ~mexOpen[s]
    BY <1>4 DEF MexTaskCancel
  <2>2. mexOpen' = [mexOpen EXCEPT ![s] = TRUE]
    BY <1>4, <2>1 DEF MexTaskCancel, SetOpenSpot
  <2>3. /\ mexTasks' = [mexTasks EXCEPT ![s] = 0]
        /\ UNCHANGED <<mexTier, mexUpTasks>>
    BY <1>4, <2>1 DEF MexTaskCancel
  <2>. QED
    BY <2>1, <2>2, <2>3
<1>. QED
  BY <1>1, <1>2, <1>3, <1>4
-----------------------------------------------------------------------------
(* The salvage tasks and the geothermal spots. *)

\* The planner enqueues a reclaim or resurrect task only for a feature that
\* has neither; a task end only lowers a count.
LEMMA SalvageStep ==
  ASSUME TypeOK, SalvageUnique, [Next]_vars
  PROVE  SalvageUnique'
<1>. USE DEF TypeOK, TaskTypeOK
<1>1. CASE MakeEconomyTasks
  <2>1. PlannerEffect
    BY <1>1, PlannerStepEffect
  <2>2. ASSUME NEW f \in Features, IsFeatureFree(f, TRUE),
               EnqueueReclaim(f) \/ EnqueueResurrect(f)
        PROVE  SalvageUnique'
    <3>1. reclaimTasks[f] = 0 /\ resurrectTasks[f] = 0
      BY <2>2 DEF IsFeatureFree
    <3>2. CASE EnqueueReclaim(f)
      <4>1. /\ reclaimTasks' = [reclaimTasks EXCEPT ![f] = 1]
            /\ resurrectTasks' = resurrectTasks
        BY <3>1, <3>2 DEF EnqueueReclaim
      <4>. QED
        BY <4>1, <3>1 DEF SalvageUnique
    <3>3. CASE EnqueueResurrect(f)
      <4>1. /\ resurrectTasks' = [resurrectTasks EXCEPT ![f] = 1]
            /\ reclaimTasks' = reclaimTasks
        BY <3>1, <3>3 DEF EnqueueResurrect
      <4>. QED
        BY <4>1, <3>1 DEF SalvageUnique
    <3>. QED
      BY <2>2, <3>2, <3>3
  <2>3. CASE ~\E f \in Features :
                IsFeatureFree(f, TRUE) /\ (EnqueueReclaim(f) \/ EnqueueResurrect(f))
    <3>1. UNCHANGED <<reclaimTasks, resurrectTasks>>
      BY <2>1, <2>3 DEF PlannerEffect, NoNewTask, taskVars, salvageVars,
                        EnqueueMexUp, EnqueueMex, EnqueueConvert, EnqueueEnergy,
                        EnqueueGeo
    <3>. QED
      BY <3>1 DEF SalvageUnique
  <2>. QED
    BY <2>2, <2>3
<1>2. ASSUME NEW f \in Features, ReclaimTaskEnd(f) \/ ResurrectTaskEnd(f)
      PROVE  SalvageUnique'
  <2>1. CASE ReclaimTaskEnd(f)
    <3>1. /\ reclaimTasks[f] > 0
          /\ reclaimTasks' = [reclaimTasks EXCEPT ![f] = @ - 1]
          /\ resurrectTasks' = resurrectTasks
      BY <2>1 DEF ReclaimTaskEnd
    <3>. QED
      BY <3>1 DEF SalvageUnique
  <2>2. CASE ResurrectTaskEnd(f)
    <3>1. /\ resurrectTasks[f] > 0
          /\ resurrectTasks' = [resurrectTasks EXCEPT ![f] = @ - 1]
          /\ reclaimTasks' = reclaimTasks
      BY <2>2 DEF ResurrectTaskEnd
    <3>. QED
      BY <3>1 DEF SalvageUnique
  <2>. QED
    BY <1>2, <2>1, <2>2
<1>3. CASE ~MakeEconomyTasks /\ ~\E f \in Features : ReclaimTaskEnd(f) \/ ResurrectTaskEnd(f)
  <2>1. UNCHANGED <<reclaimTasks, resurrectTasks>>
    BY <1>3 DEF Next, vars, taskVars, salvageVars, Tick, UpdateResourceIncome,
                WorkersChange, EconomyQuery, MexUpFinish, MexUpCancel,
                MexUpReclaimOld, MexDestroyed, MexTaskFinish, MexTaskCancel,
                ConvertTaskEnd, EnergyTaskEnd, EnergyDestroyed, GeoTaskStart,
                GeoTaskCancel, GeoTaskFinish, GeoPlantDestroyed
  <2>. QED
    BY <2>1 DEF SalvageUnique
<1>. QED
  BY <1>1, <1>2, <1>3

\* A step that leaves the geothermal state alone keeps its invariant.
LEMMA GeoFrame ==
  ASSUME GeoInv, UNCHANGED geoVars
  PROVE  GeoInv'
BY DEF GeoInv, GeoClaimSound, GeoQueuedNoPlant, geoVars

\* The planner takes only an open geothermal spot, which has no plant, and
\* closes it; CBGeoTask::Cancel reopens a spot only while its task is
\* queued, when no plant stands there; a finished plant stands on a spot
\* its task had closed.
LEMMA GeoStep ==
  ASSUME TypeOK, GeoInv, [Next]_vars
  PROVE  GeoInv'
<1>. USE DEF TypeOK, TaskTypeOK, GeoInv, GeoClaimSound, GeoQueuedNoPlant
<1>1. CASE MakeEconomyTasks
  <2>1. PlannerEffect
    BY <1>1, PlannerStepEffect
  <2>2. ASSUME NEW g \in GeoSpots, geoOpen[g], EnqueueGeo(g)
        PROVE  GeoInv'
    BY <2>2 DEF EnqueueGeo
  <2>3. CASE ~\E g \in GeoSpots : geoOpen[g] /\ EnqueueGeo(g)
    <3>1. UNCHANGED geoVars
      BY <2>1, <2>3 DEF PlannerEffect, NoNewTask, taskVars, EnqueueMexUp,
                        EnqueueMex, EnqueueConvert, EnqueueReclaim,
                        EnqueueResurrect, EnqueueEnergy
    <3>. QED
      BY <3>1, GeoFrame
  <2>. QED
    BY <2>2, <2>3
<1>2. ASSUME NEW g \in GeoSpots, GeoTaskStart(g) PROVE GeoInv'
  BY <1>2 DEF GeoTaskStart
<1>3. ASSUME NEW g \in GeoSpots, GeoTaskCancel(g) PROVE GeoInv'
  BY <1>3 DEF GeoTaskCancel
<1>4. ASSUME NEW g \in GeoSpots, GeoTaskFinish(g) PROVE GeoInv'
  BY <1>4 DEF GeoTaskFinish
<1>5. ASSUME NEW g \in GeoSpots, GeoPlantDestroyed(g) PROVE GeoInv'
  BY <1>5 DEF GeoPlantDestroyed
<1>6. CASE /\ ~MakeEconomyTasks
           /\ ~\E g \in GeoSpots :
                 \/ GeoTaskStart(g) \/ GeoTaskCancel(g)
                 \/ GeoTaskFinish(g) \/ GeoPlantDestroyed(g)
  <2>1. UNCHANGED geoVars
    BY <1>6 DEF Next, vars, taskVars, Tick, UpdateResourceIncome,
                WorkersChange, EconomyQuery, MexUpFinish, MexUpCancel,
                MexUpReclaimOld, MexDestroyed, MexTaskFinish, MexTaskCancel,
                ConvertTaskEnd, ReclaimTaskEnd, ResurrectTaskEnd,
                EnergyTaskEnd, EnergyDestroyed
  <2>. QED
    BY <2>1, GeoFrame
<1>. QED
  BY <1>1, <1>2, <1>3, <1>4, <1>5, <1>6
\* Every step keeps the spot claims.
LEMMA SpotStep ==
  ASSUME TypeOK, UpgradeFlagTracksTasks, SpotInv, [Next]_vars
  PROVE  SpotInv'
<1>1. CASE MakeEconomyTasks
  BY <1>1, PlannerStepEffect, PlannerEffectSpot
<1>2. ASSUME NEW s \in Spots,
             \/ MexUpFinish(s) \/ MexUpCancel(s) \/ MexUpReclaimOld(s)
             \/ MexDestroyed(s) \/ MexTaskFinish(s) \/ MexTaskCancel(s)
      PROVE  SpotInv'
  BY <1>2, MexStepSpot
<1>3. CASE /\ ~MakeEconomyTasks
           /\ ~\E s \in Spots :
                 \/ MexUpFinish(s) \/ MexUpCancel(s) \/ MexUpReclaimOld(s)
                 \/ MexDestroyed(s) \/ MexTaskFinish(s) \/ MexTaskCancel(s)
  <2>1. UNCHANGED mexVars
    BY <1>3 DEF Next, vars, taskVars, Tick, UpdateResourceIncome,
                WorkersChange, EconomyQuery, ConvertTaskEnd, ReclaimTaskEnd,
                ResurrectTaskEnd, EnergyTaskEnd, EnergyDestroyed, GeoTaskStart,
                GeoTaskCancel, GeoTaskFinish, GeoPlantDestroyed
  <2>. QED
    BY <2>1, SpotFrame DEF mexVars
<1>. QED
  BY <1>1, <1>2, <1>3

-----------------------------------------------------------------------------
(* The claims hold in every reachable state. *)

LEMMA ClaimInit == Init => ClaimInv
<1>. SUFFICES ASSUME Init PROVE ClaimInv
  OBVIOUS
<1>1. TypeOK
  BY InitType
<1>2. UpgradeFlagTracksTasks /\ SpotInv /\ SalvageUnique /\ GeoInv
  BY DEF Init, UpgradeFlagTracksTasks, SpotInv, SpotClaimExclusive,
         MexTaskAlone, SalvageUnique, GeoInv, GeoClaimSound, GeoQueuedNoPlant
<1>. QED
  BY <1>1, <1>2 DEF ClaimInv

LEMMA ClaimStep == ClaimInv /\ [Next]_vars => ClaimInv'
<1>. SUFFICES ASSUME ClaimInv, [Next]_vars PROVE ClaimInv'
  OBVIOUS
<1>1. TypeOK'
  BY TypeCorrectStep DEF ClaimInv
<1>2. UpgradeFlagTracksTasks'
  BY UpgradeStep DEF ClaimInv
<1>3. SpotInv'
  BY SpotStep DEF ClaimInv
<1>4. SalvageUnique'
  BY SalvageStep DEF ClaimInv
<1>5. GeoInv'
  BY GeoStep DEF ClaimInv
<1>. QED
  BY <1>1, <1>2, <1>3, <1>4, <1>5 DEF ClaimInv

\* The inductive invariant of the claims holds in every reachable state.
THEOREM ClaimsHold == Spec => []ClaimInv
BY ClaimInit, ClaimStep, PTL DEF Spec

\* A metal spot never carries two extractor tasks of ours, new or upgrade,
\* and a spot with our extractor or an upgrade in flight is never open:
\* the MEX stage's IsAllyOpenSpot test and the MEXUP stage's
\* IsUpgradingSpot and extractor tests, across task finishes and cancels.
THEOREM SpotClaimExclusiveHolds == Spec => []SpotClaimExclusive
BY ClaimsHold, PTL DEF ClaimInv, SpotInv

\* No map feature is the target of two salvage tasks: UpdateReclaimTasks
\* enqueues only for a feature with no reclaim and no resurrect task.
THEOREM SalvageUniqueHolds == Spec => []SalvageUnique
BY ClaimsHold, PTL DEF ClaimInv

\* An open geothermal spot has no task and no plant of ours: the CBGeoTask
\* constructor closes its spot, and Cancel reopens it only while the task
\* is queued and no plant stands there.
THEOREM GeoClaimSoundHolds == Spec => []GeoClaimSound
BY ClaimsHold, PTL DEF ClaimInv, GeoInv
=============================================================================
