------------------------ MODULE EconomyPlannerProofs ------------------------
(***************************************************************************)
(* Proofs about EconomyPlanner for every value of its constants: the type  *)
(* invariant, and the invariant that a spot's isUpgrading flag tracks the  *)
(* MEXUP task in flight on it.                                             *)
(*                                                                         *)
(* The planner step MakeEconomyTasks nests its stages several levels deep. *)
(* The proofs first show that whatever path a call takes through the      *)
(* cascade, its effect on the tasks is one of a few elementary effects    *)
(* (PlannerEffect), and then reason about those effects only.             *)
(***************************************************************************)
EXTENDS EconomyPlanner, TLAPS

\* The facts about the constants that the proofs use.
LEMMA ConstantFacts ==
  /\ MexTiers \subseteq Nat \ {0}
  /\ FramesPerSec \in Nat \ {0}
  /\ SlowUpdateRate \in Nat \ {0}
  /\ MaxFrame \in Nat
  /\ MaxWorkers \in Nat \ {0}
  /\ MaxTasks \in Nat \ {0}
  /\ MaxCount \in Nat
BY PlannerAssumptions

USE ConstantFacts

\* The elementary effects of one planner call on the spot and task state.
PlannerEffect ==
  \/ NoNewTask
  \/ \E s \in Spots : IsUpgradeCandidate(s) /\ \E t \in UpgradeTiers(s) : EnqueueMexUp(s, t)
  \/ \E s \in Spots, t \in MexTiers : IsOpenSpot(s) /\ EnqueueMex(s, t)
  \/ EnqueueConvert
  \/ \E f \in Features :
        IsFeatureFree(f, TRUE) /\ (EnqueueReclaim(f) \/ EnqueueResurrect(f))
  \/ \E d : EnqueueEnergy(d)
  \/ \E g \in GeoSpots : geoOpen[g] /\ EnqueueGeo(g)

-----------------------------------------------------------------------------
(* Each stage of the cascade ends in an elementary effect. *)

\* UpdateGeoTasks enqueues at most one geothermal task.
LEMMA GeoStageEffect ==
  ASSUME NEW depth, UpdateGeoTasks(depth)
  PROVE  PlannerEffect
BY DEF UpdateGeoTasks, PlannerEffect

\* UpdateEnergyTasks enqueues at most one energy or geothermal task.
LEMMA EnergyStageEffect ==
  ASSUME NEW depth, NEW e, UpdateEnergyTasks(depth, e)
  PROVE  PlannerEffect
<1>1. CASE UpdateGeoTasks(depth)
  BY <1>1, GeoStageEffect
<1>2. CASE NoNewTask
  BY <1>2 DEF PlannerEffect
<1>3. CASE \E d : EnqueueEnergy(d)
  BY <1>3 DEF PlannerEffect
<1>. QED
  BY <1>1, <1>2, <1>3 DEF UpdateEnergyTasks

\* UpdateReclaimTasks enqueues at most one salvage task.
LEMMA ReclaimStageEffect ==
  ASSUME NEW isResurrect, NEW e, UpdateReclaimTasks(isResurrect, e)
  PROVE  PlannerEffect
BY DEF UpdateReclaimTasks, PlannerEffect, IsFeatureFree

\* The metal stages enqueue at most one task.
LEMMA MetalStageEffect ==
  ASSUME NEW e, NEW isResurrect, MetalStages(e, isResurrect)
  PROVE  PlannerEffect
BY ReclaimStageEffect DEF MetalStages, PlannerEffect

\* UpdateMetalTasks: an elementary effect, after a memo refresh or none.
LEMMA MetalTasksEffect ==
  ASSUME NEW depth, NEW isResurrect, UpdateMetalTasks(depth, isResurrect)
  PROVE  /\ PlannerEffect
         /\ \/ UNCHANGED <<ecoFrame, eco>>
            \/ \E e \in EcoStates : UpdateEconomy(e)
<1>1. CASE ~CanEnqueueTask(depth, 16) /\ NoNewTask /\ UNCHANGED <<ecoFrame, eco>>
  BY <1>1 DEF PlannerEffect
<1>2. CASE /\ CanEnqueueTask(depth, 16)
           /\ \E e \in EcoStates :
                /\ UpdateEconomy(e)
                /\ IF IsEnergyStalling(e) THEN UpdateEnergyTasks(depth, e)
                                          ELSE MetalStages(e, isResurrect)
  <2>1. PICK e \in EcoStates :
              /\ UpdateEconomy(e)
              /\ IF IsEnergyStalling(e) THEN UpdateEnergyTasks(depth, e)
                                        ELSE MetalStages(e, isResurrect)
    BY <1>2
  <2>2. PlannerEffect
    BY <2>1, EnergyStageEffect, MetalStageEffect
  <2>. QED  BY <2>1, <2>2
<1>. QED  BY <1>1, <1>2 DEF UpdateMetalTasks

\* MakeEconomyTasks: an elementary effect; besides, the memo is refreshed
\* or not, a cluster's cooldown frame may be set to now, and the clock,
\* the income and the workers stay.
LEMMA PlannerStepEffect ==
  ASSUME MakeEconomyTasks
  PROVE  /\ PlannerEffect
         /\ \/ UNCHANGED <<ecoFrame, eco>>
            \/ \E e \in EcoStates : UpdateEconomy(e)
         /\ \/ UNCHANGED clusterFrame
            \/ \E c \in Clusters : clusterFrame' = [clusterFrame EXCEPT ![c] = frame]
         /\ UNCHANGED <<frame, metalRich, workers>>
<1>1. PICK c \in Clusters \cup {NoCluster}, depth \in QueueDepths,
           isResurrect \in BOOLEAN :
         \/ /\ ~CanEnqueueTask(depth, DefaultQueueMax) \/ IsCoolingDown(c)
            /\ NoNewTask
            /\ UNCHANGED <<ecoFrame, eco, clusterFrame>>
         \/ /\ CanEnqueueTask(depth, DefaultQueueMax)
            /\ ~IsCoolingDown(c)
            /\ clusterFrame' = IF c = NoCluster THEN clusterFrame
                               ELSE [clusterFrame EXCEPT ![c] = frame]
            /\ UpdateMetalTasks(depth, isResurrect)
  BY DEF MakeEconomyTasks
<1>2. UNCHANGED <<frame, metalRich, workers>>
  BY DEF MakeEconomyTasks
<1>3. \/ UNCHANGED clusterFrame
      \/ \E cl \in Clusters : clusterFrame' = [clusterFrame EXCEPT ![cl] = frame]
  BY <1>1
<1>. QED  BY <1>1, <1>2, <1>3, MetalTasksEffect DEF PlannerEffect

-----------------------------------------------------------------------------
(* Type correctness. *)

\* SetOpenSpot keeps the spot flags boolean and the count an integer.
LEMMA SetOpenSpotType ==
  ASSUME TaskTypeOK, NEW s \in Spots, NEW value \in BOOLEAN, SetOpenSpot(s, value)
  PROVE  mexOpen' \in [Spots -> BOOLEAN] /\ mexCount' \in Int
<1>1. CASE mexOpen[s] = value /\ UNCHANGED <<mexOpen, mexCount>>
  BY <1>1 DEF TaskTypeOK
<1>2. CASE /\ mexOpen[s] # value
           /\ mexOpen' = [mexOpen EXCEPT ![s] = value]
           /\ mexCount' = IF value THEN mexCount - 1 ELSE mexCount + 1
  BY <1>2 DEF TaskTypeOK
<1>. QED  BY <1>1, <1>2 DEF SetOpenSpot

\* Every elementary effect of the planner keeps the task state typed.
LEMMA PlannerEffectType ==
  ASSUME TaskTypeOK, PlannerEffect
  PROVE  TaskTypeOK'
<1>1. CASE NoNewTask
  BY <1>1 DEF NoNewTask, taskVars, mexVars, salvageVars, energyVars, geoVars, TaskTypeOK
<1>2. ASSUME NEW s \in Spots, NEW t \in UpgradeTiers(s), EnqueueMexUp(s, t)
      PROVE  TaskTypeOK'
  BY <1>2 DEF EnqueueMexUp, UpgradeTiers, Tiers, TaskTypeOK, salvageVars, energyVars, geoVars
<1>3. ASSUME NEW s \in Spots, NEW t \in MexTiers, EnqueueMex(s, t)
      PROVE  TaskTypeOK'
  <2>1. mexOpen' \in [Spots -> BOOLEAN] /\ mexCount' \in Int
    BY <1>3, SetOpenSpotType DEF EnqueueMex
  <2>2. mexTasks' \in [Spots -> 0..MaxTasks] /\ mexTaskTier' \in [Spots -> Tiers]
    BY <1>3 DEF EnqueueMex, Tiers, TaskTypeOK
  <2>3. UNCHANGED <<mexUpgrading, mexTier, mexUpTasks, mexUpTier, convertTasks,
                    salvageVars, energyVars, geoVars>>
    BY <1>3 DEF EnqueueMex
  <2>. QED  BY <2>1, <2>2, <2>3 DEF TaskTypeOK, salvageVars, energyVars, geoVars
<1>4. CASE EnqueueConvert
  BY <1>4 DEF EnqueueConvert, TaskTypeOK, mexVars, salvageVars, energyVars, geoVars
<1>5. ASSUME NEW f \in Features, EnqueueReclaim(f) \/ EnqueueResurrect(f)
      PROVE  TaskTypeOK'
  BY <1>5 DEF EnqueueReclaim, EnqueueResurrect, TaskTypeOK, mexVars, energyVars, geoVars
<1>6. ASSUME NEW d, EnqueueEnergy(d)
      PROVE  TaskTypeOK'
  <2>1. energyTasks' \in [EnergyDefs -> 0..MaxTasks]
    <3>1. CASE d \in EnergyDefs
      BY <1>6, <3>1 DEF EnqueueEnergy, TaskTypeOK
    <3>2. CASE d \notin EnergyDefs
      <4>1. energyTasks' = energyTasks
        BY <1>6, <3>2 DEF EnqueueEnergy, TaskTypeOK
      <4>. QED  BY <4>1 DEF TaskTypeOK
    <3>. QED  BY <3>1, <3>2
  <2>. QED  BY <1>6, <2>1 DEF EnqueueEnergy, TaskTypeOK, mexVars, salvageVars, geoVars
<1>7. ASSUME NEW g \in GeoSpots, EnqueueGeo(g)
      PROVE  TaskTypeOK'
  BY <1>7 DEF EnqueueGeo, TaskTypeOK, mexVars, salvageVars, energyVars
<1>. QED  BY <1>1, <1>2, <1>3, <1>4, <1>5, <1>6, <1>7 DEF PlannerEffect

\* UpdateEconomy leaves the memo frame within the clock and the flags in
\* EcoStates.
LEMMA UpdateEconomyType ==
  ASSUME TypeOK, NEW e \in EcoStates, UpdateEconomy(e)
  PROVE  ecoFrame' \in -1..MaxFrame /\ eco' \in EcoStates
BY DEF UpdateEconomy, TypeOK

\* A planner call keeps every variable typed.
LEMMA PlannerStepType ==
  ASSUME TypeOK, MakeEconomyTasks
  PROVE  TypeOK'
<1>1. TaskTypeOK'
  BY PlannerStepEffect, PlannerEffectType DEF TypeOK
<1>2. ecoFrame' \in -1..MaxFrame /\ eco' \in EcoStates
  BY PlannerStepEffect, UpdateEconomyType DEF TypeOK
<1>3. clusterFrame' \in [Clusters -> -FramesPerSec..MaxFrame]
  BY PlannerStepEffect DEF TypeOK
<1>. QED  BY <1>1, <1>2, <1>3, PlannerStepEffect DEF TypeOK

\* The extractor task steps keep every variable typed.
LEMMA MexStepType ==
  ASSUME TypeOK, NEW s \in Spots,
         \/ MexUpFinish(s) \/ MexUpCancel(s) \/ MexUpReclaimOld(s)
         \/ MexDestroyed(s) \/ MexTaskFinish(s) \/ MexTaskCancel(s)
  PROVE  TypeOK'
<1>. USE DEF TypeOK, TaskTypeOK, EnvStep, salvageVars, energyVars, geoVars
<1>1. CASE MexUpFinish(s)
  BY <1>1 DEF MexUpFinish, Tiers
<1>2. CASE MexUpCancel(s)
  BY <1>2 DEF MexUpCancel, Tiers
<1>3. CASE MexUpReclaimOld(s) \/ MexDestroyed(s)
  BY <1>3 DEF MexUpReclaimOld, MexDestroyed, Tiers
<1>4. CASE MexTaskFinish(s)
  BY <1>4 DEF MexTaskFinish, Tiers
<1>5. CASE MexTaskCancel(s)
  <2>1. mexOpen' \in [Spots -> BOOLEAN] /\ mexCount' \in Int
    BY <1>5, SetOpenSpotType DEF MexTaskCancel
  <2>2. mexTasks' \in [Spots -> 0..MaxTasks] /\ mexTaskTier' \in [Spots -> Tiers]
    BY <1>5 DEF MexTaskCancel, Tiers
  <2>. QED  BY <1>5, <2>1, <2>2 DEF MexTaskCancel
<1>. QED  BY <1>1, <1>2, <1>3, <1>4, <1>5

\* The salvage, converter and energy task steps keep every variable typed.
LEMMA TaskEndType ==
  ASSUME TypeOK,
         \/ ConvertTaskEnd
         \/ \E f \in Features : ReclaimTaskEnd(f) \/ ResurrectTaskEnd(f)
         \/ \E d \in EnergyDefs : EnergyTaskEnd(d) \/ EnergyDestroyed(d)
  PROVE  TypeOK'
<1>. USE DEF TypeOK, TaskTypeOK, EnvStep, mexVars, salvageVars, energyVars, geoVars
<1>1. CASE ConvertTaskEnd
  BY <1>1 DEF ConvertTaskEnd
<1>2. ASSUME NEW f \in Features, ReclaimTaskEnd(f)
      PROVE  TypeOK'
  <2>1. featureLeft' \in [Features -> BOOLEAN]
    BY <1>2 DEF ReclaimTaskEnd
  <2>2. reclaimTasks' \in [Features -> Nat]
    BY <1>2 DEF ReclaimTaskEnd
  <2>3. UNCHANGED <<frame, ecoFrame, eco, metalRich, workers, clusterFrame,
                    mexVars, convertTasks, energyVars, geoVars>>
    BY <1>2 DEF ReclaimTaskEnd
  <2>4. resurrectTasks' = resurrectTasks
    BY <1>2 DEF ReclaimTaskEnd
  <2>. QED  BY <2>1, <2>2, <2>3, <2>4
<1>3. ASSUME NEW f \in Features, ResurrectTaskEnd(f)
      PROVE  TypeOK'
  <2>1. featureLeft' \in [Features -> BOOLEAN]
    BY <1>3 DEF ResurrectTaskEnd
  <2>2. resurrectTasks' \in [Features -> Nat]
    BY <1>3 DEF ResurrectTaskEnd
  <2>3. UNCHANGED <<frame, ecoFrame, eco, metalRich, workers, clusterFrame,
                    mexVars, convertTasks, energyVars, geoVars>>
    BY <1>3 DEF ResurrectTaskEnd
  <2>4. reclaimTasks' = reclaimTasks
    BY <1>3 DEF ResurrectTaskEnd
  <2>. QED  BY <2>1, <2>2, <2>3, <2>4
<1>4. ASSUME NEW d \in EnergyDefs, EnergyTaskEnd(d)
      PROVE  TypeOK'
  BY <1>4 DEF EnergyTaskEnd
<1>5. ASSUME NEW d \in EnergyDefs, EnergyDestroyed(d)
      PROVE  TypeOK'
  BY <1>5 DEF EnergyDestroyed
<1>. QED  BY <1>1, <1>2, <1>3, <1>4, <1>5

\* The geothermal task steps keep every variable typed.
LEMMA GeoStepType ==
  ASSUME TypeOK, NEW g \in GeoSpots,
         GeoTaskStart(g) \/ GeoTaskCancel(g) \/ GeoTaskFinish(g) \/ GeoPlantDestroyed(g)
  PROVE  TypeOK'
<1>. USE DEF TypeOK, TaskTypeOK, EnvStep, mexVars, salvageVars, energyVars
<1>1. CASE GeoTaskStart(g)
  BY <1>1 DEF GeoTaskStart
<1>2. CASE GeoTaskCancel(g)
  BY <1>2 DEF GeoTaskCancel
<1>3. CASE GeoTaskFinish(g)
  BY <1>3 DEF GeoTaskFinish
<1>4. CASE GeoPlantDestroyed(g)
  BY <1>4 DEF GeoPlantDestroyed
<1>. QED  BY <1>1, <1>2, <1>3, <1>4

\* The clock, income, worker and economy-query steps keep every variable typed.
LEMMA WorldStepType ==
  ASSUME TypeOK, Tick \/ UpdateResourceIncome \/ WorkersChange \/ EconomyQuery
  PROVE  TypeOK'
<1>. USE DEF TypeOK, TaskTypeOK, taskVars, mexVars, salvageVars, energyVars, geoVars
<1>1. CASE Tick
  BY <1>1 DEF Tick
<1>2. CASE UpdateResourceIncome
  BY <1>2 DEF UpdateResourceIncome
<1>3. CASE WorkersChange
  BY <1>3 DEF WorkersChange
<1>4. CASE EconomyQuery
  <2>1. PICK e \in EcoStates : UpdateEconomy(e)
    BY <1>4 DEF EconomyQuery
  <2>2. ecoFrame' \in -1..MaxFrame /\ eco' \in EcoStates
    BY <2>1, UpdateEconomyType
  <2>. QED  BY <1>4, <2>2 DEF EconomyQuery
<1>. QED  BY <1>1, <1>2, <1>3, <1>4

\* The initial state is typed.
LEMMA InitType == Init => TypeOK
<1>. SUFFICES ASSUME Init PROVE TypeOK
  OBVIOUS
<1>1. eco \in EcoStates
  BY DEF Init, EcoStates
<1>2. TaskTypeOK
  BY DEF Init, TaskTypeOK, Tiers
<1>3. clusterFrame \in [Clusters -> -FramesPerSec..MaxFrame]
  BY DEF Init
<1>4. frame \in 0..MaxFrame /\ ecoFrame \in -1..MaxFrame
  BY DEF Init
<1>5. metalRich \in BOOLEAN /\ workers \in 1..MaxWorkers
  BY DEF Init
<1>. QED  BY <1>1, <1>2, <1>3, <1>4, <1>5 DEF TypeOK

\* Every step of the program keeps every variable typed.
LEMMA TypeCorrectStep == TypeOK /\ [Next]_vars => TypeOK'
<1>. SUFFICES ASSUME TypeOK, [Next]_vars PROVE TypeOK'
  OBVIOUS
<1>1. CASE MakeEconomyTasks
  BY <1>1, PlannerStepType
<1>2. CASE UNCHANGED vars
  BY <1>2 DEF vars, taskVars, mexVars, salvageVars, energyVars, geoVars,
              TypeOK, TaskTypeOK
<1>3. ASSUME NEW s \in Spots,
             \/ MexUpFinish(s) \/ MexUpCancel(s) \/ MexUpReclaimOld(s)
             \/ MexDestroyed(s) \/ MexTaskFinish(s) \/ MexTaskCancel(s)
      PROVE  TypeOK'
  BY <1>3, MexStepType
<1>4. ASSUME NEW g \in GeoSpots,
             GeoTaskStart(g) \/ GeoTaskCancel(g) \/ GeoTaskFinish(g)
             \/ GeoPlantDestroyed(g)
      PROVE  TypeOK'
  BY <1>4, GeoStepType
<1>. QED  BY <1>1, <1>2, <1>3, <1>4, TaskEndType, WorldStepType DEF Next

\* TypeOK holds in every reachable state: every counter of tasks stays in
\* 0..MaxTasks, every recorded frame within the clock, every flag boolean.
THEOREM TypeCorrect == Spec => []TypeOK
BY TypeCorrectStep, InitType, PTL DEF Spec

-----------------------------------------------------------------------------
(* The isUpgrading flag of a spot tracks the MEXUP task in flight on it.   *)

\* A step that leaves the flags and the MEXUP task counters alone keeps the
\* correspondence between them.
LEMMA UpgradeFlagFrame ==
  ASSUME UpgradeFlagTracksTasks, UNCHANGED <<mexUpgrading, mexUpTasks>>
  PROVE  UpgradeFlagTracksTasks'
BY DEF UpgradeFlagTracksTasks

\* A planner call enqueues a MEXUP task only on a spot that is not being
\* upgraded, so the spot goes from no task and a clear flag to one task and
\* a set flag; every other effect leaves the flags and counters alone.
LEMMA PlannerEffectUpgrade ==
  ASSUME TypeOK, UpgradeFlagTracksTasks, PlannerEffect
  PROVE  UpgradeFlagTracksTasks'
<1>1. CASE \E s \in Spots : IsUpgradeCandidate(s) /\ \E t \in UpgradeTiers(s) : EnqueueMexUp(s, t)
  <2>1. PICK s \in Spots : IsUpgradeCandidate(s) /\ \E t \in UpgradeTiers(s) : EnqueueMexUp(s, t)
    BY <1>1
  <2>2. PICK t \in UpgradeTiers(s) : EnqueueMexUp(s, t)
    BY <2>1
  <2>3. mexUpTasks[s] = 0
    BY <2>1 DEF IsUpgradeCandidate, UpgradeFlagTracksTasks, TypeOK, TaskTypeOK
  <2>4. /\ mexUpTasks' = [mexUpTasks EXCEPT ![s] = 1]
        /\ mexUpgrading' = [mexUpgrading EXCEPT ![s] = TRUE]
    BY <2>2, <2>3 DEF EnqueueMexUp, TypeOK, TaskTypeOK
  <2>. QED  BY <2>4 DEF UpgradeFlagTracksTasks, TypeOK, TaskTypeOK
<1>2. CASE ~\E s \in Spots : IsUpgradeCandidate(s) /\ \E t \in UpgradeTiers(s) : EnqueueMexUp(s, t)
  <2>1. UNCHANGED <<mexUpgrading, mexUpTasks>>
    BY <1>2 DEF PlannerEffect, NoNewTask, taskVars, mexVars, EnqueueMex,
                EnqueueConvert, EnqueueReclaim, EnqueueResurrect,
                EnqueueEnergy, EnqueueGeo
  <2>. QED  BY <2>1, UpgradeFlagFrame
<1>. QED  BY <1>1, <1>2

\* A MEXUP task that finishes or is cancelled was the only one on its spot;
\* its end clears the flag (Finish and Cancel both SetUpgrading(false)).
LEMMA MexUpEndUpgrade ==
  ASSUME TypeOK, UpgradeFlagTracksTasks, NEW s \in Spots,
         MexUpFinish(s) \/ MexUpCancel(s)
  PROVE  UpgradeFlagTracksTasks'
<1>a. mexUpTasks[s] > 0
  BY DEF MexUpFinish, MexUpCancel
<1>b. mexUpTasks[s] \in 0 .. MaxTasks /\ mexUpTasks[s] <= 1
  BY DEF UpgradeFlagTracksTasks, TypeOK, TaskTypeOK
<1>1. mexUpTasks[s] = 1
  BY <1>a, <1>b
<1>2. /\ mexUpTasks' = [mexUpTasks EXCEPT ![s] = 0]
      /\ mexUpgrading' = [mexUpgrading EXCEPT ![s] = FALSE]
  BY <1>1 DEF MexUpFinish, MexUpCancel, TypeOK, TaskTypeOK
<1>. QED  BY <1>2 DEF UpgradeFlagTracksTasks, TypeOK, TaskTypeOK

\* Every step keeps the isUpgrading flags in step with the MEXUP tasks.
LEMMA UpgradeStep ==
  ASSUME TypeOK, UpgradeFlagTracksTasks, [Next]_vars
  PROVE  UpgradeFlagTracksTasks'
<1>1. CASE MakeEconomyTasks
  BY <1>1, PlannerStepEffect, PlannerEffectUpgrade
<1>2. ASSUME NEW s \in Spots, MexUpFinish(s) \/ MexUpCancel(s)
      PROVE  UpgradeFlagTracksTasks'
  BY <1>2, MexUpEndUpgrade
<1>3. ASSUME NEW s \in Spots,
             \/ MexUpReclaimOld(s) \/ MexDestroyed(s)
             \/ MexTaskFinish(s) \/ MexTaskCancel(s)
      PROVE  UpgradeFlagTracksTasks'
  BY <1>3, UpgradeFlagFrame
     DEF MexUpReclaimOld, MexDestroyed, MexTaskFinish, MexTaskCancel
<1>4. CASE \/ Tick \/ UpdateResourceIncome \/ WorkersChange \/ EconomyQuery
           \/ ConvertTaskEnd
           \/ \E f \in Features : ReclaimTaskEnd(f) \/ ResurrectTaskEnd(f)
           \/ \E d \in EnergyDefs : EnergyTaskEnd(d) \/ EnergyDestroyed(d)
           \/ \E g \in GeoSpots :
                \/ GeoTaskStart(g) \/ GeoTaskCancel(g)
                \/ GeoTaskFinish(g) \/ GeoPlantDestroyed(g)
           \/ UNCHANGED vars
  <2>1. UNCHANGED <<mexUpgrading, mexUpTasks>>
    BY <1>4 DEF Tick, UpdateResourceIncome, WorkersChange, EconomyQuery,
                ConvertTaskEnd, ReclaimTaskEnd, ResurrectTaskEnd,
                EnergyTaskEnd, EnergyDestroyed, GeoTaskStart, GeoTaskCancel,
                GeoTaskFinish, GeoPlantDestroyed, vars, taskVars, mexVars
  <2>. QED  BY <2>1, UpgradeFlagFrame
<1>. QED  BY <1>1, <1>2, <1>3, <1>4 DEF Next

\* The strengthening that is inductive: the type invariant and the flag
\* correspondence together.
UpgradeInv == TypeOK /\ UpgradeFlagTracksTasks

\* The isUpgrading flag of every metal spot is set exactly while one MEXUP
\* task is in flight on it, and never two: the MEXUP stage's
\* !IsUpgradingSpot test keeps a second upgrade off a spot in every run.
THEOREM UpgradeFlagCorrect == Spec => []UpgradeFlagTracksTasks
<1>1. Init => UpgradeInv
  <2>. SUFFICES ASSUME Init PROVE UpgradeInv
    OBVIOUS
  <2>1. UpgradeFlagTracksTasks
    BY DEF Init, UpgradeFlagTracksTasks
  <2>. QED  BY <2>1, InitType DEF UpgradeInv
<1>2. UpgradeInv /\ [Next]_vars => UpgradeInv'
  BY TypeCorrectStep, UpgradeStep DEF UpgradeInv
<1>3. UpgradeInv => UpgradeFlagTracksTasks
  BY DEF UpgradeInv
<1>. QED  BY <1>1, <1>2, <1>3, PTL DEF Spec

====
