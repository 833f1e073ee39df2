--------------------------- MODULE EconomyPlanner ---------------------------
(***************************************************************************)
(* The economy planner of CEconomyManager (module/EconomyManager.cpp): the  *)
(* cascade MakeEconomyTasks -> UpdateMetalTasks -> (MEXUP | MEX | CONVERT  *)
(* | reclaim) or, while energy stalls, UpdateEnergyTasks -> UpdateGeoTasks, *)
(* together with the state those stages read and write: the AI-local       *)
(* metal-spot flags (mexSpots, mexCount), the geothermal-spot flags, the   *)
(* per-cluster cooldown, the memoized economy flags, and the life cycle of *)
(* the tasks the stages enqueue (CBMexUpTask, CBGeoTask from the sources;  *)
(* the other task classes from the spec).                                  *)
(*                                                                         *)
(* Data is abstracted to what the control reads: a position is the        *)
(* cluster it is nearest to, an extractor type is its extraction level,    *)
(* an energy type is a model value, and every terrain or engine predicate  *)
(* (reachability, build legality, income thresholds) is an input chosen   *)
(* anew at each call.                                                      *)
(***************************************************************************)
EXTENDS Integers, FiniteSets, Sequences, Functions

CONSTANTS
  Spots,          \* metal spots (CMetalManager::GetSpots)
  Clusters,       \* metal clusters (CMetalManager::GetClusters)
  MexTiers,       \* extraction levels of the extractor types a builder can make
  GeoSpots,       \* geothermal spots (CEnergyManager::GetSpots)
  EnergyOrder,    \* energyDefs.GetInfos(): energy types, high tech first
  EnergyLimit,    \* SEnergyCond::limit of each energy type
  Features,       \* reclaimable map features near the builders
  NumMexUp,       \* numMexUp, economy.mex_up
  FramesPerSec,   \* FRAMES_PER_SEC, the per-cluster cooldown
  SlowUpdateRate, \* TEAM_SLOWUPDATE_RATE, the UpdateEconomy memo interval
  MaxFrame,       \* bound on the game clock
  MaxWorkers,     \* bound on GetWorkerCount()
  MaxTasks,       \* bound on the tasks of one kind in flight
  MaxCount        \* bound on the energy buildings of one type

EnergyDefs == Range(EnergyOrder)

NoCluster == "NoCluster"   \* FindNearestCluster returned -1
NoItem == "NoItem"

ASSUME PlannerAssumptions ==
  /\ IsFiniteSet(Spots) /\ IsFiniteSet(GeoSpots) /\ IsFiniteSet(Features)
  /\ NoCluster \notin Clusters
  /\ MexTiers \subseteq Nat \ {0}
  /\ EnergyOrder \in Seq(EnergyDefs) /\ IsInjective(EnergyOrder)
  /\ EnergyLimit \in [EnergyDefs -> Nat]
  /\ NoItem \notin Spots \cup GeoSpots \cup EnergyDefs \cup Features
  /\ NumMexUp \in Nat
  /\ FramesPerSec \in Nat \ {0}
  /\ SlowUpdateRate \in Nat \ {0}
  /\ MaxFrame \in Nat
  /\ MaxWorkers \in Nat \ {0}
  /\ MaxTasks \in Nat \ {0}
  /\ MaxCount \in Nat

(***************************************************************************)
(* Inputs of one planner call that come from collaborators.                *)
(***************************************************************************)
\* CBuilderManager::CanEnqueueTask(max): the builder queue is shorter than max.
\* The queue depth is the collaborator's; five depths separate the limits
\* 16, 32 and 64 that the stages pass and the collaborator's default limit
\* of the argument-less call, DefaultQueueMax.
DefaultQueueMax == 8
QueueDepths == {0, 12, 20, 40, 70}
CanEnqueueTask(depth, max) == depth < max

\* The four flags CEconomyScript::UpdateEconomy derives from the engine's
\* stock, storage, income and pull; a stock cannot be empty and full at once.
EcoStates ==
  {e \in [metalFull: BOOLEAN, energyStalling: BOOLEAN,
          energyEmpty: BOOLEAN, energyFull: BOOLEAN] :
      ~(e.energyEmpty /\ e.energyFull)}

\* CMilitaryManager::GetGuardTaskNum()
GuardTaskNums == {0, 1}

\* (int)(buildPower / cost * 4 + 1) of an energy type in UpdateEnergyTasks
EnergyCaps == {1, 2}


VARIABLES
  frame,          \* circuit->GetLastFrame()
  ecoFrame,       \* ecoFrame: frame of the last UpdateEconomy refresh
  eco,            \* isMetalFull, isEnergyStalling, isEnergyEmpty, isEnergyFull
  metalRich,      \* GetAvgMetalIncome() > 10
  workers,        \* builderMgr->GetWorkerCount()
  mexOpen,        \* mexSpots[i].isOpen
  mexCount,       \* mexCount: number of closed spots
  mexUpgrading,   \* mexSpots[i].isUpgrading
  mexTier,        \* extraction of our best extractor on each spot (0: none)
  mexTasks,       \* MEX tasks in flight per spot
  mexTaskTier,    \* extraction level the MEX task of a spot builds
  mexUpTasks,     \* MEXUP tasks (CBMexUpTask) in flight per spot
  mexUpTier,      \* extraction level the MEXUP task of a spot builds
  convertTasks,   \* |GetTasks(CONVERT)|
  featureLeft,    \* feature still on the map
  reclaimTasks,   \* reclaim tasks in flight per feature
  resurrectTasks, \* resurrect tasks in flight per feature
  energyTasks,    \* ENERGY tasks in flight per energy type
  energyCount,    \* cdef->GetCount() of each energy type
  geoOpen,        \* geoSpots[i]: geothermal spot open
  geoTask,        \* CBGeoTask of a geo spot: "none", "queued", "building"
  geoPlant,       \* a geothermal plant stands on the spot
  clusterFrame   \* clusterInfos[i].metalFrame

mexVars == <<mexOpen, mexCount, mexUpgrading, mexTier, mexTasks, mexTaskTier,
             mexUpTasks, mexUpTier>>
salvageVars == <<featureLeft, reclaimTasks, resurrectTasks>>
energyVars == <<energyTasks, energyCount>>
geoVars == <<geoOpen, geoTask, geoPlant>>
taskVars == <<mexVars, convertTasks, salvageVars, energyVars, geoVars>>
vars == <<frame, ecoFrame, eco, metalRich, workers, taskVars, clusterFrame>>

-----------------------------------------------------------------------------
(***************************************************************************)
(* State after CEconomyManager's constructor and Init(): every flag false, *)
(* ecoFrame = -1, every spot open and not upgrading, every geo spot open,  *)
(* every cluster's metalFrame = -FRAMES_PER_SEC, nothing built yet.        *)
(***************************************************************************)
Init ==
  /\ frame = 0
  /\ ecoFrame = -1
  /\ eco = [metalFull |-> FALSE, energyStalling |-> FALSE,
            energyEmpty |-> FALSE, energyFull |-> FALSE]
  /\ metalRich = FALSE
  /\ workers \in 1..MaxWorkers
  /\ mexOpen = [s \in Spots |-> TRUE]
  /\ mexCount = 0
  /\ mexUpgrading = [s \in Spots |-> FALSE]
  /\ mexTier = [s \in Spots |-> 0]
  /\ mexTasks = [s \in Spots |-> 0]
  /\ mexTaskTier = [s \in Spots |-> 0]
  /\ mexUpTasks = [s \in Spots |-> 0]
  /\ mexUpTier = [s \in Spots |-> 0]
  /\ convertTasks = 0
  /\ featureLeft = [f \in Features |-> TRUE]
  /\ reclaimTasks = [f \in Features |-> 0]
  /\ resurrectTasks = [f \in Features |-> 0]
  /\ energyTasks = [d \in EnergyDefs |-> 0]
  /\ energyCount = [d \in EnergyDefs |-> 0]
  /\ geoOpen = [g \in GeoSpots |-> TRUE]
  /\ geoTask = [g \in GeoSpots |-> "none"]
  /\ geoPlant = [g \in GeoSpots |-> FALSE]
  /\ clusterFrame = [c \in Clusters |-> -FramesPerSec]

-----------------------------------------------------------------------------
(* Queries of the builder manager's task lists. *)
MexUpTaskCount == SumFunction(mexUpTasks)
MexTaskCount == SumFunction(mexTasks)
ReclaimTaskCount == SumFunction(reclaimTasks)
EnergyTaskCount == SumFunction(energyTasks)

\* UpdateEconomy: a no-op while the memo is fresh, else a new snapshot whose
\* four flags the economy script derives; e is the value the caller reads.
UpdateEconomy(e) ==
  /\ \/ /\ ecoFrame + SlowUpdateRate >= frame
        /\ e = eco
        /\ ecoFrame' = ecoFrame
     \/ /\ ecoFrame + SlowUpdateRate < frame
        /\ e \in EcoStates
        /\ ecoFrame' = frame
  /\ eco' = e

\* SetOpenSpot: mexCount counts the spots this AI has closed.
SetOpenSpot(s, value) ==
  \/ /\ mexOpen[s] = value
     /\ UNCHANGED <<mexOpen, mexCount>>
  \/ /\ mexOpen[s] # value
     /\ mexOpen' = [mexOpen EXCEPT ![s] = value]
     /\ mexCount' = IF value THEN mexCount - 1 ELSE mexCount + 1

\* A stage returns nullptr: nothing is enqueued.
NoNewTask == UNCHANGED taskVars

\* EnqueueSpot(HIGH, mexDef, spot, MEXUP) and the CBMexUpTask constructor,
\* which marks the spot as upgrading.
EnqueueMexUp(s, t) ==
  /\ mexUpTasks[s] < MaxTasks
  /\ mexUpTasks' = [mexUpTasks EXCEPT ![s] = @ + 1]
  /\ mexUpTier' = [mexUpTier EXCEPT ![s] = t]
  /\ mexUpgrading' = [mexUpgrading EXCEPT ![s] = TRUE]
  /\ UNCHANGED <<mexOpen, mexCount, mexTier, mexTasks, mexTaskTier,
                 convertTasks, salvageVars, energyVars, geoVars>>

\* EnqueueSpot(HIGH, mexDef, spot, MEX); the extractor task claims the spot
\* for this AI (SetOpenSpot(spot, false)).
EnqueueMex(s, t) ==
  /\ mexTasks[s] < MaxTasks
  /\ mexTasks' = [mexTasks EXCEPT ![s] = @ + 1]
  /\ mexTaskTier' = [mexTaskTier EXCEPT ![s] = t]
  /\ SetOpenSpot(s, FALSE)
  /\ UNCHANGED <<mexUpgrading, mexTier, mexUpTasks, mexUpTier,
                 convertTasks, salvageVars, energyVars, geoVars>>

\* EnqueueTask(NORMAL, convertDef, metal base, CONVERT)
EnqueueConvert ==
  /\ convertTasks < MaxTasks
  /\ convertTasks' = convertTasks + 1
  /\ UNCHANGED <<mexVars, salvageVars, energyVars, geoVars>>

\* EnqueueReclaim(HIGH, pos, ...) and EnqueueResurrect(HIGH, pos, ...)
EnqueueReclaim(f) ==
  /\ reclaimTasks' = [reclaimTasks EXCEPT ![f] = @ + 1]
  /\ UNCHANGED <<mexVars, convertTasks, featureLeft, resurrectTasks,
                 energyVars, geoVars>>

EnqueueResurrect(f) ==
  /\ resurrectTasks' = [resurrectTasks EXCEPT ![f] = @ + 1]
  /\ UNCHANGED <<mexVars, convertTasks, featureLeft, reclaimTasks,
                 energyVars, geoVars>>

\* EnqueueTask(priority, bestDef, buildPos, ENERGY); the priority is not kept.
EnqueueEnergy(d) ==
  /\ energyTasks[d] < MaxTasks
  /\ energyTasks' = [energyTasks EXCEPT ![d] = @ + 1]
  /\ UNCHANGED <<mexVars, convertTasks, salvageVars, energyCount, geoVars>>

\* Bug variant of EnqueueGeo: the task does not claim its spot.
EnqueueGeoNoClaim(g) ==
  /\ geoTask' = [geoTask EXCEPT ![g] = "queued"]
  /\ UNCHANGED <<mexVars, convertTasks, salvageVars, energyVars, geoOpen, geoPlant>>

\* EnqueueSpot(NORMAL, geoDef, spot, GEO) and the CBGeoTask constructor,
\* which closes the geo spot.
EnqueueGeo(g) ==
  /\ geoTask' = [geoTask EXCEPT ![g] = "queued"]
  /\ geoOpen' = [geoOpen EXCEPT ![g] = FALSE]
  /\ UNCHANGED <<mexVars, convertTasks, salvageVars, energyVars, geoPlant>>

-----------------------------------------------------------------------------
(***************************************************************************)
(* The selection loop of UpdateEnergyTasks over energyDefs, high tech      *)
(* first.  avail: the types that are available and can be built at the    *)
(* position; rich: the types whose two income thresholds are met;          *)
(* cap[d]: (int)(buildPower / costM * 4 + 1).  The loop state is bestDef,  *)
(* hopeDef, isLastHope and whether it broke out.  Returns the type to      *)
(* build, or NoItem.                                                       *)
(***************************************************************************)
\* Bug variant of BelowLimit: a type at its limit still counts as below it.
BelowLimitInclusive(d) == energyCount[d] <= EnergyLimit[d]

\* engy.cdef->GetCount() < engy.data.cond.limit
BelowLimit(d) == energyCount[d] < EnergyLimit[d]

EnergySelect(isEnergyStalling, taskSize, avail, rich, cap) ==
  LET n == Len(EnergyOrder)
      Step(st, d) ==
        CASE d \notin avail -> st
          [] BelowLimit(d) /\ taskSize < cap[d] ->
               [st EXCEPT !.lastHope = FALSE, !.best = d, !.done = d \in rich]
          [] BelowLimit(d) /\ d \in rich ->
               [st EXCEPT !.lastHope = FALSE, !.best = NoItem, !.done = TRUE]
          [] BelowLimit(d) ->
               [st EXCEPT !.lastHope = FALSE]
          [] ~isEnergyStalling ->
               [st EXCEPT !.best = NoItem, !.done = TRUE]
          [] st.hope = NoItem ->
               [st EXCEPT !.hope = d, !.lastHope = @ /\ taskSize < cap[d]]
          [] OTHER -> st
      loop[i \in 0..n] ==
        IF i = 0
        THEN [best |-> NoItem, hope |-> NoItem, lastHope |-> isEnergyStalling,
              done |-> FALSE]
        ELSE IF loop[i - 1].done THEN loop[i - 1]
             ELSE Step(loop[i - 1], EnergyOrder[i])
  IN  IF loop[n].lastHope THEN loop[n].hope ELSE loop[n].best

(***************************************************************************)
(* UpdateGeoTasks.  Any of its early returns (queue too long, no geo type  *)
(* available, no buildable open spot, no type under the cost ceiling)     *)
(* yields no task; otherwise the nearest open spot is taken.               *)
(***************************************************************************)
UpdateGeoTasks(depth) ==
  \/ NoNewTask
  \/ /\ CanEnqueueTask(depth, 32)
     /\ \A g \in GeoSpots : geoTask[g] = "none"
     /\ \E g \in GeoSpots : geoOpen[g] /\ EnqueueGeo(g)

(***************************************************************************)
(* UpdateEnergyTasks.  isEnergyRequired is only set by the factory stage, *)
(* which this module leaves out, so it is false here.  A selected type    *)
(* may still find no legal, reachable position: then no task.             *)
(***************************************************************************)
UpdateEnergyTasks(depth, e) ==
  LET isEnergyStalling == e.energyStalling
      selected == {EnergySelect(isEnergyStalling, EnergyTaskCount, avail, rich, cap) :
                     avail \in SUBSET EnergyDefs, rich \in SUBSET EnergyDefs,
                     cap \in [EnergyDefs -> EnergyCaps]}
  IN  \/ /\ ~CanEnqueueTask(depth, 32)
         /\ NoNewTask
      \/ /\ CanEnqueueTask(depth, 32)
         /\ \E bestDef \in selected :
              \/ bestDef = NoItem /\ UpdateGeoTasks(depth)
              \/ bestDef # NoItem /\ NoNewTask
              \/ /\ bestDef # NoItem
                 /\ EnqueueEnergy(bestDef)

(***************************************************************************)
(* UpdateReclaimTasks.  Skipped when metal is full or there are already   *)
(* workers / 2 reclaim tasks, unless the builder can resurrect.  For the  *)
(* nearest feature worth at least 1 metal, an existing reclaim task, or   *)
(* an existing resurrect task, is reused (or, for a builder that cannot   *)
(* resurrect, leaves it with nothing); otherwise a new one is enqueued.   *)
(* No reachable feature is always a possible outcome.                     *)
(***************************************************************************)
\* Bug variant of IsFeatureFree: a builder that cannot resurrect ignores a
\* resurrect task on the feature.
IsFeatureFreeForReclaim(f, isResurrect) ==
  reclaimTasks[f] = 0 /\ (isResurrect => resurrectTasks[f] = 0)

\* No reclaim task near the feature (GetReclaimFeatureTask), and no
\* resurrect task either (GetResurrectTask): the resurrecting builder
\* reuses it, the other one gets nullptr.
IsFeatureFree(f, isResurrect) ==
  reclaimTasks[f] = 0 /\ resurrectTasks[f] = 0

UpdateReclaimTasks(isResurrect, e) ==
  LET skip == (e.metalFull \/ ReclaimTaskCount >= workers \div 2) /\ ~isResurrect
  IN  \/ NoNewTask
      \/ /\ ~skip
         /\ \E f \in Features :
              /\ featureLeft[f]
              /\ IsFeatureFree(f, isResurrect)
              /\ IF isResurrect THEN EnqueueResurrect(f) ELSE EnqueueReclaim(f)

-----------------------------------------------------------------------------
(***************************************************************************)
(* The stages of UpdateMetalTasks after IsEnergyStalling() returned false. *)
(* Each stage either enqueues a task and returns it, or falls through:    *)
(* its candidate search may find nothing because of reachability, build  *)
(* legality, an ally's claim or the availability of the types, all of     *)
(* which belong to collaborators.                                         *)
(***************************************************************************)
\* Bug variant of IsUpgradeCandidate without the !IsUpgradingSpot test.
IsUpgradeCandidateTwice(s) ==
  /\ ~mexOpen[s]
  /\ mexTier[s] > 0

\* The spot predicate of the MEXUP stage: claimed by us, not being
\* upgraded, with an extractor of ours on it.
IsUpgradeCandidate(s) ==
  /\ ~mexOpen[s]
  /\ ~mexUpgrading[s]
  /\ mexTier[s] > 0

\* Extractor types that out-yield the current extractor on s.
UpgradeTiers(s) == {t \in MexTiers : mexTier[s] < t}

\* Bug variant of IsOpenSpot that trusts the alliance-wide flag alone.
IsOpenSpotAllyOnly(s) == TRUE

\* IsAllyOpenSpot as far as this AI's own flag is concerned; the alliance
\* flag of CMetalManager is a collaborator's and may fail the spot anyway.
IsOpenSpot(s) == mexOpen[s]

\* IsEnergyStalling(): the flag as UpdateEconomy just left it.
IsEnergyStalling(e) == e.energyStalling

MetalStages(e, isResurrect) ==
  \/ /\ MexUpTaskCount < NumMexUp
     /\ metalRich
     /\ \E s \in Spots :
          /\ IsUpgradeCandidate(s)
          /\ \E t \in UpgradeTiers(s) : EnqueueMexUp(s, t)
  \/ /\ MexTaskCount < workers * 2 + 1
     /\ \E s \in Spots, t \in MexTiers : IsOpenSpot(s) /\ EnqueueMex(s, t)
  \/ /\ convertTasks < 2
     /\ \E guardTaskNum \in GuardTaskNums :
          MexTaskCount = 0 \/ workers > guardTaskNum + 2
     /\ e.energyFull
     /\ EnqueueConvert
  \/ UpdateReclaimTasks(isResurrect, e)

(***************************************************************************)
(* UpdateMetalTasks: the first IsEnergyStalling() refreshes the memo, and  *)
(* its answer picks the metal stages or the energy stage.                 *)
(***************************************************************************)
UpdateMetalTasks(depth, isResurrect) ==
  \/ /\ ~CanEnqueueTask(depth, 16)
     /\ NoNewTask
     /\ UNCHANGED <<ecoFrame, eco>>
  \/ /\ CanEnqueueTask(depth, 16)
     /\ \E e \in EcoStates :
          /\ UpdateEconomy(e)
          /\ IF IsEnergyStalling(e) THEN UpdateEnergyTasks(depth, e)
                                 ELSE MetalStages(e, isResurrect)

(***************************************************************************)
(* MakeEconomyTasks, called by a builder asking for work at a position    *)
(* whose nearest cluster is c (NoCluster when there is none).              *)
(***************************************************************************)
\* The per-cluster cooldown: the cluster was tried within the last second.
IsCoolingDown(c) ==
  c # NoCluster /\ clusterFrame[c] + FramesPerSec >= frame

MakeEconomyTasks ==
  /\ \E c \in Clusters \cup {NoCluster}, depth \in QueueDepths,
        isResurrect \in BOOLEAN :
       \/ /\ ~CanEnqueueTask(depth, DefaultQueueMax) \/ IsCoolingDown(c)
          /\ NoNewTask
          /\ UNCHANGED <<ecoFrame, eco, clusterFrame>>
       \/ /\ CanEnqueueTask(depth, DefaultQueueMax)
          /\ ~IsCoolingDown(c)
          /\ clusterFrame' = IF c = NoCluster THEN clusterFrame
                             ELSE [clusterFrame EXCEPT ![c] = frame]
          /\ UpdateMetalTasks(depth, isResurrect)
  /\ UNCHANGED <<frame, metalRich, workers>>

-----------------------------------------------------------------------------
(***************************************************************************)
(* Steps of the world and of the tasks, between planner calls.            *)
(***************************************************************************)
\* What no task step touches.
EnvStep == UNCHANGED <<frame, ecoFrame, eco, metalRich, workers, clusterFrame>>

\* The game clock advances.
Tick ==
  /\ frame < MaxFrame
  /\ frame' = frame + 1
  /\ UNCHANGED <<ecoFrame, eco, metalRich, workers, taskVars, clusterFrame>>

\* UpdateResourceIncome, run every TEAM_SLOWUPDATE_RATE: a new sample moves
\* the average metal income across the MEXUP floor of 10 either way.
UpdateResourceIncome ==
  /\ metalRich' \in BOOLEAN
  /\ UNCHANGED <<frame, ecoFrame, eco, workers, taskVars, clusterFrame>>

\* Builders are made and lost (GetWorkerCount()).
WorkersChange ==
  /\ workers' \in 1..MaxWorkers
  /\ UNCHANGED <<frame, ecoFrame, eco, metalRich, taskVars, clusterFrame>>

\* Another module calls IsMetalFull/IsEnergyStalling/...: UpdateEconomy.
EconomyQuery ==
  /\ \E e \in EcoStates : UpdateEconomy(e)
  /\ UNCHANGED <<frame, metalRich, workers, taskVars, clusterFrame>>

\* CBMexUpTask::Finish: the stronger extractor stands; the weaker one is
\* queued for reclaim, and the spot is no longer upgrading.
MexUpFinish(s) ==
  /\ mexUpTasks[s] > 0
  /\ mexUpTasks' = [mexUpTasks EXCEPT ![s] = @ - 1]
  /\ mexTier' = [mexTier EXCEPT ![s] = IF @ < mexUpTier[s] THEN mexUpTier[s] ELSE @]
  /\ mexUpTier' = [mexUpTier EXCEPT ![s] = 0]
  /\ mexUpgrading' = [mexUpgrading EXCEPT ![s] = FALSE]
  /\ UNCHANGED <<mexOpen, mexCount, mexTasks, mexTaskTier,
                 convertTasks, salvageVars, energyVars, geoVars>>
  /\ EnvStep

\* CBMexUpTask::Cancel, also reached by Execute's AbortTask when neither a
\* build site nor an old extractor is found.
MexUpCancel(s) ==
  /\ mexUpTasks[s] > 0
  /\ mexUpTasks' = [mexUpTasks EXCEPT ![s] = @ - 1]
  /\ mexUpTier' = [mexUpTier EXCEPT ![s] = 0]
  /\ mexUpgrading' = [mexUpgrading EXCEPT ![s] = FALSE]
  /\ UNCHANGED <<mexOpen, mexCount, mexTier, mexTasks, mexTaskTier,
                 convertTasks, salvageVars, energyVars, geoVars>>
  /\ EnvStep

\* CBMexUpTask::Execute finds no build site and reclaims our extractor on
\* the spot (state ENGAGE); the reclaim completes and the task goes on.
MexUpReclaimOld(s) ==
  /\ mexUpTasks[s] > 0
  /\ mexTier[s] > 0
  /\ mexTier' = [mexTier EXCEPT ![s] = 0]
  /\ UNCHANGED <<mexOpen, mexCount, mexUpgrading, mexTasks, mexTaskTier,
                 mexUpTasks, mexUpTier, convertTasks, salvageVars, energyVars,
                 geoVars>>
  /\ EnvStep

\* An extractor of ours is destroyed: UnitDestroyed finds no destroyed
\* handler for extractor types, so no spot flag changes.
MexDestroyed(s) ==
  /\ mexTier[s] > 0
  /\ mexTier' = [mexTier EXCEPT ![s] = 0]
  /\ UNCHANGED <<mexOpen, mexCount, mexUpgrading, mexTasks, mexTaskTier,
                 mexUpTasks, mexUpTier, convertTasks, salvageVars, energyVars,
                 geoVars>>
  /\ EnvStep

\* The extractor task finishes: the extractor stands, the spot stays ours.
MexTaskFinish(s) ==
  /\ mexTasks[s] > 0
  /\ mexTasks' = [mexTasks EXCEPT ![s] = @ - 1]
  /\ mexTier' = [mexTier EXCEPT ![s] = IF @ < mexTaskTier[s] THEN mexTaskTier[s] ELSE @]
  /\ mexTaskTier' = [mexTaskTier EXCEPT ![s] = 0]
  /\ UNCHANGED <<mexOpen, mexCount, mexUpgrading, mexUpTasks,
                 mexUpTier, convertTasks, salvageVars, energyVars, geoVars>>
  /\ EnvStep

\* Bug variant of MexTaskCancel: a cancel of a task already gone.
MexTaskCancelUnguarded(s) ==
  /\ mexTasks' = [mexTasks EXCEPT ![s] = @ - 1]
  /\ mexTaskTier' = [mexTaskTier EXCEPT ![s] = 0]
  /\ SetOpenSpot(s, TRUE)
  /\ UNCHANGED <<mexUpgrading, mexTier, mexUpTasks, mexUpTier,
                 convertTasks, salvageVars, energyVars, geoVars>>
  /\ EnvStep

\* The extractor task is cancelled and gives the spot back.
MexTaskCancel(s) ==
  /\ mexTasks[s] > 0
  /\ mexTasks' = [mexTasks EXCEPT ![s] = @ - 1]
  /\ mexTaskTier' = [mexTaskTier EXCEPT ![s] = 0]
  /\ SetOpenSpot(s, TRUE)
  /\ UNCHANGED <<mexUpgrading, mexTier, mexUpTasks, mexUpTier,
                 convertTasks, salvageVars, energyVars, geoVars>>
  /\ EnvStep

\* A converter task ends.
ConvertTaskEnd ==
  /\ convertTasks > 0
  /\ convertTasks' = convertTasks - 1
  /\ UNCHANGED <<mexVars, salvageVars, energyVars, geoVars>>
  /\ EnvStep

\* A reclaim or resurrect task ends; when it completed, the feature is gone.
ReclaimTaskEnd(f) ==
  /\ reclaimTasks[f] > 0
  /\ reclaimTasks' = [reclaimTasks EXCEPT ![f] = @ - 1]
  /\ featureLeft' \in {featureLeft, [featureLeft EXCEPT ![f] = FALSE]}
  /\ UNCHANGED <<mexVars, convertTasks, resurrectTasks, energyVars, geoVars>>
  /\ EnvStep

ResurrectTaskEnd(f) ==
  /\ resurrectTasks[f] > 0
  /\ resurrectTasks' = [resurrectTasks EXCEPT ![f] = @ - 1]
  /\ featureLeft' \in {featureLeft, [featureLeft EXCEPT ![f] = FALSE]}
  /\ UNCHANGED <<mexVars, convertTasks, reclaimTasks, energyVars, geoVars>>
  /\ EnvStep

\* An energy task ends, built (cdef->GetCount() grows) or cancelled.
EnergyTaskEnd(d) ==
  /\ energyTasks[d] > 0
  /\ energyTasks' = [energyTasks EXCEPT ![d] = @ - 1]
  /\ \/ energyCount' = energyCount
     \/ /\ energyCount[d] < MaxCount
        /\ energyCount' = [energyCount EXCEPT ![d] = @ + 1]
  /\ UNCHANGED <<mexVars, convertTasks, salvageVars, geoVars>>
  /\ EnvStep

\* An energy building is destroyed.
EnergyDestroyed(d) ==
  /\ energyCount[d] > 0
  /\ energyCount' = [energyCount EXCEPT ![d] = @ - 1]
  /\ UNCHANGED <<mexVars, convertTasks, salvageVars, energyTasks, geoVars>>
  /\ EnvStep

\* The builder places the geothermal nanoframe: the task gets its target.
GeoTaskStart(g) ==
  /\ geoTask[g] = "queued"
  /\ geoTask' = [geoTask EXCEPT ![g] = "building"]
  /\ UNCHANGED <<mexVars, convertTasks, salvageVars, energyVars, geoOpen, geoPlant>>
  /\ EnvStep

\* CBGeoTask::Cancel reopens the spot only while there is no target.
GeoTaskCancel(g) ==
  /\ geoTask[g] # "none"
  /\ geoTask' = [geoTask EXCEPT ![g] = "none"]
  /\ geoOpen' = IF geoTask[g] = "queued" THEN [geoOpen EXCEPT ![g] = TRUE]
                ELSE geoOpen
  /\ UNCHANGED <<mexVars, convertTasks, salvageVars, energyVars, geoPlant>>
  /\ EnvStep

\* The geothermal plant is finished.
GeoTaskFinish(g) ==
  /\ geoTask[g] = "building"
  /\ geoTask' = [geoTask EXCEPT ![g] = "none"]
  /\ geoPlant' = [geoPlant EXCEPT ![g] = TRUE]
  /\ UNCHANGED <<mexVars, convertTasks, salvageVars, energyVars, geoOpen>>
  /\ EnvStep

\* The plant is destroyed: no destroyed handler reopens the spot.
GeoPlantDestroyed(g) ==
  /\ geoPlant[g]
  /\ geoPlant' = [geoPlant EXCEPT ![g] = FALSE]
  /\ UNCHANGED <<mexVars, convertTasks, salvageVars, energyVars, geoOpen, geoTask>>
  /\ EnvStep

Next ==
  \/ MakeEconomyTasks
  \/ Tick \/ UpdateResourceIncome \/ WorkersChange \/ EconomyQuery
  \/ \E s \in Spots :
       \/ MexUpFinish(s) \/ MexUpCancel(s) \/ MexUpReclaimOld(s)
       \/ MexDestroyed(s) \/ MexTaskFinish(s) \/ MexTaskCancel(s)
  \/ ConvertTaskEnd
  \/ \E f \in Features : ReclaimTaskEnd(f) \/ ResurrectTaskEnd(f)
  \/ \E d \in EnergyDefs : EnergyTaskEnd(d) \/ EnergyDestroyed(d)
  \/ \E g \in GeoSpots :
       GeoTaskStart(g) \/ GeoTaskCancel(g) \/ GeoTaskFinish(g) \/ GeoPlantDestroyed(g)

Spec == Init /\ [][Next]_vars

-----------------------------------------------------------------------------
(***************************************************************************)
(* Properties.                                                             *)
(***************************************************************************)
Tiers == MexTiers \cup {0}

\* Types of the spot and task state.
TaskTypeOK ==
  /\ mexOpen \in [Spots -> BOOLEAN]
  /\ mexCount \in Int
  /\ mexUpgrading \in [Spots -> BOOLEAN]
  /\ mexTier \in [Spots -> Tiers]
  /\ mexTasks \in [Spots -> 0..MaxTasks]
  /\ mexTaskTier \in [Spots -> Tiers]
  /\ mexUpTasks \in [Spots -> 0..MaxTasks]
  /\ mexUpTier \in [Spots -> Tiers]
  /\ convertTasks \in 0..MaxTasks
  /\ featureLeft \in [Features -> BOOLEAN]
  /\ reclaimTasks \in [Features -> Nat]
  /\ resurrectTasks \in [Features -> Nat]
  /\ energyTasks \in [EnergyDefs -> 0..MaxTasks]
  /\ energyCount \in [EnergyDefs -> 0..MaxCount]
  /\ geoOpen \in [GeoSpots -> BOOLEAN]
  /\ geoTask \in [GeoSpots -> {"none", "queued", "building"}]
  /\ geoPlant \in [GeoSpots -> BOOLEAN]

\* Every variable has its type: counters stay within their bounds and the
\* frames recorded by the memo and the cooldown never pass the clock.
TypeOK ==
  /\ frame \in 0..MaxFrame
  /\ ecoFrame \in -1..MaxFrame
  /\ eco \in EcoStates
  /\ metalRich \in BOOLEAN
  /\ workers \in 1..MaxWorkers
  /\ clusterFrame \in [Clusters -> -FramesPerSec..MaxFrame]
  /\ TaskTypeOK

\* The isUpgrading flag of a spot, set by the CBMexUpTask constructor and
\* cleared by its Finish and Cancel, is true exactly while one MEXUP task for
\* the spot is in flight; the MEXUP stage's !IsUpgradingSpot test is what
\* keeps a second one out, since Finish of either would clear the flag of
\* the other.
UpgradeFlagTracksTasks ==
  \A s \in Spots :
    /\ mexUpgrading[s] <=> mexUpTasks[s] > 0
    /\ mexUpTasks[s] <= 1

\* A metal spot carries at most one extractor task of ours, new (MEX) or
\* upgrade (MEXUP), and a spot holding our extractor or being upgraded is
\* never open for a new extractor: the MEX stage's IsAllyOpenSpot test and
\* the MEXUP stage's !IsOpenSpot test partition the spots between them.
SpotClaimExclusive ==
  \A s \in Spots :
    /\ mexTasks[s] + mexUpTasks[s] <= 1
    /\ mexTier[s] > 0 \/ mexUpTasks[s] > 0 => ~mexOpen[s]

\* A map feature is never the target of two salvage tasks: UpdateReclaimTasks
\* reuses the reclaim or resurrect task found near it, and a builder that
\* cannot resurrect leaves a feature being resurrected alone.
SalvageUnique ==
  \A f \in Features : reclaimTasks[f] + resurrectTasks[f] <= 1

\* A geothermal spot this AI sees as open carries no geo task of ours and
\* no plant of ours: the CBGeoTask constructor closes it, and Cancel gives
\* it back only while no nanoframe has been placed.
GeoClaimSound ==
  \A g \in GeoSpots : geoOpen[g] => geoTask[g] = "none" /\ ~geoPlant[g]

\* Every geothermal spot this AI has closed still carries its geo task or
\* its plant, so the GEO stage can come back to a spot whose task or plant
\* is gone.
GeoSpotReusable ==
  \A g \in GeoSpots : ~geoOpen[g] => geoTask[g] # "none" \/ geoPlant[g]

\* Every extractor spot this AI has closed still carries a MEX or MEXUP task
\* of ours or an extractor of ours, so the MEX stage, which takes only open
\* spots, can come back to a spot whose extractor is gone: reclaimed by a
\* MEXUP task that is then cancelled (MexUpTask.cpp:140), or destroyed.
MexSpotReusable ==
  \A s \in Spots : ~mexOpen[s] => mexTasks[s] + mexUpTasks[s] > 0 \/ mexTier[s] > 0

=============================================================================
