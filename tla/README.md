# Formal models of CircuitAI

This directory holds TLA+ models of the parts of CircuitAI whose sources are
in the repository, the TLC configurations that model-check them and the TLAPS
proofs of their main invariants:

| module | models | source |
|---|---|---|
| `EconomyPlanner` | the task planner cascade, its memo and the builder tasks | `module/EconomyManager.cpp`, `task/builder/MexUpTask.cpp`, `task/builder/GeoTask.cpp` |
| `IncomeSampler`, `IncomeWindow` | the income ring buffer and the window it implements | `module/EconomyManager.cpp` |
| `ScheduleCurves` | the `energyFactor` and `pullMtoS` curves | `module/EconomyManager.cpp` |
| `ThreatMap` | the threat grid and its enemy events | `terrain/ThreatMap.cpp` |
| `AttackTask` | attack squads: membership, merge, abort, targets | `task/fighter/AttackTask.cpp` |
| `ArtilleryTask` | artillery tasks and their target choice | `task/fighter/ArtilleryTask.cpp` |

The sections up to "Proofs" describe the planner; the sections after them
describe the other modules, what their runs show and what is proved of them.

## The system

`CEconomyManager` decides what a builder should build next. The builder
manager calls `MakeEconomyTasks(position, unit)` for an idle builder. The call
descends a cascade of stages and stops at the first stage that enqueues a task:

* **MakeEconomyTasks** (lines 883-904). It returns early when the builder
  queue is full (`CanEnqueueTask()`). It also returns early when the nearest
  metal cluster was planned for less than `FRAMES_PER_SEC` frames ago. This is
  a per-cluster cooldown kept in `clusterInfos[i].metalFrame`.
* **UpdateMetalTasks** (906-1039). It reads `IsEnergyStalling()` once.
  * If energy stalls, it delegates to `UpdateEnergyTasks`.
  * Otherwise it tries the stages MEXUP, MEX, CONVERT and then reclaim:
    * **MEXUP** upgrades one of our extractors, at most `numMexUp` at a time,
      while the average metal income exceeds 10;
    * **MEX** claims an open metal spot, with fewer than `2·workers+1` MEX
      tasks in flight;
    * **CONVERT** builds an energy-to-metal converter while energy is full;
    * **reclaim** is `UpdateReclaimTasks`.
* **UpdateReclaimTasks** (1041-1126). It is skipped when metal is full or
  there are at least `workers/2` reclaim tasks, unless the builder can
  resurrect. Before enqueuing, it reuses a reclaim or resurrect task already
  near the feature.
* **UpdateEnergyTasks** (1128-1219). It walks the energy types from high tech
  down and picks one, a "last hope" one, or none. With none, it falls through
  to **UpdateGeoTasks** (1221-1265). That stage enqueues a geothermal plant on
  the nearest open geothermal spot, when no GEO task is in flight.

The manager keeps this state:

| State | What it holds |
|---|---|
| `mexSpots[i].isOpen`, `mexCount` | AI-local spot flags and the count of closed spots, written by `SetOpenSpot` (851-858) |
| `isUpgrading` | per-spot MEXUP flag, written by the `CBMexUpTask` constructor, `Finish` and `Cancel` |
| `geoSpots[i].isOpen` | geothermal spot flags, written by the `CBGeoTask` constructor and `Cancel` |
| `clusterInfos[i].metalFrame` | the per-cluster cooldown |
| `ecoFrame` and the flags `isMetalFull`, `isEnergyStalling`, `isEnergyEmpty`, `isEnergyFull` | memoized by `UpdateEconomy` (1746-1784) for `TEAM_SLOWUPDATE_RATE` frames |
| income averages | refreshed by `UpdateResourceIncome` (738-762) |

Tasks change that state from unit callbacks, which the engine interleaves
freely with planner calls:

* **CBMexUpTask** sets the spot's upgrading flag in its constructor. `Finish`
  and `Cancel` clear it. When `Execute` finds no build site, it reclaims our
  own extractor.
* **CBGeoTask** closes its spot in its constructor. `Cancel` reopens the spot,
  but only when no nanoframe has been placed.
* **UnitDestroyed** (536-544) only dispatches a handler table. That table has
  no entry for extractors or geothermal plants.

## Module and correspondence

`EconomyPlanner.tla` is one module with one action per handler.

**Planner call**
* `MakeEconomyTasks` is one planner call, the whole cascade in one step. The
  stages are the operators `UpdateMetalTasks`, `MetalStages`,
  `UpdateReclaimTasks`, `UpdateEnergyTasks` and `UpdateGeoTasks`. Their
  guards are the code's early returns, in the code's order.
* A stage that enqueues ends in one of the `Enqueue*` operators. These also
  carry the task constructor's effect on the spot flags (`EnqueueMexUp` sets
  `mexUpgrading`, `EnqueueMex` calls `SetOpenSpot(s, FALSE)`, `EnqueueGeo`
  closes the geothermal spot).
* The energy-type selection loop is the recursive function in `EnergySelect`.

**Task and world steps**
* The steps of the tasks are `MexUpFinish`, `MexUpCancel`, `MexUpReclaimOld`,
  `MexTaskFinish`, `MexTaskCancel`, `GeoTaskStart`, `GeoTaskCancel`,
  `GeoTaskFinish`, the task ends of the other kinds, and destruction.
* The steps of the world are `Tick`, `UpdateResourceIncome`, `WorkersChange`
  and `EconomyQuery` (any other module calling an `Is*` accessor, which
  refreshes the memo).

**Data abstraction**
* A spot, feature, geothermal spot, cluster and energy type is a model value.
* An extractor type is its extraction level (`MexTiers`).
* The four economy flags are chosen from `EcoStates` when the memo refreshes.
* Every engine or terrain predicate is a nondeterministic input of the call:
  reachability, build legality, income thresholds, the queue depth
  (`QueueDepths` separates the limits 8, 16, 32) and `GetGuardTaskNum`.
* The average metal income is reduced to the one bit the planner reads,
  `metalRich`.
* Tasks in flight are counters per spot, feature or type, bounded by
  `MaxTasks`.

**Modelled from the behaviour the callers rely on.** The classes `CBMexTask`
and `CBuilderManager`, and the task ends of the other kinds, are not in the
repository's sources. These actions are modelled from what the economy module
relies on, and are marked `spec_modelled` in PROJECT.json:
* the MEX task closes its spot on creation and reopens it on cancel;
* a finished task leaves the building standing.

## Runs

All runs use `MCEconomyPlanner.tla`. It gives the model values and the small
sets the configs bind. `FramesPerSec = SlowUpdateRate = 1` puts the cooldown
and memo boundaries within a clock of 2-3 frames.

| run | cfg | checks | instance | shows |
|---|---|---|---|---|
| metal | MCMetal.cfg | TypeOK, UpgradeFlagTracksTasks, SpotClaimExclusive | 2 spots, 1 cluster, 2 tiers, `NumMexUp = 2`, 4 frames | Upgrade flags follow the MEXUP tasks. No spot carries two extractor tasks, and a spot we hold is never open. |
| energy | MCEnergy.cfg | GeoClaimSound | 1 spot, 1 geothermal spot, 2 energy types with limit 1 | An open geothermal spot has neither a task nor a plant. |
| salvage | MCSalvage.cfg | SalvageUnique | 2 features, up to 2 workers | No feature ever carries two salvage tasks. |
| geo_leak | MCGeoLeak.cfg | GeoSpotReusable (expected violated) | as energy | A geothermal spot is lost for good after a cancel with a nanoframe, or after the plant is destroyed. |
| mex_leak | MCMexLeak.cfg | MexSpotReusable (expected violated) | as energy, with 2 extractor tiers | An extractor spot is lost for good once its extractor is destroyed, or reclaimed by a MEXUP task that is then cancelled. |

Why the bounds are enough:
* Two spots and two tiers give the MEXUP stage a spot to upgrade while the
  other spot takes a MEX task, and a second upgrade level.
* `MaxTasks = 2` lets a missing guard put a second task on a spot, which is
  how every mutant is caught.
* Two energy types make the selection loop both break and go on.

No fairness is assumed. Every property is a safety property, and the engine
decides when builders go idle, so nothing in the code forces a planner call.
Deadlock is checked. It cannot occur: a planner call that finds the builder
queue full is enabled in every state and enqueues nothing.

**Finding (geo_leak).** `CBGeoTask::Cancel` (GeoTask.cpp:41) reopens the spot
only while `target == nullptr`. `UnitDestroyed` has no handler for geothermal
plants. Once a nanoframe has been placed, or a plant built and destroyed, the
spot is never again offered to `UpdateGeoTasks`.

**Finding (mex_leak).** Extractor spots leak the same way.
* `CBMexUpTask::Execute` (MexUpTask.cpp:140) reclaims our own extractor when
  it finds no build site. `Cancel` (line 82) then clears only the upgrading
  flag.
* `UnitDestroyed` has no handler for extractors. Only factories and
  commanders register one (lines 254 and 286).
* Nothing in the repository calls `SetOpenSpot(spot, true)` after either.
  So a spot with neither a task nor an extractor of ours stays closed.
* The MEX stage takes only open spots (`IsAllyOpenSpot`, line 996), and the
  MEXUP stage needs an extractor on the spot. Neither offers it again.
* TLC's shortest trace is three steps: enqueue a MEX task, finish it, lose
  the extractor. The MEXUP path is longer, through `MexUpReclaimOld` and
  `MexUpCancel`.
* The only reopen in the model is `MexTaskCancel`, which is modelled from
  spec.md because `CBMexTask` is not in the repository. Code outside the
  repository could call `SetOpenSpot` after a destruction, but nothing in
  it does.

## Proofs

`EconomyPlannerProofs.tla` proves, for every value of the constants under
`PlannerAssumptions`:

* **TypeCorrect**, `Spec => []TypeOK`.
  * The cascade nests six levels of operators. The lemmas `GeoStageEffect`
    to `PlannerStepEffect` first reduce any planner call to one elementary
    `PlannerEffect`: no task, or one enqueue.
  * `PlannerEffectType` then shows that each effect keeps the types.
  * `MexStepType`, `TaskEndType`, `GeoStepType` and `WorldStepType` do the
    same for the other actions.
  * TypeOK is inductive on its own.
* **UpgradeFlagCorrect**, `Spec => []UpgradeFlagTracksTasks`.
  * The inductive invariant is `TypeOK /\ UpgradeFlagTracksTasks`. The type
    part is needed because the step from "no task" to "one task" uses the
    counter's type.
  * The key case is the MEXUP enqueue. `IsUpgradeCandidate` requires
    `~mexUpgrading[s]`, so by the invariant the spot has no MEXUP task. After
    the enqueue it has exactly one task and a set flag.
  * `Finish` and `Cancel` go from one task to none and clear the flag.
  * Every other action leaves both untouched (`UpgradeFlagFrame`).

Note: until this proof module was revised, a separator line in it began with
`====`, which ends a module. tlapm read nothing after it, and the proof of
`UpgradeFlagCorrect` was never checked. It is now checked.

`EconomyClaimProofs.tla` extends these proofs. It proves `ClaimsHold`, which
is `Spec => []ClaimInv`, and from it **SpotClaimExclusiveHolds**,
**SalvageUniqueHolds** and **GeoClaimSoundHolds**. `ClaimInv` is the
conjunction of `TypeOK`, `UpgradeFlagTracksTasks`, the three properties, and
two strengthenings the properties need to be inductive:
* **`MexTaskAlone`**: a spot with a MEX task in flight is closed and
  untiered.
  * Without it, `SpotClaimExclusive` alone allows a state with a MEX task on
    a tiered spot. From there the MEXUP stage could enqueue an upgrade
    beside the MEX task.
  * TLC confirms that no reachable state is like that: `MexTaskAlone` holds
    on the metal run.
* **`GeoQueuedNoPlant`**: a queued geo task has no plant yet.
  * `GeoTaskCancel` reopens the spot only while no nanoframe exists.
  * To show that the reopened spot has no plant, the proof needs this fact
    about queued tasks.

The proof reuses the `PlannerEffect` reduction. There is one lemma per
family of actions: `PlannerEffectSpot`, `MexStepSpot`, `SalvageStep` and
`GeoStep`. Each case restates the action's effect as explicit `EXCEPT`
equalities.

**Only model-checked:**
* Anything about what `EnergySelect` computes. It is a recursive function,
  and what a recursive definition computes for every input is out of the
  provers' reach.
* Liveness and ENABLED, which are out of the provers' reach (see
  `PhantomCleared` below).

## Income averaging: IncomeSampler and IncomeWindow

`UpdateResourceIncome` (EconomyManager.cpp 738-762) keeps two ring buffers of
`INCOME_SAMPLES` slots, `metalIncomes` and `energyIncomes`. Each call writes
the new sample at `indexRes`, advances `indexRes` modulo the size, and sets
`metal.income` and `energy.income` to the mean of the slots. The finished
handlers of energy makers, geothermal plants and extractors (lines 101-133) add
the new building's income to every slot and to the current average, so the
estimate reacts before the samples catch up.

* `IncomeSampler.tla` has one action per handler: `UpdateResourceIncome`,
  `EnergyFinished`, `GeoFinished` and `MexFinished` (the last three share
  `AddIncome`). Incomes are integers, and `incomeN` holds `INCOME_SAMPLES`
  times the average, so the division is exact. `MaxBuilt` bounds the number of
  finished buildings.
* `IncomeWindow.tla` is the abstract specification. It keeps a sequence of
  the last `INCOME_SAMPLES` samples per resource. `Record` drops the oldest
  sample and appends the new one; `Boost` adds an income to every element.
* The refinement mapping `Window(r)` reads the slots from `indexRes` on, oldest
  first. `WindowRefinement == Abstract!Spec` is checked as a PROPERTY.

Run **income** (`MCIncome.cfg`: 3 slots, samples {0, 3}, incomes {1, 2}, two
buildings; 19,203 states) checks `TypeOK`, `IncomeIsWindowMean` (once sampled,
the average is the mean of the slots, also after a handler added income
between two samples) and `WindowRefinement`. Three slots make the wrap-around
and the oldest-slot overwrite happen.

**Proved** (`IncomeSamplerProofs.tla`, theorem `WindowRefined`):
`Spec => WindowRefinement` for every `INCOME_SAMPLES > 0` and all sample and
income sets. The invariant `RingInv` (buffers are functions from the slots to
integers, `indexRes` is a slot) is inductive. Under it:
* the initial buffers map to the seeded windows (`RefineInit`);
* a sample maps to `Record`: `ShiftWindow` rewrites `Append(Tail(w), x)`
  pointwise, and `RingIndex` shows that the slot just written is the last
  element of the window read from the new index (`RefineSample`);
* `AddIncome` maps to `Boost` (`RefineAddIncome`).
`IncomeIsWindowMean` is only model-checked: the mean is a fold over the
slots (`SumFunction`), and proving what that community fold computes is
not done (see "Proved, and only model-checked").

## Schedule curves: ScheduleCurves

`ReadConfig` (351-357) stores the two energy-factor breakpoints and the slope
between them. `Init` (440-457) builds the `mspInfos` table of the
metal-to-support pull curve from `economy.ms_pull`. `UpdateEconomy`
(1746-1784) evaluates both curves: `energyFactor` at `ecoFrame`, and `pullMtoS`
at `mexCount` through `std::lower_bound`, scaled by the mobile cost ratio.
`SetOpenSpot` (851-858) moves `mexCount`.

* Floats are exact rationals. A division by zero, which a float turns into
  an infinity or NaN, is a pair with denominator 0. `IsRat` excludes it, so
  `TypeOK` says that no infinity reaches `energyFactor` or `pullMtoS`.
* `MspBuilt` reproduces Init exactly: `resize(n)` leaves n default entries
  (pull 0, mex 0), the configured breakpoints are appended, and each slope is
  written to the entry before the new one.
* The sort is not stable and its comparator is not in the sources, so
  `MspSorted` is every ordering sorted by mex.
* `CurveRef` is the reference: the piecewise-linear curve through the
  configured points, clamped at both ends.

Run **curves** (`MCCurves.cfg`) checks `EnergyFactorOnCurve` and `TypeOK`
on 221,400 states.
* It has 4 spots, 2 frames per second and frames up to 8.
* The energy config is the default `0.5 @ 1 s, 2.0 @ 3 s`. The clock passes
  both energy breakpoints, so both clamps and the interpolation between them
  are reached.
* The ms_pull config is `ZeroMexPull`: `1.0 @ 0%, 0.5 @ 0%, 0.25 @ 75%`
  (see `TypeCorrect` below for what it exercises).

Run **pull_curve** (`MCPullCurve.cfg`, expected violation) checks
`PullOnCurve`. **Finding:** the table Init builds does not describe the
configured curve.
* After the sort a default entry is `front()`, so `pullMtoS` starts at 0
  instead of 1.0.
* Between breakpoints, `lower_bound` lands on the upper breakpoint. Its slope
  was written to a default entry, so its own slope is 0.
* The pull therefore steps from breakpoint to breakpoint. With 1 of 4 spots
  the code gives 0.25 where the configured curve gives 0.8125.
The cause is `EconomyManager.cpp:441` (`resize` followed by `push_back`,
slopes in `mspInfos[i-1]`).

**Proved** (`ScheduleCurvesProofs.tla`, theorem `EnergyFactorOnCurveHolds`):
`Spec => []EnergyFactorOnCurve` for every configuration that
`CurveAssumptions` admits: two breakpoints with the start second before the
end second, and any positive frame rate and update rate.
* `EnergyFactorOnCurve` is not inductive: a refresh must also know that the
  clock is an integer. The inductive invariant `CurveInv` states the
  stronger fact that `energyFactor` is exactly the code's value
  `EnergyFactorAt(ecoFrame)`. Before the first refresh, `ecoFrame` is -1 and
  the value is the start factor.
* `EnergyFactorIsCurve` shows that the code's branch equals `CurveRef` on
  the two-point curve, as rationals, at every integer frame. The code
  precomputes the slope `efInfo.fraction` and the reference divides at the
  end, and both give the same numerator and denominator.
* TLC checked `CurveInv` on the curves instance before the proof.
`PullOnCurve` is false (the finding above), so it has no theorem.

**Proved** (`ScheduleCurvesProofs.tla`, theorem `TypeCorrect`):
`Spec => []TypeOK` for every ms_pull configuration `CurveAssumptions` admits.
That includes configurations with a mex of 0 or two equal mex values.
`Init` then divides by zero (line 454), so an entry's slope is an infinity
or NaN.
* `MspBuiltOK` and `MspSortedOK` show that the built and sorted tables are
  `TableOK`: every entry has a rational pull and a natural mex, and an entry
  with mex > 0 has slope 0.
  * The slope of line 454 goes to the entry before the new one, and the
    entries written last are the default ones.
* `LowerBoundFound` shows that `lower_bound` lands on an entry with mex >= m,
  the first such entry. It takes the least index through `WFMin` of
  WellFoundedInduction.
* `UpdateEconomy` looks up m = mexCount + 1 >= 1. So the entry it reads has
  slope 0, and `pullMtoS` is rational even when the table holds an infinity.
* TypeOK is inductive together with `CurveInv`.

The curves run checks `TypeOK` under `ZeroMexPull`. That configuration has
a second breakpoint at mex 0, so Init divides by zero. The table holds an
infinite slope in every state, and TypeOK still holds. Its mutant
`LowerBoundEarly` stops the search one entry early, on the entry whose slope
is infinite. TLC then finds a state where an infinity reaches `pullMtoS`.

The permutations of the table are written as `Reorderings`, the injective
maps of `1..n` onto itself, instead of TLC's `Permutations`. The prover does
not know the latter.

## Threat map: ThreatMap

`CThreatMap` keeps a grid of threat cells, each starting at
`THREAT_VAL_BASE`, plus `currSumThreat` and `currMaxThreat`. Known enemies
are kept in `hostileUnits` (threatening) or `peaceUnits`.

Each engine event is an action:
* `EnemyEnterLOS`, `EnemyLeaveLOS`, `EnemyEnterRadar`, `EnemyLeaveRadar`,
  `EnemyDamaged` and `EnemyDestroyed` (lines 119-240). Each removes the
  enemy's old footprint (`DelEnemyUnit`), updates it and adds it back
  (`AddAt`, lines 254-285).
* `Update` (63-117), the periodic job. It walks both maps in id order as two
  `FoldLeft`s. It hides an enemy whose last position is in our LOS although
  we have no contact (`IsLost`). It decays the threat of enemies out of
  sight and re-adds every visible hostile.

The engine's own steps are spec-modelled:
* `EnemyMoves`: an enemy moves while in contact;
* `EnemyDiesUnseen`: an enemy dies out of sight, with no event;
* `LosChange`: the LOS map changes.

Threats are small integers. A decayed threat is any value from 1 up to the
old one, and 0 stays 0. Health
may be negative, as for a dying unit. The footprint is the code's loop bounds
clamped to the grid.

| run | cfg | checks | instance |
|---|---|---|---|
| threat | MCThreat.cfg | TypeOK, ThreatAccounting, SumAccounting | 2×1 grid, two enemies (one threatening, range 1; one harmless), health {-1, 2}; 92,928 states |
| phantom | MCPhantom.cfg | PhantomCleared | one enemy; 1,184 states |

* **ThreatAccounting**: every cell is the base value plus the threats of the
  visible hostile enemies that cover it, whatever the order of events.
* **SumAccounting**: `currSumThreat` is the total of those footprints.
* **PhantomCleared**: an enemy that died unseen and still shows at a
  position in our LOS is eventually removed from the map.

`PhantomCleared` assumes weak fairness of `Update`. `Update` is scheduled
every few frames by the AI's job scheduler and is always enabled, so
fairness holds in the running program.

## Fighter tasks: AttackTask and ArtilleryTask

`ISquadTask`, `IFighterTask` and the military manager are not in the
repository. The models take from them only what these two files rely on:
* `attackPower` is the sum of the members' power;
* the leader is a member, or nullptr when there is none;
* `SetTarget` keeps the enemy's list of hunting tasks;
* `Merge` moves the members into the other squad;
* `AbortTask` kills the task and releases what it holds.
These definitions are marked `spec_modelled`. Unit orders, paths and
positions are abstracted to what a property reads. Every geometric test and
every pathfinder or threat-map answer is an input of the step.

**AttackTask** (`MCSquads.cfg`: two squads; units u1 lander, u2 amphibious,
u3 flier, power 1 each; two enemies; 3 updates per squad; 33,609 states).
The actions are `Create`, `Recruit` (`CanAssignTo` + `AssignTo`),
`RemoveAssignee` and `Update`. `Update` covers the merge every 32nd update,
the regroup, every 4th update `FindTarget`, and ENGAGE. The first update is
a merge opportunity, so a squad can merge with three updates.
* **SquadOwnership**: a unit is in exactly the squad it is assigned to, and
  dead squads are empty. The merge path moves the members, clears them, then
  aborts (lines 117-125).
* **TargetExclusive**: each enemy's list of hunting tasks is exactly the live
  squads targeting it, and holds at most one. `FindTarget` skips hunted
  enemies after dropping its own target.
* **LiveSquadManned**: a live squad always has a leader among its members.
  The abort in `RemoveAssignee` runs when the last member leaves.

Not checked, but reachable in the model: `minPower` grows with every unit
ever assigned and never shrinks. With `MaxMinPower = 4`, a squad of one unit
aborts at full strength after three join/leave cycles of a second unit.
Nothing in the repository states what `minPower` should track, so this is a
hazard (AttackTask.cpp:71), not a finding.

**ArtilleryTask** (`MCArty.cfg`: one task, two artillery units and one
other, two enemies, each seen as one of five views; 4 updates; 5,473 states).
The actions are `Assign`, `RemoveAssignee` (also reached from `OnUnitIdle`),
`ExecuteUnit` (`Execute(unit, false)`) and `Update` (every 4th call runs
`Execute(unit, true)`). `FindTarget`'s enemy loop is the fold `SelectStep`
over a visiting order, which is any permutation.
* **TargetPriority**: for every view and every visiting order, the loop
  picks what the order-free reference `RefPick` allows: the most
  threatening enemy in range when one has positive threat, else one we may
  chase, else any enemy in range.
* **ArtyOneUnit**: a live task holds exactly one unit, assigned to it.

The five views:
* threatening, not to be chased;
* harmless and chaseable;
* harmless, not to be chased;
* static, out of range and near;
* filtered out.
Together they make every branch of the loop fire, including ties, and
`best` both before and after `medium`.

**Proved** (`AttackTaskProofs.tla`): **SquadOwnershipHolds**,
**LiveSquadMannedHolds** and **TargetExclusiveHolds**, for every set of tasks,
units and enemies. They follow from `IInvHolds`, `Spec => []IInv`. `IInv`
adds three strengthenings to the three properties and the types:
* `Idle`: a dead task has no leader and no target;
* `HuntersExact`: each enemy's hunter set is exactly the live tasks
  targeting it;
* `HuntedOnce`: that set has at most one element.
`Idle` is needed because `Create` turns a new task live. That task must not
bring a target that no hunter set records. `HuntersExact` is needed because `FindTarget` tests
the hunter set, while the property is about targets.
* `AttackPower` is written with `MapThenFoldSet` of the `Folds` module, the
  same sum as `MapThenSumSet` of `FiniteSetsExt`, so that the module reaches
  no RECURSIVE operator.
* The type of `minPower` is left out of `IInv`. It would need the sum of
  powers to be a natural number, which is induction over the summed set.

**Proved** (`ArtilleryTaskProofs.tla`): **ArtyOneUnitHolds**, for every set
of units and enemies. Its inductive invariant adds two facts:
* `Membership`: squad membership and the owner field agree;
* `IdleEmpty`: a dead task is empty.
`Assign` checks that the task is empty and that the unit has no owner.
`Membership` turns "no owner" into "in no squad". Without it, the proof
could not show that the unit being assigned sits in no other squad.
* To keep the module free of `SequencesExt`, the loop's visiting orders are
  written as the injective functions onto `1..Cardinality(Enemies)` (the
  permutations). The fold is written as the recursive function
  `SelectLoop`.

**Proved** (`ArtilleryTaskProofs.tla`): **TargetPriorityHolds**,
`Spec => []TargetPriority`, for every finite non-empty set of enemies and
every set of views. Most of the proof is about the loop `SelectLoop`.
* `LoopInv(a, v, S)` states what the accumulator says of the enemies `S`
  visited so far:
  * `maxThreat` bounds their threat;
  * `bestTarget`, when set, is a candidate of that threat, and the threat
    is positive;
  * while there is no `bestTarget`, `mediumTarget` is set exactly when a
    chaseable candidate has been seen, and `worstTarget` exactly when any
    candidate has.
* `StepInv` shows that one iteration keeps `LoopInv`. It has one case per
  branch of the if-chain.
* `LoopFnEq` shows that the recursive definition of the loop has a
  solution. `LoopInvAll` shows that every prefix satisfies `LoopInv`.
  Both argue by the least counterexample, a minimum taken through `WFMin`
  of WellFoundedInduction. The library's induction theorems take an
  operator parameter and are not used.
* `VisitedAll` shows that an order visits every enemy. An injection of
  `1..n` into the n enemies is a surjection, by `FS_Injection`.
* `PickOK` shows that `Pick` of a final accumulator lies in `RefPick`.
* The inductive invariant `TPInv` adds that `lastView` is a view or None.
* TLC checked `LoopInv` on every prefix of every order and view of the
  artillery instance, and `TPInv` on its runs, before the proof.

Deadlock is not checked in `MCSquads.cfg` and `MCArty.cfg`. Task objects are
never reused, so these bounded instances stop once every task has died. The
running AI keeps creating tasks.

## Proved, and only model-checked

Proved with TLAPS for every value of the constants:
* `TypeCorrect` and `UpgradeFlagCorrect`, in EconomyPlannerProofs;
* `SpotClaimExclusiveHolds`, `SalvageUniqueHolds` and `GeoClaimSoundHolds`,
  in EconomyClaimProofs;
* `WindowRefined` (a refinement), in IncomeSamplerProofs;
* `SquadOwnershipHolds`, `LiveSquadMannedHolds` and `TargetExclusiveHolds`,
  in AttackTaskProofs;
* `EnergyFactorOnCurveHolds` and `TypeCorrect` (for every ms_pull table,
  one that divides by zero included), in ScheduleCurvesProofs;
* `ArtyOneUnitHolds` and `TargetPriorityHolds` (what the target loop
  computes, for every order of the enemies), in ArtilleryTaskProofs.

Only model-checked:
* `PhantomCleared`: liveness and ENABLED are beyond the provers.
* Properties about what a sum computes over data. These are:
  * `IncomeIsWindowMean` and the income `TypeOK` (`SumFunction`);
  * `ThreatAccounting` and `SumAccounting` (`MapThenSumSet` and `FoldLeft`).
  The community modules define these sums through a fold over a set or a
  sequence. The library's induction theorems take an operator parameter,
  which the provers cannot instantiate. So a proof would first have to
  rebuild the fold's recursion equations by a least-counterexample
  argument, as `TargetPriorityHolds` does for its own loop. Neither that
  nor the arithmetic on the sums is done.
  `ThreatMap` also extends `SequencesExt`, which declares RECURSIVE
  operators, so no theorem can be stated in a module that uses it.

## Not modelled

* **Planner.** The factory, storage and pylon stages, and the
  `isEnergyRequired` flag the factory stage sets. Economy-definition
  bookkeeping and morphing (`AddEconomyDefs`, `UpdateMorph` and so on).
* **Threat map.** `GetThreatAt` and `GetUnitThreat` are pure queries.
  `currAvgThreat` is never written. The debug visualisation has no effect.
* **`terrain/TerrainData.h`.** It is declarations only: the double-buffered
  area data and the sector indexing. Their implementation is not in the
  repository.
* **`unit/CircuitDef.h`.** It is a record of accessors. Only the mobility
  flags and `GetDPS`/`GetPower` are used, as constants.
* **Unit bookkeeping.** `CCircuitUnit`, `CUnitManager`, `CFactoryManager` and
  `CMetalSpot` hold data read by other parts. There are no state changes to
  model beyond what those parts take as inputs.
* **`EventHandlerAI.cpp`.** It forwards engine events to `CCircuitAI` and
  holds no state.
* **Fighter tasks.**
  * Unit orders (`Attack`, `Fight`, `Guard`, `Gather`) and movement actions
    become a `moveActive` flag or are left out.
  * `CAttackTask::OnUnitIdle` only re-rolls the roam position and re-issues
    orders.
  * `CAttackTask::Execute` only hands the path to the movement action.

See the components in PROJECT.json.
