---------------------------- MODULE ScheduleCurves ----------------------------
(***************************************************************************)
(* The two schedule curves of CEconomyManager (module/EconomyManager.cpp): *)
(* energyFactor, a function of the game frame given by two breakpoints    *)
(* (efInfo, set up by ReadConfig), and pullMtoS, a function of the number *)
(* of our extractors given by the ms_pull breakpoints (mspInfos, built by *)
(* Init).  UpdateEconomy recomputes both, at most once per                *)
(* TEAM_SLOWUPDATE_RATE frames, while the game clock runs and extractors  *)
(* are built and lost (SetOpenSpot changes mexCount).                     *)
(*                                                                         *)
(* Floats are modelled as exact rationals <<numerator, denominator>>; a   *)
(* quotient by zero, which a float turns into an infinity or NaN, is a    *)
(* pair with denominator 0.  SPullMtoS, its ordering and the comparator   *)
(* lower_bound uses are declared outside the sources; they are taken to   *)
(* compare the mex fields, which is what the lookup needs.                *)
(***************************************************************************)
EXTENDS Integers, Sequences

CONSTANTS
  SpotCount,       \* spSize, the number of metal spots
  PullConfig,      \* economy.ms_pull: <<pull, fraction of the spots>> pairs
  EfConfig,        \* economy.energy.factor: <<factor, second>> pairs
  FramesPerSec,    \* FRAMES_PER_SEC
  SlowUpdateRate,  \* TEAM_SLOWUPDATE_RATE
  CostRatios,      \* what CMilitaryManager::ClampMobileCostRatio returns
  MaxFrame         \* bound on the game clock

\* Rationals and the float arithmetic the curves use.
IsRat(a) == a \in (Int \X (Nat \ {0}))
Rat(k) == <<k, 1>>
RAdd(a, b) == <<a[1] * b[2] + b[1] * a[2], a[2] * b[2]>>
RSub(a, b) == <<a[1] * b[2] - b[1] * a[2], a[2] * b[2]>>
RMul(a, b) == <<a[1] * b[1], a[2] * b[2]>>
\* A quotient by zero keeps denominator 0: an infinity of the numerator's
\* sign, or NaN for 0/0, which is what the float division gives.
RDiv(a, b) ==
  IF b[1] >= 0 THEN <<a[1] * b[2], a[2] * b[1]>>
  ELSE <<-(a[1] * b[2]), -(a[2] * b[1])>>
REq(a, b) == a[1] * b[2] = b[1] * a[2]
RLeq(a, b) == a[1] * b[2] <= b[1] * a[2]
\* A float assigned to an int field: truncation (the values are >= 0).
RTrunc(a) == a[1] \div a[2]

ASSUME CurveAssumptions ==
  /\ SpotCount \in Nat
  /\ PullConfig \in Seq((Int \X (Nat \ {0})) \X (Nat \X (Nat \ {0})))
  /\ Len(PullConfig) >= 1
  /\ EfConfig \in Seq((Int \X (Nat \ {0})) \X Nat)
  /\ Len(EfConfig) = 2
  /\ EfConfig[1][2] < EfConfig[2][2]
  /\ FramesPerSec \in Nat \ {0}
  /\ SlowUpdateRate \in Nat \ {0}
  /\ CostRatios \subseteq (Int \X (Nat \ {0}))
  /\ MaxFrame \in Nat

-----------------------------------------------------------------------------
(***************************************************************************)
(* ReadConfig: the energy-factor breakpoints and their slope.             *)
(***************************************************************************)
\* Bug variant of EfInfo (mutant): the slope over endFrame instead of over
\* endFrame - startFrame.
EfInfoNoOffset ==
  LET startFactor == EfConfig[1][1]
      startFrame == EfConfig[1][2] * FramesPerSec
      endFactor == EfConfig[2][1]
      endFrame == EfConfig[2][2] * FramesPerSec
  IN [startFactor |-> startFactor, startFrame |-> startFrame,
      endFactor |-> endFactor, endFrame |-> endFrame,
      fraction |-> RDiv(RSub(endFactor, startFactor), Rat(endFrame))]

EfInfo ==
  LET startFactor == EfConfig[1][1]
      startFrame == EfConfig[1][2] * FramesPerSec
      endFactor == EfConfig[2][1]
      endFrame == EfConfig[2][2] * FramesPerSec
  IN [startFactor |-> startFactor, startFrame |-> startFrame,
      endFactor |-> endFactor, endFrame |-> endFrame,
      fraction |-> RDiv(RSub(endFactor, startFactor), Rat(endFrame - startFrame))]

(***************************************************************************)
(* Init: the ms_pull table.  mspInfos.resize(pull.size()) leaves          *)
(* pull.size() value-initialised entries {0, 0, 0} in front; the         *)
(* configured breakpoints are pushed behind them, and the fraction of    *)
(* breakpoint i is written to mspInfos[i - 1], which is one of the       *)
(* entries in front.  std::sort then orders by mex; equal mex values end  *)
(* up in an unspecified order.                                            *)
(***************************************************************************)
Zero == Rat(0)
Breakpoint(i) ==
  [pull |-> PullConfig[i][1],
   mex |-> RTrunc(RMul(PullConfig[i][2], Rat(SpotCount))),
   fraction |-> Zero]

MspBuilt ==
  LET n == Len(PullConfig)
      entries == [k \in 1 .. 2 * n |->
                    IF k <= n THEN [pull |-> Zero, mex |-> 0, fraction |-> Zero]
                    ELSE Breakpoint(k - n)]
      \* fraction of entry i (0-based code index i - 1) from breakpoint i + 1
      Slope(i) == RDiv(RSub(Breakpoint(i + 1).pull, entries[i].pull),
                       Rat(Breakpoint(i + 1).mex - entries[i].mex))
  IN [k \in 1 .. 2 * n |->
        IF k < n THEN [entries[k] EXCEPT !.fraction = Slope(k)]
        ELSE entries[k]]

\* The orders std::sort may leave the entries in: every rearrangement of
\* the positions 1..n (an injective map of a finite set onto itself).
Reorderings(n) ==
  {p \in [1 .. n -> 1 .. n] : \A i, j \in 1 .. n : p[i] = p[j] => i = j}

IsSortedByMex(v) == \A i, j \in 1 .. Len(v) : i < j => v[i].mex <= v[j].mex

MspSorted ==
  LET v == MspBuilt
  IN { s \in {[k \in 1 .. Len(v) |-> v[p[k]]] : p \in Reorderings(Len(v))} :
         IsSortedByMex(s) }

-----------------------------------------------------------------------------
VARIABLES
  frame,         \* circuit->GetLastFrame()
  ecoFrame,      \* the frame of the last UpdateEconomy refresh
  mexCount,      \* our extractors, counted by SetOpenSpot
  mspInfos,      \* the sorted ms_pull table
  energyFactor,
  pullMtoS,
  pullCount,     \* history: the mexCount pullMtoS was last computed for
  costRatio      \* history: the ClampMobileCostRatio it was scaled by

vars == <<frame, ecoFrame, mexCount, mspInfos, energyFactor, pullMtoS,
          pullCount, costRatio>>

TypeOK ==
  /\ frame \in 0 .. MaxFrame
  /\ ecoFrame \in -1 .. MaxFrame
  /\ mexCount \in 0 .. SpotCount
  /\ mspInfos \in MspSorted
  /\ IsRat(energyFactor) /\ IsRat(pullMtoS)
  /\ pullCount \in 0 .. SpotCount
  /\ costRatio \in CostRatios \cup {Rat(1)}

\* The constructor (ecoFrame(-1), mexCount(0)), ReadConfig (energyFactor =
\* efInfo.startFactor) and Init (pullMtoS = mspInfos.front().pull).
Init ==
  /\ frame = 0
  /\ ecoFrame = -1
  /\ mexCount = 0
  /\ mspInfos \in MspSorted
  /\ energyFactor = EfInfo.startFactor
  /\ pullMtoS = mspInfos[1].pull
  /\ pullCount = 0
  /\ costRatio = Rat(1)

\* Bug variant of LowerBound (mutant): the search stops one entry early,
\* at the last entry whose mex is below m.
LowerBoundEarly(v, m) ==
  CHOOSE k \in 1 .. Len(v) : v[k].mex < m /\ \A j \in k + 1 .. Len(v) : v[j].mex >= m

\* std::lower_bound with the mex comparator: the first entry whose mex is
\* not below m.
LowerBound(v, m) ==
  CHOOSE k \in 1 .. Len(v) : v[k].mex >= m /\ \A j \in 1 .. k - 1 : v[j].mex < m

\* The energyFactor branch of UpdateEconomy.
EnergyFactorAt(f) ==
  IF f <= EfInfo.startFrame THEN EfInfo.startFactor
  ELSE IF f >= EfInfo.endFrame THEN EfInfo.endFactor
  ELSE RAdd(RMul(EfInfo.fraction, Rat(f - EfInfo.startFrame)), EfInfo.startFactor)

\* The pullMtoS branch of UpdateEconomy, before the cost-ratio scaling.
PullAt(v, m) ==
  IF m <= v[1].mex THEN v[1].pull
  ELSE IF m >= v[Len(v)].mex THEN v[Len(v)].pull
  ELSE LET e == v[LowerBound(v, m)]
       IN RAdd(RMul(e.fraction, Rat(m - e.mex)), e.pull)

\* UpdateEconomy: the memo check, then both curves at the current frame
\* and extractor count; pullMtoS is scaled by ClampMobileCostRatio().
\* (The economy flags it also refreshes are modelled in EconomyPlanner.)
UpdateEconomy ==
  /\ ecoFrame + SlowUpdateRate < frame
  /\ ecoFrame' = frame
  /\ energyFactor' = EnergyFactorAt(frame)
  /\ \E ratio \in CostRatios :
       /\ pullMtoS' = RMul(PullAt(mspInfos, mexCount), ratio)
       /\ costRatio' = ratio
  /\ pullCount' = mexCount
  /\ UNCHANGED <<frame, mexCount, mspInfos>>

Tick ==
  /\ frame < MaxFrame
  /\ frame' = frame + 1
  /\ UNCHANGED <<ecoFrame, mexCount, mspInfos, energyFactor, pullMtoS,
                 pullCount, costRatio>>

\* SetOpenSpot(index, value): mexCount changes only when the flag changes;
\* closing an open spot (an extractor of ours) counts up, reopening counts
\* down.  Which spot is abstracted to whether one is open or closed.
SetOpenSpot ==
  \E value \in BOOLEAN :
    /\ IF value THEN mexCount > 0 ELSE mexCount < SpotCount
    /\ mexCount' = IF value THEN mexCount - 1 ELSE mexCount + 1
    /\ UNCHANGED <<frame, ecoFrame, mspInfos, energyFactor, pullMtoS,
                   pullCount, costRatio>>

Next == UpdateEconomy \/ Tick \/ SetOpenSpot

Spec == Init /\ [][Next]_vars

-----------------------------------------------------------------------------
(***************************************************************************)
(* The curves the spec describes (section 3, ScheduleCurve): linear      *)
(* between neighbouring breakpoints, clamped to the first and last y      *)
(* outside them.                                                          *)
(***************************************************************************)
CurveRef(pts, x) ==
  LET n == Len(pts)
  IN IF x <= pts[1].x THEN pts[1].y
     ELSE IF x >= pts[n].x THEN pts[n].y
     ELSE LET k == CHOOSE k \in 1 .. n - 1 : pts[k].x <= x /\ x < pts[k + 1].x
          IN RAdd(pts[k].y, RDiv(RMul(RSub(pts[k + 1].y, pts[k].y), Rat(x - pts[k].x)),
                                 Rat(pts[k + 1].x - pts[k].x)))

EfCurve ==
  << [x |-> EfInfo.startFrame, y |-> EfInfo.startFactor],
     [x |-> EfInfo.endFrame, y |-> EfInfo.endFactor] >>

PullCurve ==
  [k \in 1 .. Len(PullConfig) |-> [x |-> Breakpoint(k).mex, y |-> Breakpoint(k).pull]]

\* energyFactor follows its curve at the frame of the last refresh: the
\* start factor up to startFrame (and before the first refresh), the end
\* factor from endFrame, the straight line between (UpdateEconomy with the
\* slope ReadConfig stores in efInfo.fraction).
EnergyFactorOnCurve == REq(energyFactor, CurveRef(EfCurve, ecoFrame))

\* pullMtoS is the ms_pull curve at the extractor count of the last
\* computation, scaled by the cost ratio: the pull of the first breakpoint
\* from Init on, then UpdateEconomy's lookup through the sorted mspInfos.
PullOnCurve == REq(pullMtoS, RMul(CurveRef(PullCurve, pullCount), costRatio))
=============================================================================
