------------------------ MODULE ScheduleCurvesProofs -------------------------
(***************************************************************************)
(* Proof that energyFactor stays on its curve, for every energy-factor    *)
(* configuration, frame rate, update rate and clock bound.                *)
(*                                                                         *)
(* The invariant as TLC checks it compares energyFactor with the curve of *)
(* the spec at ecoFrame.  It is not inductive as it stands (a refresh     *)
(* also needs ecoFrame and the clock to be integers), and the curve is    *)
(* written differently from the code's branch: the proof keeps the       *)
(* stronger fact that energyFactor is exactly the code's value at         *)
(* ecoFrame, and shows once that the code's value is the curve's.         *)
(***************************************************************************)
EXTENDS ScheduleCurves, SequenceTheorems, WellFoundedInduction, TLAPS

\* The facts about the energy-factor configuration that the proofs use.
LEMMA EfFacts ==
  /\ IsRat(EfInfo.startFactor)
  /\ IsRat(EfInfo.endFactor)
  /\ EfInfo.startFrame \in Nat
  /\ EfInfo.endFrame \in Nat
  /\ EfInfo.startFrame < EfInfo.endFrame
<1>1. /\ EfConfig[1] \in (Int \X (Nat \ {0})) \X Nat
      /\ EfConfig[2] \in (Int \X (Nat \ {0})) \X Nat
  <2>1. EfConfig \in Seq((Int \X (Nat \ {0})) \X Nat) /\ Len(EfConfig) = 2
    BY CurveAssumptions
  <2>. QED  BY <2>1, ElementOfSeq
<1>2. /\ EfConfig[1][2] \in Nat /\ EfConfig[2][2] \in Nat
      /\ EfConfig[1][2] < EfConfig[2][2]
      /\ FramesPerSec \in Nat \ {0}
  BY <1>1, CurveAssumptions
<1>3. /\ EfInfo.startFactor = EfConfig[1][1]
      /\ EfInfo.endFactor = EfConfig[2][1]
      /\ EfInfo.startFrame = EfConfig[1][2] * FramesPerSec
      /\ EfInfo.endFrame = EfConfig[2][2] * FramesPerSec
  BY DEF EfInfo
<1>4. /\ EfConfig[1][2] * FramesPerSec \in Nat
      /\ EfConfig[2][2] * FramesPerSec \in Nat
      /\ EfConfig[1][2] * FramesPerSec < EfConfig[2][2] * FramesPerSec
  BY <1>2
<1>. QED  BY <1>1, <1>2, <1>3, <1>4 DEF IsRat

\* UpdateEconomy's energyFactor branch computes the curve of the spec: the
\* same clamps, and between them the same straight line, with the slope
\* that ReadConfig divides out in advance.
LEMMA EnergyFactorIsCurve ==
  ASSUME NEW f \in Int
  PROVE  EnergyFactorAt(f) = CurveRef(EfCurve, f)
<1>. DEFINE s == EfInfo.startFrame
            e == EfInfo.endFrame
            a == EfInfo.startFactor
            b == EfInfo.endFactor
<1>1. /\ Len(EfCurve) = 2
      /\ EfCurve[1] = [x |-> s, y |-> a]
      /\ EfCurve[2] = [x |-> e, y |-> b]
  BY DEF EfCurve
<1>2. CASE f <= s
  BY <1>1, <1>2 DEF EnergyFactorAt, CurveRef
<1>3. CASE ~(f <= s) /\ f >= e
  BY <1>1, <1>3 DEF EnergyFactorAt, CurveRef
<1>4. CASE ~(f <= s) /\ ~(f >= e)
  <2>1. s < f /\ f < e /\ s \in Nat /\ e \in Nat
    BY <1>4, EfFacts
  <2>2. (CHOOSE k \in 1 .. 2 - 1 : EfCurve[k].x <= f /\ f < EfCurve[k + 1].x) = 1
    BY <2>1, <1>1
  <2>3. CurveRef(EfCurve, f)
          = RAdd(a, RDiv(RMul(RSub(b, a), Rat(f - s)), Rat(e - s)))
    BY <1>1, <2>1, <2>2 DEF CurveRef
  <2>4. EnergyFactorAt(f) = RAdd(RMul(EfInfo.fraction, Rat(f - s)), a)
    BY <2>1 DEF EnergyFactorAt
  <2>5. EfInfo.fraction = RDiv(RSub(b, a), Rat(e - s))
    BY DEF EfInfo
  <2>6. IsRat(a) /\ IsRat(b)
    BY EfFacts
  <2>7. RAdd(RMul(RDiv(RSub(b, a), Rat(e - s)), Rat(f - s)), a)
          = RAdd(a, RDiv(RMul(RSub(b, a), Rat(f - s)), Rat(e - s)))
    BY <2>1, <2>6 DEF RAdd, RMul, RDiv, RSub, Rat, IsRat
  <2>. QED  BY <2>3, <2>4, <2>5, <2>7
<1>. QED  BY <1>2, <1>3, <1>4

-----------------------------------------------------------------------------
(***************************************************************************)
(* The ms_pull table.  Init may store an infinite slope (a quotient by     *)
(* zero) in one of the default entries; the lookup never reads it.        *)
(***************************************************************************)
\* What the lookup needs of an entry: a rational pull, a natural mex, and
\* slope zero wherever mex is positive (only default entries, of mex 0,
\* receive a computed slope).
MspEntryOK(r) ==
  /\ IsRat(r.pull)
  /\ r.mex \in Nat
  /\ r.mex > 0 => r.fraction = Zero

MspEntries == {r \in [pull : Int \X Int, mex : Int, fraction : Int \X Int] : MspEntryOK(r)}

\* A table of such entries, not empty.
TableOK(v) == \E n \in Nat \ {0} : v \in [1 .. n -> MspEntries]

\* The configured breakpoints, with their types.
LEMMA PullConfigFacts ==
  /\ Len(PullConfig) \in Nat \ {0}
  /\ \A i \in 1 .. Len(PullConfig) :
        /\ PullConfig[i][1] \in Int \X (Nat \ {0})
        /\ PullConfig[i][2] \in Nat \X (Nat \ {0})
  /\ SpotCount \in Nat
<1>1. PullConfig \in Seq((Int \X (Nat \ {0})) \X (Nat \X (Nat \ {0})))
  BY CurveAssumptions
<1>2. Len(PullConfig) \in Nat /\ Len(PullConfig) >= 1 /\ SpotCount \in Nat
  BY <1>1, LenProperties, CurveAssumptions
<1>3. ASSUME NEW i \in 1 .. Len(PullConfig)
      PROVE  PullConfig[i] \in (Int \X (Nat \ {0})) \X (Nat \X (Nat \ {0}))
  BY <1>1, ElementOfSeq
<1>. QED  BY <1>2, <1>3

\* A quotient of integer pairs is an integer pair, whatever the sign of
\* the divisor, zero included.
LEMMA RDivInt ==
  ASSUME NEW x \in Int \X Int, NEW y \in Int \X Int
  PROVE  RDiv(x, y) \in Int \X Int
<1>1. x[1] \in Int /\ x[2] \in Int /\ y[1] \in Int /\ y[2] \in Int
  OBVIOUS
<1>2. CASE y[1] >= 0
  BY <1>1, <1>2 DEF RDiv
<1>3. CASE ~(y[1] >= 0)
  BY <1>1, <1>3 DEF RDiv
<1>. QED  BY <1>2, <1>3

\* Every entry Init builds is one the lookup can use.
LEMMA MspBuiltOK ==
  /\ MspBuilt \in [1 .. 2 * Len(PullConfig) -> MspEntries]
  /\ 2 * Len(PullConfig) \in Nat \ {0}
<1>. DEFINE n == Len(PullConfig)
<1>1. n \in Nat \ {0}
  BY PullConfigFacts
<1>2. ASSUME NEW i \in 1 .. n
      PROVE  Breakpoint(i) \in MspEntries
  <2>1. PullConfig[i][1] \in Int \X (Nat \ {0}) /\ PullConfig[i][2] \in Nat \X (Nat \ {0})
    BY PullConfigFacts
  <2>2. RTrunc(RMul(PullConfig[i][2], Rat(SpotCount))) \in Nat
    <3>1. PullConfig[i][2][1] * SpotCount \in Nat /\ PullConfig[i][2][2] * 1 \in Nat \ {0}
      BY <2>1, PullConfigFacts
    <3>2. RMul(PullConfig[i][2], Rat(SpotCount))
            = <<PullConfig[i][2][1] * SpotCount, PullConfig[i][2][2] * 1>>
      BY DEF RMul, Rat
    <3>3. \A x \in Nat, y \in Nat \ {0} : x \div y \in Nat
      OBVIOUS
    <3>. QED  BY <3>1, <3>2, <3>3 DEF RTrunc
  <2>. QED  BY <2>1, <2>2 DEF Breakpoint, MspEntries, MspEntryOK, IsRat, Zero, Rat
<1>3. ASSUME NEW k \in 1 .. 2 * n
      PROVE  MspBuilt[k] \in MspEntries
  <2>1. CASE k <= n
    <3>1. CASE k < n
      <4>1. Breakpoint(k + 1) \in MspEntries
        BY <1>2, <3>1
      <4>a. Breakpoint(k + 1).pull \in Int \X Int /\ Breakpoint(k + 1).mex \in Int
        BY <4>1 DEF MspEntries
      <4>b. RSub(Breakpoint(k + 1).pull, [pull |-> Zero, mex |-> 0, fraction |-> Zero].pull)
              \in Int \X Int
        BY <4>a DEF RSub, Zero, Rat
      <4>c. Rat(Breakpoint(k + 1).mex - 0) \in Int \X Int
        BY <4>a DEF Rat
      <4>2. RDiv(RSub(Breakpoint(k + 1).pull, [pull |-> Zero, mex |-> 0, fraction |-> Zero].pull),
                 Rat(Breakpoint(k + 1).mex - 0)) \in Int \X Int
        BY <4>b, <4>c, RDivInt
      <4>. QED  BY <1>1, <2>1, <3>1, <4>2 DEF MspBuilt, MspEntries, MspEntryOK, IsRat, Zero, Rat
    <3>2. CASE k = n
      BY <1>1, <3>2 DEF MspBuilt, MspEntries, MspEntryOK, IsRat, Zero, Rat
    <3>. QED  BY <2>1, <3>1, <3>2, <1>1
  <2>2. CASE ~(k <= n)
    <3>1. Breakpoint(k - n) \in MspEntries
      BY <1>2, <2>2, <1>1
    <3>. QED  BY <1>1, <2>2, <3>1 DEF MspBuilt
  <2>. QED  BY <2>1, <2>2
<1>. QED  BY <1>1, <1>3 DEF MspBuilt

\* Sorting permutes the entries, so every sorted table is one of them.
LEMMA MspSortedOK ==
  ASSUME NEW v \in MspSorted
  PROVE  TableOK(v)
<1>. DEFINE b == MspBuilt
            n == 2 * Len(PullConfig)
<1>1. b \in [1 .. n -> MspEntries] /\ n \in Nat \ {0}
  BY MspBuiltOK
<1>2. Len(b) = n
  BY <1>1
<1>3. PICK p \in Reorderings(n) : v = [k \in 1 .. n |-> b[p[k]]]
  BY <1>2 DEF MspSorted
<1>4. p \in [1 .. n -> 1 .. n]
  BY DEF Reorderings
<1>. QED  BY <1>1, <1>3, <1>4 DEF TableOK

\* std::lower_bound over a table whose last mex reaches m finds an entry:
\* the least position whose mex is not below m (the least element of a
\* non-empty set of naturals, by well-foundedness).
LEMMA LowerBoundFound ==
  ASSUME NEW n \in Nat \ {0}, NEW v \in [1 .. n -> MspEntries], NEW m \in Int,
         Len(v) = n, v[n].mex >= m
  PROVE  /\ LowerBound(v, m) \in 1 .. n
         /\ v[LowerBound(v, m)].mex >= m
<1>. DEFINE K == {k \in 1 .. n : v[k].mex >= m}
            R == OpToRel(<, Nat)
<1>1. K \subseteq Nat /\ K # {}
  OBVIOUS
<1>2. PICK k0 \in K : \A y \in K : ~(<<y, k0>> \in R)
  BY <1>1, NatLessThanWellFounded, WFMin
<1>3. \A j \in 1 .. k0 - 1 : v[j].mex < m
  <2>. SUFFICES ASSUME NEW j \in 1 .. k0 - 1, ~(v[j].mex < m) PROVE FALSE
    OBVIOUS
  <2>a. k0 \in 1 .. n /\ j \in 1 .. n /\ j < k0
    OBVIOUS
  <2>b. v[j] \in MspEntries
    BY <2>a
  <2>c. v[j].mex \in Int
    BY <2>b DEF MspEntries
  <2>1. j \in K /\ j \in Nat /\ k0 \in Nat /\ j < k0
    BY <2>a, <2>c
  <2>2. <<j, k0>> \in R
    BY <2>1, Zenon DEF OpToRel
  <2>. QED  BY <2>1, <2>2, <1>2
<1>4. \E k \in 1 .. Len(v) : v[k].mex >= m /\ \A j \in 1 .. k - 1 : v[j].mex < m
  BY <1>3
<1>. QED  BY <1>4 DEF LowerBound

\* The pull UpdateEconomy reads from a usable table is a rational: the
\* clamps return a configured or default pull, and between them lower_bound
\* lands on an entry of positive mex, whose slope is zero.
LEMMA PullAtRat ==
  ASSUME NEW v, TableOK(v), NEW m \in Int
  PROVE  IsRat(PullAt(v, m))
<1>1. PICK n \in Nat \ {0} : v \in [1 .. n -> MspEntries]
  BY DEF TableOK
<1>2. Len(v) = n
  BY <1>1
<1>3. CASE m <= v[1].mex
  BY <1>1, <1>3 DEF PullAt, MspEntries, MspEntryOK
<1>4. CASE ~(m <= v[1].mex) /\ m >= v[Len(v)].mex
  BY <1>1, <1>2, <1>4 DEF PullAt, MspEntries, MspEntryOK
<1>5. CASE ~(m <= v[1].mex) /\ ~(m >= v[Len(v)].mex)
  <2>. DEFINE e == v[LowerBound(v, m)]
  <2>0. v[n].mex >= m
    BY <1>1, <1>2, <1>5 DEF MspEntries
  <2>1. LowerBound(v, m) \in 1 .. n /\ e.mex >= m
    BY <1>1, <1>2, <2>0, LowerBoundFound
  <2>2. e \in MspEntries /\ v[1] \in MspEntries
    BY <1>1, <2>1
  <2>a. v[1].mex \in Nat /\ e.mex \in Nat
    BY <2>2 DEF MspEntries, MspEntryOK
  <2>3. e.mex > 0
    BY <1>5, <2>1, <2>a
  <2>4. e.fraction = Zero /\ IsRat(e.pull) /\ e.mex \in Nat
    BY <2>2, <2>3 DEF MspEntries, MspEntryOK
  <2>5. PullAt(v, m) = RAdd(RMul(e.fraction, Rat(m - e.mex)), e.pull)
    BY <1>5 DEF PullAt
  <2>. QED  BY <2>4, <2>5 DEF RAdd, RMul, Rat, Zero, IsRat
<1>. QED  BY <1>3, <1>4, <1>5

-----------------------------------------------------------------------------
\* The inductive invariant: energyFactor is the code's value at the frame
\* of the last refresh (the start factor before the first one, ecoFrame
\* being -1), and the clock and ecoFrame are integers.
CurveInv ==
  /\ frame \in Nat
  /\ ecoFrame \in Int
  /\ energyFactor = EnergyFactorAt(ecoFrame)

LEMMA CurveInvInit == Init => CurveInv
<1>. SUFFICES ASSUME Init PROVE CurveInv
  OBVIOUS
<1>1. -1 <= EfInfo.startFrame
  BY EfFacts
<1>. QED  BY <1>1 DEF Init, CurveInv, EnergyFactorAt

LEMMA CurveInvStep == CurveInv /\ [Next]_vars => CurveInv'
<1>. SUFFICES ASSUME CurveInv, [Next]_vars PROVE CurveInv'
  OBVIOUS
<1>1. CASE UpdateEconomy
  BY <1>1 DEF UpdateEconomy, CurveInv
<1>2. CASE Tick
  BY <1>2 DEF Tick, CurveInv
<1>3. CASE SetOpenSpot
  BY <1>3 DEF SetOpenSpot, CurveInv
<1>4. CASE UNCHANGED vars
  BY <1>4 DEF vars, CurveInv
<1>. QED  BY <1>1, <1>2, <1>3, <1>4 DEF Next

\* For every configuration of economy.energy.factor, energyFactor, as
\* ReadConfig sets it and UpdateEconomy recomputes it, is the energy-factor
\* curve at the frame of the last refresh.
THEOREM EnergyFactorOnCurveHolds == Spec => []EnergyFactorOnCurve
<1>1. CurveInv => EnergyFactorOnCurve
  BY EnergyFactorIsCurve DEF CurveInv, EnergyFactorOnCurve, REq
<1>. QED  BY <1>1, CurveInvInit, CurveInvStep, PTL DEF Spec
-----------------------------------------------------------------------------
(* Type correctness: no infinity reaches energyFactor or pullMtoS.          *)

\* The product of two rationals with positive denominators is one.
LEMMA RatMul ==
  ASSUME NEW a, NEW b, IsRat(a), IsRat(b)
  PROVE  IsRat(RMul(a, b))
<1>1. a[2] * b[2] \in Nat \ {0}
  BY DEF IsRat
<1>. QED  BY <1>1 DEF IsRat, RMul

\* The energy factor at any frame is a rational: the slope ReadConfig
\* stores divides by endFrame - startFrame, which is positive.
LEMMA EnergyFactorRat ==
  ASSUME NEW f \in Int
  PROVE  IsRat(EnergyFactorAt(f))
<1>. DEFINE s == EfInfo.startFrame
            e == EfInfo.endFrame
            a == EfInfo.startFactor
            b == EfInfo.endFactor
<1>1. IsRat(a) /\ IsRat(b) /\ s \in Nat /\ e \in Nat /\ s < e
  BY EfFacts
<1>2. IsRat(EfInfo.fraction)
  <2>1. EfInfo.fraction = RDiv(RSub(b, a), Rat(e - s))
    BY DEF EfInfo
  <2>2. IsRat(RSub(b, a))
    <3>1. a[2] * b[2] \in Nat \ {0}
      BY <1>1 DEF IsRat
    <3>. QED  BY <1>1, <3>1 DEF IsRat, RSub
  <2>3. RDiv(RSub(b, a), Rat(e - s)) = <<RSub(b, a)[1] * 1, RSub(b, a)[2] * (e - s)>>
    BY <1>1 DEF RDiv, Rat
  <2>4. RSub(b, a)[2] * (e - s) \in Nat \ {0}
    BY <1>1, <2>2 DEF IsRat
  <2>. QED  BY <2>1, <2>2, <2>3, <2>4 DEF IsRat
<1>3. CASE ~(f <= s) /\ ~(f >= e)
  <2>0. IsRat(Rat(f - s))
    BY <1>1 DEF IsRat, Rat
  <2>1. IsRat(RMul(EfInfo.fraction, Rat(f - s)))
    BY <1>2, <2>0, RatMul
  <2>2. RMul(EfInfo.fraction, Rat(f - s))[2] * a[2] \in Nat \ {0}
    BY <1>1, <2>1 DEF IsRat
  <2>. QED  BY <1>1, <1>3, <2>1, <2>2 DEF EnergyFactorAt, RAdd, IsRat
<1>. QED  BY <1>1, <1>3 DEF EnergyFactorAt

\* The inductive invariant: the types, and energyFactor on the code's curve.
TypeInv == TypeOK /\ CurveInv

LEMMA TypeInvInit == Init => TypeInv
<1>. SUFFICES ASSUME Init PROVE TypeInv
  OBVIOUS
<1>1. TableOK(mspInfos)
  BY MspSortedOK DEF Init
<1>2. IsRat(pullMtoS)
  BY <1>1 DEF Init, TableOK, MspEntries, MspEntryOK
<1>3. IsRat(energyFactor)
  BY EfFacts DEF Init
<1>4. MaxFrame \in Nat /\ SpotCount \in Nat
  BY CurveAssumptions
<1>. QED  BY <1>2, <1>3, <1>4, CurveInvInit DEF Init, TypeOK, TypeInv, IsRat, Rat

LEMMA TypeInvStep == TypeInv /\ [Next]_vars => TypeInv'
<1>. SUFFICES ASSUME TypeInv, [Next]_vars PROVE TypeInv'
  OBVIOUS
<1>0. CurveInv'
  BY CurveInvStep DEF TypeInv
<1>1. CASE UpdateEconomy
  <2>1. PICK ratio \in CostRatios :
          pullMtoS' = RMul(PullAt(mspInfos, mexCount), ratio) /\ costRatio' = ratio
    BY <1>1 DEF UpdateEconomy
  <2>2. IsRat(ratio)
    BY CurveAssumptions DEF IsRat
  <2>3. IsRat(PullAt(mspInfos, mexCount))
    BY MspSortedOK, PullAtRat DEF TypeInv, TypeOK
  <2>4. IsRat(pullMtoS')
    BY <2>1, <2>2, <2>3, RatMul
  <2>5. IsRat(energyFactor')
    BY <1>1, EnergyFactorRat DEF UpdateEconomy, TypeInv, TypeOK
  <2>. QED  BY <1>0, <1>1, <2>1, <2>4, <2>5 DEF UpdateEconomy, TypeInv, TypeOK
<1>2. CASE Tick
  <2>1. UNCHANGED <<ecoFrame, mspInfos, energyFactor, pullMtoS, pullCount, costRatio>>
    BY <1>2 DEF Tick
  <2>2. frame' \in 0 .. MaxFrame /\ mexCount' \in 0 .. SpotCount
    BY <1>2, CurveAssumptions DEF Tick, TypeInv, TypeOK
  <2>. QED  BY <1>0, <2>1, <2>2 DEF TypeInv, TypeOK
<1>3. CASE SetOpenSpot
  <2>1. UNCHANGED <<ecoFrame, mspInfos, energyFactor, pullMtoS, pullCount, costRatio>>
    BY <1>3 DEF SetOpenSpot
  <2>2. frame' \in 0 .. MaxFrame /\ mexCount' \in 0 .. SpotCount
    BY <1>3, CurveAssumptions DEF SetOpenSpot, TypeInv, TypeOK
  <2>. QED  BY <1>0, <2>1, <2>2 DEF TypeInv, TypeOK
<1>4. CASE UNCHANGED vars
  BY <1>0, <1>4 DEF vars, TypeInv, TypeOK
<1>. QED  BY <1>1, <1>2, <1>3, <1>4 DEF Next

\* For every configuration CurveAssumptions admits, the curves hold
\* rationals in every reachable state: in particular the infinite slope
\* Init may write into a default ms_pull entry (a breakpoint whose mex is
\* 0) never reaches pullMtoS, because lower_bound only returns entries of
\* positive mex, and those keep slope zero.
THEOREM TypeCorrect == Spec => []TypeOK
<1>1. TypeInv => TypeOK
  BY DEF TypeInv
<1>. QED  BY <1>1, TypeInvInit, TypeInvStep, PTL DEF Spec
=============================================================================
