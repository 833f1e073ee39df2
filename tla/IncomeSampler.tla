---------------------------- MODULE IncomeSampler ----------------------------
(***************************************************************************)
(* The income ring buffers of CEconomyManager (module/EconomyManager.cpp): *)
(* metalIncomes and energyIncomes of INCOME_SAMPLES slots, seeded by the   *)
(* constructor, written at indexRes by UpdateResourceIncome, which then    *)
(* recomputes the averages metal.income and energy.income, and raised     *)
(* slot by slot by the finished handlers of extractors, energy plants and *)
(* geothermal plants, which also raise the cached average.                *)
(*                                                                         *)
(* Floats are exact here: an average is kept as IncomeSamples times its   *)
(* value (incomeN), so that the division by INCOME_SAMPLES is exact.       *)
(***************************************************************************)
EXTENDS Integers, Functions

CONSTANTS
  IncomeSamples,  \* INCOME_SAMPLES
  SampleValues,   \* what economy->GetIncome (plus overdrive terms) returns
  MakeValues,     \* SEnergyExt::make, SGeoExt::make, CMetalSpot::income
  MaxBuilt        \* bound on the finished income buildings

ASSUME SamplerAssumptions ==
  /\ IncomeSamples \in Nat \ {0}
  /\ SampleValues \subseteq Int
  /\ MakeValues \subseteq Int
  /\ MaxBuilt \in Nat

Resources == {"metal", "energy"}
Slots == 0 .. IncomeSamples - 1

\* metalIncomes.resize(INCOME_SAMPLES, 1.0f), energyIncomes (..., 2.0f)
Seed == [r \in Resources |-> IF r = "metal" THEN 1 ELSE 2]

VARIABLES
  incomes,   \* incomes[r][i]: metalIncomes[i] / energyIncomes[i]
  indexRes,  \* the slot UpdateResourceIncome writes next
  incomeN,   \* IncomeSamples * metal.income / energy.income
  sampled,   \* history: UpdateResourceIncome has run at least once
  built      \* finished income buildings so far (bounded by MaxBuilt)

vars == <<incomes, indexRes, incomeN, sampled, built>>

\* The sum of the slots, the loop of UpdateResourceIncome.
SlotSum(b) == SumFunction(b)

TypeOK ==
  /\ incomes \in [Resources -> [Slots -> Int]]
  /\ indexRes \in Slots
  /\ incomeN \in [Resources -> Int]
  /\ sampled \in BOOLEAN
  /\ built \in 0 .. MaxBuilt

\* The constructor: indexRes(0), metal/energy SResourceInfo {-1, 0, ...},
\* and the slots seeded with the default income.
Init ==
  /\ incomes = [r \in Resources |-> [i \in Slots |-> Seed[r]]]
  /\ indexRes = 0
  /\ incomeN = [r \in Resources |-> 0]
  /\ sampled = FALSE
  /\ built = 0

\* Bug variants of UpdateResourceIncome (mutants): the index advanced
\* before the write (indexRes++ first), and the index not wrapped.
UpdateResourceIncomeAdvanceFirst ==
  \E m, e \in SampleValues :
    LET i == (indexRes + 1) % IncomeSamples
        b == [incomes EXCEPT !["metal"][i] = m, !["energy"][i] = e]
    IN /\ incomes' = b
       /\ indexRes' = i
       /\ incomeN' = [r \in Resources |-> SlotSum(b[r])]
       /\ sampled' = TRUE
       /\ UNCHANGED built

UpdateResourceIncomeNoWrap ==
  \E m, e \in SampleValues :
    LET b == [incomes EXCEPT !["metal"][indexRes] = m,
                             !["energy"][indexRes] = e]
    IN /\ incomes' = b
       /\ indexRes' = indexRes + 1
       /\ incomeN' = [r \in Resources |-> SlotSum(b[r])]
       /\ sampled' = TRUE
       /\ UNCHANGED built

\* UpdateResourceIncome: both samples go to slot indexRes, the index
\* advances modulo INCOME_SAMPLES, and both averages are recomputed from
\* all slots.
UpdateResourceIncome ==
  \E m, e \in SampleValues :
    LET b == [incomes EXCEPT !["metal"][indexRes] = m,
                             !["energy"][indexRes] = e]
    IN /\ incomes' = b
       /\ indexRes' = (indexRes + 1) % IncomeSamples
       /\ incomeN' = [r \in Resources |-> SlotSum(b[r])]
       /\ sampled' = TRUE
       /\ UNCHANGED built

\* Bug variant of a finished handler (mutant): the slots are raised but
\* the cached average is left for the next UpdateResourceIncome.
AddIncomeSlotsOnly(r, inc) ==
  /\ built < MaxBuilt
  /\ incomes' = [incomes EXCEPT ![r] = [i \in Slots |-> @[i] + inc]]
  /\ built' = built + 1
  /\ UNCHANGED <<indexRes, sampled, incomeN>>

\* A finished handler with income inc for resource r: every slot and the
\* cached average go up by inc.  The handlers return early, changing
\* nothing, when the unit type has no income record (GetAvailInfo is
\* nullptr) or no spot is near (FindNearestSpot < 0).
AddIncome(r, inc) ==
  /\ built < MaxBuilt
  /\ incomes' = [incomes EXCEPT ![r] = [i \in Slots |-> @[i] + inc]]
  /\ incomeN' = [incomeN EXCEPT ![r] = @ + inc * IncomeSamples]
  /\ built' = built + 1
  /\ UNCHANGED <<indexRes, sampled>>

\* mexFinishedHandler: the income of the nearest metal spot.
MexFinished == \E inc \in MakeValues : AddIncome("metal", inc)

\* energyFinishedHandler: SEnergyExt::make of the plant's type.
EnergyFinished == \E inc \in MakeValues : AddIncome("energy", inc)

\* geoFinishedHandler: SGeoExt::make of the plant's type.
GeoFinished == \E inc \in MakeValues : AddIncome("energy", inc)

Next ==
  \/ UpdateResourceIncome
  \/ MexFinished
  \/ EnergyFinished
  \/ GeoFinished

Spec == Init /\ [][Next]_vars

-----------------------------------------------------------------------------
(***************************************************************************)
(* Properties.                                                             *)
(***************************************************************************)

\* The window a reader sees: the slots read from indexRes on, oldest first.
Window(r) == [j \in 1 .. IncomeSamples |-> incomes[r][(indexRes + j - 1) % IncomeSamples]]

\* The ring buffer implements the sampler's contract: read from indexRes,
\* the slots are the last IncomeSamples samples in arrival order, each
\* raised by the buildings finished since, so UpdateResourceIncome always
\* overwrites the oldest sample.
Abstract == INSTANCE IncomeWindow WITH window <- [r \in Resources |-> Window(r)]
WindowRefinement == Abstract!Spec

\* Once UpdateResourceIncome has run, the average a planner reads is the
\* mean of the slots, however the finished handlers' increments of the
\* cached average and of the slots interleave with the samples.
IncomeIsWindowMean ==
  sampled => \A r \in Resources : incomeN[r] = SlotSum(incomes[r])
=============================================================================
