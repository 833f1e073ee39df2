---------------------------- MODULE IncomeWindow ----------------------------
(***************************************************************************)
(* What the income sampler of CEconomyManager promises its readers (spec   *)
(* section 4.1, "Resource Sampler"): per resource a window of the last     *)
(* IncomeSamples samples, oldest first.  Recording a sample drops the      *)
(* oldest one and appends the new one; a finished income building raises   *)
(* every sample of the window by its income, so that the average jumps at  *)
(* once instead of creeping in over the next IncomeSamples samples.        *)
(* Both resources are sampled in the same step, as UpdateResourceIncome    *)
(* does.                                                                   *)
(***************************************************************************)
EXTENDS Integers, Sequences

CONSTANTS
  IncomeSamples,  \* INCOME_SAMPLES
  SampleValues,   \* the incomes the engine can report in one sample
  MakeValues      \* the incomes of the buildings whose finish is counted

Resources == {"metal", "energy"}

\* The value the window starts filled with (1 for metal, 2 for energy).
Seed == [r \in Resources |-> IF r = "metal" THEN 1 ELSE 2]

VARIABLE window

Init == window = [r \in Resources |-> [j \in 1..IncomeSamples |-> Seed[r]]]

\* One sample of each resource: the oldest is dropped, the new one appended.
Record ==
  \E m, e \in SampleValues :
    window' = [window EXCEPT !["metal"] = Append(Tail(@), m),
                             !["energy"] = Append(Tail(@), e)]

\* A finished building of resource r adds its income to the whole window.
Boost(r) ==
  \E inc \in MakeValues :
    window' = [window EXCEPT ![r] = [j \in 1..IncomeSamples |-> @[j] + inc]]

Next == Record \/ \E r \in Resources : Boost(r)

Spec == Init /\ [][Next]_window
=============================================================================
