------------------------- MODULE IncomeSamplerProofs -------------------------
(***************************************************************************)
(* Proofs about IncomeSampler for every INCOME_SAMPLES and every set of   *)
(* sample and building incomes: the buffers keep their types, and the     *)
(* ring buffer with its write index implements the window of IncomeWindow *)
(* under the mapping Window(r), which reads the slots from indexRes on.   *)
(***************************************************************************)
EXTENDS IncomeSampler, SequenceTheorems, TLAPS

LEMMA ConstantFacts ==
  /\ IncomeSamples \in Nat \ {0}
  /\ SampleValues \subseteq Int
  /\ MakeValues \subseteq Int
  /\ MaxBuilt \in Nat
BY SamplerAssumptions

USE ConstantFacts

(***************************************************************************)
(* Index arithmetic of the ring: position j of the window read from i.    *)
(***************************************************************************)
LEMMA RingIndex ==
  ASSUME NEW i \in Slots, NEW j \in 1 .. IncomeSamples
  PROVE  /\ (i + j - 1) % IncomeSamples \in Slots
         /\ (((i + 1) % IncomeSamples) + j - 1) % IncomeSamples
              = (i + j) % IncomeSamples
         /\ (i + j) % IncomeSamples = i <=> j = IncomeSamples
BY DEF Slots

\* Dropping the oldest sample and appending x, pointwise.
LEMMA ShiftWindow ==
  ASSUME NEW w \in [1 .. IncomeSamples -> Int], NEW x \in Int
  PROVE  Append(Tail(w), x)
           = [j \in 1 .. IncomeSamples |->
                IF j < IncomeSamples THEN w[j + 1] ELSE x]
<1>1. w \in Seq(Int) /\ Len(w) = IncomeSamples /\ w # << >>
  OBVIOUS
<1>2. /\ Tail(w) \in Seq(Int)
      /\ Len(Tail(w)) = IncomeSamples - 1
      /\ \A k \in 1 .. IncomeSamples - 1 : Tail(w)[k] = w[k + 1]
  BY <1>1, HeadTailProperties
<1>3. /\ Append(Tail(w), x) \in Seq(Int)
      /\ Len(Append(Tail(w), x)) = IncomeSamples
      /\ \A k \in 1 .. IncomeSamples - 1 : Append(Tail(w), x)[k] = Tail(w)[k]
      /\ Append(Tail(w), x)[IncomeSamples] = x
  BY <1>2, AppendProperties
<1> DEFINE t == [j \in 1 .. IncomeSamples |->
                   IF j < IncomeSamples THEN w[j + 1] ELSE x]
<1>4. t \in Seq(Int) /\ Len(t) = IncomeSamples
  <2>1. t \in [1 .. IncomeSamples -> Int]
    OBVIOUS
  <2>. QED
    BY <2>1, LenProperties
<1>5. \A k \in 1 .. IncomeSamples : Append(Tail(w), x)[k] = t[k]
  BY <1>2, <1>3
<1>. QED
  BY <1>3, <1>4, <1>5, SeqEqual

-----------------------------------------------------------------------------
(***************************************************************************)
(* The ring's shape is invariant: every slot holds an integer and the     *)
(* write index is a slot.  (The averages are sums computed by a fold and  *)
(* are left to TLC.)                                                       *)
(***************************************************************************)
RingInv ==
  /\ incomes \in [Resources -> [Slots -> Int]]
  /\ indexRes \in Slots

LEMMA RingInvInit == Init => RingInv
BY DEF Init, RingInv, Slots, Seed, Resources

LEMMA RingInvStep == RingInv /\ [Next]_vars => RingInv'
<1> SUFFICES ASSUME RingInv, [Next]_vars PROVE RingInv'
  OBVIOUS
<1>1. CASE UpdateResourceIncome
  <2>1. PICK m, e \in SampleValues :
          /\ incomes' = [incomes EXCEPT !["metal"][indexRes] = m,
                                        !["energy"][indexRes] = e]
          /\ indexRes' = (indexRes + 1) % IncomeSamples
    BY <1>1 DEF UpdateResourceIncome
  <2>2. incomes' \in [Resources -> [Slots -> Int]]
    BY <2>1 DEF RingInv, Resources
  <2>3. indexRes' \in Slots
    BY <2>1 DEF RingInv, Slots
  <2>. QED
    BY <2>2, <2>3 DEF RingInv
<1>2. ASSUME NEW r \in Resources, NEW inc \in MakeValues, AddIncome(r, inc)
      PROVE RingInv'
  BY <1>2 DEF AddIncome, RingInv
<1>3. CASE UNCHANGED vars
  BY <1>3 DEF vars, RingInv
<1>. QED
  BY <1>1, <1>2, <1>3 DEF Next, MexFinished, EnergyFinished, GeoFinished,
     Resources

-----------------------------------------------------------------------------
(***************************************************************************)
(* The refinement.  A sample maps to Record: position j < IncomeSamples   *)
(* of the new window reads slot (i + j) % IncomeSamples, which the write  *)
(* left alone and which was position j + 1 of the old window; position    *)
(* IncomeSamples reads slot i, the one just written.  A finished handler  *)
(* maps to Boost, since it raises every slot.                              *)
(***************************************************************************)
AbsWindow == [r \in Resources |-> Window(r)]

LEMMA WindowType ==
  ASSUME RingInv, NEW r \in Resources
  PROVE  Window(r) \in [1 .. IncomeSamples -> Int]
<1>1. \A j \in 1 .. IncomeSamples : (indexRes + j - 1) % IncomeSamples \in Slots
  BY RingIndex DEF RingInv
<1>2. incomes[r] \in [Slots -> Int]
  BY DEF RingInv
<1>. QED
  BY <1>1, <1>2, Zenon DEF Window

LEMMA RefineInit == Init => Abstract!Init
<1> SUFFICES ASSUME Init PROVE Abstract!Init
  OBVIOUS
<1>1. indexRes = 0 /\ incomes = [r \in Resources |-> [i \in Slots |-> Seed[r]]]
  BY DEF Init
<1>2. \A r \in Resources : Window(r) = [j \in 1 .. IncomeSamples |-> Seed[r]]
  BY <1>1, RingIndex DEF Window, Slots
<1>. QED
  BY <1>2 DEF Abstract!Init, Seed, Abstract!Seed, Resources, Abstract!Resources

LEMMA RefineSample ==
  ASSUME RingInv, UpdateResourceIncome
  PROVE  Abstract!Record
<1>1. PICK m, e \in SampleValues :
        /\ incomes' = [incomes EXCEPT !["metal"][indexRes] = m,
                                      !["energy"][indexRes] = e]
        /\ indexRes' = (indexRes + 1) % IncomeSamples
  BY DEF UpdateResourceIncome
<1>2. ASSUME NEW r \in Resources
      PROVE  Window(r)' = Append(Tail(Window(r)),
                                 IF r = "metal" THEN m ELSE e)
  <2> DEFINE x == IF r = "metal" THEN m ELSE e
  <2>1. incomes'[r] = [incomes[r] EXCEPT ![indexRes] = x]
    BY <1>1 DEF RingInv, Resources
  <2>2. ASSUME NEW j \in 1 .. IncomeSamples
        PROVE  Window(r)'[j] = IF j < IncomeSamples THEN Window(r)[j + 1] ELSE x
    <3>1. Window(r)'[j] = incomes'[r][(indexRes + j) % IncomeSamples]
      BY <1>1, RingIndex DEF Window, RingInv
    <3>2. (indexRes + j) % IncomeSamples \in Slots
      BY RingIndex DEF RingInv, Slots
    <3>3. CASE j < IncomeSamples
      <4>1. (indexRes + j) % IncomeSamples # indexRes
        BY <3>3, RingIndex DEF RingInv
      <4>2. Window(r)[j + 1] = incomes[r][(indexRes + j) % IncomeSamples]
        BY <3>3 DEF Window
      <4>. QED
        BY <2>1, <3>1, <3>2, <3>3, <4>1, <4>2 DEF RingInv
    <3>4. CASE j = IncomeSamples
      <4>1. (indexRes + j) % IncomeSamples = indexRes
        BY <3>4, RingIndex DEF RingInv
      <4>. QED
        BY <2>1, <3>1, <3>4, <4>1 DEF RingInv, Slots
    <3>. QED
      BY <3>3, <3>4
  <2>3. Window(r)' = [j \in 1 .. IncomeSamples |->
                        IF j < IncomeSamples THEN Window(r)[j + 1] ELSE x]
    BY <2>2 DEF Window
  <2>. QED
    BY <2>3, WindowType, ShiftWindow
<1>. QED
  BY <1>2 DEF Abstract!Record, Resources

LEMMA RefineAddIncome ==
  ASSUME RingInv, NEW r \in Resources, NEW inc \in MakeValues, AddIncome(r, inc)
  PROVE  Abstract!Boost(r)
<1>1. incomes' = [incomes EXCEPT ![r] = [i \in Slots |-> @[i] + inc]]
      /\ indexRes' = indexRes
  BY DEF AddIncome
<1>2. Window(r)' = [j \in 1 .. IncomeSamples |-> Window(r)[j] + inc]
  BY <1>1, RingIndex DEF Window, RingInv
<1>3. \A q \in Resources \ {r} : Window(q)' = Window(q)
  BY <1>1 DEF Window, RingInv
<1>4. AbsWindow' = [AbsWindow EXCEPT ![r] = [j \in 1 .. IncomeSamples |-> @[j] + inc]]
  BY <1>2, <1>3 DEF AbsWindow
<1>. QED
  BY <1>4 DEF Abstract!Boost, AbsWindow

LEMMA RefineStep ==
  RingInv /\ [Next]_vars => [Abstract!Next]_AbsWindow
<1> SUFFICES ASSUME RingInv, [Next]_vars PROVE [Abstract!Next]_AbsWindow
  OBVIOUS
<1>1. CASE UpdateResourceIncome
  BY <1>1, RefineSample DEF Abstract!Next
<1>2. ASSUME NEW r \in Resources, NEW inc \in MakeValues, AddIncome(r, inc)
      PROVE  [Abstract!Next]_AbsWindow
  <2>1. r \in Abstract!Resources
    BY DEF Resources, Abstract!Resources
  <2>. QED
    BY <1>2, <2>1, RefineAddIncome DEF Abstract!Next
<1>3. CASE UNCHANGED vars
  BY <1>3 DEF vars, AbsWindow, Window
<1>. QED
  BY <1>1, <1>2, <1>3 DEF Next, MexFinished, EnergyFinished, GeoFinished,
     Resources

\* UpdateResourceIncome with its modulo index, interleaved with the finished
\* handlers, implements the sampler's window: every sample drops the oldest
\* one, for every INCOME_SAMPLES (property WindowRefinement).
THEOREM WindowRefined == Spec => WindowRefinement
<1>1. Spec => []RingInv
  BY RingInvInit, RingInvStep, PTL DEF Spec
<1>2. Spec => Abstract!Init
  BY RefineInit DEF Spec
<1>. QED
  BY <1>1, <1>2, RefineStep, PTL DEF Spec, WindowRefinement, Abstract!Spec,
     AbsWindow
=============================================================================
