--------------------------- MODULE MCIncomeSampler ---------------------------
(***************************************************************************)
(* An instance of IncomeSampler for TLC: three slots, so that the index    *)
(* wraps after three samples and a fourth overwrites the first; two sample *)
(* values, so that slots differ and an out-of-order write shows; and two   *)
(* finished buildings of different incomes, before and after the first    *)
(* sample.                                                                 *)
(***************************************************************************)
EXTENDS IncomeSampler

ThreeSamples == 3
TwoSampleValues == {0, 3}
TwoMakeValues == {1, 2}
=============================================================================
