-------------------------- MODULE MCScheduleCurves --------------------------
(***************************************************************************)
(* An instance of ScheduleCurves for TLC.  The breakpoints are the         *)
(* defaults of the code and of the spec's scenarios, scaled down: the     *)
(* energy factor goes from 1/2 at second 1 to 2 at second 3 with two     *)
(* frames a second, so that the clock passes the start, the middle and   *)
(* the end of the curve; ms_pull goes from pull 1 at no spot to pull 1/4  *)
(* at 3/4 of four spots, so that the extractor count takes a value below, *)
(* inside and above the curve.  ZeroMexPull adds a breakpoint at no spot, *)
(* the configuration in which Init divides by zero.                        *)
(***************************************************************************)
EXTENDS ScheduleCurves

FourSpots == 4
DefaultPull == << << <<1, 1>>, <<0, 1>> >>, << <<1, 4>>, <<3, 4>> >> >>
DefaultFactor == << << <<1, 2>>, 1 >>, << <<2, 1>>, 3 >> >>
\* ms_pull with a second breakpoint at no spot: Init then divides by a mex
\* difference of 0 and stores an infinite slope in a default entry.
ZeroMexPull ==
  << << <<1, 1>>, <<0, 1>> >>, << <<1, 2>>, <<0, 1>> >>, << <<1, 4>>, <<3, 4>> >> >>
TwoCostRatios == { <<1, 1>>, <<1, 2>> }
=============================================================================
