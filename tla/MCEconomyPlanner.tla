-------------------------- MODULE MCEconomyPlanner --------------------------
(***************************************************************************)
(* Instances of EconomyPlanner for TLC.  Each cfg picks the sets below:    *)
(* the metal instance has two spots and two extractor levels so that new   *)
(* extractors and upgrades race on the same spot; the energy instance has  *)
(* two energy types of one building each and a geothermal spot; the       *)
(* salvage instance has two features and two builders.                    *)
(***************************************************************************)
EXTENDS EconomyPlanner

CONSTANTS s1, s2, c1, g1, e1, e2, f1, f2

OneSpot == {s1}
TwoSpots == {s1, s2}
OneCluster == {c1}
NoGeoSpots == {}
OneGeoSpot == {g1}
NoFeatures == {}
TwoFeatures == {f1, f2}
OneEnergy == <<e1>>
TwoEnergies == <<e1, e2>>
OneEnergyLimit == [d \in {e1} |-> 1]
TwoEnergyLimit == [d \in {e1, e2} |-> 1]
TwoTiers == {1, 2}
OneTier == {1}
=============================================================================
