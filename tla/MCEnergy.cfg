\* Energy and geothermal stages with two energy types and one geothermal
\* spot: the geothermal spot claim.
CONSTANTS
  s1 = s1  s2 = s2  c1 = c1  g1 = g1  e1 = e1  e2 = e2  f1 = f1  f2 = f2
  Spots <- OneSpot
  Clusters <- OneCluster
  GeoSpots <- OneGeoSpot
  Features <- NoFeatures
  EnergyOrder <- TwoEnergies
  EnergyLimit <- TwoEnergyLimit
  MexTiers <- OneTier
  NumMexUp = 1
  FramesPerSec = 1
  SlowUpdateRate = 1
  MaxFrame = 2
  MaxWorkers = 1
  MaxTasks = 2
  MaxCount = 1
INIT Init
NEXT Next
INVARIANTS
  GeoClaimSound
