\* Extractor and upgrade stages on two spots: claims, upgrade flags, the
\* stalling short-circuit and the UpdateEconomy memo.
CONSTANTS
  s1 = s1  s2 = s2  c1 = c1  g1 = g1  e1 = e1  e2 = e2  f1 = f1  f2 = f2
  Spots <- TwoSpots
  Clusters <- OneCluster
  GeoSpots <- NoGeoSpots
  Features <- NoFeatures
  EnergyOrder <- OneEnergy
  EnergyLimit <- OneEnergyLimit
  MexTiers <- TwoTiers
  NumMexUp = 2
  FramesPerSec = 1
  SlowUpdateRate = 1
  MaxFrame = 3
  MaxWorkers = 1
  MaxTasks = 2
  MaxCount = 1
INIT Init
NEXT Next
INVARIANTS
  TypeOK
  UpgradeFlagTracksTasks
  SpotClaimExclusive
