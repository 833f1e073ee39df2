\* The ms_pull curve against its piecewise-linear definition (expected violated).
CONSTANTS
  SpotCount <- FourSpots
  PullConfig <- DefaultPull
  EfConfig <- DefaultFactor
  CostRatios <- TwoCostRatios
  FramesPerSec = 2
  SlowUpdateRate = 1
  MaxFrame = 8
INIT Init
NEXT Next
INVARIANTS
  PullOnCurve
