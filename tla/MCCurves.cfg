\* Energy factor over a clock that passes both breakpoints, and the types
\* of the curves when Init stores an infinite slope (a breakpoint at mex 0):
\* no infinity may reach pullMtoS.
CONSTANTS
  SpotCount <- FourSpots
  PullConfig <- ZeroMexPull
  EfConfig <- DefaultFactor
  CostRatios <- TwoCostRatios
  FramesPerSec = 2
  SlowUpdateRate = 1
  MaxFrame = 8
INIT Init
NEXT Next
INVARIANTS
  TypeOK
  EnergyFactorOnCurve
