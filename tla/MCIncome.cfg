\* Income ring buffers: three slots, two sample values, two finished buildings.
CONSTANTS
  IncomeSamples <- ThreeSamples
  SampleValues <- TwoSampleValues
  MakeValues <- TwoMakeValues
  MaxBuilt = 2
INIT Init
NEXT Next
INVARIANTS
  TypeOK
  IncomeIsWindowMean
PROPERTIES
  WindowRefinement
