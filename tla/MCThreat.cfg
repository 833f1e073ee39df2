\* Threat map: two enemies on a strip of two cells.
CONSTANTS
  a1 = a1  a2 = a2
  Width = 2
  Height = 1
  Enemies <- TwoEnemies
  EnemyOrder <- IdOrder
  DefDps <- Dps
  UnknownDps = 1
  DpsCap = 2
  Healths <- TwoHealths
  LosRange <- Ranges
  RadarRange = 0
  LongRange = 1
SPECIFICATION Spec
INVARIANTS
  TypeOK
  ThreatAccounting
  SumAccounting
