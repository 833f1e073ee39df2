\* Threat map liveness: one armed enemy that can die out of sight.
CONSTANTS
  a1 = a1  a2 = a2
  Width = 2
  Height = 1
  Enemies <- OneEnemy
  EnemyOrder <- OneOrder
  DefDps <- Dps
  UnknownDps = 1
  DpsCap = 2
  Healths <- TwoHealths
  LosRange <- Ranges
  RadarRange = 0
  LongRange = 1
SPECIFICATION Spec
PROPERTIES
  PhantomCleared
