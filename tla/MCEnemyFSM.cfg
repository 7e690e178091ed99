SPECIFICATION Spec
CONSTANTS
  Enemy = {e1, e2}
  MaxHP = 2
  PlayerMaxHP = 2
  NumWayPoints = 1
  AttackDelay = 2
  DamageTime = 1
  DieTime = 1
  Deltas = {1, 2}
  AttackRange <- MCAttackRange
  DetectDistance <- MCDetectDistance
  AbandonDistance <- MCAbandonDistance
  Distances <- MCDistances
INVARIANTS
  PaidOnce
PROPERTIES
  LifeSpec
  AttackCadence
  DeadVanish
  AttackLands
CHECK_DEADLOCK FALSE
