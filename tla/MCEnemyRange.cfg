SPECIFICATION Spec
CONSTANTS
  Enemy = {e1}
  MaxHP = 2
  PlayerMaxHP = 2
  NumWayPoints = 1
  AttackDelay = 3
  DamageTime = 1
  DieTime = 1
  Deltas = {1, 2}
  AttackRange <- MCAttackRange
  DetectDistance <- MCDetectDistance
  AbandonDistance <- MCAbandonDistance
  Distances <- MCDistances
INVARIANT AttacksInRange
CHECK_DEADLOCK FALSE
