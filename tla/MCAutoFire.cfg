SPECIFICATION TimedSpec
CONSTANTS
  MaxGunAmmo = 2
  MaxSniperAmmo = 2
  ShotBound = 0
  FireInterval = 3
  BulletLife = 7
  MaxDelta = 2
INVARIANTS
  FlightBound
  ViewConsistent
PROPERTIES
  RateOfFire
  ReloadFillsItsOwn
