SPECIFICATION Spec
CONSTANTS
  MaxGunAmmo <- MCMaxGunAmmo
  MaxSniperAmmo <- MCMaxSniperAmmo
  ShotBound <- MCShotBound
INVARIANT ShotsArePaid
