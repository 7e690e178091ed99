SPECIFICATION Spec
CONSTANTS
  runSpeed = 600
  walkSpeed = 400
  crouchSpeed = 300
  DefaultCrouched = 250
INVARIANTS
  SpeedFitsStance
