SPECIFICATION Spec
CONSTANTS
  MaxMessages = 2
  MaxEntities = 2
INVARIANT HandlerGone
CHECK_DEADLOCK FALSE
