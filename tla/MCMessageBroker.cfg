SPECIFICATION Spec
CONSTANTS
  MaxMessages = 4
  MaxEntities = 2
INVARIANTS
  TypeOK
  InTurn
  NoneStranded
PROPERTIES
  Reaches
CHECK_DEADLOCK FALSE
