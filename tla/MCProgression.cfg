SPECIFICATION Spec
CONSTANTS
  Placed = 6
  NumSpawns <- MCNumSpawns
  MinTime <- MCMinTime
  MaxTime <- MCMaxTime
  Rates <- MCRates
PROPERTIES
  StallIsFinal
  SlotsRunOut
CHECK_DEADLOCK FALSE
