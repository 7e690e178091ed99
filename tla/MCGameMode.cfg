SPECIFICATION Spec
CONSTANTS
  Awards <- MCAwards
  MaxLevel <- MCMaxLevel
INVARIANTS
  Ledger
PROPERTIES
  ExperienceSpent
CHECK_DEADLOCK FALSE
