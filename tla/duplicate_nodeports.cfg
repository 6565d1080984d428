\* The user gives both node ports the same number.
SPECIFICATION Spec

CONSTANTS
  Publishings <- Duplicates
  TargetNumbers = {1, 2}
  NodeNumbers = {1, 2, 3}
  DropsPolicy = TRUE
  MaxDisturbances = 0

INVARIANTS
  DuplicatesTurnedAway
