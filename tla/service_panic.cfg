\* Somebody adds a port to a NodePort Service.
SPECIFICATION Spec

CONSTANTS
  Publishings <- NumbersChosen
  TargetNumbers = {1, 2}
  NodeNumbers = {1, 2, 3}
  DropsPolicy = TRUE
  MaxDisturbances = 1

INVARIANTS
  NeverPanics
