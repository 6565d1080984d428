\* Every way of comparing and updating, against four disturbances and a stale copy.
SPECIFICATION Spec

CONSTANTS
  Kinds <- OneOfEach
  MaxAttempts = 4
  MaxDisturbances = 4
  MaxFaults = 1
  None = None

INVARIANTS
  ObjectTypeOK

PROPERTIES
  StrangersUntouched
  NothingLost
  PassRepairs
  NoChurn
  KeepsObject
  RepairedEventually
