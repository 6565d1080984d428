\* Conflicts, stale caches, crashes and a Contour that goes and comes back.
SPECIFICATION Spec

CONSTANTS
  DeploymentReports <- Reports
  EnvoyCounts = {0, 1, 2}
  MaxChanges = 2
  MaxEdits = 2
  MaxFaults = 1
  MaxClock = 1
  None = None

INVARIANTS
  StatusTypeOK
  Coherent
  NoLostStatus

PROPERTIES
  TransitionTimed
  Rests
  AgreesEventually

\* Once users and workloads are done and the status agrees there is nothing to do.
CHECK_DEADLOCK FALSE
