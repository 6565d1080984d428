\* Every type of Service and switches between them, with failing requests, somebody
\* else at work and pods that follow later.
SPECIFICATION PlaneSpec

CONSTANTS
  Publishings <- AllPublishings
  TargetNumbers = {1, 2}
  NodeNumbers = {1, 2, 3}
  DropsPolicy = TRUE
  MaxDisturbances = 1
  DefaultPorts <- FirstAndSecond
  MaxEdits = 2
  MaxFaults = 1

INVARIANTS
  PlaneTypeOK
  Honoured
  AtRest
  PathsAgree

PROPERTIES
  NodePortsKept
  TrafficFlows
