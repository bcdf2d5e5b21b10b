SPECIFICATION Spec
CONSTANTS
  MaxMsgs = 1
  Prefetch = 1
  MaxFaults = 1
  FaultKinds = {"api"}
  MaxLag = 1
  Strategies = {"Sequential"}
  Owners = {"StatefulSet"}
  Modes = {"Drain"}
  Loaders = {"agent"}
  Replicas = 1
  Adopts = FALSE
PROPERTY FailedIsFinal
