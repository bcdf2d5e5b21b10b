SPECIFICATION Spec
CONSTANTS
  MaxMsgs = 1
  Prefetch = 1
  MaxFaults = 0
  FaultKinds = {"api"}
  MaxLag = 0
  Strategies = {"Sequential"}
  Owners = {"StatefulSet"}
  Modes = {"Drain"}
  Loaders = {"agent"}
  Replicas = 1
  Adopts = FALSE
INVARIANT NothingLost
