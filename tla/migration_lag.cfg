SPECIFICATION Spec
CONSTANTS
  MaxMsgs = 1
  Prefetch = 1
  MaxFaults = 1
  FaultKinds = {"broker", "crash", "job"}
  MaxLag = 2
  Strategies = {"Auto"}
  Owners = {"StatefulSet", "Deployment"}
  Modes = {"Drain", "Cutoff"}
  Loaders = {"job"}
  Replicas = 1
  Adopts = FALSE
INVARIANT TypeOK
INVARIANT CompletedCleanup
INVARIANT NothingSkipped
INVARIANT StateSurvives
PROPERTY CompletedIsFinal
