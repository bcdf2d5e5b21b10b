SPECIFICATION FairSpec
CONSTANTS
  MaxMsgs = 1
  Prefetch = 1
  MaxFaults = 1
  FaultKinds = {"broker", "api", "job"}
  MaxLag = 0
  Strategies = {"Auto", "ShadowPod", "Sequential"}
  Owners = {"StatefulSet", "Deployment"}
  Modes = {"Drain", "Cutoff", "NoLimit"}
  Loaders = {"agent"}
  Replicas = 1
  Adopts = FALSE
INVARIANT FailedKeepsSource
PROPERTY Ends
PROPERTY ImplementsLifecycle
