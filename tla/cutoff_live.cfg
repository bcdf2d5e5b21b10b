SPECIFICATION FairSpec
CONSTANTS
  MaxMsgs = 1
  Prefetch = 1
  MaxFaults = 1
  FaultKinds = {"api"}
  SwapMode = "Cutoff"
  Replicas = 1
  Loaders = {"agent", "job"}
  MaxOther = 0
INVARIANT MiniReplayFixedSet
PROPERTY Converges
