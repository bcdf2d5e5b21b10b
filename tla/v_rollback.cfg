SPECIFICATION Spec
CONSTANTS
  MaxMsgs = 2
  Prefetch = 1
  MaxFaults = 0
  FaultKinds = {}
  SwapMode = "ExchangeFence"
  Replicas = 1
  Loaders = {"agent"}
  MaxOther = 0
INVARIANT MiniReplayFixedSet
