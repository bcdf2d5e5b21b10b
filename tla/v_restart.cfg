SPECIFICATION FairSpec
CONSTANTS
  MaxMsgs = 1
  Prefetch = 1
  MaxFaults = 1
  FaultKinds = {"crash"}
  SwapMode = "ExchangeFence"
  Replicas = 1
  Loaders = {"agent"}
  MaxOther = 0
PROPERTY EventuallyCompleted
