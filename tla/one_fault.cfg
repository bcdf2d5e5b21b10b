SPECIFICATION Spec
CONSTANTS
  MaxMsgs = 1
  Prefetch = 1
  MaxFaults = 1
  FaultKinds = {"broker", "api", "crash", "job"}
  SwapMode = "ExchangeFence"
  Replicas = 1
  Loaders = {"job"}
  MaxOther = 1
INVARIANT RouteOpen
INVARIANT ReplicasRestored
INVARIANT CompletedRouting
INVARIANT SwapQueueAlive
INVARIANT IdentityReserved
INVARIANT ServiceUp
