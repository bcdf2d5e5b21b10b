SPECIFICATION FairSpec
CONSTANTS
  posted = posted
  pushed = pushed
  n1 = n1
  n2 = n2
  p1 = p1
  p2 = p2
  app = app
  None = None
  Migs = {posted, pushed}
  Nodes = {n1, n2}
  AgentNodes = {n1, n2}
  Direct = {posted}
  SourceNode <- Source
  TargetNode <- Dest
  Pod <- PodOf
  Container <- AppOf
  MaxTries = 2
  MaxFaults = 3
INVARIANT TypeOK
INVARIANT OwnImage
INVARIANT FilesAccounted
PROPERTY TransferEnds
