CONSTANTS
  Requests = {w1, w2, w3}
  Devices = {d1, d2}
  QueueDepth = 1
  NoReq = NoReq
SPECIFICATION FairSpec
INVARIANT AccountingBalanced
PROPERTIES
  FabricSpec
  NoSilentDiscard
  Terminates
  KeepsCompleting
