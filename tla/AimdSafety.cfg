CONSTANTS
  Requests = {w1, w2, w3}
  Devices = {d1, d2}
  QueueDepth = 2
  NoReq = NoReq
SYMMETRY Symmetry
SPECIFICATION Spec
INVARIANTS
  AimdTypeOK
  AccountingBalanced
  CreditsMatchInflight
  WaitersCounted
  NoIdleSlot
  NobodyBlockedAfterWakeAll
  ControllerIdleAtJoin
  RecoversInTime
PROPERTIES
  FabricSpec
