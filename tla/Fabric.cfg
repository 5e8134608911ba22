\* Three requests compete for two credits and two device threads. No symmetry:
\* some of the properties are temporal.
CONSTANTS
  Requests = {r1, r2, r3}
  Devices = {d1, d2}
  QueueDepth = 2
  NoReq = NoReq
SPECIFICATION ListFairSpec
INVARIANTS
  FabricTypeOK
  CreditConservation
  NoUseAfterFree
  NoLostCompletion
  WorkConserving
  ListIsQueue
PROPERTIES
  EveryRequestFinishes
  DestroyReturns
  ImplementsPool
