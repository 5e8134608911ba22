CONSTANT DeviceWorkers = 4
SPECIFICATION FairSpec
INVARIANTS
  NobodySleepsAfterDestroy
PROPERTIES
  DestroyReturns
