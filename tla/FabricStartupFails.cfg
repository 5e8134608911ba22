CONSTANT DeviceWorkers = 2
SPECIFICATION FairSpec
PROPERTIES
  InitFailureReturns
