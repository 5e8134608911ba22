\* One credit: the probe beyond it is rejected, a window of one blocks the other
\* worker, and the hold-off after a cut matters.
CONSTANTS
  Requests = {w1, w2}
  Devices = {d1}
  QueueDepth = 1
  NoReq = NoReq
SPECIFICATION FairSpec
PROPERTIES
  CutsOncePerWindow
  Terminates
  KeepsCompleting
