\* The lowest load, with credits for two requests; one tick is enough for both
\* to be in flight all the time that is observed.
CONSTANTS
  Requests = {w1, w2}
  Devices = {d1}
  QueueDepth = 2
  NoReq = NoReq
  Load = 1
  MaxTime = 1
SYMMETRY Symmetry
SPECIFICATION TimedSpec
INVARIANT AverageWithinLoad
