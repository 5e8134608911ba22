\* One credit, as in AimdLive.cfg; three ticks let a value change between two
\* stretches of time and once inside a section.
CONSTANTS
  Requests = {w1, w2}
  Devices = {d1}
  QueueDepth = 1
  NoReq = NoReq
  Load = 100
  MaxTime = 3
SYMMETRY Symmetry
SPECIFICATION TimedSpec
INVARIANTS
  IntegralsTrue
  MetricsInRange
