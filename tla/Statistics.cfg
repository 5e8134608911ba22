\* Two batches of 20 overfill a buffer of 21; two workers reach 42 samples,
\* past the 22 where p95 and p99 part.
CONSTANTS
  Threads = 2
  Capacity = 21
  Latencies = {1, 2, 3}
  Batches = {1, 20}
  MaxBatches = 2
SPECIFICATION Spec
INVARIANTS
  PercentilesOfAllSamples
  RowAccountsForAll
