\* Seeds 0, 1, 2^31, and 10007: that of the second worker for seed 0. Six
\* rejections widen a window from 200 to 8000.
CONSTANTS
  Seeds = {{}, {0}, {31}, {0, 1, 2, 4, 8, 9, 10, 13}}
  Loads = {50, 100}
  MaxDraws = 24
SPECIFICATION Spec
INVARIANTS
  BackoffFollowsStreak
  RngNeverStuck
