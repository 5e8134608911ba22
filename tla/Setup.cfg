\* Two threads stand for the 256 that parse_config allows, 7 for INT_MAX.
CONSTANTS
  IntMax = 7
  MaxThreads = 2
SPECIFICATION Spec
INVARIANTS
  ReleasedExactlyOnce
  WorkersHaveAll
  OneProbeBeyondCredits
