SPECIFICATION Spec

CONSTANTS
  Latencies = {1, 2}
  MaxSamples = 10

INVARIANTS
  NearestRank
