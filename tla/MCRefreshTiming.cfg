SPECIFICATION Spec
CONSTANTS
  RefreshInterval = 3
  SweepTime = 4
  Misses = 2
  VerdictTTL = 17
INVARIANT
  NeverLapses
