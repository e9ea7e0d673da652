CONSTANTS
  k1 = k1
  k2 = k2
  Keys = {k1, k2}
  NoKey = none
  max_size = 1
  TTL = 2
  MaxFaults = 2
SPECIFICATION FairSpec
INVARIANTS TypeOK NoReplay RefusedOnlyIfFull
PROPERTY LoginPossible
