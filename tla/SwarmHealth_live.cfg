CONSTANTS
  x = x
  y = y
  Content = {x, y}
  StaleThreshold = 1
  MaxDelay = 1
  PurgeCycles = 2
  KeepSamples = 1
  SamplingLimit = 1
  MaxFaults = 2
  NoContent = none
SPECIFICATION FairSpec
INVARIANTS TypeOK SamplesBelong
PROPERTIES EveryRowSampled SilentIsPurged
