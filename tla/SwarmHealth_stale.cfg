CONSTANTS
  x = x
  y = y
  Content = {x}
  StaleThreshold = 1
  MaxDelay = 1
  PurgeCycles = 2
  KeepSamples = 1
  SamplingLimit = 1
  MaxFaults = 0
  NoContent = none
SPECIFICATION AnnouncedSpec
PROPERTIES SeededIsListed
