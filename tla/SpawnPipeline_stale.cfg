SPECIFICATION Spec
CONSTANTS
  MaxSpawns = 1
  MaxFundingAttempts = 2
  MaxFaults = 1
  IndexerLag = FALSE
  SignalsArrive = TRUE
INVARIANTS
  NoStaleKeys
