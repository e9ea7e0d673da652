SPECIFICATION Spec
CONSTANTS
  MaxSpawns = 1
  MaxFundingAttempts = 2
  MaxFaults = 2
  IndexerLag = TRUE
  SignalsArrive = FALSE
INVARIANTS
  FundingOnce
