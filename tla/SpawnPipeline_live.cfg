SPECIFICATION TendedSpec
CONSTANTS
  MaxSpawns = 2
  MaxFundingAttempts = 2
  MaxFaults = 3
  IndexerLag = FALSE
  SignalsArrive = FALSE
INVARIANTS
  ServerOnce
  NoStaleKeys
  StoreNeverAhead
  FundingOnce
PROPERTIES
  SpawnResolves
