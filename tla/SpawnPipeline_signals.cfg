SPECIFICATION Spec
CONSTANTS
  MaxSpawns = 2
  MaxFundingAttempts = 2
  MaxFaults = 2
  IndexerLag = TRUE
  SignalsArrive = TRUE
INVARIANTS
  TypeOK
  InheritanceOnce
  InheritanceSpendable
  CompletedIsDelivered
PROPERTIES
  WriteAhead
  RefinesLedger
