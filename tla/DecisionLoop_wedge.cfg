CONSTANTS
  p1 = p1
  CostPerDay = 1
  CentsPerDollar = 2
  MinInvoiceDollars = 1
  RateNum = 1
  RateDen = 2
  ShareNum = 2
  ShareDen = 5
  FeeBuffer = 1
  ThresholdDays = 3
  TargetDays = 3
  Peers = {p1}
  MaxWealth = 1
  HasDefault = TRUE
  FailsafeTrigger = 2
  TopupTrigger = 3
  Caution = 50
  Starts <- LastPurse
  Donation = 2
  MaxIncome = 0
  MaxDays = 1
  MaxUpdates = 0
  MaxFaults = 0
SPECIFICATION TendedSpec
PROPERTY FailsafeCompletes
