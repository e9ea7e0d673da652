CONSTANTS
  a = a
  b = b
  k1 = k1
  Nodes = {a, b}
  Callers = {a, b}
  Campaigns = {k1}
  Coins = {1, 2, 3}
  Value <- ThreeValues
  Owner <- ThreeOwners
  Developer <- FirstDevelops
  asking_price_sats <- OnePrice
  fee_buffer_sats = 2
  min_confirmations = 1
  deadline_height_offset = 1
  Unconfirmed = {2}
  MinFeeRate = 1
  MaxFeeRate = 1
  MaxHeight = 2
  MaxFaults = 1
SPECIFICATION Spec
INVARIANTS TypeOK FinalTxSound FewestInputs
PROPERTIES OwnPledgesCount
CHECK_DEADLOCK FALSE
