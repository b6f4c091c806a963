SPECIFICATION Spec
CONSTANTS
  a = a
  b = b
  t1 = t1
  t2 = t2
  t3 = t3
  Account = {a, b}
  NoTx = NoTx
  Tx = {t1, t2, t3}
  Sender <- ThreeTx
  Cost <- CostTwo
  Funds <- MCFunds
  MaxTxsPerBlock = 2
  MaxArray = 5
  MaxBelow = 2
  MaxBlocks = 3
  MaxSyncs = 2
INVARIANTS
  CountNeverHigh
  NoOverdraft
  IndexSound
CHECK_DEADLOCK FALSE
