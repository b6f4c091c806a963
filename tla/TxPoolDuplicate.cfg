SPECIFICATION Spec
CONSTANTS
  a = a
  b = b
  t1 = t1
  t2 = t2
  t3 = t3
  Account = {a, b}
  NoTx = NoTx
  Tx = {t1, t2}
  Sender <- TwoTx
  Cost <- CostTwo
  Funds <- MCFunds
  MaxTxsPerBlock = 1
  MaxArray = 3
  MaxBelow = 2
  MaxBlocks = 1
  MaxSyncs = 1
INVARIANTS
  InPoolOnce
CHECK_DEADLOCK FALSE
