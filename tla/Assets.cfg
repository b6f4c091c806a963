SPECIFICATION Spec
CONSTANTS
  coin = coin
  btc = btc
  gold = gold
  i1 = i1
  i2 = i2
  d1 = d1
  d2 = d2
  d3 = d3
  Asset = {coin, btc, gold}
  ChainLevel = {btc}
  Issue = {i1, i2}
  Currency <- MCCurrency
  Amount <- MCAmount
  Acc <- MCAcc
  Maximum <- MCMaximum
  Approved = {coin, btc}
  Delegate = {d1, d2, d3}
  Lists <- MCLists
  Threshold = 2
  TotalAmount = 12
  Block <- MCBlock
  MaxHeight = 4
  MaxPop = 2
  MaxList = 1
  MaxFail = 1
  MaxRestart = 1
INVARIANTS
  ApprovalsReflectChain
  SupplyReflectsApprovals
  CacheReflectsTables
CHECK_DEADLOCK FALSE
