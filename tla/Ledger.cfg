SPECIFICATION Spec
CONSTANTS
  a = a
  b = b
  Account = {a, b}
  Tx <- MCTx
  Fee = 1
  Funds <- MCFunds
  AssetFunds <- MCAssetFunds
  MaxBlocks = 2
INVARIANTS
  LedgerReflectsChain
  UnconfirmedReflectsPool
  CacheReflectsPool
  PaidOnce
  PoolCanBeForged
