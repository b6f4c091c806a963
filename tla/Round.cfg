SPECIFICATION Spec
CONSTANTS
  d0 = d0
  d1 = d1
  d2 = d2
  d3 = d3
  d4 = d4
  NoVote = NoVote
  N = 3
  Account = {d0, d1, d2, d3, d4}
  Delegate = {d1, d2, d3, d4}
  Genesis = d0
  Block <- MCBlock
  Key <- MCKey
  Funds <- MCFunds
  InitialDelegates <- MCDelegates
  Reward = 2
  RewardPool = 12
  MaxHeight = 7
  MaxRollback = 1
  MaxRestart = 1
  MaxFork = 3
INVARIANTS
  EarningsReflectChain
  VotesReflectChain
  MissedReflectsChain
  OneListPerRound
  RewardsFromPool
  InterruptionIsSeen
