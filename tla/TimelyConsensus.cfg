SPECIFICATION TimelySpec
CONSTANTS
  GST = 6
  n1 = n1  n2 = n2
  d1 = d1  d2 = d2  d3 = d3  d4 = d4
  Node = {n1, n2}
  Delegate = {d1, d2, d3, d4}
  Keypairs <- TwoTwo
  DelegateAt <- MCDelegateAt
  PublicIp = {n1, n2}
  Restarting = {n1}
  RemoteQuorum = 2
  VotesSent = 2
  SlotTicks = 2
  ForgeTicks = 1
  VoteTicks = 1
  MaxFork = 5
  MaxTick = 25
  MaxHeight = 4
  MaxEpoch = 3
  MaxFailed = 0
INVARIANTS
  ChainsCertified
  ForksAreDoubleSigned
PROPERTIES
  VotesSpaced
  Converges
CHECK_DEADLOCK FALSE
