SPECIFICATION Spec
CONSTANTS
  n1 = n1  n2 = n2
  d1 = d1  d2 = d2  d3 = d3  d4 = d4
  Node = {n1, n2}
  Delegate = {d1, d2, d3, d4}
  Keypairs <- ThreeOne
  DelegateAt <- MCDelegateAt
  PublicIp = {n1, n2}
  Restarting = {n2}
  RemoteQuorum = 2
  VotesSent = 2
  SlotTicks = 2
  ForgeTicks = 1
  VoteTicks = 1
  MaxFork = 5
  MaxTick = 6
  MaxHeight = 3
  MaxEpoch = 1
  MaxFailed = 1
INVARIANTS
  TypeOK
  ChainsLinked
  BallotSound
  OneBlockPerSlot
CHECK_DEADLOCK FALSE
