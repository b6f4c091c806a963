SPECIFICATION Spec
CONSTANTS
  a = a
  b = b
  n = n
  m = m
  N = N
  NoName = NoName
  Nobody = Nobody
  Group <- MCGroup
  Account = {a, b}
  Name = {n, m, N}
  Lower <- MCLower
  Offers <- MCOffers
  Funds = 3
  MaxVotes = 1
  MaxHeight = 3
  MaxBlock = 2
  MaxFault = 1
INVARIANTS
  AccountsReflectChain
  OncePerAccount
  UnconfirmedReflectsPool
  VotesAreForDelegates
  SecondSignatureHonoured
CHECK_DEADLOCK FALSE
