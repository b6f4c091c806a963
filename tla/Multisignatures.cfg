SPECIFICATION Spec
CONSTANTS
  k1 = k1
  k2 = k2
  c1 = c1
  c2 = c2
  s1 = s1
  s2 = s2
  x1 = x1
  y1 = y1
  x2 = x2
  x0 = x0
  Key = {k1, k2}
  Owner = Owner
  Nobody = Nobody
  Signature = {x1, y1, x2, x0}
  KeyOf <- MCKeyOf
  Creation = {c1, c2}
  Spend = {s1, s2}
  Group <- MCGroup
  Minimum <- MCMinimum
  Requester <- MCRequester
  Rank <- MCRank
  Offers <- MCOffers
  MaxSubmit <- MCMaxSubmit
  MaxHeight = 2
  MaxFault = 1
INVARIANTS
  GroupReflectsChain
  PendingReflectsPool
  ForgedAreSigned
CHECK_DEADLOCK FALSE
