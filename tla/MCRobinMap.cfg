CONSTANTS
  k1 = k1
  k2 = k2
  k3 = k3
  k4 = k4
  NULL = NULL
  Key <- FourKeys
  Val = {v1, v2}
  Hash <- Colliding
  InitialCap = 4
SPECIFICATION FairMapSpec
INVARIANT Reachable
INVARIANT CountedOnce
PROPERTY ImplementsDictionary
PROPERTY CallReturns
