SPECIFICATION SafetySpec
CONSTANTS
  Users = {alice, bob}
  alice = alice
  bob = bob
  Sessions = {guest}
  guest = guest
  Extractions = {lease}
  lease = lease
  Checkouts = {five, ten, one1, one2}
  five = five
  ten = ten
  one1 = one1
  one2 = one2
  Five = {five}
  Ten = {ten}
  Product <- Products
  Workers = {w1, w2}
  w1 = w1
  w2 = w2
  NONE = NONE
  MaxCalls = 3
  MaxFaults = 1
CHECK_DEADLOCK FALSE
SYMMETRY Symmetry
INVARIANT TypeOK
INVARIANT PaidExactlyOnce
INVARIANT PaidForOwner
INVARIANT LedgerChain
INVARIANT GrantOnce
INVARIANT CompleteAfterEffects
PROPERTY ImplementsBilling
