SPECIFICATION SafetySpec
CONSTANTS
  Users = {alice}
  alice = alice
  Sessions = {guest}
  guest = guest
  Extractions = {lease}
  lease = lease
  Checkouts = {one}
  one = one
  Five = {}
  Ten = {}
  Product <- Products
  Workers = {w1, w2}
  w1 = w1
  w2 = w2
  NONE = NONE
  MaxCalls = 2
  MaxFaults = 0
CHECK_DEADLOCK FALSE
SYMMETRY WorkerSymmetry
INVARIANT GuestPurchaseUnlocks
