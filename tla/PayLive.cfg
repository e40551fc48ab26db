SPECIFICATION Spec
CONSTANTS
  Users = {alice}
  alice = alice
  Sessions = {}
  Extractions = {lease}
  lease = lease
  Checkouts = {five, one}
  five = five
  one = one
  Five = {five}
  Ten = {}
  Product <- Products
  Workers = {w1, w2}
  w1 = w1
  w2 = w2
  NONE = NONE
  MaxCalls = 3
  MaxFaults = 1
CHECK_DEADLOCK FALSE
PROPERTY RequestsReturn
PROPERTY PaidPackGranted
