SPECIFICATION FairSpec
CONSTANTS
  Payments = {p1}
  Communities = {c1}
  c1 = c1
  CommunityOf <- SameCommunity
  Hooks = {h1}
  Refunders = {}
  Reconcilers = {q1}
  Sweepers = {}
  Amount = 1
  MaxFaults = 0
  None = None
CHECK_DEADLOCK FALSE
PROPERTIES PaidIsActivated
