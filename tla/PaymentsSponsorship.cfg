SPECIFICATION FairSpec
CONSTANTS
  Payments = {p1}
  Communities = {c1}
  c1 = c1
  CommunityOf <- SameCommunity
  Hooks = {h1, h2}
  Refunders = {a1}
  Reconcilers = {}
  Sweepers = {s1}
  Amount = 1
  MaxFaults = 1
  None = None
CHECK_DEADLOCK FALSE
PROPERTIES PaidIsActivated NeverRevived
