SPECIFICATION Spec
CONSTANTS
  Payments = {p1}
  Communities = {c1}
  c1 = c1
  CommunityOf <- SameCommunity
  Hooks = {h1, h2}
  Refunders = {a1, a2}
  Reconcilers = {q1}
  Sweepers = {}
  Amount = 2
  MaxFaults = 0
  None = None
CHECK_DEADLOCK FALSE
SYMMETRY Interchangeable
INVARIANTS SettledOnlyIfPaid LedgerWithinReturned AcknowledgedIsSettled
PROPERTY RefundIsFinal
