SPECIFICATION FairSpec
CONSTANTS
  Subs = {s1}
  Hooks = {h1}
  Cancellers = {k1}
  MaxEvents = 6
  MaxLate = 4
  MaxFaults = 1
  None = None
CHECK_DEADLOCK FALSE
INVARIANTS FollowsStripe CancelledAtStripe
PROPERTIES PaidHasSubscription
