SPECIFICATION RfqSpec
CONSTANTS
  Requests = {r1, r2}
  MaxVersions = 2
CHECK_DEADLOCK FALSE
INVARIANT OneDeal
