SPECIFICATION AdSpec
CONSTANTS
  Campaigning = {c1, c2}
  MaxEdits = 2
CHECK_DEADLOCK FALSE
INVARIANTS VisibleWasReviewed
