SPECIFICATION SessionsSpec
CONSTANTS
  Tokens = {1, 2, 3}
  Families = {1, 2}
  Requests = {r1, r2}
  None = 0
  Calls = {r1, r2}
  MaxAttempts = 1
  MaxChallenges = 2
CONSTRAINTS OnePurpose UsedInOrder OneExpires
SYMMETRY Interchangeable
INVARIANTS
  OneLivePerFamily EndsWhatItSaw
  BusinessNeedsDecision GuessesBounded
PROPERTIES EndedStaysOut
