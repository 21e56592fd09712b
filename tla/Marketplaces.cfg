SPECIFICATION MarketplacesSpec
CONSTANTS
  Bookings = {b1, b2}
  Creates = {c1, c2}
  Changes = {u1, u2}
  Attendees = {a1, a2, a3}
  Redeems = {r1, r2}
  Edits = {e1}
  Limits = {1, NoLimit}
  NoLimit = NoLimit
  None = None
  MaxOffers = 1
  Requests = {q1, q2}
  MaxVersions = 3
CONSTRAINT OneLapse
SYMMETRY Interchangeable
CHECK_DEADLOCK FALSE
INVARIANTS
  NoPlaceLost CountIsRedemptions
  PendingIsNewest EndClearsTable
PROPERTIES PlacesWithinLimit Negotiates
