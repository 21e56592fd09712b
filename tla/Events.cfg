SPECIFICATION EventsSpec
CONSTANTS
  Users = {u1, u2, u3}
  Registers = {r1, r2}
  Cancels = {c1}
  Managers = {m1, m2}
  Capacities = {1, 2}
  None = None
  Sessions = {s1, s2}
  Venues = {v1}
  Requests = {r1, r2}
  Creating = {"SCHEDULED"}
  Updating <- TimesOrStatus
  Horizon = 2
  Inviting = {r1, r2}
  MaxInvitations = 2
  Campaigning = {r1, r2}
  MaxEdits = 2
CONSTRAINT AgendaBound
SYMMETRY Interchangeable
CHECK_DEADLOCK FALSE
INVARIANTS NoVenueOverlap SessionsInsideEvent OrganizersHaveRole VisibleWasDecided
PROPERTIES GrantedWithinCapacity VenueKeepsSessions
