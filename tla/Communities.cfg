SPECIFICATION CommunitiesSpec
CONSTANTS
  Users = {u1, u2, u3}
  Requests = {r1, r2, r3}
  Limits = {2, 3}
  None = None
  Members = {u1}
  Posting = {r1, r2}
  MaxReplies = 2
  Joins = {r1, r2}
  Others = {r1, r2}
  Creator = u1
  Admin = admin
  FreeCapacity = 2
  SponsoredCapacity = 3
  Talkers = {u1, u2}
  Sends = {r1, r2}
  MaxMessages = 2
  Reporting = {r1, r2}
  MaxReports = 4
CONSTRAINT MembersBound
SYMMETRY Interchangeable
INVARIANTS
  CountIsExact
  LikesExact RepliesNotOvercounted ThreadShowsAll
  ChatStaysInside DuplicatesBounded
PROPERTIES
  JoinsWithinLimit CountFollowsMembers NoOversubscription NoJoinAfterArchive NeverResurfaces
