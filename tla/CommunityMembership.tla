------------------------ MODULE CommunityMembership ------------------------
(***************************************************************************)
(* The members of one community: join, leave, ban, unban and role changes. *)
(*                                                                         *)
(* A join locks the community's row (SELECT ... FOR UPDATE), reads, and    *)
(* writes before it lets go; whoever updates that row waits.  The other    *)
(* requests read the membership outside any transaction and later write    *)
(* it by its id, whatever it has become.                                   *)
(***************************************************************************)
EXTENDS Integers, FiniteSets

CONSTANTS Users,
          Creator,    \* the user who made the community, at first its OWNER
          Admin,      \* an administrator of the platform, who is no member
          Joins,      \* join requests that may run at the same time
          Others,     \* leave, ban, unban and role requests
          FreeCapacity, SponsoredCapacity,
          None

VARIABLES member,      \* community_members: status and role
          memberCount, \* communities.memberCount
          sponsored,   \* an ACTIVE sponsorship of the community has not ended
          archived,    \* communities.deletedAt is set
          locked,      \* the join that holds the community's row, if any
          join, other

vars == <<member, memberCount, sponsored, archived, locked, join, other>>

IdleJoin == [user |-> None, capacity |-> 0]
IdleOther == [kind |-> None, user |-> None, read |-> None]

Init ==
  /\ member = [u \in Users |-> IF u = Creator THEN [status |-> "ACTIVE", role |-> "OWNER"]
                              ELSE [status |-> "none", role |-> "MEMBER"]]
  /\ memberCount = 1
  /\ sponsored = FALSE /\ archived = FALSE
  /\ locked = None
  /\ join = [j \in Joins |-> IdleJoin]
  /\ other = [o \in Others |-> IdleOther]

Active == {u \in Users : member[u].status = "ACTIVE"}
Capacity == IF sponsored THEN SponsoredCapacity ELSE FreeCapacity
\* Mutant of HasRoom: one too many.
HasRoomOffByOne == memberCount <= Capacity

HasRoom == memberCount < Capacity
\* The creator stays the creator, whatever becomes of the membership.
Managers == {Creator, Admin}
CanModerate(u) == u \in Managers \/ (u \in Active /\ member[u].role = "MODERATOR")

-----------------------------------------------------------------------------
\* A sponsorship begins or ends.
ChangeSponsorship ==
  /\ sponsored' = ~sponsored
  /\ UNCHANGED <<member, memberCount, archived, locked, join, other>>

\* Mutant of Archive: does not wait for the row.
ArchiveAtOnce ==
  /\ ~archived /\ archived' = TRUE
  /\ UNCHANGED <<member, memberCount, sponsored, locked, join, other>>

\* communities.service delete: ARCHIVED and deletedAt, on the locked row.
Archive ==
  /\ ~archived /\ locked = None
  /\ archived' = TRUE
  /\ UNCHANGED <<member, memberCount, sponsored, locked, join, other>>

-----------------------------------------------------------------------------
(* join *)

JoinLock(j, u) ==
  /\ join[j] = IdleJoin /\ locked = None /\ ~archived
  /\ member[u].status \in {"none", "LEFT"}
  /\ HasRoom
  /\ locked' = j
  /\ join' = [join EXCEPT ![j] = [user |-> u, capacity |-> Capacity]]
  /\ UNCHANGED <<member, memberCount, sponsored, archived, other>>

\* A membership that existed keeps its role.
JoinCommit(j) ==
  /\ locked = j
  /\ member' = [member EXCEPT ![join[j].user].status = "ACTIVE"]
  /\ memberCount' = memberCount + 1
  /\ locked' = None
  /\ join' = [join EXCEPT ![j] = IdleJoin]
  /\ UNCHANGED <<sponsored, archived, other>>

JoinLost(j) ==
  /\ locked = j
  /\ locked' = None
  /\ join' = [join EXCEPT ![j] = IdleJoin]
  /\ UNCHANGED <<member, memberCount, sponsored, archived, other>>

-----------------------------------------------------------------------------
(* The other requests: a read, then a write *)

Reads(o, kind, u) ==
  /\ other[o] = IdleOther
  /\ other' = [other EXCEPT ![o] = [kind |-> kind, user |-> u, read |-> member[u].status]]
  /\ UNCHANGED <<member, memberCount, sponsored, archived, locked, join>>

LeaveRead(o, u) ==
  /\ member[u].status = "ACTIVE" /\ member[u].role # "OWNER"
  /\ Reads(o, "leave", u)

BanRead(o, by, u) ==
  /\ ~archived /\ CanModerate(by) /\ by # u
  /\ member[u].status # "none" /\ member[u].role # "OWNER"
  /\ member[u].role = "MODERATOR" => by \in Managers
  /\ Reads(o, "ban", u)

UnbanRead(o, by, u) ==
  /\ ~archived /\ CanModerate(by)
  /\ member[u].status = "BANNED"
  /\ Reads(o, "unban", u)

\* Not one's own role; an administrator may take the creator's from OWNER.
RoleRead(o, by, u) ==
  /\ ~archived /\ by \in Managers \ {u} /\ member[u].status = "ACTIVE"
  /\ Reads(o, "role", u)

Writes(o, status) ==
  /\ member' = [member EXCEPT ![other[o].user].status = status]
  /\ other' = [other EXCEPT ![o] = IdleOther]
  /\ UNCHANGED <<sponsored, archived, locked, join>>

LeaveCommit(o) ==
  /\ other[o].kind = "leave" /\ locked = None
  /\ memberCount' = memberCount - 1
  /\ Writes(o, "LEFT")

\* Mutant of BanCommit: the count goes down for every ban.
BanAlwaysCounts(o) ==
  /\ other[o].kind = "ban" /\ locked = None
  /\ memberCount' = memberCount - 1
  /\ Writes(o, "BANNED")

\* The count goes down only for a member that was read as ACTIVE.
BanCommit(o) ==
  /\ other[o].kind = "ban"
  /\ \/ other[o].read = "ACTIVE" /\ locked = None /\ memberCount' = memberCount - 1
     \/ other[o].read # "ACTIVE" /\ UNCHANGED memberCount
  /\ Writes(o, "BANNED")

UnbanCommit(o) ==
  /\ other[o].kind = "unban"
  /\ Writes(o, "LEFT") /\ UNCHANGED memberCount

RoleCommit(o, role) ==
  /\ other[o].kind = "role"
  /\ member' = [member EXCEPT ![other[o].user].role = role]
  /\ other' = [other EXCEPT ![o] = IdleOther]
  /\ UNCHANGED <<memberCount, sponsored, archived, locked, join>>

OtherLost(o) ==
  /\ other[o] # IdleOther
  /\ other' = [other EXCEPT ![o] = IdleOther]
  /\ UNCHANGED <<member, memberCount, sponsored, archived, locked, join>>

-----------------------------------------------------------------------------
Roles == {"MEMBER", "MODERATOR", "OWNER"}   \* SPEAKER has a member's rights

Next ==
  \/ ChangeSponsorship \/ Archive
  \/ \E j \in Joins : JoinCommit(j) \/ JoinLost(j) \/ \E u \in Users : JoinLock(j, u)
  \/ \E o \in Others :
       \/ \E u \in Users :
            \/ LeaveRead(o, u)
            \/ \E by \in Users \cup {Admin} : RoleRead(o, by, u) \/ BanRead(o, by, u) \/ UnbanRead(o, by, u)
       \/ LeaveCommit(o) \/ BanCommit(o) \/ UnbanCommit(o) \/ OtherLost(o)
       \/ \E role \in Roles : RoleCommit(o, role)

Spec == Init /\ [][Next]_vars

-----------------------------------------------------------------------------
(* Properties *)

\* How far memberCount, the number the capacity check trusts, is from the
\* number of active members.
Drift == memberCount - Cardinality(Active)

Ends(o) == other[o] # IdleOther /\ other'[o] = IdleOther
IsActive(o) == member[other[o].user].status = "ACTIVE"

\* The counter moves as the members do, unless the request that moves it saw
\* another standing than the one it writes over.
Follows ==
  /\ Drift' < Drift => \E o \in Others : /\ Ends(o) /\ other[o].kind \in {"leave", "ban"}
                                        /\ other[o].read = "ACTIVE" /\ ~IsActive(o)
  /\ Drift' > Drift => \E o \in Others : /\ Ends(o) /\ other[o].kind \in {"ban", "unban"}
                                        /\ other[o].read # "ACTIVE" /\ IsActive(o)

\* The counter follows the members, joins and all, except where a request
\* writes what it read before another did: a leave or a ban of a member who is
\* gone counts a second time, and what takes away a member it did not read as
\* active counts too little.
CountFollowsMembers == [][Follows]_vars

\* While the counter covers the members, a join never takes the community over
\* the capacity in force when the join locked it: the check under FOR UPDATE.
NoOversubscription ==
  [][\A j \in Joins : locked = j /\ Active' # Active /\ Drift >= 0 =>
       Cardinality(Active') <= join[j].capacity]_vars

\* Nobody joins an archived community: the lock orders the two.
NoJoinAfterArchive == [][archived => Active' \subseteq Active]_vars
=============================================================================
