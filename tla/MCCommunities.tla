---------------------------- MODULE MCCommunities ----------------------------
(***************************************************************************)
(* What happens in one community: its members, a meetup, a post with its   *)
(* replies and likes, the chat, and the reports about any of these.  They  *)
(* share no variable and every property reads one of them, so it is enough *)
(* to see each beside the others at rest: a step of one is taken only where*)
(* the others are in a first state, and the states add up.                 *)
(***************************************************************************)
EXTENDS CommunityMeetup, CommunityContent, TLC

CONSTANTS Creator, Admin, Joins, Others,
          FreeCapacity, SponsoredCapacity,                  \* members
          Talkers, Sends, MaxMessages,                      \* chat
          Reporting, MaxReports                             \* reports

ASSUME MembershipAssumption ==
  /\ FreeCapacity \in Nat /\ SponsoredCapacity \in Nat
  /\ None \notin Joins \cup {"leave", "ban", "unban", "role"}
  /\ Creator \in Users
ASSUME ReportsAssumption == IsFiniteSet(Reporting) /\ MaxReports \in Nat

VARIABLES member, memberCount, sponsored, archived, rowLocked, join, other,
          standing, socket, history, heard, sending,
          report, reporting

Membership == INSTANCE CommunityMembership WITH locked <- rowLocked
Chat == INSTANCE CommunityChat WITH Users <- Talkers
Reports == INSTANCE ContentReports

memberVars == <<member, memberCount, sponsored, archived, rowLocked, join, other>>
chatVars == <<standing, socket, history, heard, sending>>
reportVars == <<report, reporting>>

\* The requests of every component have the same names.
Interchangeable == Permutations(Posting)

\* Bounds of the members: a counter that differs from them ends what is looked
\* at, at most one member has another role than at first, and a change
\* of roles runs beside joins only.
MembersBound ==
  /\ Membership!Drift = 0
  /\ Cardinality({u \in Users : member[u].role # IF u = Creator THEN "OWNER" ELSE "MEMBER"}) <= 1
  /\ \A o, p \in Others : o # p /\ other[o].kind = "role" => other[p].kind = None

MeetupRests == Init /\ limit = None

CommunitiesInit ==
  /\ Init /\ ContentInit
  /\ Membership!Init /\ Chat!ChatInit /\ Reports!ReportInit

CommunitiesNext ==
  \/ /\ ContentInit /\ Membership!Init /\ Chat!ChatInit /\ Reports!ReportInit
     /\ Next
     /\ UNCHANGED <<contentVars, memberVars, chatVars, reportVars>>
  \/ /\ MeetupRests /\ Membership!Init /\ Chat!ChatInit /\ Reports!ReportInit
     /\ ContentNext
     /\ UNCHANGED <<vars, memberVars, chatVars, reportVars>>
  \/ /\ MeetupRests /\ ContentInit /\ Chat!ChatInit /\ Reports!ReportInit
     /\ Membership!Next
     /\ UNCHANGED <<vars, contentVars, chatVars, reportVars>>
  \/ /\ MeetupRests /\ ContentInit /\ Membership!Init /\ Reports!ReportInit
     /\ Chat!ChatNext
     /\ UNCHANGED <<vars, contentVars, memberVars, reportVars>>
  \/ /\ MeetupRests /\ ContentInit /\ Membership!Init /\ Chat!ChatInit
     /\ Reports!ReportNext
     /\ UNCHANGED <<vars, contentVars, memberVars, chatVars>>

CommunitiesSpec ==
  CommunitiesInit /\
  [][CommunitiesNext]_<<vars, contentVars, memberVars, chatVars, reportVars>>

-----------------------------------------------------------------------------
\* The properties of the components that are instantiated, each stated where
\* the component is.
CountFollowsMembers == Membership!CountFollowsMembers
NoOversubscription == Membership!NoOversubscription
NoJoinAfterArchive == Membership!NoJoinAfterArchive
ChatStaysInside == Chat!ChatStaysInside
DuplicatesBounded == Reports!DuplicatesBounded
=============================================================================
