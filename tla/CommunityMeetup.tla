-------------------------- MODULE CommunityMeetup --------------------------
(***************************************************************************)
(* One meetup of a community and its participants.  A join holds the       *)
(* meetup's row (SELECT ... FOR UPDATE) from its checks to its commit; a   *)
(* leave reads the participation first, outside any transaction, and its   *)
(* transaction starts by deleting that row: when it is gone the delete     *)
(* fails and nothing is written.  The creator participates and stays.      *)
(***************************************************************************)
EXTENDS Integers, FiniteSets

CONSTANTS Users,       \* active members other than the creator
          Requests,    \* join and leave requests that may run at the same time
          Limits,      \* the participant limits a meetup may be given
          None         \* no limit, and no request

ASSUME LimitsAssumption == IsFiniteSet(Users) /\ Limits \subseteq Nat /\ None \notin Nat
ASSUME RequestsAssumption == None \notin Requests

VARIABLES participants,      \* community_meetup_participants, the creator left out
          participantCount,  \* community_meetups: the count, the creator included
          limit, status,
          locked,            \* the join that holds the meetup's row, if any
          request

vars == <<participants, participantCount, limit, status, locked, request>>

Idle == [kind |-> "none", user |-> None]

Init ==
  /\ participants = {} /\ participantCount = 1
  /\ limit \in Limits \cup {None} /\ status = "SCHEDULED"
  /\ locked = None
  /\ request = [r \in Requests |-> Idle]

\* Mutant of Full: one too many.
FullOffByOne == limit # None /\ participantCount > limit

Full == limit # None /\ participantCount >= limit

\* update and cancel: one statement that waits for the row and looks at
\* nothing, neither at the count nor at the status it replaces.
Update(newLimit, newStatus) ==
  /\ locked = None
  /\ limit' = newLimit /\ status' = newStatus
  /\ UNCHANGED <<participants, participantCount, locked, request>>

JoinLock(r, u) ==
  /\ request[r] = Idle /\ locked = None
  /\ status = "SCHEDULED" /\ u \notin participants /\ ~Full
  /\ locked' = r
  /\ request' = [request EXCEPT ![r] = [kind |-> "join", user |-> u]]
  /\ UNCHANGED <<participants, participantCount, limit, status>>

JoinCommit(r) ==
  /\ locked = r /\ request[r].kind = "join"
  /\ participants' = participants \cup {request[r].user}
  /\ participantCount' = participantCount + 1
  /\ locked' = None
  /\ request' = [request EXCEPT ![r] = Idle]
  /\ UNCHANGED <<limit, status>>

LeaveRead(r, u) ==
  /\ request[r] = Idle /\ u \in participants
  /\ request' = [request EXCEPT ![r] = [kind |-> "leave", user |-> u]]
  /\ UNCHANGED <<participants, participantCount, limit, status, locked>>

\* Mutant of LeaveCommit: deleteMany, which does not fail when no row is left.
LeaveAlwaysCounts(r) ==
  /\ request[r].kind = "leave" /\ locked = None
  /\ participants' = participants \ {request[r].user}
  /\ participantCount' = participantCount - 1
  /\ request' = [request EXCEPT ![r] = Idle]
  /\ UNCHANGED <<limit, status, locked>>

\* Other leaves that read the same row will not find it again, even if the
\* user has joined anew.
LeaveCommit(r) ==
  /\ request[r].kind = "leave" /\ locked = None
  /\ participants' = participants \ {request[r].user}
  /\ participantCount' = participantCount - 1
  /\ request' = [q \in Requests |-> IF q = r THEN Idle
                   ELSE IF request[q] = request[r] THEN [request[q] EXCEPT !.kind = "gone"]
                   ELSE request[q]]
  /\ UNCHANGED <<limit, status, locked>>

\* The delete finds no row, or the process is lost: the transaction rolls back.
Abort(r) ==
  /\ request[r] # Idle
  /\ request' = [request EXCEPT ![r] = Idle]
  /\ locked' = IF locked = r THEN None ELSE locked
  /\ UNCHANGED <<participants, participantCount, limit, status>>

Next ==
  \/ \E l \in Limits \cup {None}, s \in {"SCHEDULED", "CANCELLED", "COMPLETED"} : Update(l, s)
  \/ \E r \in Requests : \/ \E u \in Users : JoinLock(r, u) \/ LeaveRead(r, u)
                         \/ JoinCommit(r) \/ LeaveCommit(r) \/ Abort(r)

Spec == Init /\ [][Next]_vars
-----------------------------------------------------------------------------
\* Type invariant.
TypeOK ==
  /\ participants \subseteq Users /\ participantCount \in Int
  /\ limit \in Limits \cup {None} /\ status \in {"SCHEDULED", "CANCELLED", "COMPLETED"}
  /\ locked \in Requests \cup {None}
  /\ request \in [Requests -> [kind : {"none", "join", "leave", "gone"}, user : Users \cup {None}]]

\* participantCount is the number of participants, however joins, leaves and
\* updates interleave: a leave of what another leave removed rolls back.
CountIsExact == participantCount = Cardinality(participants) + 1

\* Participants are added only to a scheduled meetup, and never beyond the
\* limit it has at that moment.
JoinsWithinLimit ==
  [][participants' \ participants # {} =>
       /\ status = "SCHEDULED"
       /\ limit # None => Cardinality(participants') + 1 <= limit]_vars
=============================================================================
