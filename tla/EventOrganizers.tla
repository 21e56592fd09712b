-------------------------- MODULE EventOrganizers --------------------------
(***************************************************************************)
(* Who organises one event, seen from one e-mail address: the invitations  *)
(* sent to it, its account and the assignment the event's managers make.   *)
(*                                                                         *)
(* An acceptance is one transaction, but it reads the invitation without a *)
(* lock and issues the session through another connection, which does not  *)
(* see what the transaction has not committed.  The other calls look rows  *)
(* up first and write them by id.                                          *)
(***************************************************************************)
EXTENDS Naturals

CONSTANTS Inviting,         \* calls that may run at the same time
          MaxInvitations    \* bound: invitations ever sent to the address

VARIABLES invitation,   \* organizer_invitations of the event and the address
          invitee,      \* the account: none, open, ended or deleted, its ORGANIZER role,
                        \* and whether an acceptance ever gave it a session
          assigned,     \* event_organizers has a row for the account
          eventThere,   \* the event is not deleted
          inviting

organizerVars == <<invitation, invitee, assigned, eventThere, inviting>>

NoInvitation == [status |-> "none", expired |-> FALSE]
NotInviting == [pc |-> "idle", invitation |-> 0]

OrganizerInit ==
  /\ invitation = [i \in 1..MaxInvitations |-> NoInvitation]
  /\ invitee \in [account : {"none", "open"}, role : {FALSE}, session : {FALSE}]
  /\ assigned = FALSE /\ eventThere = TRUE
  /\ inviting = [c \in Inviting |-> NotInviting]

At(c, pc) == inviting[c].pc = pc
Goes(c, pc, i) == inviting' = [inviting EXCEPT ![c] = [pc |-> pc, invitation |-> i]]
Stops(c) == Goes(c, "idle", 0)

\* Every operation of a manager asks the event first; the owner and
\* administrators, who may do all of them, are always there.
Begins(c, pc, i) ==
  /\ At(c, "idle") /\ eventThere
  /\ Goes(c, pc, i)
  /\ UNCHANGED <<invitation, invitee, assigned, eventThere>>

-----------------------------------------------------------------------------
\* The account is opened with or without the role, ends, returns or is deleted.
ChangeAccount ==
  /\ \/ invitee.account = "none" /\ invitee' \in [account : {"open"}, role : BOOLEAN, session : {FALSE}]
     \/ invitee.account = "open" /\ \E a \in {"ended", "deleted"} : invitee' = [invitee EXCEPT !.account = a]
     \/ invitee.account = "ended" /\ invitee' = [invitee EXCEPT !.account = "open"]
  /\ UNCHANGED <<invitation, assigned, eventThere, inviting>>

DeleteEvent ==
  /\ eventThere /\ eventThere' = FALSE
  /\ UNCHANGED <<invitation, invitee, assigned, inviting>>

Expire(i) ==
  /\ invitation[i].status # "none"
  /\ invitation' = [invitation EXCEPT ![i].expired = TRUE]
  /\ UNCHANGED <<invitee, assigned, eventThere, inviting>>

-----------------------------------------------------------------------------
(* Invitations *)

\* Those that are pending are revoked before the new one is made: two calls
\* that overlap leave two pending invitations.
RevokePending(c) ==
  /\ At(c, "idle") /\ eventThere
  /\ invitation' = [i \in DOMAIN invitation |->
       IF invitation[i].status = "PENDING" THEN [invitation[i] EXCEPT !.status = "REVOKED"] ELSE invitation[i]]
  /\ Goes(c, "insert", 0)
  /\ UNCHANGED <<invitee, assigned, eventThere>>

CreateInvitation(c) ==
  /\ At(c, "insert")
  /\ \E i \in DOMAIN invitation :
       /\ invitation[i].status = "none" /\ \A j \in 1..(i - 1) : invitation[j].status # "none"
       /\ invitation' = [invitation EXCEPT ![i].status = "PENDING"]
  /\ Stops(c)
  /\ UNCHANGED <<invitee, assigned, eventThere>>

ReadForRevoke(c, i) == invitation[i].status = "PENDING" /\ Begins(c, "revoke", i)

\* Even one that has been accepted since.
RevokeInvitation(c) ==
  /\ At(c, "revoke")
  /\ invitation' = [invitation EXCEPT ![inviting[c].invitation].status = "REVOKED"]
  /\ Stops(c)
  /\ UNCHANGED <<invitee, assigned, eventThere>>

-----------------------------------------------------------------------------
(* Acceptance *)

\* An acceptance of an invitation that has expired rolls back the EXPIRED it
\* writes, so that status is never stored.  An account that has ended may not
\* accept; where there is none, a new one is made.
ReadForAccept(c, i) ==
  /\ invitation[i].status = "PENDING" /\ ~invitation[i].expired
  /\ \/ invitee.account = "open" /\ Begins(c, "accept", i)
     \/ invitee.account \in {"none", "deleted"} /\ Begins(c, "acceptNew", i)

Accepted(i) == invitation' = [invitation EXCEPT ![i].status = "ACCEPTED"]

\* generateTokens does not go through the transaction: the session is there
\* before the acceptance commits, and stays if it does not.
IssueSession(c) ==
  /\ At(c, "accept")
  /\ invitee' = [invitee EXCEPT !.session = TRUE]
  /\ Goes(c, "commit", inviting[c].invitation)
  /\ UNCHANGED <<invitation, assigned, eventThere>>

AcceptExisting(c) ==
  /\ At(c, "commit")
  /\ Accepted(inviting[c].invitation)
  /\ invitee' = [invitee EXCEPT !.role = TRUE]
  /\ assigned' = TRUE
  /\ Stops(c)
  /\ UNCHANGED eventThere

\* Mutant of AcceptNew: only what goes through the transaction rolls back.
AcceptNewMarksOutside(c) ==
  /\ At(c, "acceptNew")
  /\ Accepted(inviting[c].invitation)
  /\ Stops(c)
  /\ UNCHANGED <<invitee, assigned, eventThere>>

\* The refresh token refers to an account that is not committed yet: the insert
\* fails, and the account, the role, the assignment and ACCEPTED roll back.
\* (The address of a deleted account is still taken, and fails sooner.)
AcceptNew(c) ==
  /\ At(c, "acceptNew")
  /\ Stops(c)
  /\ UNCHANGED <<invitation, invitee, assigned, eventThere>>

-----------------------------------------------------------------------------
(* Managers: assignOrganizer and removeOrganizer *)

ReadForAssign(c) == invitee.account = "open" /\ invitee.role /\ Begins(c, "assign", 0)

Assign(c) ==
  /\ At(c, "assign")
  /\ assigned' = TRUE
  /\ Stops(c)
  /\ UNCHANGED <<invitation, invitee, eventThere>>

ReadForRemove(c) == assigned /\ Begins(c, "remove", 0)

\* By the row's id: whoever else has read that row will not find it again.
Remove(c) ==
  /\ At(c, "remove")
  /\ assigned' = FALSE
  /\ inviting' = [d \in Inviting |-> IF d = c THEN NotInviting
                    ELSE IF At(d, "remove") THEN [inviting[d] EXCEPT !.pc = "gone"] ELSE inviting[d]]
  /\ UNCHANGED <<invitation, invitee, eventThere>>

CallFails(c) ==
  /\ ~At(c, "idle")
  /\ Stops(c)
  /\ UNCHANGED <<invitation, invitee, assigned, eventThere>>

OrganizerNext ==
  \/ ChangeAccount \/ DeleteEvent
  \/ \E i \in DOMAIN invitation : Expire(i)
  \/ \E c \in Inviting :
       \/ RevokePending(c) \/ CreateInvitation(c) \/ RevokeInvitation(c)
       \/ \E i \in DOMAIN invitation : ReadForRevoke(c, i) \/ ReadForAccept(c, i)
       \/ IssueSession(c) \/ AcceptExisting(c) \/ AcceptNew(c)
       \/ ReadForAssign(c) \/ Assign(c) \/ ReadForRemove(c) \/ Remove(c)
       \/ CallFails(c)

OrganizerSpec == OrganizerInit /\ [][OrganizerNext]_organizerVars

-----------------------------------------------------------------------------
\* Whoever organises the event, and whoever has accepted an invitation to it,
\* has an account with the ORGANIZER role: an acceptance that fails half-way
\* leaves neither ACCEPTED nor an assignment behind (only the session).
OrganizersHaveRole ==
  assigned \/ (\E i \in DOMAIN invitation : invitation[i].status = "ACCEPTED") =>
    invitee.account # "none" /\ invitee.role
=============================================================================
