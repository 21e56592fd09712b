------------------------------ MODULE Accounts ------------------------------
(***************************************************************************)
(* The account of one e-mail address: registration, one-time codes, login, *)
(* Google sign-in, password reset, the organizer invitations it accepts    *)
(* and what administrators decide about it.                                *)
(*                                                                         *)
(* A call reads, decides in memory and writes by the row's id without a    *)
(* condition, so what it writes may be old: each read and each write is an *)
(* action.  The transactions of the administrators' services read without  *)
(* a lock, hence two actions too.  A session that is inserted while such a *)
(* transaction ends the sessions is one inserted after it, for the insert  *)
(* asks nothing of the account.  A call may stop anywhere (GiveUp): an     *)
(* error, a check that fails on what is not modelled (password, cooldown   *)
(* of the codes), or a crash.                                              *)
(***************************************************************************)
EXTENDS Integers, FiniteSets

CONSTANTS Calls,         \* calls that may run at the same time
          MaxAttempts,   \* otp.maxAttempts: wrong codes a challenge allows
          MaxChallenges  \* bound: challenges ever made

ASSUME CallsAssumption == IsFiniteSet(Calls) /\ Calls # {}
ASSUME AttemptsAssumption == MaxAttempts \in Nat

VARIABLES account,    \* the users row, with its role and its Google link
          challenge,  \* otp_challenges of the address, in the order of createdAt
          session,    \* TRUE when the user has a refresh token that is not revoked
          call

accountVars == <<account, challenge, session, call>>

Email == "EMAIL_VERIFICATION"
Password == "PASSWORD_RESET"
Purposes == {Email, Password, "LOGIN_VERIFICATION"}
Ended == {"SUSPENDED", "REJECTED", "DEACTIVATED"}
Statuses == {"PENDING", "ACTIVE"} \cup Ended
Challenges == 1..MaxChallenges

\* A call that goes on with a status it remembers, and one that makes a challenge.
To(pc, status) == [pc |-> pc, purpose |-> "none", challenge |-> 0, status |-> status]
Issuing(pc, p) == [pc |-> pc, purpose |-> p, challenge |-> 0, status |-> "none"]
IdleCall == To("idle", "none")

AccountInit ==
  /\ account = [status |-> "none", business |-> FALSE, verified |-> FALSE,
                deleted |-> FALSE, linked |-> FALSE, decided |-> FALSE, invited |-> FALSE]
  /\ challenge = [i \in Challenges |-> [purpose |-> "none", attempts |-> 0, consumed |-> FALSE]]
  /\ session = FALSE
  /\ call = [c \in Calls |-> IdleCall]

\* findFirst where the e-mail matches and deletedAt is null.
Found == account.status # "none" /\ ~account.deleted

Goes(c, state) == call' = [call EXCEPT ![c] = state]
At(c, pc) == call[c].pc = pc

-----------------------------------------------------------------------------
(* Registration *)

\* The e-mail is unique among all users, the deleted ones included, whatever
\* the look-up before the insert saw.
Creates(c, business) ==
  /\ At(c, "idle") /\ account.status = "none"
  /\ account' = [account EXCEPT !.status = "PENDING", !.business = business]
  /\ Goes(c, Issuing("invalidate", Email))
  /\ UNCHANGED <<challenge, session>>

Register(c) == Creates(c, FALSE)

\* The row, the role and the profile of the role, or nothing.
RegisterBusiness(c) == Creates(c, TRUE)

-----------------------------------------------------------------------------
(* One-time codes: createChallenge and verifyChallenge *)

RequestOtp(c, p) ==
  /\ At(c, "idle")
  /\ p = Email => Found /\ ~account.verified
  /\ Goes(c, Issuing("invalidate", p))
  /\ UNCHANGED <<account, challenge, session>>

RequestPasswordReset(c) ==
  /\ At(c, "idle") /\ Found
  /\ Goes(c, Issuing("invalidate", Password))
  /\ UNCHANGED <<account, challenge, session>>

Open(p) == {i \in Challenges : challenge[i].purpose = p /\ ~challenge[i].consumed}
Newest(p, i) == i \in Open(p) /\ \A j \in Open(p) : j <= i

\* Two calls that both found nothing to wait for leave two open challenges.
InvalidateOlder(c) ==
  /\ At(c, "invalidate")
  /\ challenge' = [i \in Challenges |->
       IF i \in Open(call[c].purpose) THEN [challenge[i] EXCEPT !.consumed = TRUE] ELSE challenge[i]]
  /\ Goes(c, Issuing("create", call[c].purpose))
  /\ UNCHANGED <<account, session>>

CreateChallenge(c) ==
  /\ At(c, "create")
  /\ \E i \in Challenges :
       /\ challenge[i].purpose = "none" /\ \A j \in 1..(i - 1) : challenge[j].purpose # "none"
       /\ challenge' = [challenge EXCEPT ![i].purpose = call[c].purpose]
  /\ Goes(c, IdleCall)
  /\ UNCHANGED <<account, session>>

\* Mutant of Allows: one guess too many.
AllowsOneMore(i) == challenge[i].attempts <= MaxAttempts

Allows(i) == challenge[i].attempts < MaxAttempts

\* verifyOtp and confirmPasswordReset read the newest open challenge: it has
\* expired or allows no more attempts, or the code is wrong, or it is right.
ReadChallenge(c, p, goal) ==
  /\ At(c, "idle")
  /\ \E i \in Challenges, found \in {"spent", "wrong", "right"} :
       /\ Newest(p, i)
       /\ found = "spent" \/ Allows(i)
       /\ Goes(c, [pc |-> found, purpose |-> goal, challenge |-> i, status |-> "none"])
  /\ UNCHANGED <<account, challenge, session>>

Consume(c) == challenge' = [challenge EXCEPT ![call[c].challenge].consumed = TRUE]

ConsumeSpent(c) ==
  /\ At(c, "spent")
  /\ Consume(c)
  /\ Goes(c, IdleCall)
  /\ UNCHANGED <<account, session>>

CountFailure(c) ==
  /\ At(c, "wrong")
  /\ challenge' = [challenge EXCEPT ![call[c].challenge].attempts = @ + 1]
  /\ Goes(c, IdleCall)
  /\ UNCHANGED <<account, session>>

\* Written by id: of two calls with the right code both go on.
ConsumeRight(c) ==
  /\ At(c, "right")
  /\ Consume(c)
  /\ Goes(c, To(call[c].purpose, "none"))
  /\ UNCHANGED <<account, session>>

-----------------------------------------------------------------------------
(* verifyOtp and confirmPasswordReset, after the code *)

\* Mutant of VerifiedStatus: business roles are activated as well.
VerifiedStatusOfAll == IF account.status = "PENDING" THEN "ACTIVE" ELSE account.status

VerifiedStatus ==
  IF ~account.business /\ account.status = "PENDING" THEN "ACTIVE" ELSE account.status

ReadVerified(c) ==
  /\ At(c, "verify") /\ Found
  /\ Goes(c, To("verified", VerifiedStatus))
  /\ UNCHANGED <<account, challenge, session>>

\* The status computed from the read, whatever it has become.
WriteVerified(c) ==
  /\ At(c, "verified")
  /\ account' = [account EXCEPT !.status = call[c].status, !.verified = TRUE]
  /\ Goes(c, IdleCall)
  /\ UNCHANGED <<challenge, session>>

\* The new password is written, then all sessions end.
ReadReset(c) ==
  /\ At(c, "reset") /\ Found
  /\ Goes(c, To("revoke", "none"))
  /\ UNCHANGED <<account, challenge, session>>

RevokeAllUserSessions(c) ==
  /\ At(c, "revoke")
  /\ session' = FALSE
  /\ Goes(c, IdleCall)
  /\ UNCHANGED <<account, challenge>>

-----------------------------------------------------------------------------
(* Sessions *)

\* Mutant of MayLogIn: suspended accounts are let in.
MayLogInSuspended ==
  /\ Found /\ account.verified
  /\ account.status \notin {"REJECTED", "DEACTIVATED"}
  /\ account.business => account.status # "PENDING"

MayLogIn ==
  /\ Found /\ account.verified
  /\ account.status \notin Ended
  /\ account.business => account.status # "PENDING"

LogIn(c) ==
  /\ At(c, "idle") /\ MayLogIn
  /\ Goes(c, To("session", "none"))
  /\ UNCHANGED <<account, challenge, session>>

\* acceptInvitation asks of an account no more than this: neither the e-mail
\* nor the approval of a business.  (An acceptance for which no account is found
\* always fails: AcceptNew of EventOrganizers.)  invited records the acceptance;
\* the session goes through another connection and is there before it commits.
AcceptInvitation(c) ==
  /\ At(c, "idle") /\ Found /\ account.status \notin {"SUSPENDED", "DEACTIVATED"}
  /\ account' = [account EXCEPT !.invited = TRUE]
  /\ Goes(c, To("invited", "none"))
  /\ UNCHANGED <<challenge, session>>

GenerateTokens(c) ==
  /\ At(c, "session") \/ At(c, "invited")
  /\ session' = TRUE
  /\ Goes(c, IdleCall)
  /\ UNCHANGED <<account, challenge>>

\* A refresh by an account that has ended ends its sessions.
RefreshEnded(c) ==
  /\ At(c, "idle") /\ session
  /\ account.deleted \/ account.status \in Ended
  /\ Goes(c, To("revoke", "none"))
  /\ UNCHANGED <<account, challenge, session>>

\* Any other has passed the check of the status, and gets a new token if its
\* old one is live when it is claimed.  A revocation waits for the claimed row
\* and does not see the token that is inserted beside it.
ReadRefresh(c) ==
  /\ At(c, "idle") /\ session
  /\ ~account.deleted /\ account.status \notin Ended
  /\ Goes(c, To("rotate", "none"))
  /\ UNCHANGED <<account, challenge, session>>

ClaimRefresh(c) ==
  /\ At(c, "rotate") /\ session
  /\ Goes(c, To("session", "none"))
  /\ UNCHANGED <<account, challenge, session>>

\* The last session is logged out, or its family is revoked because a spent
\* token came back.
LogoutLast(c) ==
  /\ At(c, "idle") /\ session
  /\ session' = FALSE
  /\ UNCHANGED <<account, challenge, call>>

\* DELETE /users/me.
SoftDelete(c) ==
  /\ At(c, "idle") /\ Found
  /\ account' = [account EXCEPT !.deleted = TRUE]
  /\ UNCHANGED <<challenge, session, call>>

-----------------------------------------------------------------------------
(* Google sign-in *)

\* The checks that end handleGoogleCallback, on the user it has in memory.
Admits(status) ==
  To(IF status \in Ended THEN "idle" ELSE IF status = "PENDING" THEN "activate" ELSE "session",
     "none")

\* The state has been traded for the profile: the account Google's identifier
\* is linked to (deleted or not), or else the one with the address, or none.
GoogleLookUp(c) ==
  /\ At(c, "idle")
  /\ \/ account.linked /\ Goes(c, Admits(account.status))
     \/ /\ ~account.linked /\ Found /\ ~account.business
        /\ Goes(c, To("link", account.status))
     \/ ~account.linked /\ ~Found /\ Goes(c, To("new", "none"))
  /\ UNCHANGED <<account, challenge, session>>

GoogleLink(c) ==
  /\ At(c, "link") /\ ~account.linked
  /\ account' = [account EXCEPT !.linked = TRUE]
  /\ Goes(c, To("linked", call[c].status))
  /\ UNCHANGED <<challenge, session>>

\* The status read before the link, or ACTIVE for PENDING.
GoogleWriteLinked(c) ==
  LET status == IF call[c].status = "PENDING" THEN "ACTIVE" ELSE call[c].status IN
  /\ At(c, "linked")
  /\ account' = [account EXCEPT !.status = status, !.verified = TRUE]
  /\ Goes(c, Admits(status))
  /\ UNCHANGED <<challenge, session>>

GoogleCreate(c) ==
  /\ At(c, "new") /\ account.status = "none"
  /\ account' = [account EXCEPT !.status = "ACTIVE", !.verified = TRUE, !.linked = TRUE]
  /\ Goes(c, Admits("ACTIVE"))
  /\ UNCHANGED <<challenge, session>>

GoogleActivate(c) ==
  /\ At(c, "activate")
  /\ account' = [account EXCEPT !.status = "ACTIVE", !.verified = TRUE]
  /\ Goes(c, Admits("ACTIVE"))
  /\ UNCHANGED <<challenge, session>>

-----------------------------------------------------------------------------
(* Administrators: a status is read, and the new one is written with what    *)
(* goes with it.                                                             *)

Decides(c, status) ==
  /\ At(c, "idle")
  /\ Goes(c, To("decide", status))
  /\ UNCHANGED <<account, challenge, session>>

\* The approvals service handles business accounts only.
InReview(status) == Found /\ account.business /\ account.status = status

ApproveAccount(c) == InReview("PENDING") /\ account.verified /\ Decides(c, "ACTIVE")
RejectAccount(c) == InReview("PENDING") /\ Decides(c, "REJECTED")
SuspendAccount(c) == InReview("ACTIVE") /\ Decides(c, "SUSPENDED")
ReactivateAccount(c) ==
  \/ InReview("SUSPENDED") /\ Decides(c, "ACTIVE")
  \/ InReview("REJECTED") /\ Decides(c, "PENDING")

\* The users service looks neither at the role nor at deletedAt.
ActivateUser(c) == account.status # "none" /\ Decides(c, "ACTIVE")
SuspendUser(c) == account.status # "none" /\ Decides(c, "SUSPENDED")
ReactivateUser(c) == account.status \in {"SUSPENDED", "REJECTED"} /\ Decides(c, "ACTIVE")
DeactivateUser(c) == account.status # "none" /\ Decides(c, "DEACTIVATED")

\* One transaction: the row, and the sessions of a suspended or deactivated
\* account.  decided records that an administrator once made it ACTIVE.
WriteDecision(c) ==
  LET status == call[c].status IN
  /\ At(c, "decide")
  /\ account' = [account EXCEPT !.status = status,
                                !.deleted = @ \/ status = "DEACTIVATED",
                                !.decided = @ \/ status = "ACTIVE"]
  /\ session' = (session /\ status \notin {"SUSPENDED", "DEACTIVATED"})
  /\ Goes(c, IdleCall)
  /\ UNCHANGED challenge

GiveUp(c) ==
  /\ ~At(c, "idle")
  /\ Goes(c, IdleCall)
  /\ UNCHANGED <<account, challenge, session>>

-----------------------------------------------------------------------------
Registration(c) == Register(c) \/ RegisterBusiness(c)

Codes(c) ==
  \/ \E p \in Purposes : RequestOtp(c, p) \/ ReadChallenge(c, p, IF p = Email THEN "verify" ELSE "idle")
  \/ RequestPasswordReset(c) \/ ReadChallenge(c, Password, "reset")
  \/ InvalidateOlder(c) \/ CreateChallenge(c)
  \/ ConsumeSpent(c) \/ CountFailure(c) \/ ConsumeRight(c)
  \/ ReadVerified(c) \/ WriteVerified(c) \/ ReadReset(c)

Sessions(c) ==
  \/ LogIn(c) \/ GenerateTokens(c) \/ LogoutLast(c) \/ RevokeAllUserSessions(c)
  \/ ReadRefresh(c) \/ ClaimRefresh(c) \/ RefreshEnded(c) \/ AcceptInvitation(c)

Google(c) ==
  GoogleLookUp(c) \/ GoogleLink(c) \/ GoogleWriteLinked(c) \/ GoogleCreate(c) \/ GoogleActivate(c)

Administration(c) ==
  \/ ApproveAccount(c) \/ RejectAccount(c) \/ SuspendAccount(c) \/ ReactivateAccount(c)
  \/ ActivateUser(c) \/ SuspendUser(c) \/ ReactivateUser(c) \/ DeactivateUser(c)
  \/ WriteDecision(c)

AccountNext ==
  \E c \in Calls : Registration(c) \/ Codes(c) \/ Sessions(c) \/ Google(c) \/ SoftDelete(c)
                   \/ Administration(c) \/ GiveUp(c)

AccountSpec == AccountInit /\ [][AccountNext]_accountVars

-----------------------------------------------------------------------------
(* Properties *)

\* Type invariant.
AccountTypeOK ==
  /\ account \in [status : Statuses \cup {"none"}, business : BOOLEAN, verified : BOOLEAN,
                  deleted : BOOLEAN, linked : BOOLEAN, decided : BOOLEAN,
                  invited : BOOLEAN]
  /\ challenge \in [Challenges ->
       [purpose : Purposes \cup {"none"}, attempts : Nat, consumed : BOOLEAN]]
  /\ session \in BOOLEAN
  /\ call \in [Calls ->
       [pc : {"idle", "invalidate", "create", "spent", "wrong", "right", "verify", "verified",
              "reset", "revoke", "session", "invited", "rotate", "link", "linked", "new", "activate", "decide"},
        purpose : Purposes \cup {"none", "verify", "reset", "idle"},
        challenge : Challenges \cup {0}, status : Statuses \cup {"none"}]]

\* A business is shown to the public only after an administrator has made the
\* account ACTIVE, and signed in only after that or after it accepted an organizer
\* invitation: no verification, login, refresh, Google sign-in or stale write of
\* theirs gets round the approval, the invitation alone does.
BusinessNeedsDecision ==
  account.business =>
    /\ account.status = "ACTIVE" => account.decided
    /\ session => account.decided \/ account.invited

\* The calls that guess at a challenge beyond its limit are those that had
\* already read it: at most one for each of the other concurrent calls.
GuessesBounded ==
  \A i \in Challenges : challenge[i].attempts <= MaxAttempts + Cardinality(Calls) - 1

\* The calls on their way to let an account in: they passed the checks of its
\* status, or hold a status to write that is not an end.
LetsIn(c) ==
  \/ call[c].pc \in {"session", "invited", "rotate", "activate"}
  \/ call[c].pc \in {"verified", "link", "linked"} /\ call[c].status \notin Ended

\* While an account is suspended, rejected or deactivated no call begins to let
\* it in, by password, Google, refresh or code, except that one that is rejected
\* may accept an invitation: what else may still open a session or revive the
\* account had passed its checks before.
EndedStaysOut ==
  [][account.status \in Ended /\ account'.status \in Ended =>
       /\ \A c \in Calls : LetsIn(c)' =>
            \/ LetsIn(c)
            \/ account.status = "REJECTED" /\ call'[c].pc = "invited"
       /\ session' => session \/ \E c \in Calls : LetsIn(c)]_accountVars
=============================================================================
