--------------------------- MODULE AccountsProofs ---------------------------
(***************************************************************************)
(* No business gets in before an administrator's decision or an accepted   *)
(* invitation, the guesses at a code are bounded, and an ended account     *)
(* stays out, for any number of concurrent calls.                          *)
(*                                                                         *)
(* The argument: what a call remembers across its steps (an ACTIVE status  *)
(* to write, a session to open) was true when it was read, "decided" and   *)
(* "invited" never become false again; a Google link is an attendee's.     *)
(* For the guesses, the failures that are counted and those that are still *)
(* to be counted stay together below the bound.                            *)
(***************************************************************************)
EXTENDS Accounts, FiniteSetTheorems, TLAPS

\* What a call remembers of the account is true, or was decided.
Remembers(x) ==
  /\ x.pc \in {"verified", "link", "linked", "decide"} => x.status # "none"
  /\ x.pc \in {"invalidate", "create"} => x.purpose \in Purposes
  /\ x.pc \in {"spent", "wrong", "right"} =>
       x.challenge \in Challenges /\ x.purpose \in {"verify", "reset", "idle"}
  /\ account.status = "none" => x.pc \notin {"session", "invited", "rotate", "verified", "link", "linked", "activate"}
  /\ x.pc = "invited" => account.invited
  /\ account.business =>
       /\ x.pc \notin {"link", "linked", "activate"}
       /\ x.pc \in {"session", "rotate"} => account.decided \/ account.invited
       /\ x.pc = "verified" /\ x.status = "ACTIVE" => account.decided

CallsInv == \A c \in Calls : Remembers(call[c])

AccountInv ==
  /\ account.business =>
       /\ account.status = "ACTIVE" => account.decided
       /\ session => account.decided \/ account.invited
  /\ account.linked => ~account.business
  /\ account.status = "none" => ~account.business /\ ~account.linked /\ ~session

\* The calls that will count a failure of challenge i.
Pending(i) == {c \in Calls : call[c].pc = "wrong" /\ call[c].challenge = i}

GuessInv ==
  \A i \in Challenges :
    challenge[i].attempts + Cardinality(Pending(i)) <= MaxAttempts + Cardinality(Calls) - 1

DecisionInv == AccountTypeOK /\ CallsInv /\ AccountInv

AccountType == [status : Statuses \cup {"none"}, business : BOOLEAN, verified : BOOLEAN,
                deleted : BOOLEAN, linked : BOOLEAN, decided : BOOLEAN,
                invited : BOOLEAN]
ChallengeType == [Challenges -> [purpose : Purposes \cup {"none"}, attempts : Nat, consumed : BOOLEAN]]
CallType == [pc : {"idle", "invalidate", "create", "spent", "wrong", "right", "verify", "verified",
                   "reset", "revoke", "session", "invited", "rotate", "link", "linked", "new",
                   "activate", "decide"},
             purpose : Purposes \cup {"none", "verify", "reset", "idle"},
             challenge : Challenges \cup {0}, status : Statuses \cup {"none"}]

-----------------------------------------------------------------------------
\* The initial state satisfies both invariants.
LEMMA AccountInitInv == AccountInit => DecisionInv /\ GuessInv
<1> SUFFICES ASSUME AccountInit PROVE DecisionInv /\ GuessInv
  OBVIOUS
<1>1. DecisionInv
  BY DEF AccountInit, DecisionInv, AccountTypeOK, CallsInv, Remembers, AccountInv, IdleCall, To,
         Statuses, Ended, Challenges
<1>2. \A i \in Challenges : Pending(i) = {}
  BY DEF AccountInit, Pending, IdleCall, To
<1>3. Cardinality(Calls) \in Nat /\ Cardinality(Calls) # 0
  BY CallsAssumption, FS_CardinalityType, FS_EmptySet
<1>4. \A i \in Challenges : challenge[i].attempts = 0 /\ Cardinality(Pending(i)) = 0
  BY <1>2, FS_EmptySet DEF AccountInit
<1>5. GuessInv
  BY <1>3, <1>4, AttemptsAssumption DEF GuessInv
<1> QED BY <1>1, <1>5

-----------------------------------------------------------------------------
(* The approval *)

\* Where a call may go next.
LEMMA ToTypes ==
  /\ \A p \in Purposes, pc \in {"invalidate", "create"} :
       Issuing(pc, p) \in CallType /\ Issuing(pc, p).pc = pc /\ Issuing(pc, p).purpose = p
  /\ \A pc \in {"idle", "verify", "verified", "reset", "revoke", "session", "invited", "rotate", "link",
                "linked", "new", "activate", "decide"}, s \in Statuses \cup {"none"} :
       To(pc, s) \in CallType /\ To(pc, s).pc = pc /\ To(pc, s).status = s
  /\ IdleCall \in CallType /\ IdleCall.pc = "idle"
  /\ Email \in Purposes /\ Password \in Purposes
BY DEF Issuing, To, IdleCall, CallType, Purposes

\* A step of one call that writes the account as the invariant allows.
LEMMA CallStepKeeps ==
  ASSUME DecisionInv, NEW c \in Calls, NEW x \in CallType,
         call' = [call EXCEPT ![c] = x], Remembers(x)',
         account' \in AccountType, session' \in BOOLEAN, challenge' \in ChallengeType,
         \A y \in CallType : Remembers(y) => Remembers(y)', AccountInv'
  PROVE  DecisionInv'
<1>1. AccountTypeOK'
  BY DEF DecisionInv, AccountTypeOK, AccountType, ChallengeType, CallType
<1>2. \A d \in Calls : call'[d] = IF d = c THEN x ELSE call[d]
  BY DEF DecisionInv, AccountTypeOK
<1>3. ASSUME NEW d \in Calls PROVE Remembers(call[d])'
  <2>1. call[d] \in CallType /\ Remembers(call[d])
    BY DEF DecisionInv, AccountTypeOK, CallType, CallsInv
  <2>2. PICK y \in CallType : y = call'[d] /\ (y = x \/ Remembers(y))
    BY <1>2, <2>1
  <2> QED BY <2>2 DEF Remembers
<1> QED BY <1>1, <1>3 DEF DecisionInv, CallsInv

\* A step that leaves the account alone.
LEMMA ReadStepKeeps ==
  ASSUME DecisionInv, UNCHANGED <<account, session>>, NEW c \in Calls, NEW x \in CallType,
         call' = [call EXCEPT ![c] = x], Remembers(x), challenge' \in ChallengeType
  PROVE  DecisionInv'
<1>1. account' \in AccountType /\ session' \in BOOLEAN
  BY DEF DecisionInv, AccountTypeOK, AccountType
<1>2. Remembers(x)' /\ AccountInv' /\ \A y \in CallType : Remembers(y) => Remembers(y)'
  BY DEF DecisionInv, Remembers, AccountInv
<1> QED BY <1>1, <1>2, CallStepKeeps

LEMMA Typed ==
  ASSUME DecisionInv
  PROVE  /\ account \in AccountType /\ session \in BOOLEAN /\ challenge \in ChallengeType
         /\ \A c \in Calls : call[c] \in CallType /\ Remembers(call[c])
BY DEF DecisionInv, AccountTypeOK, AccountType, ChallengeType, CallType, CallsInv

LEMMA RegistrationKeeps ==
  ASSUME DecisionInv, NEW c \in Calls, Registration(c)
  PROVE  DecisionInv'
<1>1. PICK b \in BOOLEAN : Creates(c, b)
  BY DEF Registration, Register, RegisterBusiness
<1>2. /\ account' = [account EXCEPT !.status = "PENDING", !.business = b]
      /\ account.status = "none" /\ session' = session /\ challenge' = challenge
      /\ call' = [call EXCEPT ![c] = Issuing("invalidate", Email)]
  BY <1>1 DEF Creates, Goes
<1>3. /\ account' \in AccountType /\ account'.status = "PENDING" /\ account'.business = b
      /\ account'.linked = account.linked /\ account'.decided = account.decided /\ account'.invited = account.invited
  BY <1>2, Typed DEF AccountType, Statuses
<1>4. AccountInv' /\ \A y \in CallType : Remembers(y) => Remembers(y)'
  BY <1>2, <1>3 DEF DecisionInv, AccountInv, Remembers
<1>5. Remembers(Issuing("invalidate", Email))'
  BY ToTypes DEF Remembers
<1> QED BY <1>2, <1>3, <1>4, <1>5, Typed, ToTypes, CallStepKeeps

LEMMA CodesKeep ==
  ASSUME DecisionInv, NEW c \in Calls, Codes(c)
  PROVE  DecisionInv'
<1>i. Remembers(IdleCall) /\ \A p \in Purposes, pc \in {"invalidate", "create"} : Remembers(Issuing(pc, p))
  BY ToTypes DEF Remembers
<1>0. account \in AccountType /\ session \in BOOLEAN /\ challenge \in ChallengeType
  BY Typed
<1>1. ASSUME NEW p \in Purposes, RequestOtp(c, p) PROVE DecisionInv'
  BY <1>1, <1>i, <1>0, ToTypes, ReadStepKeeps DEF RequestOtp, Goes
<1>2. ASSUME NEW p \in Purposes, NEW goal \in {"verify", "reset", "idle"}, ReadChallenge(c, p, goal)
      PROVE  DecisionInv'
  <2>1. PICK i \in Challenges, found \in {"spent", "wrong", "right"} :
          call' = [call EXCEPT ![c] = [pc |-> found, purpose |-> goal, challenge |-> i, status |-> "none"]]
    BY <1>2 DEF ReadChallenge, Goes
  <2> DEFINE x == [pc |-> found, purpose |-> goal, challenge |-> i, status |-> "none"]
  <2>2. x \in CallType /\ Remembers(x)
    BY DEF CallType, Remembers
  <2> QED BY <1>2, <1>0, <2>1, <2>2, ReadStepKeeps DEF ReadChallenge
<1>3. CASE RequestPasswordReset(c)
  BY <1>3, <1>i, <1>0, ToTypes, ReadStepKeeps DEF RequestPasswordReset, Goes
<1>4. CASE InvalidateOlder(c)
  <2>1. call[c].purpose \in Purposes
    BY <1>4, Typed DEF InvalidateOlder, At, Remembers
  <2>2. challenge' \in ChallengeType
    BY <1>4, <1>0 DEF InvalidateOlder, ChallengeType
  <2>3. /\ UNCHANGED <<account, session>>
        /\ call' = [call EXCEPT ![c] = Issuing("create", call[c].purpose)]
    BY <1>4 DEF InvalidateOlder, Goes
  <2>4. /\ Issuing("create", call[c].purpose) \in CallType
        /\ Remembers(Issuing("create", call[c].purpose))
    BY <2>1, <1>i, ToTypes
  <2> QED BY <2>2, <2>3, <2>4, ReadStepKeeps
<1>5. CASE CreateChallenge(c)
  <2>1. call[c].purpose \in Purposes
    BY <1>5, Typed DEF CreateChallenge, At, Remembers
  <2>2. challenge' \in ChallengeType
    BY <1>5, <1>0, <2>1 DEF CreateChallenge, ChallengeType
  <2> QED BY <1>5, <1>i, <2>2, ToTypes, ReadStepKeeps DEF CreateChallenge, Goes
<1>6. CASE ConsumeSpent(c)
  <2>1. challenge' \in ChallengeType
    BY <1>6, <1>0 DEF ConsumeSpent, Consume, ChallengeType
  <2> QED BY <1>6, <1>i, <2>1, ToTypes, ReadStepKeeps DEF ConsumeSpent, Goes
<1>7. CASE CountFailure(c)
  <2>0. call[c].challenge \in Challenges
    BY <1>7, Typed DEF CountFailure, At, Remembers
  <2>1. challenge' \in ChallengeType
    BY <1>7, <1>0, <2>0 DEF CountFailure, ChallengeType
  <2> QED BY <1>7, <1>i, <2>1, ToTypes, ReadStepKeeps DEF CountFailure, Goes
<1>8. CASE ConsumeRight(c)
  <2>1. challenge' \in ChallengeType
    BY <1>8, <1>0 DEF ConsumeRight, Consume, ChallengeType
  <2>2. call[c].purpose \in {"verify", "reset", "idle"}
    BY <1>8, Typed DEF ConsumeRight, At, Remembers
  <2>3. To(call[c].purpose, "none") \in CallType /\ Remembers(To(call[c].purpose, "none"))
    BY <2>2, ToTypes DEF Remembers
  <2> QED BY <1>8, <2>1, <2>3, ReadStepKeeps DEF ConsumeRight, Goes
<1>9. CASE ReadVerified(c)
  <2>1. /\ VerifiedStatus \in Statuses /\ Found
        /\ account.business /\ VerifiedStatus = "ACTIVE" => account.status = "ACTIVE"
    BY <1>9, <1>0 DEF ReadVerified, VerifiedStatus, Found, AccountType, Statuses
  <2>2. To("verified", VerifiedStatus) \in CallType /\ Remembers(To("verified", VerifiedStatus))
    BY <2>1, ToTypes DEF DecisionInv, AccountInv, Remembers, Found, Statuses, Ended
  <2> QED BY <1>9, <1>0, <2>2, ReadStepKeeps DEF ReadVerified, Goes
<1>10. CASE WriteVerified(c)
  <2>1. /\ call[c].pc = "verified" /\ call[c].status \in Statuses /\ account.status # "none"
        /\ account.business /\ call[c].status = "ACTIVE" => account.decided
    BY <1>10, Typed DEF WriteVerified, At, Remembers, CallType
  <2>2. /\ account' \in AccountType /\ account'.status = call[c].status
        /\ account'.business = account.business /\ account'.linked = account.linked
        /\ account'.decided = account.decided /\ account'.invited = account.invited
    BY <1>10, <1>0, <2>1 DEF WriteVerified, AccountType
  <2>3. session' = session /\ challenge' = challenge /\ call' = [call EXCEPT ![c] = IdleCall]
    BY <1>10 DEF WriteVerified, Goes
  <2>4. AccountInv' /\ \A y \in CallType : Remembers(y) => Remembers(y)'
    BY <2>1, <2>2, <2>3 DEF DecisionInv, AccountInv, Remembers, Statuses, Ended
  <2>5. Remembers(IdleCall)'
    BY ToTypes DEF Remembers
  <2> QED BY <1>0, <2>2, <2>3, <2>4, <2>5, ToTypes, CallStepKeeps
<1>11. CASE ReadReset(c)
  <2>1. Remembers(To("revoke", "none")) /\ To("revoke", "none") \in CallType
    BY ToTypes DEF Remembers
  <2> QED BY <1>11, <1>0, <2>1, ReadStepKeeps DEF ReadReset, Goes
<1> QED BY <1>1, <1>2, <1>3, <1>4, <1>5, <1>6, <1>7, <1>8, <1>9, <1>10, <1>11, ToTypes DEF Codes

LEMMA SessionsKeep ==
  ASSUME DecisionInv, NEW c \in Calls, Sessions(c)
  PROVE  DecisionInv'
<1>0. account \in AccountType /\ session \in BOOLEAN /\ challenge \in ChallengeType
  BY Typed
<1>1. CASE LogIn(c)
  <2>1. account.status # "none" /\ (account.business => account.decided)
    BY <1>1, <1>0 DEF LogIn, MayLogIn, Found, AccountType, Statuses, Ended, DecisionInv, AccountInv
  <2>2. Remembers(To("session", "none")) /\ To("session", "none") \in CallType
    BY <2>1, ToTypes DEF Remembers
  <2> QED BY <1>1, <1>0, <2>2, ReadStepKeeps DEF LogIn, Goes
<1>2. CASE RefreshEnded(c)
  <2>1. Remembers(To("revoke", "none")) /\ To("revoke", "none") \in CallType
    BY ToTypes DEF Remembers
  <2> QED BY <1>2, <1>0, <2>1, ReadStepKeeps DEF RefreshEnded, Goes
<1>5. CASE ReadRefresh(c) \/ ClaimRefresh(c)
  <2>1. account.status # "none" /\ (account.business => account.decided \/ account.invited)
    BY <1>5 DEF ReadRefresh, ClaimRefresh, DecisionInv, AccountInv
  <2>2. PICK pc \in {"rotate", "session"} :
          UNCHANGED <<account, challenge, session>> /\ call' = [call EXCEPT ![c] = To(pc, "none")]
    BY <1>5 DEF ReadRefresh, ClaimRefresh, Goes
  <2>3. Remembers(To(pc, "none")) /\ To(pc, "none") \in CallType
    BY <2>1, ToTypes DEF Remembers
  <2> QED BY <1>0, <2>2, <2>3, ReadStepKeeps
<1>3. CASE LogoutLast(c)
  BY <1>3 DEF LogoutLast, DecisionInv, AccountTypeOK, CallsInv, Remembers, AccountInv
<1>4. CASE GenerateTokens(c) \/ RevokeAllUserSessions(c)
  <2>1. /\ account' = account /\ challenge' = challenge /\ session' \in BOOLEAN
        /\ call' = [call EXCEPT ![c] = IdleCall]
        /\ session' => session \/ call[c].pc \in {"session", "invited"}
    BY <1>4 DEF GenerateTokens, RevokeAllUserSessions, Goes, At
  <2>2. Remembers(call[c])
    BY Typed
  <2>3. AccountInv' /\ Remembers(IdleCall)' /\ \A y \in CallType : Remembers(y) => Remembers(y)'
    BY <2>1, <2>2, ToTypes DEF DecisionInv, AccountInv, Remembers
  <2>4. account' \in AccountType /\ challenge' \in ChallengeType
    BY <1>0, <2>1
  <2> QED BY <2>1, <2>3, <2>4, ToTypes, CallStepKeeps
<1>6. CASE AcceptInvitation(c)
  <2>1. /\ account' \in AccountType /\ account'.status = account.status
        /\ account'.business = account.business /\ account'.linked = account.linked
        /\ account'.decided = account.decided /\ account'.invited
    BY <1>6, <1>0 DEF AcceptInvitation, AccountType
  <2>2. /\ UNCHANGED <<challenge, session>> /\ account.status # "none"
        /\ call' = [call EXCEPT ![c] = To("invited", "none")]
    BY <1>6 DEF AcceptInvitation, Goes, Found
  <2>3. AccountInv' /\ \A y \in CallType : Remembers(y) => Remembers(y)'
    BY <2>1, <2>2 DEF DecisionInv, AccountInv, Remembers
  <2>4. To("invited", "none") \in CallType /\ Remembers(To("invited", "none"))'
    BY <2>1, <2>2, ToTypes DEF Remembers
  <2>5. session' \in BOOLEAN /\ challenge' \in ChallengeType
    BY <1>0, <2>2
  <2> QED BY <2>1, <2>2, <2>3, <2>4, <2>5, CallStepKeeps
<1> QED BY <1>1, <1>2, <1>3, <1>4, <1>5, <1>6 DEF Sessions

\* Google's writes: the account is an attendee's and stays one.
LEMMA GoogleWriteKeeps ==
  ASSUME DecisionInv, NEW c \in Calls, NEW x \in CallType, call' = [call EXCEPT ![c] = x],
         x.pc \in {"idle", "session", "activate", "linked"}, x.pc = "linked" => x.status # "none",
         UNCHANGED <<challenge, session>>, account' \in AccountType,
         ~account.business, ~account'.business, account'.status # "none",
         account'.invited = account.invited
  PROVE  DecisionInv'
<1>1. AccountInv' /\ Remembers(x)' /\ \A y \in CallType : Remembers(y) => Remembers(y)'
  BY DEF AccountInv, Remembers
<1>2. session' \in BOOLEAN /\ challenge' \in ChallengeType
  BY Typed
<1> QED BY <1>1, <1>2, CallStepKeeps

LEMMA AdmitsTypes ==
  \A s : Admits(s) \in CallType /\ Admits(s).pc \in {"idle", "activate", "session"}
BY ToTypes DEF Admits

LEMMA GoogleKeeps ==
  ASSUME DecisionInv, NEW c \in Calls, Google(c)
  PROVE  DecisionInv'
<1>0. account \in AccountType /\ session \in BOOLEAN /\ challenge \in ChallengeType
  BY Typed
<1>1. CASE GoogleLookUp(c)
  <2>1. CASE account.linked /\ Goes(c, Admits(account.status))
    <3>1. account.status # "none" /\ ~account.business
      BY <2>1 DEF DecisionInv, AccountInv
    <3>2. Remembers(Admits(account.status)) /\ Admits(account.status) \in CallType
      BY <3>1, AdmitsTypes DEF Remembers
    <3> QED BY <1>1, <1>0, <2>1, <3>2, ReadStepKeeps DEF GoogleLookUp, Goes
  <2>2. CASE /\ ~account.linked /\ Found /\ ~account.business
             /\ Goes(c, To("link", account.status))
    <3>1. Remembers(To("link", account.status)) /\ To("link", account.status) \in CallType
      BY <2>2, <1>0, ToTypes DEF Remembers, Found, AccountType
    <3> QED BY <1>1, <1>0, <2>2, <3>1, ReadStepKeeps DEF GoogleLookUp, Goes
  <2>3. CASE ~account.linked /\ ~Found /\ Goes(c, To("new", "none"))
    <3>1. Remembers(To("new", "none")) /\ To("new", "none") \in CallType
      BY ToTypes DEF Remembers
    <3> QED BY <1>1, <1>0, <2>3, <3>1, ReadStepKeeps DEF GoogleLookUp, Goes
  <2> QED BY <1>1, <2>1, <2>2, <2>3 DEF GoogleLookUp
<1>2. CASE GoogleLink(c)
  <2>1. /\ call[c].pc = "link" /\ call[c].status \in Statuses
        /\ ~account.business /\ account.status # "none"
    BY <1>2, Typed DEF GoogleLink, At, Remembers, CallType
  <2>2. /\ account' \in AccountType /\ account'.status = account.status
        /\ account'.business = account.business
        /\ account'.invited = account.invited
    BY <1>2, <1>0 DEF GoogleLink, AccountType
  <2>3. To("linked", call[c].status) \in CallType /\ To("linked", call[c].status).pc = "linked"
        /\ To("linked", call[c].status).status = call[c].status /\ call[c].status # "none"
    BY <2>1, ToTypes DEF Statuses, Ended
  <2> QED BY <1>2, <2>1, <2>2, <2>3, GoogleWriteKeeps DEF GoogleLink, Goes
<1>3. CASE GoogleWriteLinked(c)
  <2>1. call[c].pc = "linked" /\ call[c].status \in Statuses /\ ~account.business
    BY <1>3, Typed DEF GoogleWriteLinked, At, Remembers, CallType
  <2>2. PICK s \in Statuses :
          /\ account' = [account EXCEPT !.status = s, !.verified = TRUE]
          /\ call' = [call EXCEPT ![c] = Admits(s)]
    BY <1>3, <2>1 DEF GoogleWriteLinked, Goes, Statuses
  <2>3. account' \in AccountType /\ account'.status # "none" /\ account'.business = account.business
        /\ account'.invited = account.invited
    BY <1>0, <2>2 DEF AccountType, Statuses, Ended
  <2>4. UNCHANGED <<challenge, session>>
    BY <1>3 DEF GoogleWriteLinked
  <2> QED BY <2>1, <2>2, <2>3, <2>4, AdmitsTypes, GoogleWriteKeeps
<1>4. CASE GoogleCreate(c) \/ GoogleActivate(c)
  <2>1. ~account.business
    BY <1>4, Typed DEF GoogleCreate, GoogleActivate, At, Remembers, DecisionInv, AccountInv
  <2>2. account' \in AccountType /\ account'.status # "none" /\ account'.business = account.business
        /\ account'.invited = account.invited
    BY <1>4, <1>0 DEF GoogleCreate, GoogleActivate, AccountType, Statuses
  <2>3. UNCHANGED <<challenge, session>> /\ call' = [call EXCEPT ![c] = Admits("ACTIVE")]
    BY <1>4 DEF GoogleCreate, GoogleActivate, Goes
  <2> QED BY <2>1, <2>2, <2>3, AdmitsTypes, GoogleWriteKeeps
<1> QED BY <1>1, <1>2, <1>3, <1>4 DEF Google

\* An administrator's read: there is an account, and a status to write.
LEMMA AdministratorReads ==
  ASSUME NEW c \in Calls, Administration(c), ~WriteDecision(c)
  PROVE  /\ UNCHANGED <<account, challenge, session>>
         /\ \E s \in Statuses : call' = [call EXCEPT ![c] = To("decide", s)]
BY DEF Administration, ApproveAccount, RejectAccount, SuspendAccount, ReactivateAccount, ActivateUser,
       SuspendUser, ReactivateUser, DeactivateUser, Decides, Goes, Statuses, Ended

LEMMA AdministrationKeeps ==
  ASSUME DecisionInv, NEW c \in Calls, Administration(c)
  PROVE  DecisionInv'
<1>0. account \in AccountType /\ session \in BOOLEAN /\ challenge \in ChallengeType
  BY Typed
<1>1. CASE ~WriteDecision(c)
  <2>1. PICK s \in Statuses : call' = [call EXCEPT ![c] = To("decide", s)]
    BY <1>1, AdministratorReads
  <2>2. UNCHANGED <<account, challenge, session>>
    BY <1>1, AdministratorReads
  <2>3. Remembers(To("decide", s)) /\ To("decide", s) \in CallType
    BY ToTypes DEF Remembers, Statuses, Ended
  <2> QED BY <1>0, <2>1, <2>2, <2>3, ReadStepKeeps
<1>2. CASE WriteDecision(c)
  <2>1. call[c].pc = "decide" /\ call[c].status \in Statuses /\ call[c].status # "none"
    BY <1>2, Typed DEF WriteDecision, At, Remembers, CallType
  <2>2. /\ account' \in AccountType /\ account'.status = call[c].status
        /\ account'.business = account.business /\ account'.linked = account.linked
        /\ account.decided => account'.decided
        /\ account'.invited = account.invited
        /\ account'.status = "ACTIVE" => account'.decided
    BY <1>2, <1>0, <2>1 DEF WriteDecision, AccountType
  <2>3. /\ session' \in BOOLEAN /\ (session' => session) /\ challenge' = challenge
        /\ call' = [call EXCEPT ![c] = IdleCall]
    BY <1>2, <1>0 DEF WriteDecision, Goes
  <2>4. AccountInv'
    BY <2>1, <2>2, <2>3 DEF DecisionInv, AccountInv
  <2>5. Remembers(IdleCall)' /\ \A y \in CallType : Remembers(y) => Remembers(y)'
    BY <2>1, <2>2, ToTypes DEF Remembers
  <2> QED BY <1>0, <2>2, <2>3, <2>4, <2>5, ToTypes, CallStepKeeps
<1> QED BY <1>1, <1>2

LEMMA SoftDeleteKeeps ==
  ASSUME DecisionInv, NEW c \in Calls, SoftDelete(c)
  PROVE  DecisionInv'
<1>1. /\ account' \in AccountType /\ account'.status = account.status
      /\ account'.business = account.business /\ account'.linked = account.linked
      /\ account'.decided = account.decided /\ account'.invited = account.invited
  BY Typed DEF SoftDelete, AccountType
<1>2. UNCHANGED <<challenge, session, call>>
  BY DEF SoftDelete
<1>3. AccountTypeOK'
  BY <1>1, <1>2 DEF DecisionInv, AccountTypeOK, AccountType
<1> QED BY <1>1, <1>2, <1>3 DEF DecisionInv, AccountInv, CallsInv, Remembers

LEMMA GiveUpKeeps ==
  ASSUME DecisionInv, NEW c \in Calls, GiveUp(c)
  PROVE  DecisionInv'
<1>1. Remembers(IdleCall) /\ IdleCall \in CallType
  BY ToTypes DEF Remembers
<1> QED BY <1>1, Typed, ReadStepKeeps DEF GiveUp, Goes

\* Every step preserves the invariant of the approval.
LEMMA StepKeepsDecision == DecisionInv /\ [AccountNext]_accountVars => DecisionInv'
<1> SUFFICES ASSUME DecisionInv, [AccountNext]_accountVars PROVE DecisionInv'
  OBVIOUS
<1>1. CASE UNCHANGED accountVars
  BY <1>1 DEF accountVars, DecisionInv, AccountTypeOK, CallsInv, Remembers, AccountInv
<1>2. CASE AccountNext
  BY <1>2, RegistrationKeeps, CodesKeep, SessionsKeep, GoogleKeeps, SoftDeleteKeeps,
     AdministrationKeeps, GiveUpKeeps DEF AccountNext
<1> QED BY <1>1, <1>2

-----------------------------------------------------------------------------
\* AccountTypeOK holds in every reachable state: every call is a function of
\* what is stored, whatever the others do.
THEOREM AccountTypeCorrect == AccountSpec => []AccountTypeOK
<1>1. AccountInit => DecisionInv
  BY AccountInitInv
<1>2. DecisionInv => AccountTypeOK
  BY DEF DecisionInv
<1> QED BY <1>1, <1>2, StepKeepsDecision, PTL DEF AccountSpec

\* A business is active only after an administrator's decision, and signed in only
\* after that or an accepted invitation, for any number of concurrent calls.
THEOREM BusinessDecided == AccountSpec => []BusinessNeedsDecision
<1>1. AccountInit => DecisionInv
  BY AccountInitInv
<1>2. DecisionInv => BusinessNeedsDecision
  BY DEF DecisionInv, AccountInv, BusinessNeedsDecision
<1> QED BY <1>1, <1>2, StepKeepsDecision, PTL DEF AccountSpec

-----------------------------------------------------------------------------
(* The guesses *)

\* A call that is not about to count a failure leaves room for one more.
LEMMA PendingRoom ==
  ASSUME NEW i, NEW c \in Calls
  PROVE  /\ Cardinality(Pending(i)) \in Nat /\ Cardinality(Calls) \in Nat
         /\ c \notin Pending(i) =>
              /\ Cardinality(Pending(i)) + 1 <= Cardinality(Calls)
              /\ Cardinality(Pending(i) \cup {c}) = Cardinality(Pending(i)) + 1
         /\ c \in Pending(i) => Cardinality(Pending(i) \ {c}) = Cardinality(Pending(i)) - 1
<1>1. Pending(i) \subseteq Calls /\ IsFiniteSet(Pending(i)) /\ IsFiniteSet(Calls \ {c})
  BY CallsAssumption, FS_Subset DEF Pending
<1>2. ASSUME c \notin Pending(i) PROVE Cardinality(Pending(i)) + 1 <= Cardinality(Calls)
  <2>1. Pending(i) \subseteq Calls \ {c}
    BY <1>1, <1>2
  <2>2. Cardinality(Pending(i)) <= Cardinality(Calls \ {c})
    BY <1>1, <2>1, FS_Subset
  <2>3. Cardinality(Calls \ {c}) = Cardinality(Calls) - 1
    BY CallsAssumption, FS_RemoveElement
  <2> QED BY <1>1, <2>2, <2>3, CallsAssumption, FS_CardinalityType
<1> QED BY <1>1, <1>2, CallsAssumption, FS_CardinalityType, FS_AddElement, FS_RemoveElement

\* A step that counts nothing, and after which no further call will.
LEMMA QuietStep ==
  ASSUME DecisionInv, GuessInv,
         \A i \in Challenges : challenge'[i].attempts = challenge[i].attempts,
         \A i \in Challenges : Pending(i)' \subseteq Pending(i)
  PROVE  GuessInv'
<1> SUFFICES ASSUME NEW i \in Challenges
             PROVE  challenge'[i].attempts + Cardinality(Pending(i)') <= MaxAttempts + Cardinality(Calls) - 1
  BY DEF GuessInv
<1>1. IsFiniteSet(Pending(i))
  BY CallsAssumption, FS_Subset DEF Pending
<1>2. /\ Cardinality(Pending(i)') <= Cardinality(Pending(i))
      /\ Cardinality(Pending(i)') \in Nat /\ Cardinality(Pending(i)) \in Nat
  BY <1>1, FS_Subset, FS_CardinalityType
<1>3. challenge[i].attempts \in Nat /\ Cardinality(Calls) \in Nat
  BY Typed, CallsAssumption, FS_CardinalityType DEF ChallengeType
<1>4. challenge[i].attempts + Cardinality(Pending(i)) <= MaxAttempts + Cardinality(Calls) - 1
  BY DEF GuessInv
<1> QED BY <1>2, <1>3, <1>4, AttemptsAssumption

\* The call c goes to a state that is not "wrong".
LEMMA LeavesPending ==
  ASSUME DecisionInv, NEW c \in Calls, NEW x, call' = [call EXCEPT ![c] = x], x.pc # "wrong", NEW i
  PROVE  Pending(i)' \subseteq Pending(i)
BY DEF DecisionInv, AccountTypeOK, Pending

\* Only a read of a challenge that still allows a guess lets a call become
\* one of those that will count.
LEMMA ReadKeepsGuesses ==
  ASSUME DecisionInv, GuessInv, NEW c \in Calls, NEW p, NEW goal, ReadChallenge(c, p, goal)
  PROVE  GuessInv'
<1>1. PICK i \in Challenges, found \in {"spent", "wrong", "right"} :
        /\ found = "spent" \/ Allows(i)
        /\ call' = [call EXCEPT ![c] = [pc |-> found, purpose |-> goal, challenge |-> i, status |-> "none"]]
  BY DEF ReadChallenge, Goes
<1>2. call[c].pc = "idle" /\ challenge' = challenge
  BY DEF ReadChallenge, At
<1>3. CASE found # "wrong"
  <2> DEFINE x == [pc |-> found, purpose |-> goal, challenge |-> i, status |-> "none"]
  <2>1. x.pc # "wrong" /\ call' = [call EXCEPT ![c] = x]
    BY <1>1, <1>3
  <2> HIDE DEF x
  <2> QED BY <1>2, <2>1, QuietStep, LeavesPending
<1>4. CASE found = "wrong"
  <2>1. challenge[i].attempts < MaxAttempts
    BY <1>1, <1>4 DEF Allows
  <2>2. \A j : c \notin Pending(j)
    BY <1>2 DEF Pending
  <2>3. \A j : Pending(j)' = IF j = i THEN Pending(j) \cup {c} ELSE Pending(j)
    BY <1>1, <1>2, <1>4 DEF Pending, DecisionInv, AccountTypeOK
  <2>4. ASSUME NEW j \in Challenges
        PROVE  challenge'[j].attempts + Cardinality(Pending(j)') <= MaxAttempts + Cardinality(Calls) - 1
    <3>1. challenge[j].attempts \in Nat
      BY Typed DEF ChallengeType
    <3>2. challenge[j].attempts + Cardinality(Pending(j)) <= MaxAttempts + Cardinality(Calls) - 1
      BY DEF GuessInv
    <3>3. CASE j = i
      <4>1. /\ Cardinality(Pending(j)) + 1 <= Cardinality(Calls)
            /\ Cardinality(Pending(j)') = Cardinality(Pending(j)) + 1
            /\ Cardinality(Pending(j)) \in Nat /\ Cardinality(Calls) \in Nat
        BY <2>2, <2>3, <3>3, PendingRoom
      <4> QED BY <1>2, <2>1, <3>1, <3>3, <4>1, AttemptsAssumption
    <3>4. CASE j # i
      BY <1>2, <2>3, <3>2, <3>4
    <3> QED BY <3>3, <3>4
  <2> QED BY <2>4 DEF GuessInv
<1> QED BY <1>3, <1>4

\* A failure that is counted is no longer to be counted.
LEMMA CountKeepsGuesses ==
  ASSUME DecisionInv, GuessInv, NEW c \in Calls, CountFailure(c)
  PROVE  GuessInv'
<1> DEFINE i == call[c].challenge
<1>1. i \in Challenges /\ call[c].pc = "wrong" /\ challenge \in ChallengeType
  BY Typed DEF CountFailure, At, Remembers
<1>2. /\ call' = [call EXCEPT ![c] = IdleCall]
      /\ challenge' = [challenge EXCEPT ![i].attempts = challenge[i].attempts + 1]
  BY DEF CountFailure, Goes
<1>3. \A j : Pending(j)' = Pending(j) \ {c}
  BY <1>2, ToTypes DEF Pending, DecisionInv, AccountTypeOK
<1>4. c \in Pending(i) /\ \A j : j # i => c \notin Pending(j)
  BY <1>1 DEF Pending
<1>5. ASSUME NEW j \in Challenges
      PROVE  challenge'[j].attempts + Cardinality(Pending(j)') <= MaxAttempts + Cardinality(Calls) - 1
  <2>1. challenge[j].attempts \in Nat
    BY <1>1 DEF ChallengeType
  <2>2. challenge[j].attempts + Cardinality(Pending(j)) <= MaxAttempts + Cardinality(Calls) - 1
    BY DEF GuessInv
  <2>3. CASE j = i
    <3>1. challenge'[j].attempts = challenge[j].attempts + 1
      BY <1>1, <1>2, <2>3 DEF ChallengeType
    <3>2. Cardinality(Pending(j)') = Cardinality(Pending(j)) - 1 /\ Cardinality(Pending(j)) \in Nat
      BY <1>3, <1>4, <2>3, PendingRoom
    <3> QED BY <2>1, <2>2, <3>1, <3>2
  <2>4. CASE j # i
    <3>1. challenge'[j].attempts = challenge[j].attempts
      BY <1>1, <1>2, <2>4 DEF ChallengeType
    <3>2. Pending(j)' = Pending(j)
      BY <1>3, <1>4, <2>4
    <3> QED BY <2>2, <3>1, <3>2
  <2> QED BY <2>3, <2>4
<1> QED BY <1>5 DEF GuessInv

\* Every other step is quiet.
LEMMA OthersAreQuiet ==
  ASSUME DecisionInv, NEW c \in Calls,
         \/ Registration(c) \/ Sessions(c) \/ Google(c) \/ SoftDelete(c) \/ Administration(c) \/ GiveUp(c)
  PROVE  /\ challenge' = challenge
         /\ \/ call' = call
            \/ \E x : call' = [call EXCEPT ![c] = x] /\ x.pc # "wrong"
<1>1. \A pc, s : To(pc, s).pc = pc /\ Issuing(pc, s).pc = pc
  BY DEF To, Issuing
<1>2. IdleCall.pc # "wrong" /\ \A s : Admits(s).pc # "wrong"
  BY ToTypes, AdmitsTypes
<1>3. CASE Registration(c)
  BY <1>1, <1>3 DEF Registration, Register, RegisterBusiness, Creates, Goes
<1>4. CASE Sessions(c)
  BY <1>1, <1>2, <1>4 DEF Sessions, LogIn, AcceptInvitation, GenerateTokens, ReadRefresh, ClaimRefresh,
     RefreshEnded, LogoutLast, RevokeAllUserSessions, Goes
<1>5. CASE Google(c)
  BY <1>1, <1>2, <1>5 DEF Google, GoogleLookUp, GoogleLink, GoogleWriteLinked, GoogleCreate,
     GoogleActivate, Goes
<1>6. CASE SoftDelete(c)
  BY <1>6 DEF SoftDelete
<1>7. CASE Administration(c)
  <2>1. CASE WriteDecision(c)
    BY <1>2, <2>1 DEF WriteDecision, Goes
  <2>2. CASE ~WriteDecision(c)
    BY <1>1, <1>7, <2>2, AdministratorReads
  <2> QED BY <2>1, <2>2
<1>8. CASE GiveUp(c)
  BY <1>2, <1>8 DEF GiveUp, Goes
<1> QED BY <1>3, <1>4, <1>5, <1>6, <1>7, <1>8

LEMMA CodesKeepGuesses ==
  ASSUME DecisionInv, GuessInv, NEW c \in Calls, Codes(c)
  PROVE  GuessInv'
<1>1. \A pc, s : To(pc, s).pc = pc /\ Issuing(pc, s).pc = pc
  BY DEF To, Issuing
<1>2. IdleCall.pc # "wrong"
  BY ToTypes
<1>3. challenge \in ChallengeType
  BY Typed
<1>4. ASSUME NEW p, NEW goal, ReadChallenge(c, p, goal) PROVE GuessInv'
  BY <1>4, ReadKeepsGuesses
<1>5. CASE CountFailure(c)
  BY <1>5, CountKeepsGuesses
<1>6. CASE WriteVerified(c) \/ ReadVerified(c) \/ ReadReset(c) \/ RequestPasswordReset(c)
           \/ \E p \in Purposes : RequestOtp(c, p)
  <2>1. /\ challenge' = challenge
        /\ \E x : call' = [call EXCEPT ![c] = x] /\ x.pc # "wrong"
    BY <1>1, <1>2, <1>6 DEF WriteVerified, ReadVerified, ReadReset, RequestPasswordReset, RequestOtp, Goes
  <2> QED BY <2>1, QuietStep, LeavesPending
<1>7. CASE InvalidateOlder(c) \/ CreateChallenge(c) \/ ConsumeSpent(c) \/ ConsumeRight(c)
  <2>1. call[c].pc = "right" => call[c].purpose # "wrong"
    BY Typed DEF Remembers
  <2>2. \E x : call' = [call EXCEPT ![c] = x] /\ x.pc # "wrong"
    BY <1>1, <1>2, <1>7, <2>1 DEF InvalidateOlder, CreateChallenge, ConsumeSpent, ConsumeRight, Goes, At
  <2>3. \A i \in Challenges : challenge'[i].attempts = challenge[i].attempts
    BY <1>3, <1>7 DEF InvalidateOlder, CreateChallenge, ConsumeSpent, ConsumeRight, Consume, ChallengeType
  <2> QED BY <2>2, <2>3, QuietStep, LeavesPending
<1> QED BY <1>4, <1>5, <1>6, <1>7 DEF Codes

LEMMA StepKeepsGuesses == DecisionInv /\ GuessInv /\ [AccountNext]_accountVars => GuessInv'
<1> SUFFICES ASSUME DecisionInv, GuessInv, [AccountNext]_accountVars PROVE GuessInv'
  OBVIOUS
<1>1. CASE UNCHANGED accountVars
  BY <1>1 DEF accountVars, GuessInv, Pending
<1>2. ASSUME NEW c \in Calls, challenge' = challenge,
             \/ call' = call
             \/ \E x : call' = [call EXCEPT ![c] = x] /\ x.pc # "wrong"
      PROVE  GuessInv'
  <2>1. \A i : Pending(i)' \subseteq Pending(i)
    BY <1>2, LeavesPending DEF Pending
  <2> QED BY <1>2, <2>1, QuietStep
<1>3. CASE AccountNext
  BY <1>2, <1>3, OthersAreQuiet, CodesKeepGuesses DEF AccountNext
<1> QED BY <1>1, <1>3

\* The wrong codes counted at a challenge exceed its limit by no more than the
\* calls that had read it before the limit was reached.
THEOREM GuessesAreBounded == AccountSpec => []GuessesBounded
<1>1. AccountInit => DecisionInv /\ GuessInv
  BY AccountInitInv
<1>2. DecisionInv /\ GuessInv => GuessesBounded
  <2> SUFFICES ASSUME DecisionInv, GuessInv, NEW i \in Challenges
               PROVE  challenge[i].attempts <= MaxAttempts + Cardinality(Calls) - 1
    BY DEF GuessesBounded
  <2>1. challenge[i].attempts \in Nat
    BY Typed DEF ChallengeType
  <2>2. PICK c : c \in Calls
    BY CallsAssumption
  <2>3. Cardinality(Pending(i)) \in Nat /\ Cardinality(Calls) \in Nat
    BY <2>2, PendingRoom
  <2>4. challenge[i].attempts + Cardinality(Pending(i)) <= MaxAttempts + Cardinality(Calls) - 1
    BY DEF GuessInv
  <2> QED BY <2>1, <2>3, <2>4, AttemptsAssumption
<1> QED BY <1>1, <1>2, StepKeepsDecision, StepKeepsGuesses, PTL DEF AccountSpec

-----------------------------------------------------------------------------
(* Ended accounts *)

StaysOut ==
  account.status \in Ended /\ account'.status \in Ended =>
    /\ \A c \in Calls : LetsIn(c)' =>
         \/ LetsIn(c)
         \/ account.status = "REJECTED" /\ call'[c].pc = "invited"
    /\ session' => session \/ \E c \in Calls : LetsIn(c)

\* One call moves, and it was on its way in or does not set out.
LEMMA OneCallStaysOut ==
  ASSUME DecisionInv, NEW c \in Calls, NEW x, call' = [call EXCEPT ![c] = x],
         \/ LetsIn(c)
         \/ /\ x.pc \notin {"session", "invited", "rotate", "activate"}
            /\ x.pc \in {"verified", "link", "linked"} => x.status \in Ended,
         session' => session \/ LetsIn(c)
  PROVE  StaysOut
<1>1. \A d \in Calls : LetsIn(d)' => LetsIn(d)
  BY DEF DecisionInv, AccountTypeOK, LetsIn
<1> QED BY <1>1 DEF StaysOut

\* A step that lets nobody in: the call goes to a state that is none of those.
LEMMA HarmlessStaysOut ==
  ASSUME DecisionInv, NEW c \in Calls, NEW x, call' = [call EXCEPT ![c] = x],
         x.pc \notin {"session", "invited", "rotate", "activate", "verified", "link", "linked"},
         session' => session \/ LetsIn(c)
  PROVE  StaysOut
BY OneCallStaysOut

LEMMA CodesStayOut ==
  ASSUME DecisionInv, NEW c \in Calls, Codes(c)
  PROVE  StaysOut
<1>1. \A pc, s : To(pc, s).pc = pc /\ To(pc, s).status = s /\ Issuing(pc, s).pc = pc
  BY DEF To, Issuing
<1>2. IdleCall.pc = "idle"
  BY ToTypes
<1>3. ASSUME NEW p, NEW goal, ReadChallenge(c, p, goal) PROVE StaysOut
  <2>1. PICK i \in Challenges, found \in {"spent", "wrong", "right"} :
          call' = [call EXCEPT ![c] = [pc |-> found, purpose |-> goal, challenge |-> i, status |-> "none"]]
    BY <1>3 DEF ReadChallenge, Goes
  <2> DEFINE x == [pc |-> found, purpose |-> goal, challenge |-> i, status |-> "none"]
  <2>2. x.pc \notin {"session", "invited", "rotate", "activate", "verified", "link", "linked"} /\ session' = session
    BY <1>3 DEF ReadChallenge
  <2> QED BY <2>1, <2>2, HarmlessStaysOut
<1>4. CASE ReadVerified(c)
  <2>1. PICK x : /\ call' = [call EXCEPT ![c] = x] /\ session' = session
                 /\ x.pc = "verified" /\ x.status = VerifiedStatus
    <3> DEFINE y == To("verified", VerifiedStatus)
    <3>1. y.pc = "verified" /\ y.status = VerifiedStatus
      BY DEF To
    <3> HIDE DEF y
    <3>2. call' = [call EXCEPT ![c] = y] /\ session' = session
      BY <1>4 DEF ReadVerified, Goes, y
    <3> QED BY <3>1, <3>2
  <2>2. CASE account.status \in Ended
    <3>1. VerifiedStatus \in Ended
      BY <2>2 DEF VerifiedStatus, Ended
    <3> QED BY <1>1, <2>1, <3>1, OneCallStaysOut
  <2>3. CASE account.status \notin Ended
    BY <2>3 DEF StaysOut
  <2> QED BY <2>2, <2>3
<1>5. CASE ConsumeRight(c)
  <2>1. call[c].purpose \in {"verify", "reset", "idle"}
    BY <1>5, Typed DEF ConsumeRight, At, Remembers
  <2>2. call' = [call EXCEPT ![c] = To(call[c].purpose, "none")] /\ session' = session
    BY <1>5 DEF ConsumeRight, Goes
  <2> QED BY <1>1, <2>1, <2>2, HarmlessStaysOut
<1>6. ASSUME \/ InvalidateOlder(c) \/ CreateChallenge(c) \/ ConsumeSpent(c) \/ CountFailure(c)
             \/ WriteVerified(c) \/ ReadReset(c) \/ RequestPasswordReset(c)
             \/ \E p \in Purposes : RequestOtp(c, p)
      PROVE  StaysOut
  <2>1. PICK x : /\ call' = [call EXCEPT ![c] = x] /\ session' = session
                 /\ x.pc \in {"invalidate", "create", "idle", "revoke"}
    BY <1>1, <1>2, <1>6 DEF InvalidateOlder, CreateChallenge, ConsumeSpent, CountFailure,
       WriteVerified, ReadReset, RequestPasswordReset, RequestOtp, Goes
  <2> QED BY <2>1, HarmlessStaysOut
<1> QED BY <1>3, <1>4, <1>5, <1>6 DEF Codes

LEMMA GoogleStaysOut ==
  ASSUME DecisionInv, NEW c \in Calls, Google(c)
  PROVE  StaysOut
<1>1. \A pc, s : To(pc, s).pc = pc /\ To(pc, s).status = s
  BY DEF To
<1>2. \A s \in Ended : Admits(s).pc = "idle"
  BY <1>1 DEF Admits
<1>3. CASE GoogleLookUp(c)
  <2>1. PICK x : /\ call' = [call EXCEPT ![c] = x] /\ session' = session
                 /\ account.status \in Ended =>
                      /\ x.pc \in {"idle", "link", "new"}
                      /\ x.pc = "link" => x.status \in Ended
    BY <1>1, <1>2, <1>3 DEF GoogleLookUp, Goes
  <2>2. CASE account.status \in Ended
    BY <2>1, <2>2, OneCallStaysOut
  <2>3. CASE account.status \notin Ended
    BY <2>3 DEF StaysOut
  <2> QED BY <2>2, <2>3
<1>4. CASE GoogleLink(c)
  <2>1. PICK x : /\ call[c].pc = "link" /\ session' = session
                 /\ call' = [call EXCEPT ![c] = x]
                 /\ x.pc = "linked" /\ x.status = call[c].status
    <3> DEFINE y == To("linked", call[c].status)
    <3>1. y.pc = "linked" /\ y.status = call[c].status
      BY DEF To
    <3> HIDE DEF y
    <3>2. call[c].pc = "link" /\ call' = [call EXCEPT ![c] = y] /\ session' = session
      BY <1>4 DEF GoogleLink, At, Goes, y
    <3> QED BY <3>1, <3>2
  <2>2. CASE call[c].status \in Ended
    BY <1>1, <2>1, <2>2, OneCallStaysOut
  <2>3. CASE call[c].status \notin Ended
    BY <2>1, <2>3, OneCallStaysOut DEF LetsIn
  <2> QED BY <2>2, <2>3
<1>5. CASE GoogleWriteLinked(c)
  <2>1. call[c].pc = "linked" /\ account \in AccountType /\ session' = session
    BY <1>5, Typed DEF GoogleWriteLinked, At
  <2>2. PICK s : /\ account' = [account EXCEPT !.status = s, !.verified = TRUE]
                 /\ call' = [call EXCEPT ![c] = Admits(s)]
    BY <1>5 DEF GoogleWriteLinked, Goes
  <2>3. account'.status = s
    BY <2>1, <2>2 DEF AccountType
  <2>4. CASE s \in Ended
    BY <1>2, <2>1, <2>2, <2>4, HarmlessStaysOut
  <2>5. CASE s \notin Ended
    BY <2>3, <2>5 DEF StaysOut
  <2> QED BY <2>4, <2>5
<1>6. CASE GoogleCreate(c) \/ GoogleActivate(c)
  <2>1. account'.status = "ACTIVE"
    BY <1>6, Typed DEF GoogleCreate, GoogleActivate, AccountType
  <2> QED BY <2>1 DEF StaysOut, Ended
<1> QED BY <1>3, <1>4, <1>5, <1>6 DEF Google

LEMMA OthersStayOut ==
  ASSUME DecisionInv, NEW c \in Calls,
         Registration(c) \/ Sessions(c) \/ SoftDelete(c) \/ Administration(c) \/ GiveUp(c)
  PROVE  StaysOut
<1>1. \A pc, s : To(pc, s).pc = pc /\ Issuing(pc, s).pc = pc
  BY DEF To, Issuing
<1>2. IdleCall.pc = "idle" /\ account \in AccountType /\ session \in BOOLEAN
  BY ToTypes, Typed
<1>3. CASE Registration(c)
  BY <1>3 DEF Registration, Register, RegisterBusiness, Creates, StaysOut, Ended
<1>4. CASE SoftDelete(c) \/ LogoutLast(c)
  <2>1. call' = call /\ (session' => session)
    BY <1>4 DEF SoftDelete, LogoutLast
  <2> QED BY <2>1 DEF StaysOut, LetsIn
<1>5. CASE LogIn(c) \/ ReadRefresh(c)
  BY <1>5 DEF LogIn, MayLogIn, ReadRefresh, StaysOut
<1>9. CASE ClaimRefresh(c)
  <2>1. LetsIn(c) /\ session' = session
    BY <1>9 DEF ClaimRefresh, At, LetsIn
  <2>2. call' = [call EXCEPT ![c] = To("session", "none")]
    BY <1>9 DEF ClaimRefresh, Goes
  <2> QED BY <2>1, <2>2, OneCallStaysOut
<1>10. CASE AcceptInvitation(c)
  <2>1. call' = [call EXCEPT ![c] = To("invited", "none")] /\ session' = session
    BY <1>10 DEF AcceptInvitation, Goes
  <2>2. \A d \in Calls : LetsIn(d)' => LetsIn(d) \/ (d = c /\ call'[d].pc = "invited")
    BY <1>1, <2>1 DEF DecisionInv, AccountTypeOK, LetsIn
  <2>3. account.status \in Ended => account.status = "REJECTED"
    BY <1>10 DEF AcceptInvitation, Ended
  <2> QED BY <2>1, <2>2, <2>3 DEF StaysOut
<1>6. CASE GenerateTokens(c)
  <2>1. LetsIn(c) /\ call' = [call EXCEPT ![c] = IdleCall]
    BY <1>6 DEF GenerateTokens, At, LetsIn, Goes
  <2> QED BY <1>2, <2>1, HarmlessStaysOut
<1>7. CASE RevokeAllUserSessions(c) \/ RefreshEnded(c) \/ GiveUp(c) \/ WriteDecision(c)
  <2>1. PICK x : call' = [call EXCEPT ![c] = x] /\ x.pc \in {"idle", "revoke"} /\ (session' => session)
    BY <1>1, <1>2, <1>7 DEF RevokeAllUserSessions, RefreshEnded, GiveUp, WriteDecision, Goes
  <2> QED BY <2>1, HarmlessStaysOut
<1>8. CASE Administration(c) /\ ~WriteDecision(c)
  <2>1. PICK x : call' = [call EXCEPT ![c] = x] /\ x.pc = "decide" /\ session' = session
    BY <1>1, <1>8, AdministratorReads
  <2> QED BY <2>1, HarmlessStaysOut
<1> QED BY <1>3, <1>4, <1>5, <1>6, <1>7, <1>8, <1>9, <1>10 DEF Sessions

\* While an account is ended, only calls that had passed the checks before can
\* still let it in, and acceptances of an invitation while it is rejected, for any number of concurrent calls.
THEOREM EndedAccountsStayOut == AccountSpec => EndedStaysOut
<1>1. AccountInit => DecisionInv
  BY AccountInitInv
<1>2. DecisionInv /\ [AccountNext]_accountVars =>
        [account.status \in Ended /\ account'.status \in Ended =>
           /\ \A c \in Calls : LetsIn(c)' =>
                \/ LetsIn(c)
                \/ account.status = "REJECTED" /\ call'[c].pc = "invited"
           /\ session' => session \/ \E c \in Calls : LetsIn(c)]_accountVars
  <2> SUFFICES ASSUME DecisionInv, AccountNext PROVE StaysOut
    BY DEF StaysOut
  <2>1. PICK c \in Calls : \/ Codes(c) \/ Google(c) \/ Registration(c) \/ Sessions(c) \/ SoftDelete(c)
                           \/ Administration(c) \/ GiveUp(c)
    BY DEF AccountNext
  <2> QED BY <2>1, CodesStayOut, GoogleStaysOut, OthersStayOut
<1> QED BY <1>1, <1>2, StepKeepsDecision, PTL DEF AccountSpec, EndedStaysOut
=============================================================================
