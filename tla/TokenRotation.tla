--------------------------- MODULE TokenRotation ---------------------------
(***************************************************************************)
(* The refresh tokens of one user: login, rotation, and the three          *)
(* revocations (of a family after a reuse or a logout, of all sessions).   *)
(*                                                                         *)
(* PostgreSQL at READ COMMITTED: an UPDATE sees the rows committed when it *)
(* starts, waits for those another transaction has locked, and never sees  *)
(* a row that transaction inserts.  A revocation is therefore two actions, *)
(* Snapshot and Apply; a rotation locks its row in Claim until Commit.     *)
(***************************************************************************)
EXTENDS FiniteSets

CONSTANTS Tokens,    \* rows of refresh_tokens; each has an access token of its own
          Families, Requests, None

ASSUME NoneAssumption == None \notin Tokens \cup Families

VARIABLES row,        \* refresh_tokens: family, revokedAt
          expired,    \* tokens whose expiresAt has passed
          locked,     \* the rows a rotation's transaction has updated
          blacklist,  \* Redis: access tokens that are refused
          suspended,  \* TRUE when the user's status forbids a session
          request

vars == <<row, expired, locked, blacklist, suspended, request>>

IdleRequest == [pc |-> "idle", kind |-> "none", token |-> None, seen |-> {}, snapshot |-> {}]

Init ==
  /\ row = [t \in Tokens |-> [status |-> "absent", family |-> None]]
  /\ expired = {} /\ locked = {} /\ blacklist = {} /\ suspended = FALSE
  /\ request = [r \in Requests |-> IdleRequest]

Present == {t \in Tokens : row[t].status # "absent"}
Live(t) == row[t].status = "live"
FamilyOf(t) == {u \in Present : row[u].family = row[t].family}
Ready(r) == request[r].pc \in {"idle", "done"}
Revoked(set) == [t \in Tokens |-> IF t \in set THEN [row[t] EXCEPT !.status = "revoked"]
                                  ELSE row[t]]

-----------------------------------------------------------------------------
\* generateTokens, for a login: a new family.
Login(t, f) ==
  /\ row[t].status = "absent" /\ ~suspended
  /\ \A u \in Tokens : row[u].family # f
  /\ row' = [row EXCEPT ![t] = [status |-> "live", family |-> f]]
  /\ UNCHANGED <<expired, locked, blacklist, suspended, request>>

Expire(t) ==
  /\ t \in Present \ expired
  /\ expired' = expired \cup {t}
  /\ UNCHANGED <<row, locked, blacklist, suspended, request>>

\* An administrator suspends or reactivates the account.
ChangeStatus ==
  /\ suspended' = ~suspended
  /\ UNCHANGED <<row, expired, locked, blacklist, request>>

-----------------------------------------------------------------------------
(* rotateRefreshToken *)

\* The token is read once, and what was read decides the branch.
PresentToken(r, t) ==
  /\ Ready(r) /\ t \in Present
  /\ request' = [request EXCEPT ![r] =
       [IdleRequest EXCEPT !.token = t,
          !.pc = IF ~Live(t) THEN "snapshot" ELSE IF t \in expired THEN "expire"
                 ELSE IF suspended THEN "snapshot" ELSE "claim",
          !.kind = IF ~Live(t) THEN "reuse" ELSE IF t \in expired THEN "expiry"
                   ELSE IF suspended THEN "user" ELSE "rotation"]]
  /\ UNCHANGED <<row, expired, locked, blacklist, suspended>>

RevokeExpired(r) ==
  /\ request[r].pc = "expire" /\ request[r].token \notin locked
  /\ row' = Revoked({request[r].token})
  /\ request' = [request EXCEPT ![r].pc = "done"]
  /\ UNCHANGED <<expired, locked, blacklist, suspended>>

\* Mutant of Claim: the update does not ask that revokedAt be null.
ClaimUnconditional(r) ==
  /\ request[r].pc = "claim" /\ request[r].token \notin locked
  /\ locked' = locked \cup {request[r].token}
  /\ request' = [request EXCEPT ![r].pc = "commit"]
  /\ UNCHANGED <<row, expired, blacklist, suspended>>

\* updateMany where revokedAt is null and expiresAt > now; a request that
\* comes second waits for the row and finds it revoked.
Claim(r) ==
  LET t == request[r].token IN
  /\ request[r].pc = "claim" /\ t \notin locked
  /\ \/ /\ Live(t) /\ t \notin expired
        /\ locked' = locked \cup {t}
        /\ request' = [request EXCEPT ![r].pc = "commit"]
     \/ /\ ~Live(t) \/ t \in expired
        /\ request' = [request EXCEPT ![r].pc = "snapshot", ![r].kind = "reuse"]
        /\ UNCHANGED locked
  /\ UNCHANGED <<row, expired, blacklist, suspended>>

\* The old row is revoked and its replacement u appears, together.
Commit(r, u) ==
  LET t == request[r].token IN
  /\ request[r].pc = "commit" /\ row[u].status = "absent"
  /\ row' = [Revoked({t}) EXCEPT ![u] = [status |-> "live", family |-> row[t].family]]
  /\ locked' = locked \ {t}
  /\ request' = [request EXCEPT ![r].pc = "done"]
  /\ UNCHANGED <<expired, blacklist, suspended>>

-----------------------------------------------------------------------------
(* Revocation *)

\* revokeRefreshToken, for a logout, and revokeAllUserSessions: first the ids
\* of the access tokens are listed.
Logout(r, t) ==
  /\ Ready(r) /\ t \in Present
  /\ request' = [request EXCEPT ![r] =
       [IdleRequest EXCEPT !.pc = "snapshot", !.kind = "logout", !.token = t, !.seen = FamilyOf(t)]]
  /\ UNCHANGED <<row, expired, locked, blacklist, suspended>>

RevokeAll(r) ==
  /\ Ready(r)
  /\ request' = [request EXCEPT ![r] =
       [IdleRequest EXCEPT !.pc = "snapshot", !.kind = "all", !.seen = Present]]
  /\ UNCHANGED <<row, expired, locked, blacklist, suspended>>

\* The UPDATE starts: the rows it will write.
Snapshot(r) ==
  /\ request[r].pc = "snapshot"
  /\ request' = [request EXCEPT ![r].pc = "apply",
       ![r].snapshot = IF request[r].kind \in {"all", "user"} THEN {t \in Present : Live(t)}
                       ELSE FamilyOf(request[r].token)]
  /\ UNCHANGED <<row, expired, locked, blacklist, suspended>>

Apply(r) ==
  /\ request[r].pc = "apply" /\ request[r].snapshot \cap locked = {}
  /\ row' = Revoked(request[r].snapshot)
  /\ request' = [request EXCEPT ![r].pc =
                   IF request[r].kind \in {"logout", "all"} THEN "blacklist" ELSE "done"]
  /\ UNCHANGED <<expired, locked, blacklist, suspended>>

\* Mutant of BlacklistJtis: only the access token of the token presented.
BlacklistOwnJti(r) ==
  /\ request[r].pc = "blacklist"
  /\ blacklist' = blacklist \cup (request[r].seen \cap {request[r].token})
  /\ request' = [request EXCEPT ![r].pc = "done"]
  /\ UNCHANGED <<row, expired, locked, suspended>>

BlacklistJtis(r) ==
  /\ request[r].pc = "blacklist"
  /\ blacklist' = blacklist \cup request[r].seen
  /\ request' = [request EXCEPT ![r].pc = "done"]
  /\ UNCHANGED <<row, expired, locked, suspended>>

\* The process is lost; an open transaction rolls back.
Lost(r) ==
  /\ ~Ready(r)
  /\ request' = [request EXCEPT ![r] = IdleRequest]
  /\ locked' = IF request[r].pc = "commit" THEN locked \ {request[r].token} ELSE locked
  /\ UNCHANGED <<row, expired, blacklist, suspended>>

-----------------------------------------------------------------------------
Next ==
  \/ ChangeStatus
  \/ \E t \in Tokens : Expire(t) \/ \E f \in Families : Login(t, f)
  \/ \E r \in Requests :
       \/ \E t \in Tokens : PresentToken(r, t) \/ Commit(r, t) \/ Logout(r, t)
       \/ RevokeExpired(r) \/ Claim(r) \/ RevokeAll(r) \/ Snapshot(r) \/ Apply(r)
       \/ BlacklistJtis(r) \/ Lost(r)

Spec == Init /\ [][Next]_vars

-----------------------------------------------------------------------------
(* Properties *)

\* Type invariant.
TypeOK ==
  /\ row \in [Tokens -> [status : {"absent", "live", "revoked"}, family : Families \cup {None}]]
  /\ expired \subseteq Tokens /\ locked \subseteq Tokens /\ blacklist \subseteq Tokens
  /\ suspended \in BOOLEAN
  /\ request \in [Requests ->
       [pc : {"idle", "claim", "expire", "commit", "snapshot", "apply", "blacklist", "done"},
        kind : {"none", "rotation", "reuse", "expiry", "user", "logout", "all"},
        token : Tokens \cup {None}, seen : SUBSET Tokens, snapshot : SUBSET Tokens]]

\* However many requests present the same token at once, a family has one
\* live token: the conditional updateMany lets one rotation through.
OneLivePerFamily ==
  \A t, u \in Present : Live(t) /\ Live(u) /\ row[t].family = row[u].family => t = u

\* A logout, or a revocation of all sessions, that has returned ended every
\* session token it found: refresh token revoked, access token refused.
EndsWhatItSaw ==
  \A r \in Requests : request[r].pc = "done" /\ request[r].kind \in {"logout", "all"} =>
    \A t \in request[r].seen : row[t].status = "revoked" /\ t \in blacklist
=============================================================================
