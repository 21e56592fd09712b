------------------------ MODULE TokenRotationProofs ------------------------
(***************************************************************************)
(* Type correctness, OneLivePerFamily and EndsWhatItSaw, for any number of *)
(* tokens, of families and of concurrent requests.                         *)
(*                                                                         *)
(* OneLivePerFamily rests on the row lock a rotation holds from its claim  *)
(* to its commit: the row it will revoke is still live when its            *)
(* replacement appears.  EndsWhatItSaw rests on rows never losing their    *)
(* family nor coming back from revoked, so that what a request listed is   *)
(* covered by the UPDATE it runs later.                                    *)
(***************************************************************************)
EXTENDS TokenRotation, TLAPS

\* A rotation that has claimed its row holds its lock, and the row is live.
LockInv ==
  \A r \in Requests :
    /\ request[r].pc = "claim" => request[r].token \in Tokens
    /\ request[r].pc = "commit" => request[r].token \in locked /\ Live(request[r].token)

\* No two rotations hold the lock of one row.
LockAlone ==
  \A r, q \in Requests :
    request[r].pc = "commit" /\ request[q].pc = "commit"
      /\ request[r].token = request[q].token => r = q

\* What a request for a revocation knows at each of its steps.
Revocation == {"logout", "all"}
Knows(r) ==
  LET q == request[r] IN
  /\ q.pc = "blacklist" => q.kind \in Revocation
  /\ q.kind \in Revocation =>
       /\ q.pc \in {"snapshot", "apply", "blacklist", "done"}
       /\ q.seen \subseteq Present
       /\ q.kind = "logout" => q.token \in Present /\ q.seen \subseteq FamilyOf(q.token)
       /\ q.pc = "apply" =>
            \A t \in q.seen : row[t].status = "revoked" \/ t \in q.snapshot
       /\ q.pc \in {"blacklist", "done"} => \A t \in q.seen : row[t].status = "revoked"
       /\ q.pc = "done" => q.seen \subseteq blacklist
RevocationInv == \A r \in Requests : Knows(r)

IndInv == TypeOK /\ OneLivePerFamily /\ LockInv /\ LockAlone /\ RevocationInv

-----------------------------------------------------------------------------
RequestRecords ==
  [pc : {"idle", "claim", "expire", "commit", "snapshot", "apply", "blacklist", "done"},
   kind : {"none", "rotation", "reuse", "expiry", "user", "logout", "all"},
   token : Tokens \cup {None}, seen : SUBSET Tokens, snapshot : SUBSET Tokens]

\* A request that is done is still of its type.
LEMMA DoneTyped ==
  ASSUME TypeOK, NEW r \in Requests, request' = [request EXCEPT ![r].pc = "done"]
  PROVE  request' \in [Requests -> RequestRecords]
<1>1. request \in [Requests -> RequestRecords]
  BY DEF TypeOK, RequestRecords
<1>2. \A q \in RequestRecords : [q EXCEPT !.pc = "done"] \in RequestRecords
  BY DEF RequestRecords
<1>3. request' = [request EXCEPT ![r] = [request[r] EXCEPT !.pc = "done"]]
  BY <1>1
<1> QED BY <1>1, <1>2, <1>3

\* The initial state satisfies the inductive invariant.
LEMMA InitIndInv == Init => IndInv
<1> SUFFICES ASSUME Init PROVE IndInv
  OBVIOUS
<1>1. TypeOK
  BY DEF Init, IdleRequest, TypeOK
<1>2. OneLivePerFamily /\ LockInv /\ LockAlone
  BY DEF Init, IdleRequest, OneLivePerFamily, LockInv, LockAlone, Present, Live
<1>3. RevocationInv
  BY DEF Init, IdleRequest, RevocationInv, Knows, Revocation
<1> QED BY <1>1, <1>2, <1>3 DEF IndInv

\* How one step may change the rows: a row appears, or it is revoked.
RowsGrow ==
  \A t \in Tokens :
    /\ row[t].status # "absent" => row'[t].status # "absent" /\ row'[t].family = row[t].family
    /\ row[t].status = "revoked" => row'[t].status = "revoked"

\* What a revocation knows survives the steps of others.
LEMMA KnowsKept ==
  ASSUME TypeOK, RowsGrow, blacklist \subseteq blacklist',
         NEW r \in Requests, request'[r] = request[r], Knows(r)
  PROVE  Knows(r)'
<1>1. Present \subseteq Present'
  BY DEF Present, RowsGrow
<1>2. \A t \in Present : FamilyOf(t) \subseteq FamilyOf(t)'
  BY DEF FamilyOf, Present, RowsGrow
<1> QED BY <1>1, <1>2 DEF Knows, Revocation, TypeOK, RowsGrow, Present

\* A step that takes request r to what it must know leaves RevocationInv true.
LEMMA RevocationKept ==
  ASSUME TypeOK, RevocationInv, RowsGrow, blacklist \subseteq blacklist',
         \A r \in Requests : request'[r] = request[r] \/ Knows(r)'
  PROVE  RevocationInv'
  BY KnowsKept DEF RevocationInv

\* A step that leaves the rows and the requests alone.
LEMMA Unmoved ==
  ASSUME IndInv, UNCHANGED <<row, locked, blacklist, request>>, TypeOK'
  PROVE  IndInv'
<1>1. RowsGrow
  BY DEF RowsGrow
<1>2. RevocationInv'
  BY <1>1, RevocationKept DEF IndInv
<1>3. OneLivePerFamily' /\ LockInv' /\ LockAlone'
  BY DEF IndInv, OneLivePerFamily, LockInv, LockAlone, Present, Live
<1> QED BY <1>2, <1>3 DEF IndInv

LEMMA ClockKeeps ==
  ASSUME IndInv, ChangeStatus \/ \E t \in Tokens : Expire(t)
  PROVE  IndInv'
<1>1. TypeOK' /\ UNCHANGED <<row, locked, blacklist, request>>
  BY DEF IndInv, TypeOK, Expire, ChangeStatus, Present
<1> QED BY <1>1, Unmoved

\* A login opens a family that no row has.
LEMMA LoginKeeps ==
  ASSUME IndInv, NEW t \in Tokens, NEW f \in Families, Login(t, f)
  PROVE  IndInv'
<1>1. TypeOK'
  BY DEF IndInv, TypeOK, Login
<1>2. RowsGrow
  BY DEF IndInv, TypeOK, Login, RowsGrow
<1>3. RevocationInv'
  BY <1>2, RevocationKept DEF IndInv, Login
<1>4. OneLivePerFamily'
  BY DEF IndInv, TypeOK, Login, OneLivePerFamily, Present, Live
<1>5. LockInv' /\ LockAlone'
  BY DEF IndInv, TypeOK, Login, LockInv, LockAlone, Live
<1> QED BY <1>1, <1>3, <1>4, <1>5 DEF IndInv

\* A step that opens or moves one request and leaves the rows alone.
LEMMA RequestMoved ==
  ASSUME IndInv, UNCHANGED <<row, blacklist>>, TypeOK', LockInv', LockAlone',
         \A r \in Requests : request'[r] = request[r] \/ Knows(r)'
  PROVE  IndInv'
<1>1. RowsGrow
  BY DEF RowsGrow
<1>2. RevocationInv'
  BY <1>1, RevocationKept DEF IndInv
<1>3. OneLivePerFamily'
  BY DEF IndInv, OneLivePerFamily, Present, Live
<1> QED BY <1>2, <1>3 DEF IndInv

LEMMA PresentTokenKeeps ==
  ASSUME IndInv, NEW r \in Requests, NEW t \in Tokens, PresentToken(r, t)
  PROVE  IndInv'
<1> DEFINE new == request'[r]
<1>1. /\ request' = [request EXCEPT ![r] = new]
      /\ new \in [pc : {"claim", "expire", "snapshot"}, kind : {"rotation", "reuse", "expiry", "user"},
                  token : {t}, seen : {{}}, snapshot : {{}}]
  <2>1. CASE ~Live(t)
    BY <2>1 DEF IndInv, TypeOK, PresentToken, IdleRequest
  <2>2. CASE Live(t) /\ t \in expired
    BY <2>2 DEF IndInv, TypeOK, PresentToken, IdleRequest
  <2>3. CASE Live(t) /\ t \notin expired /\ suspended
    BY <2>3 DEF IndInv, TypeOK, PresentToken, IdleRequest
  <2>4. CASE Live(t) /\ t \notin expired /\ ~suspended
    BY <2>4 DEF IndInv, TypeOK, PresentToken, IdleRequest
  <2> QED BY <2>1, <2>2, <2>3, <2>4
<1>2. UNCHANGED <<row, expired, locked, blacklist, suspended>>
  BY DEF PresentToken
<1> HIDE DEF new
<1>3. TypeOK'
  BY <1>1, <1>2 DEF IndInv, TypeOK
<1>4. LockInv' /\ LockAlone'
  BY <1>1, <1>2 DEF IndInv, TypeOK, LockInv, LockAlone, Live
<1>5. \A q \in Requests : request'[q] = request[q] \/ Knows(q)'
  BY <1>1 DEF IndInv, TypeOK, Knows, Revocation
<1> QED BY <1>2, <1>3, <1>4, <1>5, RequestMoved

\* A request for a revocation starts with what it lists.
LEMMA RevocationStarts ==
  ASSUME IndInv, NEW r \in Requests, NEW new,
         new \in [pc : {"snapshot"}, kind : Revocation, token : Tokens \cup {None},
                 seen : SUBSET Present, snapshot : {{}}],
         new.kind = "logout" => new.token \in Present /\ new.seen = FamilyOf(new.token),
         request' = [request EXCEPT ![r] = new],
         UNCHANGED <<row, expired, locked, blacklist, suspended>>
  PROVE  IndInv'
<1>1. Present \subseteq Tokens
  BY DEF Present
<1>2. TypeOK'
  <2>1. new \in [pc : {"snapshot"}, kind : {"logout", "all"}, token : Tokens \cup {None},
                seen : SUBSET Tokens, snapshot : {{}}]
    BY <1>1 DEF Revocation
  <2> QED BY <2>1 DEF IndInv, TypeOK
<1>3. LockInv' /\ LockAlone'
  BY DEF IndInv, TypeOK, LockInv, LockAlone, Live
<1>4. Knows(r)'
  BY DEF IndInv, TypeOK, Knows, Revocation, Present, FamilyOf
<1>5. \A q \in Requests : request'[q] = request[q] \/ Knows(q)'
  BY <1>4 DEF IndInv, TypeOK
<1> QED BY <1>2, <1>3, <1>5, RequestMoved

LEMMA LogoutKeeps ==
  ASSUME IndInv, NEW r \in Requests, NEW t \in Tokens, Logout(r, t)
  PROVE  IndInv'
<1> DEFINE new == request'[r]
<1>1. request' = [request EXCEPT ![r] = new]
  BY DEF IndInv, TypeOK, Logout
<1>2. FamilyOf(t) \subseteq Present
  BY DEF FamilyOf
<1>3. /\ new \in [pc : {"snapshot"}, kind : Revocation, token : Tokens \cup {None},
                  seen : SUBSET Present, snapshot : {{}}]
      /\ new.kind = "logout" => new.token \in Present /\ new.seen = FamilyOf(new.token)
  BY <1>2 DEF IndInv, TypeOK, Logout, IdleRequest, Revocation
<1>4. UNCHANGED <<row, expired, locked, blacklist, suspended>>
  BY DEF Logout
<1> HIDE DEF new
<1> QED BY <1>1, <1>3, <1>4, RevocationStarts

LEMMA RevokeAllKeeps ==
  ASSUME IndInv, NEW r \in Requests, RevokeAll(r)
  PROVE  IndInv'
<1> DEFINE new == request'[r]
<1>1. request' = [request EXCEPT ![r] = new]
  BY DEF IndInv, TypeOK, RevokeAll
<1>2. /\ new \in [pc : {"snapshot"}, kind : Revocation, token : Tokens \cup {None},
                  seen : SUBSET Present, snapshot : {{}}]
      /\ new.kind = "all"
  BY DEF IndInv, TypeOK, RevokeAll, IdleRequest, Revocation
<1>3. UNCHANGED <<row, expired, locked, blacklist, suspended>>
  BY DEF RevokeAll
<1> HIDE DEF new
<1> QED BY <1>1, <1>2, <1>3, RevocationStarts

\* A claim takes the lock of a live row that nobody has locked.
LEMMA ClaimKeeps ==
  ASSUME IndInv, NEW r \in Requests, Claim(r)
  PROVE  IndInv'
<1> DEFINE t == request[r].token
<1>1. request[r].pc = "claim" /\ t \in Tokens /\ t \notin locked
  BY DEF IndInv, LockInv, Claim
<1>2. request[r].kind \notin Revocation
  BY <1>1 DEF IndInv, RevocationInv, Knows
<1>3. UNCHANGED <<row, blacklist>>
  BY DEF Claim
<1>4. TypeOK'
  BY <1>1 DEF IndInv, TypeOK, Claim
<1>5. LockInv' /\ LockAlone'
  <2>1. CASE Live(t) /\ t \notin expired
    <3>1. locked' = locked \cup {t} /\ request' = [request EXCEPT ![r].pc = "commit"]
      BY <2>1 DEF Claim
    <3>2. \A q \in Requests : request[q].pc = "commit" => request[q].token # t
      BY <1>1 DEF IndInv, LockInv
    <3>3. \A q \in Requests : request'[q].token = request[q].token
                              /\ (q # r => request'[q] = request[q])
      BY <3>1 DEF IndInv, TypeOK
    <3> QED BY <1>1, <1>3, <2>1, <3>1, <3>2, <3>3 DEF IndInv, LockInv, LockAlone, Live
  <2>2. CASE ~(Live(t) /\ t \notin expired)
    <3>1. /\ UNCHANGED locked
          /\ request' = [request EXCEPT ![r].pc = "snapshot", ![r].kind = "reuse"]
      BY <2>2 DEF Claim
    <3>2. /\ request'[r].pc = "snapshot"
          /\ \A q \in Requests \ {r} : request'[q] = request[q]
      BY <3>1 DEF IndInv, TypeOK
    <3>3. LockInv'
      <4>1. \A q \in Requests : request'[q].pc \in {"claim", "commit"} => request'[q] = request[q]
        BY <3>2
      <4>2. UNCHANGED <<row, locked>>
        BY <1>3, <3>1
      <4> QED BY <4>1, <4>2 DEF IndInv, LockInv, Live
    <3>4. LockAlone'
      BY <3>2 DEF IndInv, LockAlone
    <3> QED BY <3>3, <3>4
  <2> QED BY <2>1, <2>2
<1>6. \A q \in Requests : request'[q] = request[q] \/ Knows(q)'
  BY <1>1, <1>2 DEF IndInv, TypeOK, Claim, Knows, Revocation
<1> QED BY <1>3, <1>4, <1>5, <1>6, RequestMoved

\* The rows a revocation will write cover what it listed.
LEMMA SnapshotKeeps ==
  ASSUME IndInv, NEW r \in Requests, Snapshot(r)
  PROVE  IndInv'
<1> DEFINE rows == request'[r].snapshot
<1>1. /\ request[r].pc = "snapshot"
      /\ request' = [request EXCEPT ![r].pc = "apply", ![r].snapshot = rows]
      /\ UNCHANGED <<row, expired, locked, blacklist, suspended>>
  BY DEF IndInv, TypeOK, Snapshot
<1>2. rows = IF request[r].kind \in {"all", "user"} THEN {t \in Present : Live(t)}
             ELSE FamilyOf(request[r].token)
  BY DEF IndInv, TypeOK, Snapshot
<1>3. rows \subseteq Tokens
  BY <1>2 DEF FamilyOf, Present
<1>4. request[r].kind \in Revocation =>
        \A t \in request[r].seen : row[t].status = "revoked" \/ t \in rows
  BY <1>2 DEF IndInv, TypeOK, RevocationInv, Knows, Revocation, Present, Live
<1> HIDE DEF rows
<1>5. TypeOK'
  <2>1. request' = [request EXCEPT ![r] = [request[r] EXCEPT !.pc = "apply", !.snapshot = rows]]
    BY <1>1 DEF IndInv, TypeOK
  <2> QED BY <1>1, <1>3, <2>1 DEF IndInv, TypeOK
<1>6. LockInv' /\ LockAlone'
  BY <1>1 DEF IndInv, TypeOK, LockInv, LockAlone, Live
<1>7. Knows(r)'
  BY <1>1, <1>4 DEF IndInv, TypeOK, RevocationInv, Knows, Revocation, Present, FamilyOf
<1>8. \A q \in Requests : request'[q] = request[q] \/ Knows(q)'
  BY <1>1, <1>7 DEF IndInv, TypeOK
<1> QED BY <1>1, <1>5, <1>6, <1>8, RequestMoved

LEMMA BlacklistKeeps ==
  ASSUME IndInv, NEW r \in Requests, BlacklistJtis(r)
  PROVE  IndInv'
<1>1. TypeOK' /\ UNCHANGED <<row, locked>>
  BY DEF IndInv, TypeOK, BlacklistJtis
<1>2. RowsGrow /\ blacklist \subseteq blacklist'
  BY DEF RowsGrow, BlacklistJtis
<1>3. Knows(r)'
  BY DEF IndInv, TypeOK, BlacklistJtis, RevocationInv, Knows, Revocation, Present, FamilyOf
<1>4. \A q \in Requests : request'[q] = request[q] \/ Knows(q)'
  BY <1>3 DEF IndInv, TypeOK, BlacklistJtis
<1>5. RevocationInv'
  BY <1>2, <1>4, RevocationKept DEF IndInv
<1>6. OneLivePerFamily' /\ LockInv' /\ LockAlone'
  BY <1>1 DEF IndInv, TypeOK, BlacklistJtis, OneLivePerFamily, LockInv, LockAlone, Present, Live
<1> QED BY <1>1, <1>5, <1>6 DEF IndInv

LEMMA LostKeeps ==
  ASSUME IndInv, NEW r \in Requests, Lost(r)
  PROVE  IndInv'
<1>1. TypeOK' /\ UNCHANGED <<row, blacklist>>
  BY DEF IndInv, TypeOK, Lost, IdleRequest
<1>2. LockInv' /\ LockAlone'
  BY DEF IndInv, TypeOK, Lost, IdleRequest, LockInv, LockAlone, Live
<1>3. \A q \in Requests : request'[q] = request[q] \/ Knows(q)'
  BY DEF IndInv, TypeOK, Lost, IdleRequest, Knows, Revocation
<1> QED BY <1>1, <1>2, <1>3, RequestMoved

\* The update of an expired row waits for the row's lock.
LEMMA RevokeExpiredKeeps ==
  ASSUME IndInv, NEW r \in Requests, RevokeExpired(r)
  PROVE  IndInv'
<1>1. TypeOK'
  <2>1. row' \in [Tokens -> [status : {"absent", "live", "revoked"}, family : Families \cup {None}]]
    BY DEF IndInv, TypeOK, RevokeExpired, Revoked
  <2>2. request' \in [Requests -> RequestRecords]
    BY DoneTyped DEF IndInv, RevokeExpired
  <2> QED BY <2>1, <2>2 DEF IndInv, TypeOK, RevokeExpired, RequestRecords
<1>2. RowsGrow
  BY DEF IndInv, TypeOK, RevokeExpired, Revoked, RowsGrow
<1>3. request[r].kind \notin Revocation
  BY DEF IndInv, RevocationInv, Knows, RevokeExpired
<1>4. \A q \in Requests : request'[q] = request[q] \/ Knows(q)'
  BY <1>3 DEF IndInv, TypeOK, RevokeExpired, Knows, Revocation
<1>5. RevocationInv'
  BY <1>2, <1>4, RevocationKept DEF IndInv, RevokeExpired
<1>6. OneLivePerFamily'
  BY DEF IndInv, TypeOK, RevokeExpired, Revoked, OneLivePerFamily, Present, Live
<1>7. LockInv' /\ LockAlone'
  BY DEF IndInv, TypeOK, RevokeExpired, Revoked, LockInv, LockAlone, Live
<1> QED BY <1>1, <1>5, <1>6, <1>7 DEF IndInv

\* The update of a revocation waits for the locks of its rows.
LEMMA ApplyKeeps ==
  ASSUME IndInv, NEW r \in Requests, Apply(r)
  PROVE  IndInv'
<1>1. TypeOK'
  <2>1. row' \in [Tokens -> [status : {"absent", "live", "revoked"}, family : Families \cup {None}]]
    BY DEF IndInv, TypeOK, Apply, Revoked
  <2> DEFINE next == IF request[r].kind \in {"logout", "all"} THEN "blacklist" ELSE "done"
  <2>2. request' = [request EXCEPT ![r].pc = next]
    BY DEF Apply
  <2>3. next \in {"blacklist", "done"} /\ request \in [Requests -> RequestRecords]
    BY DEF IndInv, TypeOK, RequestRecords
  <2> HIDE DEF next
  <2>4. request' \in [Requests -> RequestRecords]
    BY <2>2, <2>3 DEF RequestRecords
  <2> QED BY <2>1, <2>4 DEF IndInv, TypeOK, Apply, RequestRecords
<1>2. RowsGrow
  BY DEF IndInv, TypeOK, Apply, Revoked, RowsGrow
<1>3. Knows(r)'
  BY DEF IndInv, TypeOK, RevocationInv, Knows, Revocation, Apply, Revoked, Present, FamilyOf
<1>4. \A q \in Requests : request'[q] = request[q] \/ Knows(q)'
  BY <1>3 DEF IndInv, TypeOK, Apply
<1>5. RevocationInv'
  BY <1>2, <1>4, RevocationKept DEF IndInv, Apply
<1>6. OneLivePerFamily'
  BY DEF IndInv, TypeOK, Apply, Revoked, OneLivePerFamily, Present, Live
<1>7. LockInv' /\ LockAlone'
  BY DEF IndInv, TypeOK, Apply, Revoked, LockInv, LockAlone, Live
<1> QED BY <1>1, <1>5, <1>6, <1>7 DEF IndInv

\* The replacement is the family's one live row: the claimed row was.
LEMMA CommitKeeps ==
  ASSUME IndInv, NEW r \in Requests, NEW u \in Tokens, Commit(r, u)
  PROVE  IndInv'
<1> DEFINE t == request[r].token
<1>1. /\ request[r].pc = "commit" /\ t \in Tokens /\ Live(t) /\ row[u].status = "absent"
      /\ request[r].kind \notin Revocation
  BY DEF IndInv, TypeOK, LockInv, RevocationInv, Knows, Commit
<1>2. t # u /\ row' = [x \in Tokens |-> IF x = u THEN [status |-> "live", family |-> row[t].family]
                                       ELSE IF x = t THEN [row[t] EXCEPT !.status = "revoked"]
                                       ELSE row[x]]
  BY <1>1 DEF Commit, Revoked, Live
<1>3. /\ locked' = locked \ {t} /\ request' = [request EXCEPT ![r].pc = "done"]
      /\ UNCHANGED <<expired, blacklist, suspended>>
  BY DEF Commit
<1> HIDE DEF t
<1>4. TypeOK'
  <2>1. row' \in [Tokens -> [status : {"absent", "live", "revoked"}, family : Families \cup {None}]]
    BY <1>1, <1>2 DEF IndInv, TypeOK
  <2>2. request' \in [Requests -> RequestRecords]
    BY <1>3, DoneTyped DEF IndInv
  <2> QED BY <1>3, <2>1, <2>2 DEF IndInv, TypeOK, RequestRecords
<1>5. RowsGrow
  BY <1>1, <1>2 DEF IndInv, TypeOK, RowsGrow
<1>6. \A q \in Requests : request'[q] = request[q] \/ Knows(q)'
  BY <1>1, <1>3 DEF IndInv, TypeOK, Knows, Revocation
<1>7. RevocationInv'
  BY <1>3, <1>5, <1>6, RevocationKept DEF IndInv
<1>8. OneLivePerFamily'
  BY <1>1, <1>2 DEF IndInv, TypeOK, OneLivePerFamily, Present, Live
<1>9. LockInv' /\ LockAlone'
  <2>1. t = request[r].token
    BY DEF t
  <2> QED BY <1>1, <1>2, <1>3, <2>1 DEF IndInv, TypeOK, LockInv, LockAlone, Live
<1> QED BY <1>4, <1>7, <1>8, <1>9 DEF IndInv

-----------------------------------------------------------------------------
\* Every step keeps the inductive invariant.
LEMMA NextKeeps == IndInv /\ [Next]_vars => IndInv'
<1> SUFFICES ASSUME IndInv, [Next]_vars PROVE IndInv'
  OBVIOUS
<1>1. CASE UNCHANGED vars
  <2>1. TypeOK' /\ UNCHANGED <<row, locked, blacklist, request>>
    BY <1>1 DEF IndInv, TypeOK, vars
  <2> QED BY <2>1, Unmoved
<1>2. CASE ChangeStatus
  BY <1>2, ClockKeeps
<1>3. ASSUME NEW t \in Tokens, Expire(t) PROVE IndInv'
  BY <1>3, ClockKeeps
<1>4. ASSUME NEW t \in Tokens, NEW f \in Families, Login(t, f) PROVE IndInv'
  BY <1>4, LoginKeeps
<1>5. ASSUME NEW r \in Requests, NEW t \in Tokens,
             PresentToken(r, t) \/ Commit(r, t) \/ Logout(r, t)
      PROVE  IndInv'
  BY <1>5, PresentTokenKeeps, CommitKeeps, LogoutKeeps
<1>6. ASSUME NEW r \in Requests,
             \/ RevokeExpired(r) \/ Claim(r) \/ RevokeAll(r) \/ Snapshot(r) \/ Apply(r)
             \/ BlacklistJtis(r) \/ Lost(r)
      PROVE  IndInv'
  BY <1>6, RevokeExpiredKeeps, ClaimKeeps, RevokeAllKeeps, SnapshotKeeps, ApplyKeeps,
     BlacklistKeeps, LostKeeps
<1> QED BY <1>1, <1>2, <1>3, <1>4, <1>5, <1>6 DEF Next

LEMMA Invariance == Spec => []IndInv
  BY InitIndInv, NextKeeps, PTL DEF Spec

\* The rows and the requests stay of their types.
THEOREM TypeCorrect == Spec => []TypeOK
<1>1. IndInv => TypeOK
  BY DEF IndInv
<1> QED BY <1>1, Invariance, PTL

\* However many rotations of one token race, updateMany lets one through.
THEOREM OneSession == Spec => []OneLivePerFamily
<1>1. IndInv => OneLivePerFamily
  BY DEF IndInv
<1> QED BY <1>1, Invariance, PTL

\* A logout or a global revocation that returned has ended what it listed.
THEOREM RevocationWorks == Spec => []EndsWhatItSaw
<1>1. IndInv => EndsWhatItSaw
  BY DEF IndInv, RevocationInv, Knows, Revocation, EndsWhatItSaw
<1> QED BY <1>1, Invariance, PTL
=============================================================================
