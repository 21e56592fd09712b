---------------------------- MODULE EventsProofs ----------------------------
(***************************************************************************)
(* What is proved of the four components of an event, for any number of    *)
(* users, requests, sessions, venues, invitations and calls: registrations *)
(* within the capacity, an agenda broken only by overtaken writes,         *)
(* organisers with an account and its role, no ad without a decision.      *)
(***************************************************************************)
EXTENDS MCEvents, FiniteSetTheorems, TLAPS

\* A behaviour in which the four are side by side is one of each of them.
THEOREM EventsAreComponents ==
  EventsSpec => Spec /\ Agenda!Spec /\ Organizers!OrganizerSpec /\ Ads!AdSpec
<1>1. EventsInit => Init /\ Agenda!Init /\ Organizers!OrganizerInit /\ Ads!AdInit
  BY DEF EventsInit
<1>2. [EventsNext]_<<vars, agendaVars, organizerVars, adVars>> =>
        /\ [Next]_vars /\ [Agenda!Next]_(Agenda!vars)
        /\ [Organizers!OrganizerNext]_(Organizers!organizerVars) /\ [Ads!AdNext]_(Ads!adVars)
  BY DEF EventsNext, agendaVars, organizerVars, adVars, Agenda!vars, Organizers!organizerVars,
         Ads!adVars
<1> QED BY <1>1, <1>2, PTL DEF EventsSpec, Spec, Agenda!Spec, Organizers!OrganizerSpec, Ads!AdSpec

-----------------------------------------------------------------------------
(* The registrations.  Whatever changes the event's row waits for its      *)
(* lock, so that the checks of the request that holds it stay true until   *)
(* its commit - all but the end of the event, which may pass meanwhile -   *)
(* and what does not wait, the cancellations, only makes room.             *)

\* What the holder of the event's row checked is still so.
HolderInv ==
  locked # None =>
    /\ register[locked] \in Users \ Registered
    /\ event.status = "PUBLISHED" /\ ~event.deleted
    /\ HasRoom

\* A request for a new capacity names one.
ManageInv == \A m \in Managers : manage[m].kind = "capacity" => manage[m].capacity \in Capacities

RegistrationInv == TypeOK /\ HolderInv /\ ManageInv

-----------------------------------------------------------------------------
\* A set of users is finite, and a part of it is no larger.
LEMMA UsersCounted ==
  ASSUME NEW S \in SUBSET Users, NEW T \in SUBSET S, NEW u
  PROVE  /\ Cardinality(S) \in Nat
         /\ Cardinality(T) \in Nat /\ Cardinality(T) <= Cardinality(S)
         /\ Cardinality(S \cup {u}) \in Nat /\ Cardinality(S \cup {u}) <= Cardinality(S) + 1
<1>1. IsFiniteSet(S)
  BY UsersAssumption, FS_Subset
<1> QED BY <1>1, FS_Subset, FS_CardinalityType, FS_AddElement

\* Registrations that only become fewer keep the room there is.
LEMMA RoomKept ==
  ASSUME RegistrationInv, Registered' \subseteq Registered, UNCHANGED <<locked, register>>,
         locked # None => UNCHANGED event \/ event' = [event EXCEPT !.over = TRUE]
  PROVE  HolderInv'
<1>1. Cardinality(Registered') <= Cardinality(Registered)
      /\ Cardinality(Registered') \in Nat /\ Cardinality(Registered) \in Nat
  BY UsersCounted DEF Registered
<1>2. locked # None => /\ event'.status = event.status /\ event'.deleted = event.deleted
                       /\ event'.capacity = event.capacity
  BY DEF RegistrationInv, TypeOK
<1>3. event.capacity \in Nat
  BY CapacitiesAssumption DEF RegistrationInv, TypeOK
<1> QED BY <1>1, <1>2, <1>3 DEF RegistrationInv, HolderInv, HasRoom

\* The initial state satisfies the inductive invariant.
LEMMA RegistrationInit == Init => RegistrationInv
<1> SUFFICES ASSUME Init PROVE RegistrationInv
  OBVIOUS
<1>1. event \in [status : {"DRAFT", "PUBLISHED", "CANCELLED"}, capacity : Capacities,
                 deleted : BOOLEAN, over : BOOLEAN]
  BY DEF Init
<1>2. TypeOK /\ HolderInv /\ ManageInv
  BY <1>1 DEF Init, IdleManager, TypeOK, HolderInv, ManageInv
<1> QED BY <1>2 DEF RegistrationInv

\* The end of the event and the requests of others leave the lock alone.
LEMMA EndsKeeps ==
  ASSUME RegistrationInv, Ends \/ RequestLost
  PROVE  RegistrationInv'
<1>1. TypeOK'
  <2>1. CASE Ends
    BY <2>1 DEF RegistrationInv, TypeOK, Ends
  <2>2. CASE RequestLost
    <3>1. CASE UNCHANGED manage
      BY <2>2, <3>1 DEF RegistrationInv, TypeOK, RequestLost, IdleManager
    <3>2. CASE UNCHANGED cancel
      BY <2>2, <3>2 DEF RegistrationInv, TypeOK, RequestLost, IdleManager
    <3> QED BY <2>2, <3>1, <3>2 DEF RequestLost
  <2> QED BY <2>1, <2>2
<1>4. ManageInv'
  BY DEF RegistrationInv, TypeOK, ManageInv, Ends, RequestLost, IdleManager
<1>2. Registered' \subseteq Registered
  BY DEF Registered, Ends, RequestLost
<1>3. HolderInv'
  BY <1>2, RoomKept DEF Ends, RequestLost
<1> QED BY <1>1, <1>3, <1>4 DEF RegistrationInv

LEMMA RegisterLockKeeps ==
  ASSUME RegistrationInv, NEW r \in Registers, NEW u \in Users, RegisterLock(r, u)
  PROVE  RegistrationInv'
<1>1. TypeOK'
  BY DEF RegistrationInv, TypeOK, RegisterLock
<1>2. HolderInv'
  BY DEF RegistrationInv, TypeOK, HolderInv, RegisterLock, Registered, HasRoom
<1> QED BY <1>1, <1>2 DEF RegistrationInv, ManageInv, RegisterLock

LEMMA RegisterEndKeeps ==
  ASSUME RegistrationInv, NEW r \in Registers, RegisterCommit(r) \/ RegisterLost(r)
  PROVE  RegistrationInv'
<1>1. locked = r /\ locked # None
  BY NoneAssumption DEF RegisterCommit, RegisterLost
<1>2. register[r] \in Users
  BY <1>1 DEF RegistrationInv, HolderInv
<1>3. TypeOK'
  BY <1>2 DEF RegistrationInv, TypeOK, RegisterCommit, RegisterLost
<1>4. HolderInv'
  BY DEF HolderInv, RegisterCommit, RegisterLost
<1> QED BY <1>3, <1>4 DEF RegistrationInv, ManageInv, RegisterCommit, RegisterLost

\* A cancellation does not wait for the lock, and frees a place at most.
LEMMA CancelKeeps ==
  ASSUME RegistrationInv, NEW c \in Cancels,
         CancelCommit(c) \/ \E u \in Users : CancelRead(c, u)
  PROVE  RegistrationInv'
<1>1. TypeOK'
  BY DEF RegistrationInv, TypeOK, CancelCommit, CancelRead
<1>2. Registered' \subseteq Registered
  BY DEF RegistrationInv, TypeOK, Registered, CancelCommit, CancelRead
<1>3. HolderInv'
  BY <1>2, RoomKept DEF CancelCommit, CancelRead
<1> QED BY <1>1, <1>3 DEF RegistrationInv, ManageInv, CancelCommit, CancelRead

LEMMA ManageReadKeeps ==
  ASSUME RegistrationInv, NEW m \in Managers, NEW capacity \in Capacities \cup {0},
         NEW kind \in {"publish", "cancel", "capacity", "dates", "delete"},
         kind = "capacity" => capacity \in Capacities,
         ManageRead(m, kind, capacity)
  PROVE  RegistrationInv'
<1>1. TypeOK'
  BY DEF RegistrationInv, TypeOK, ManageRead
<1>2. HolderInv'
  BY RoomKept DEF ManageRead, Registered
<1>3. ManageInv'
  BY DEF RegistrationInv, TypeOK, ManageInv, ManageRead
<1> QED BY <1>1, <1>2, <1>3 DEF RegistrationInv

\* The writes to the event wait for the lock.
LEMMA ManageCommitKeeps ==
  ASSUME RegistrationInv, NEW m \in Managers, ManageCommit(m)
  PROVE  RegistrationInv'
<1>1. event' \in [status : {"DRAFT", "PUBLISHED", "CANCELLED"}, capacity : Capacities,
                  deleted : BOOLEAN, over : BOOLEAN]
  <2>1. CASE manage[m].kind = "publish"
    BY <2>1 DEF RegistrationInv, TypeOK, ManageCommit, Outcomes
  <2>2. CASE manage[m].kind = "cancel"
    BY <2>2 DEF RegistrationInv, TypeOK, ManageCommit, Outcomes
  <2>3. CASE manage[m].kind = "capacity"
    BY <2>3 DEF RegistrationInv, TypeOK, ManageInv, ManageCommit, Outcomes
  <2>4. CASE manage[m].kind = "dates"
    BY <2>4 DEF RegistrationInv, TypeOK, ManageCommit, Outcomes
  <2>5. CASE manage[m].kind = "delete"
    BY <2>5 DEF RegistrationInv, TypeOK, ManageCommit, Outcomes
  <2> QED BY <2>1, <2>2, <2>3, <2>4, <2>5 DEF RegistrationInv, TypeOK, ManageCommit
<1>2. TypeOK'
  BY <1>1 DEF RegistrationInv, TypeOK, ManageCommit, IdleManager
<1>3. HolderInv'
  BY DEF HolderInv, ManageCommit
<1>4. ManageInv'
  BY DEF RegistrationInv, TypeOK, ManageInv, ManageCommit, IdleManager
<1> QED BY <1>2, <1>3, <1>4 DEF RegistrationInv

LEMMA ModerateKeeps ==
  ASSUME RegistrationInv, NEW status \in {"PUBLISHED", "CANCELLED"}, Moderate(status)
  PROVE  RegistrationInv'
<1>1. TypeOK'
  BY DEF RegistrationInv, TypeOK, Moderate
<1>2. HolderInv'
  BY DEF HolderInv, Moderate
<1> QED BY <1>1, <1>2 DEF RegistrationInv, ManageInv, Moderate

LEMMA RegistrationNextKeeps == RegistrationInv /\ [Next]_vars => RegistrationInv'
<1> SUFFICES ASSUME RegistrationInv, [Next]_vars PROVE RegistrationInv'
  OBVIOUS
<1>1. CASE UNCHANGED vars
  BY <1>1 DEF vars, RegistrationInv, TypeOK, HolderInv, ManageInv, Registered, HasRoom
<1>2. CASE Ends \/ RequestLost
  BY <1>2, EndsKeeps
<1>3. CASE \E r \in Registers : \/ RegisterCommit(r) \/ RegisterLost(r)
                               \/ \E u \in Users : RegisterLock(r, u)
  BY <1>3, RegisterEndKeeps, RegisterLockKeeps
<1>4. CASE \E c \in Cancels : CancelCommit(c) \/ \E u \in Users : CancelRead(c, u)
  BY <1>4, CancelKeeps
<1>5. CASE \E m \in Managers : ManageCommit(m)
  BY <1>5, ManageCommitKeeps
<1>6. ASSUME NEW m \in Managers, NEW k \in Capacities, ManageRead(m, "capacity", k)
      PROVE  RegistrationInv'
  BY <1>6, ManageReadKeeps
<1>7. ASSUME NEW m \in Managers, NEW kind \in {"publish", "cancel", "dates", "delete"},
             ManageRead(m, kind, 0)
      PROVE  RegistrationInv'
  BY <1>7, ManageReadKeeps
<1>8. CASE \E status \in {"PUBLISHED", "CANCELLED"} : Moderate(status)
  BY <1>8, ModerateKeeps
<1> QED BY <1>1, <1>2, <1>3, <1>4, <1>5, <1>6, <1>7, <1>8 DEF Next

LEMMA RegistrationInvariance == Spec => []RegistrationInv
  BY RegistrationInit, RegistrationNextKeeps, PTL DEF Spec

\* A registration is added by a commit, under the checks of its lock.
LEMMA GrantStep ==
  ASSUME RegistrationInv, [Next]_vars, Registered' \ Registered # {}
  PROVE  /\ event.status = "PUBLISHED" /\ ~event.deleted
         /\ Cardinality(Registered') <= event.capacity
<1>1. PICK r \in Registers : RegisterCommit(r)
  <2>1. registration' # registration
    BY DEF Registered
  <2>2. ASSUME NEW c \in Cancels, CancelCommit(c) PROVE FALSE
    BY <2>2 DEF RegistrationInv, TypeOK, CancelCommit, Registered
  <2> QED BY <2>1, <2>2 DEF Next, vars, Ends, RequestLost, RegisterLost, RegisterLock, CancelRead,
                            ManageCommit, ManageRead, Moderate
<1>2. locked = r /\ locked # None
  BY <1>1, NoneAssumption DEF RegisterCommit
<1>3. Registered' = Registered \cup {register[r]}
  BY <1>1, <1>2 DEF RegistrationInv, TypeOK, HolderInv, RegisterCommit, Registered
<1>4. /\ Cardinality(Registered) \in Nat /\ Cardinality(Registered') \in Nat
      /\ Cardinality(Registered') <= Cardinality(Registered) + 1
  BY <1>3, UsersCounted DEF Registered
<1>5. event.capacity \in Nat
  BY CapacitiesAssumption DEF RegistrationInv, TypeOK
<1> QED BY <1>2, <1>4, <1>5 DEF RegistrationInv, HolderInv, HasRoom

\* Whatever the organiser, the moderation and the cancellations do meanwhile, a
\* registration is granted by a published event and within its capacity.
THEOREM GrantsWithinCapacity == Spec => GrantedWithinCapacity
  BY GrantStep, RegistrationInvariance, PTL DEF Spec, GrantedWithinCapacity

\* The event, the registrations and the requests stay of their types.
THEOREM RegistrationTypeCorrect == Spec => []TypeOK
<1>1. RegistrationInv => TypeOK
  BY DEF RegistrationInv
<1> QED BY <1>1, RegistrationInvariance, PTL

-----------------------------------------------------------------------------
(* The agenda.  Everything a request found out when it read stays true     *)
(* until it writes, unless others write meanwhile what it does not wait    *)
(* for; then it has missed something, and its write is late.  A creation   *)
(* misses no other creation: only the holder of a venue's row adds a new   *)
(* session to the venue.                                                   *)

SessionRow == [status : {"absent", "SCHEDULED", "CANCELLED", "deleted"},
               venue : Venues \cup {None}, from : Nat, to : Nat, late : BOOLEAN]

AgendaRows ==
  /\ session \in [Sessions -> SessionRow]
  /\ venues \subseteq Venues
  /\ window \in [from : Nat, to : Nat, late : BOOLEAN]
  /\ venueLocked \in [Venues -> Requests \cup {None}]

AgendaRequest == [pc : {"idle", "lock", "check", "write"},
                  kind : {"none", "create", "update", "venue", "window"},
                  session : Sessions \cup {None}, venue : Venues \cup {None},
                  from : Nat, to : Nat, sets : SUBSET {"from", "to"},
                  status : {"SCHEDULED", "CANCELLED", None},
                  missed : SUBSET (Sessions \cup {None})]

\* A request that is over is idle; one that is under way is of a kind.
RequestTypes ==
  /\ request \in [Requests -> AgendaRequest]
  /\ \A r \in Requests : request[r].pc = "idle" => request[r] = Agenda!IdleRequest
  /\ \A r \in Requests : request[r].kind = "none" => request[r].pc = "idle"

\* Session t keeps the period of p in the venue v free.
Clear(t, v, p) == session[t].status = "SCHEDULED" /\ session[t].venue = v =>
                    ~Agenda!Overlap(session[t], p)

\* A creation is about a new session, its own, inside the event.
CreateOf(r) ==
  request[r].kind = "create" =>
    /\ request[r].pc \in {"lock", "write"} /\ request[r].session \in Sessions
    /\ session[request[r].session].status = "absent"
    /\ request[r].status \in {"SCHEDULED", "CANCELLED"}
    /\ request[r].from < request[r].to
    /\ request[r].missed = {} => Agenda!Inside(request[r], window)
    /\ request[r].pc = "lock" => request[r].venue # None
    /\ \A q \in Requests : q # r => request[q].session # request[r].session

\* A creation that is about to write holds the venue's row, and has it clear.
HoldOf(r) ==
  request[r].kind = "create" /\ request[r].pc = "write" /\ request[r].venue \in venues =>
    /\ venueLocked[request[r].venue] = r
    /\ request[r].missed = {} => \A t \in Sessions : Clear(t, request[r].venue, request[r])

UpdateOf(r) ==
  request[r].kind = "update" =>
    /\ request[r].pc \in {"check", "write"} /\ request[r].session \in Sessions
    /\ session[request[r].session].status # "absent"
    /\ request[r].from < request[r].to
    /\ request[r].missed = {} =>
         /\ Agenda!Inside(request[r], window)
         /\ "from" \notin request[r].sets => request[r].from = session[request[r].session].from
         /\ "to" \notin request[r].sets => request[r].to = session[request[r].session].to
         /\ request[r].pc = "write" /\ request[r].venue # None =>
              \A t \in Sessions \ {request[r].session} : Clear(t, request[r].venue, request[r])

VenueOf(r) ==
  request[r].kind = "venue" =>
    /\ request[r].pc = "write" /\ request[r].venue \in Venues
    /\ \A s \in Sessions : Agenda!Exists(s) /\ session[s].venue = request[r].venue =>
                           s \in request[r].missed

WindowOf(r) ==
  request[r].kind = "window" =>
    /\ request[r].pc = "write"
    /\ request[r].missed = {} =>
         /\ "from" \notin request[r].sets => request[r].from = window.from
         /\ "to" \notin request[r].sets => request[r].to = window.to
         /\ \A s \in Sessions : Agenda!Exists(s) => Agenda!Inside(session[s], request[r])

Agrees(r) == CreateOf(r) /\ HoldOf(r) /\ UpdateOf(r) /\ VenueOf(r) /\ WindowOf(r)

AgendaInv == /\ AgendaRows /\ RequestTypes
             /\ NoVenueOverlap /\ SessionsInsideEvent
             /\ \A r \in Requests : Agrees(r)

-----------------------------------------------------------------------------
\* A query that found no conflict found every other session clear.
LEMMA NoConflicts ==
  ASSUME NEW s, NEW v, NEW p, Agenda!Conflicts(s, v, p) = {}
  PROVE  \A t \in Sessions \ {s} : Clear(t, v, p)
  BY DEF Agenda!Conflicts, Clear

\* An idle request agrees with whatever the rows are.
LEMMA IdleIs ==
  /\ Agenda!IdleRequest.pc = "idle" /\ Agenda!IdleRequest.kind = "none"
  /\ Agenda!IdleRequest.session = None /\ Agenda!IdleRequest \in AgendaRequest
  BY DEF Agenda!IdleRequest, AgendaRequest

LEMMA IdleAgrees ==
  ASSUME NEW r \in Requests, request'[r] = Agenda!IdleRequest PROVE Agrees(r)'
<1>1. request'[r].kind = "none"
  BY IdleIs
<1> QED BY <1>1 DEF Agrees, CreateOf, HoldOf, UpdateOf, VenueOf, WindowOf

LEMMA AgendaInit == Agenda!Init => AgendaInv
<1> SUFFICES ASSUME Agenda!Init PROVE AgendaInv
  OBVIOUS
<1>1. AgendaRows
  <2>1. Agenda!Absent \in SessionRow
    BY DEF Agenda!Absent, SessionRow
  <2>2. window \in [from : Nat, to : Nat, late : BOOLEAN]
    <3>1. window \in [from : Agenda!Times, to : Agenda!Times, late : {FALSE}]
      BY DEF Agenda!Init
    <3>2. Agenda!Times \subseteq Nat
      BY DEF Agenda!Times
    <3> QED BY <3>1, <3>2
  <2> QED BY <2>1, <2>2 DEF Agenda!Init, AgendaRows
<1>2. RequestTypes
  BY IdleIs DEF Agenda!Init, RequestTypes
<1>3. \A r \in Requests : Agrees(r)
  BY IdleIs DEF Agenda!Init, Agrees, CreateOf, HoldOf, UpdateOf, VenueOf, WindowOf
<1>4. NoVenueOverlap /\ SessionsInsideEvent
  BY DEF Agenda!Init, Agenda!Absent, Agenda!Exists, NoVenueOverlap, SessionsInsideEvent,
      Agenda!NoVenueOverlap, Agenda!SessionsInsideEvent
<1> QED BY <1>1, <1>2, <1>3, <1>4 DEF AgendaInv

-----------------------------------------------------------------------------
(* The reads: only the request moves.                                      *)

LEMMA RequestMoves ==
  ASSUME AgendaInv, NEW r \in Requests, NEW asked \in AgendaRequest,
         asked.pc # "idle", asked.kind # "none",
         UNCHANGED <<session, venues, window, venueLocked>>,
         request' = [request EXCEPT ![r] = asked],
         \A q \in Requests : q # r /\ request[q].kind = "create" => asked.session # request[q].session,
         Agrees(r)'
  PROVE  AgendaInv'
<1>1. request'[r] = asked /\ \A q \in Requests : q # r => request'[q] = request[q]
  BY DEF AgendaInv, RequestTypes
<1>2. (AgendaRows /\ NoVenueOverlap /\ SessionsInsideEvent)'
  BY DEF AgendaInv, AgendaRows, NoVenueOverlap, SessionsInsideEvent, Agenda!NoVenueOverlap,
      Agenda!SessionsInsideEvent, Agenda!Overlap, Agenda!Inside, Agenda!Exists
<1>3. RequestTypes'
  BY <1>1 DEF AgendaInv, RequestTypes
<1>4. ASSUME NEW o \in Requests, o # r PROVE Agrees(o)'
  <2>1. request'[o] = request[o] /\ Agrees(o)
    BY <1>1, <1>4 DEF AgendaInv
  <2>2. CreateOf(o)'
    BY <1>1, <1>4, <2>1 DEF Agrees, CreateOf, Agenda!Inside
  <2>3. HoldOf(o)' /\ UpdateOf(o)'
    BY <2>1 DEF Agrees, HoldOf, UpdateOf, Clear, Agenda!Overlap, Agenda!Inside
  <2>4. VenueOf(o)' /\ WindowOf(o)'
    BY <2>1 DEF Agrees, VenueOf, WindowOf, Agenda!Exists, Agenda!Inside
  <2> QED BY <2>2, <2>3, <2>4 DEF Agrees
<1> QED BY <1>2, <1>3, <1>4 DEF AgendaInv

LEMMA CreateReadKeeps ==
  ASSUME AgendaInv, NEW r \in Requests, NEW s \in Sessions,
         NEW v \in Venues \cup {None}, NEW p \in Agenda!Periods, NEW status \in Creating,
         Agenda!CreateRead(r, s, v, p, status)
  PROVE  AgendaInv'
<1> DEFINE asked == [pc |-> IF v = None THEN "write" ELSE "lock", kind |-> "create", session |-> s,
                     venue |-> v, from |-> p.from, to |-> p.to, sets |-> {}, status |-> status,
                     missed |-> {}]
<1>1. /\ UNCHANGED <<session, venues, window, venueLocked>>
      /\ request' = [request EXCEPT ![r] = asked]
      /\ session[s].status = "absent" /\ \A q \in Requests : request[q].session # s
      /\ Agenda!Inside(p, window) /\ p.from < p.to /\ p.from \in Nat /\ p.to \in Nat
  BY DEF Agenda!CreateRead, Agenda!Periods, Agenda!Times
<1>2. status \in {"SCHEDULED", "CANCELLED"}
  BY AgendaAssumption
<1>3. asked \in AgendaRequest
  BY <1>1, <1>2 DEF AgendaRequest
<1>4. /\ asked.kind = "create" /\ asked.session = s /\ asked.from = p.from /\ asked.to = p.to
      /\ asked.status = status /\ asked.missed = {}
      /\ asked.venue = v /\ asked.pc \in {"lock", "write"} /\ (asked.pc = "lock" <=> v # None)
  OBVIOUS
<1> HIDE DEF asked
<1>5. request'[r] = asked /\ \A q \in Requests : q # r => request'[q] = request[q]
  BY <1>1 DEF AgendaInv, RequestTypes
<1>6. CreateOf(r)'
  BY <1>1, <1>2, <1>4, <1>5 DEF CreateOf, Agenda!Inside
<1>7. HoldOf(r)'
  BY <1>1, <1>4, <1>5, AgendaAssumption DEF AgendaInv, AgendaRows, HoldOf
<1>8. (UpdateOf(r) /\ VenueOf(r) /\ WindowOf(r))'
  BY <1>4, <1>5 DEF UpdateOf, VenueOf, WindowOf
<1> QED BY <1>1, <1>3, <1>4, <1>6, <1>7, <1>8, RequestMoves DEF Agrees

LEMMA UpdateReadKeeps ==
  ASSUME AgendaInv, NEW r \in Requests, NEW s \in Sessions,
         NEW v \in Venues \cup {None}, NEW p \in Agenda!Periods,
         NEW sets \in SUBSET {"from", "to"}, NEW status \in {"SCHEDULED", "CANCELLED", None},
         Agenda!UpdateRead(r, s, v, p, sets, status)
  PROVE  AgendaInv'
<1> DEFINE from == IF "from" \in sets THEN p.from ELSE session[s].from
           to   == IF "to" \in sets THEN p.to ELSE session[s].to
           asked == [pc |-> "check", kind |-> "update", session |-> s, venue |-> v,
                     from |-> from, to |-> to, sets |-> sets, status |-> status, missed |-> {}]
<1>1. /\ UNCHANGED <<session, venues, window, venueLocked>>
      /\ request' = [request EXCEPT ![r] = asked]
      /\ Agenda!Exists(s) /\ from < to /\ Agenda!Inside([from |-> from, to |-> to], window)
  BY DEF Agenda!UpdateRead
<1>2. from \in Nat /\ to \in Nat
  BY DEF Agenda!Periods, Agenda!Times, AgendaInv, AgendaRows, SessionRow
<1>3. ("from" \notin sets => from = session[s].from) /\ ("to" \notin sets => to = session[s].to)
  OBVIOUS
<1> HIDE DEF from, to
<1>4. asked \in AgendaRequest
  BY <1>2 DEF AgendaRequest
<1>5. /\ asked.kind = "update" /\ asked.pc = "check" /\ asked.session = s /\ asked.from = from
      /\ asked.to = to /\ asked.sets = sets
  OBVIOUS
<1>6. Agenda!Inside(asked, window)
  BY <1>1, <1>5 DEF Agenda!Inside
<1> HIDE DEF asked
<1>7. request'[r] = asked /\ \A q \in Requests : q # r => request'[q] = request[q]
  BY <1>1 DEF AgendaInv, RequestTypes
<1>8. UpdateOf(r)'
  BY <1>1, <1>3, <1>5, <1>6, <1>7 DEF UpdateOf, Agenda!Exists, Agenda!Inside
<1>9. (CreateOf(r) /\ HoldOf(r) /\ VenueOf(r) /\ WindowOf(r))'
  BY <1>5, <1>7 DEF CreateOf, HoldOf, VenueOf, WindowOf
<1>10. \A q \in Requests : request[q].kind = "create" => request[q].session # s
  BY <1>1 DEF AgendaInv, Agrees, CreateOf, Agenda!Exists
<1> QED BY <1>1, <1>4, <1>5, <1>8, <1>9, <1>10, RequestMoves DEF Agrees

LEMMA VenueReadKeeps ==
  ASSUME AgendaInv, NEW r \in Requests, NEW v \in Venues, Agenda!VenueRead(r, v)
  PROVE  AgendaInv'
<1> DEFINE asked == [Agenda!IdleRequest EXCEPT !.pc = "write", !.kind = "venue", !.venue = v]
<1>1. /\ UNCHANGED <<session, venues, window, venueLocked>>
      /\ request' = [request EXCEPT ![r] = asked]
      /\ \A s \in Sessions : Agenda!Exists(s) => session[s].venue # v
  BY DEF Agenda!VenueRead
<1>2. /\ asked \in AgendaRequest /\ asked.kind = "venue" /\ asked.pc = "write"
      /\ asked.venue = v /\ asked.session = None
  BY DEF AgendaRequest, Agenda!IdleRequest
<1> HIDE DEF asked
<1>3. request'[r] = asked
  BY <1>1 DEF AgendaInv, RequestTypes
<1>4. Agrees(r)'
  BY <1>1, <1>2, <1>3 DEF Agrees, CreateOf, HoldOf, UpdateOf, VenueOf, WindowOf, Agenda!Exists
<1>5. \A q \in Requests : request[q].kind = "create" => request[q].session # None
  BY AgendaAssumption DEF AgendaInv, Agrees, CreateOf
<1> QED BY <1>1, <1>2, <1>4, <1>5, RequestMoves

LEMMA WindowReadKeeps ==
  ASSUME AgendaInv, NEW r \in Requests, NEW p \in Agenda!Periods, NEW sets \in SUBSET {"from", "to"},
         Agenda!WindowRead(r, p, sets)
  PROVE  AgendaInv'
<1> DEFINE w == Agenda!Proposed(p, sets)
           asked == [Agenda!IdleRequest EXCEPT !.pc = "write", !.kind = "window",
                       !.from = w.from, !.to = w.to, !.sets = sets]
<1>1. /\ UNCHANGED <<session, venues, window, venueLocked>>
      /\ request' = [request EXCEPT ![r] = asked]
      /\ \A s \in Sessions : Agenda!Exists(s) => Agenda!Inside(session[s], w)
  BY DEF Agenda!WindowRead, Agenda!ReadsWindow
<1>2. /\ w.from \in Nat /\ w.to \in Nat
      /\ "from" \notin sets => w.from = window.from
      /\ "to" \notin sets => w.to = window.to
  BY DEF Agenda!Proposed, Agenda!Periods, Agenda!Times, AgendaInv, AgendaRows
<1> HIDE DEF w
<1>3. /\ asked \in AgendaRequest /\ asked.kind = "window" /\ asked.pc = "write"
      /\ asked.from = w.from /\ asked.to = w.to /\ asked.sets = sets /\ asked.session = None
  BY <1>2 DEF AgendaRequest, Agenda!IdleRequest
<1> HIDE DEF asked
<1>4. request'[r] = asked
  BY <1>1 DEF AgendaInv, RequestTypes
<1>5. WindowOf(r)'
  BY <1>1, <1>2, <1>3, <1>4 DEF WindowOf, Agenda!Exists, Agenda!Inside
<1>6. (CreateOf(r) /\ HoldOf(r) /\ UpdateOf(r) /\ VenueOf(r))'
  BY <1>3, <1>4 DEF CreateOf, HoldOf, UpdateOf, VenueOf
<1>7. \A q \in Requests : request[q].kind = "create" => request[q].session # None
  BY AgendaAssumption DEF AgendaInv, Agrees, CreateOf
<1> QED BY <1>1, <1>3, <1>5, <1>6, <1>7, RequestMoves DEF Agrees

\* The query finds the venue clear of every other session, and takes no row.
LEMMA UpdateCheckKeeps ==
  ASSUME AgendaInv, NEW r \in Requests, Agenda!UpdateCheck(r) PROVE AgendaInv'
<1> DEFINE asked == [request[r] EXCEPT !.pc = "write"]
<1>1. /\ UNCHANGED <<session, venues, window, venueLocked>>
      /\ request' = [request EXCEPT ![r] = asked] /\ request[r].pc = "check"
      /\ request[r].venue # None => Agenda!Conflicts(request[r].session, request[r].venue, request[r]) = {}
  BY DEF Agenda!UpdateCheck, AgendaInv, RequestTypes
<1>2. request[r].kind = "update" /\ UpdateOf(r) /\ request[r] \in AgendaRequest
  BY <1>1 DEF AgendaInv, RequestTypes, AgendaRequest, Agrees, CreateOf, VenueOf, WindowOf
<1>3. /\ asked \in AgendaRequest /\ asked.kind = "update" /\ asked.pc = "write"
      /\ asked.session = request[r].session /\ asked.from = request[r].from /\ asked.to = request[r].to
      /\ asked.sets = request[r].sets /\ asked.venue = request[r].venue
      /\ asked.missed = request[r].missed
  BY <1>2 DEF AgendaRequest
<1> HIDE DEF asked
<1>4. request'[r] = asked
  BY <1>1 DEF AgendaInv, RequestTypes
<1>5. request[r].venue # None =>
        \A t \in Sessions \ {request[r].session} : Clear(t, request[r].venue, request[r])
  BY <1>1, NoConflicts
<1>6. UpdateOf(r)'
  BY <1>1, <1>2, <1>3, <1>4, <1>5 DEF UpdateOf, Clear, Agenda!Inside, Agenda!Overlap
<1>7. (CreateOf(r) /\ HoldOf(r) /\ VenueOf(r) /\ WindowOf(r))'
  BY <1>3, <1>4 DEF CreateOf, HoldOf, VenueOf, WindowOf
<1>8. \A q \in Requests : q # r /\ request[q].kind = "create" => request[q].session # asked.session
  BY <1>3 DEF AgendaInv, Agrees, CreateOf
<1> QED BY <1>1, <1>3, <1>6, <1>7, <1>8, RequestMoves DEF Agrees

\* The row is free, so no other creation that is about to write holds it.
LEMMA CreateLockKeeps ==
  ASSUME AgendaInv, NEW r \in Requests, Agenda!CreateLock(r) PROVE AgendaInv'
<1> DEFINE v == request[r].venue
<1>1. /\ UNCHANGED <<session, venues, window>>
      /\ request[r].pc = "lock" /\ venueLocked[v] = None
      /\ request' = [request EXCEPT ![r].pc = "write"]
      /\ venueLocked' = IF v \in venues THEN [venueLocked EXCEPT ![v] = r] ELSE venueLocked
  BY DEF Agenda!CreateLock
<1>2. /\ request[r].kind = "create" /\ CreateOf(r) /\ request[r] \in AgendaRequest
  BY <1>1 DEF AgendaInv, RequestTypes, AgendaRequest, Agrees, UpdateOf, VenueOf, WindowOf
<1>3. \A t \in Sessions : Clear(t, v, request[r])
  <2>1. \A t \in Sessions \ {request[r].session} : Clear(t, v, request[r])
    BY NoConflicts DEF Agenda!CreateLock
  <2> QED BY <1>2, <2>1 DEF CreateOf, Clear
<1>4. /\ request'[r] = [request[r] EXCEPT !.pc = "write"]
      /\ \A q \in Requests : q # r => request'[q] = request[q]
  BY <1>1 DEF AgendaInv, RequestTypes
<1>5. /\ request'[r].pc = "write" /\ request'[r].kind = "create" /\ request'[r].venue = v
      /\ request'[r].session = request[r].session /\ request'[r].status = request[r].status
      /\ request'[r].from = request[r].from /\ request'[r].to = request[r].to
      /\ request'[r].missed = request[r].missed /\ request'[r] \in AgendaRequest
  BY <1>2, <1>4 DEF AgendaRequest
<1>6. AgendaRows'
  BY <1>1 DEF AgendaInv, AgendaRows
<1>7. RequestTypes'
  BY <1>1, <1>4, <1>5 DEF AgendaInv, RequestTypes
<1>8. (NoVenueOverlap /\ SessionsInsideEvent)'
  BY <1>1 DEF AgendaInv, NoVenueOverlap, SessionsInsideEvent, Agenda!NoVenueOverlap,
      Agenda!SessionsInsideEvent, Agenda!Overlap, Agenda!Inside, Agenda!Exists
<1>9. Agrees(r)'
  <2>1. CreateOf(r)'
    BY <1>1, <1>2, <1>4, <1>5 DEF CreateOf, Agenda!Inside
  <2>2. v \in venues => venueLocked'[v] = r
    BY <1>1 DEF AgendaInv, AgendaRows
  <2>3. HoldOf(r)'
    BY <1>1, <1>3, <1>5, <2>2 DEF HoldOf, Clear, Agenda!Overlap
  <2> QED BY <1>5, <2>1, <2>3 DEF Agrees, UpdateOf, VenueOf, WindowOf
<1>10. ASSUME NEW o \in Requests, o # r PROVE Agrees(o)'
  <2> HIDE DEF v
  <2>1. request'[o] = request[o] /\ Agrees(o)
    BY <1>4, <1>10 DEF AgendaInv
  <2>2. CreateOf(o)'
    BY <1>1, <1>4, <1>5, <2>1 DEF Agrees, CreateOf, Agenda!Inside
  <2>3. HoldOf(o)'
    <3>1. \A w \in venues : w # v => venueLocked'[w] = venueLocked[w]
      BY <1>1 DEF AgendaInv, AgendaRows
    <3>2. request[o].kind = "create" /\ request[o].pc = "write" /\ request[o].venue \in venues =>
            request[o].venue # v
      BY <1>1, <2>1, AgendaAssumption DEF Agrees, HoldOf
    <3> QED BY <1>1, <2>1, <3>1, <3>2 DEF Agrees, HoldOf, Clear, Agenda!Overlap
  <2>4. UpdateOf(o)'
    BY <1>1, <2>1 DEF Agrees, UpdateOf, Clear, Agenda!Overlap, Agenda!Inside
  <2>5. (VenueOf(o) /\ WindowOf(o))'
    BY <1>1, <2>1 DEF Agrees, VenueOf, WindowOf, Agenda!Inside, Agenda!Exists
  <2> QED BY <2>2, <2>3, <2>4, <2>5 DEF Agrees
<1> QED BY <1>6, <1>7, <1>8, <1>9, <1>10 DEF AgendaInv

-----------------------------------------------------------------------------
(* The writes: the request ends, and others miss what it has written.      *)

\* What a request was asked to write stays what it was.
AskedKept(q) ==
  /\ request'[q].pc = request[q].pc /\ request'[q].kind = request[q].kind
  /\ request'[q].session = request[q].session /\ request'[q].venue = request[q].venue
  /\ request'[q].from = request[q].from /\ request'[q].to = request[q].to
  /\ request'[q].sets = request[q].sets /\ request'[q].status = request[q].status

LEMMA Ending ==
  ASSUME AgendaInv, NEW r \in Requests, NEW kinds, "none" \notin kinds,
         NEW what \in Sessions \cup {None}, Agenda!EndMissed(r, kinds, what)
  PROVE  /\ RequestTypes' /\ request'[r] = Agenda!IdleRequest
         /\ \A q \in Requests : q # r => /\ AskedKept(q)
                                         /\ request[q].kind \in kinds =>
                                              request'[q].missed = request[q].missed \cup {what}
                                         /\ request[q].kind \notin kinds =>
                                              request'[q].missed = request[q].missed
<1>1. request'[r] = Agenda!IdleRequest
  BY DEF Agenda!EndMissed
<1>2. ASSUME NEW q \in Requests, q # r
      PROVE  /\ request'[q] = IF request[q].kind \in kinds
                              THEN [request[q] EXCEPT !.missed = @ \cup {what}] ELSE request[q]
             /\ request[q] \in AgendaRequest
  BY <1>2 DEF AgendaInv, RequestTypes, Agenda!EndMissed
<1>3. ASSUME NEW q \in Requests, q # r
      PROVE  /\ AskedKept(q) /\ request'[q] \in AgendaRequest
             /\ request[q].kind \in kinds => request'[q].missed = request[q].missed \cup {what}
             /\ request[q].kind \notin kinds => request'[q] = request[q]
  <2>1. CASE request[q].kind \in kinds
    <3>1. /\ request'[q] = [request[q] EXCEPT !.missed = request[q].missed \cup {what}]
          /\ request[q] \in AgendaRequest /\ request[q].missed \in SUBSET (Sessions \cup {None})
      BY <1>2, <1>3, <2>1 DEF AgendaRequest
    <3>2. request'[q].missed = request[q].missed \cup {what} /\ AskedKept(q)
      BY <3>1 DEF AgendaRequest, AskedKept
    <3>3. request[q].missed \cup {what} \in SUBSET (Sessions \cup {None})
      BY <3>1
    <3>4. request'[q] \in AgendaRequest
      BY <3>1, <3>3 DEF AgendaRequest
    <3> QED BY <2>1, <3>2, <3>4
  <2>2. CASE request[q].kind \notin kinds
    BY <1>2, <1>3, <2>2 DEF AskedKept
  <2> QED BY <2>1, <2>2
<1>4. \A q \in Requests : request[q].pc = "idle" => request[q].kind = "none"
  BY IdleIs DEF AgendaInv, RequestTypes
<1>5. request' \in [Requests -> AgendaRequest]
  <2>1. \A q \in Requests : request'[q] \in AgendaRequest
    BY <1>1, <1>3, IdleIs
  <2> QED BY <2>1 DEF Agenda!EndMissed
<1>6. RequestTypes'
  BY <1>1, <1>3, <1>4, <1>5, IdleIs DEF AgendaInv, RequestTypes, AskedKept
<1> QED BY <1>1, <1>3, <1>6

\* The new session is clear of all others, unless an update has written since
\* the check; other creations hold other venues.
LEMMA CreateWriteKeeps ==
  ASSUME AgendaInv, NEW r \in Requests, Agenda!CreateWrite(r) PROVE AgendaInv'
<1> DEFINE s == request[r].session
           v == request[r].venue
           new == [status |-> request[r].status, venue |-> v, from |-> request[r].from,
                   to |-> request[r].to, late |-> Agenda!Late(r)]
<1>1. /\ request[r].pc = "write" /\ request[r].kind = "create" /\ UNCHANGED <<venues, window>>
      /\ v # None => v \in venues
      /\ session' = [session EXCEPT ![s] = new]
      /\ venueLocked' = Agenda!Unlock(r)
      /\ Agenda!EndMissed(r, {"update", "venue", "window"}, s)
  BY DEF Agenda!CreateWrite
<1>2. /\ s \in Sessions /\ session[s].status = "absent" /\ request[r].from < request[r].to
      /\ request[r].status \in {"SCHEDULED", "CANCELLED"}
      /\ request[r].missed = {} => Agenda!Inside(request[r], window)
      /\ \A q \in Requests : q # r => request[q].session # s
      /\ v # None => venueLocked[v] = r
      /\ v # None /\ request[r].missed = {} => \A t \in Sessions : Clear(t, v, request[r])
  BY <1>1 DEF AgendaInv, Agrees, CreateOf, HoldOf
<1>3. request[r] \in AgendaRequest /\ \A t \in Sessions : session[t] \in SessionRow
  BY DEF AgendaInv, RequestTypes, AgendaRows
<1>4. /\ new \in SessionRow /\ new.venue = v /\ new.from = request[r].from /\ new.to = request[r].to
      /\ new.status \in {"SCHEDULED", "CANCELLED"} /\ (~new.late => request[r].missed = {})
  BY <1>2, <1>3 DEF AgendaRequest, SessionRow, Agenda!Late
<1> HIDE DEF new
<1>5. session'[s] = new /\ \A t \in Sessions : t # s => session'[t] = session[t]
  BY <1>1, <1>2 DEF AgendaInv, AgendaRows
<1>6. \A w \in Venues : venueLocked'[w] = IF venueLocked[w] = r THEN None ELSE venueLocked[w]
  BY <1>1 DEF Agenda!Unlock
<1>7. AgendaRows'
  <2>1. session' \in [Sessions -> SessionRow]
    BY <1>1, <1>4 DEF AgendaInv, AgendaRows
  <2>2. venueLocked' \in [Venues -> Requests \cup {None}]
    BY <1>1 DEF AgendaInv, AgendaRows, Agenda!Unlock
  <2> QED BY <1>1, <2>1, <2>2 DEF AgendaInv, AgendaRows
<1>8. /\ RequestTypes' /\ request'[r] = Agenda!IdleRequest
      /\ \A q \in Requests : q # r => /\ AskedKept(q)
                                      /\ request[q].kind \in {"update", "venue", "window"} =>
                                           request'[q].missed = request[q].missed \cup {s}
                                      /\ request[q].kind \notin {"update", "venue", "window"} =>
                                           request'[q].missed = request[q].missed
  <2>1. s \in Sessions \cup {None}
    BY <1>2
  <2> HIDE DEF s
  <2> QED BY <1>1, <2>1, Ending
<1>9. SessionsInsideEvent'
  BY <1>1, <1>2, <1>4, <1>5 DEF AgendaInv, SessionsInsideEvent, Agenda!SessionsInsideEvent,
      Agenda!Exists, Agenda!Inside
<1>10. NoVenueOverlap'
  <2>1. \A t \in Sessions : t # s /\ session[t].status = "SCHEDULED" /\ session[t].venue = v
          /\ v # None /\ ~new.late => ~Agenda!Overlap(session[t], new) /\ ~Agenda!Overlap(new, session[t])
    BY <1>2, <1>3, <1>4 DEF Clear, Agenda!Overlap, SessionRow, AgendaRequest
  <2>2. \A t, u \in Sessions : t # s /\ u # s /\ t # u /\ session[t].status = "SCHEDULED"
          /\ session[u].status = "SCHEDULED" /\ session[t].venue = session[u].venue
          /\ session[t].venue # None /\ Agenda!Overlap(session[t], session[u]) =>
            session[t].late \/ session[u].late
    BY DEF AgendaInv, NoVenueOverlap, Agenda!NoVenueOverlap
  <2> HIDE DEF s, v
  <2>3. SUFFICES ASSUME NEW t \in Sessions, NEW u \in Sessions, t # u,
                        session'[t].status = "SCHEDULED", session'[u].status = "SCHEDULED",
                        session'[t].venue = session'[u].venue, session'[t].venue # None,
                        Agenda!Overlap(session'[t], session'[u])
                 PROVE  session'[t].late \/ session'[u].late
    BY DEF NoVenueOverlap, Agenda!NoVenueOverlap, Agenda!Overlap
  <2>4. CASE t = s
    BY <1>4, <1>5, <2>1, <2>3, <2>4
  <2>5. CASE u = s
    BY <1>4, <1>5, <2>1, <2>3, <2>5
  <2>6. CASE t # s /\ u # s
    BY <1>5, <2>2, <2>3, <2>6
  <2> QED BY <2>4, <2>5, <2>6
<1>11. ASSUME NEW o \in Requests, o # r PROVE Agrees(o)'
  <2>1. /\ Agrees(o) /\ AskedKept(o) /\ request[o].session # s
        /\ request[o].kind \in {"update", "venue", "window"} =>
             request'[o].missed = request[o].missed \cup {s}
        /\ request[o].kind = "create" => request'[o].missed = request[o].missed
    BY <1>2, <1>8, <1>11 DEF AgendaInv
  <2>2. CreateOf(o)'
    <3>1. \A q \in Requests : q # o /\ request[o].kind = "create" =>
            request'[q].session # request[o].session
      <4>1. request'[r].session = None
        BY <1>8, IdleIs
      <4>2. request[o].kind = "create" => request[o].session \in Sessions
        BY <2>1 DEF Agrees, CreateOf
      <4> QED BY <1>8, <2>1, <4>1, <4>2, AgendaAssumption DEF Agrees, CreateOf, AskedKept
    <3> QED BY <1>1, <1>5, <2>1, <3>1 DEF Agrees, CreateOf, AskedKept, Agenda!Inside
  <2>3. HoldOf(o)'
    <3>1. request[o].kind = "create" /\ request[o].pc = "write" /\ request[o].venue \in venues =>
            venueLocked[request[o].venue] = o /\ request[o].venue # v
      <4>1. None \notin venues
        BY AgendaAssumption DEF AgendaInv, AgendaRows
      <4> HIDE DEF v
      <4> QED BY <1>2, <1>11, <2>1, <4>1 DEF Agrees, HoldOf
    <3>2. venues \subseteq Venues
      BY DEF AgendaInv, AgendaRows
    <3>3. \A t \in Sessions : session'[t] = session[t] \/ session'[t].venue = v
      BY <1>4, <1>5
    <3> HIDE DEF s, v
    <3> QED BY <1>1, <1>6, <1>11, <2>1, <3>1, <3>2, <3>3
            DEF Agrees, HoldOf, AskedKept, Clear, Agenda!Overlap
  <2>4. UpdateOf(o)'
    BY <1>2, <1>4, <1>5, <2>1 DEF Agrees, UpdateOf, AskedKept
  <2>5. VenueOf(o)'
    BY <1>2, <1>5, <2>1 DEF Agrees, VenueOf, AskedKept, Agenda!Exists
  <2>6. WindowOf(o)'
    BY <2>1 DEF Agrees, WindowOf, AskedKept
  <2> QED BY <2>2, <2>3, <2>4, <2>5, <2>6 DEF Agrees
<1>12. Agrees(r)'
  BY <1>8, IdleAgrees
<1> QED BY <1>7, <1>8, <1>9, <1>10, <1>11, <1>12 DEF AgendaInv

\* An update that nobody overtook writes the times that it was compared with,
\* in a venue that is clear; every other request misses it.
LEMMA UpdateWriteKeeps ==
  ASSUME AgendaInv, NEW r \in Requests, Agenda!UpdateWrite(r) PROVE AgendaInv'
<1> DEFINE s == request[r].session
           v == request[r].venue
           new == [status |-> IF session[s].status = "deleted" \/ request[r].status = None
                              THEN session[s].status ELSE request[r].status,
                   venue |-> v,
                   from |-> IF "from" \in request[r].sets THEN request[r].from ELSE session[s].from,
                   to |-> IF "to" \in request[r].sets THEN request[r].to ELSE session[s].to,
                   late |-> Agenda!Late(r)]
           kinds == {"create", "update", "venue", "window"}
<1>1. /\ request[r].pc = "write" /\ request[r].kind = "update"
      /\ UNCHANGED <<venues, window, venueLocked>>
      /\ session' = [session EXCEPT ![s] = new]
      /\ Agenda!EndMissed(r, kinds, s)
  BY DEF Agenda!UpdateWrite
<1>2. /\ s \in Sessions /\ session[s].status # "absent" /\ request[r].from < request[r].to
      /\ request[r].missed = {} =>
           /\ Agenda!Inside(request[r], window)
           /\ "from" \notin request[r].sets => request[r].from = session[s].from
           /\ "to" \notin request[r].sets => request[r].to = session[s].to
           /\ v # None => \A t \in Sessions \ {s} : Clear(t, v, request[r])
  BY <1>1 DEF AgendaInv, Agrees, UpdateOf
<1>3. request[r] \in AgendaRequest /\ \A t \in Sessions : session[t] \in SessionRow
  BY DEF AgendaInv, RequestTypes, AgendaRows
<1>4. /\ new \in SessionRow /\ new.venue = v /\ new.status # "absent"
      /\ ~new.late => /\ request[r].missed = {}
                      /\ new.from = request[r].from /\ new.to = request[r].to
  <2>1. session[s] \in SessionRow
    BY <1>2, <1>3
  <2>2. new.venue = v /\ new.late = Agenda!Late(r)
    OBVIOUS
  <2>3. new.status # "absent" /\ new.status \in {"SCHEDULED", "CANCELLED", "deleted"}
    BY <1>2, <1>3, <2>1, AgendaAssumption DEF SessionRow, AgendaRequest
  <2>4. new \in SessionRow
    BY <1>3, <2>1, <2>3 DEF SessionRow, AgendaRequest, Agenda!Late
  <2>5. ~new.late => request[r].missed = {}
    BY <2>2 DEF Agenda!Late
  <2> QED BY <1>2, <2>2, <2>3, <2>4, <2>5
<1> HIDE DEF new
<1>5. session'[s] = new /\ \A t \in Sessions : t # s => session'[t] = session[t]
  BY <1>1, <1>2 DEF AgendaInv, AgendaRows
<1>7. AgendaRows'
  BY <1>1, <1>4 DEF AgendaInv, AgendaRows
<1>8. /\ RequestTypes' /\ request'[r] = Agenda!IdleRequest
      /\ \A q \in Requests : q # r => /\ AskedKept(q)
                                      /\ request[q].kind \in kinds =>
                                           request'[q].missed = request[q].missed \cup {s}
  <2>1. s \in Sessions \cup {None}
    BY <1>2
  <2> HIDE DEF s
  <2>2. "none" \notin kinds
    OBVIOUS
  <2> HIDE DEF kinds
  <2> QED BY <1>1, <2>1, <2>2, Ending
<1>9. SessionsInsideEvent'
  BY <1>1, <1>2, <1>4, <1>5 DEF AgendaInv, SessionsInsideEvent, Agenda!SessionsInsideEvent,
      Agenda!Exists, Agenda!Inside
<1>10. NoVenueOverlap'
  <2>1. \A t \in Sessions : t # s /\ session[t].status = "SCHEDULED" /\ session[t].venue = v
          /\ v # None /\ ~new.late => ~Agenda!Overlap(session[t], new) /\ ~Agenda!Overlap(new, session[t])
    BY <1>2, <1>3, <1>4 DEF Clear, Agenda!Overlap, SessionRow, AgendaRequest
  <2>2. \A t, u \in Sessions : t # s /\ u # s /\ t # u /\ session[t].status = "SCHEDULED"
          /\ session[u].status = "SCHEDULED" /\ session[t].venue = session[u].venue
          /\ session[t].venue # None /\ Agenda!Overlap(session[t], session[u]) =>
            session[t].late \/ session[u].late
    BY DEF AgendaInv, NoVenueOverlap, Agenda!NoVenueOverlap
  <2> HIDE DEF s, v
  <2>3. SUFFICES ASSUME NEW t \in Sessions, NEW u \in Sessions, t # u,
                        session'[t].status = "SCHEDULED", session'[u].status = "SCHEDULED",
                        session'[t].venue = session'[u].venue, session'[t].venue # None,
                        Agenda!Overlap(session'[t], session'[u])
                 PROVE  session'[t].late \/ session'[u].late
    BY DEF NoVenueOverlap, Agenda!NoVenueOverlap, Agenda!Overlap
  <2>4. CASE t = s
    BY <1>4, <1>5, <2>1, <2>3, <2>4
  <2>5. CASE u = s
    BY <1>4, <1>5, <2>1, <2>3, <2>5
  <2>6. CASE t # s /\ u # s
    BY <1>5, <2>2, <2>3, <2>6
  <2> QED BY <2>4, <2>5, <2>6
<1>11. ASSUME NEW o \in Requests, o # r PROVE Agrees(o)'
  <2>1. /\ Agrees(o) /\ AskedKept(o)
        /\ request[o].kind \in kinds => request'[o].missed = request[o].missed \cup {s}
    BY <1>8, <1>11 DEF AgendaInv
  <2>2. CreateOf(o)'
    <3>1. request[o].kind = "create" =>
            /\ \A q \in Requests : q # o => request'[q].session # request[o].session
            /\ request[o].session # s
      <4>1. request'[r].session = None
        BY <1>8, IdleIs
      <4>2. request[o].kind = "create" => request[o].session \in Sessions /\ request[o].session # s
        BY <1>2, <2>1 DEF Agrees, CreateOf
      <4> QED BY <1>8, <2>1, <4>1, <4>2, AgendaAssumption DEF Agrees, CreateOf, AskedKept
    <3> QED BY <1>1, <1>5, <2>1, <3>1 DEF Agrees, CreateOf, AskedKept
  <2>3. HoldOf(o)'
    BY <1>1, <2>1 DEF Agrees, HoldOf, AskedKept
  <2>4. UpdateOf(o)'
    BY <1>2, <1>4, <1>5, <2>1 DEF Agrees, UpdateOf, AskedKept
  <2>5. VenueOf(o)'
    BY <1>2, <1>5, <2>1 DEF Agrees, VenueOf, AskedKept, Agenda!Exists
  <2>6. WindowOf(o)'
    BY <2>1 DEF Agrees, WindowOf, AskedKept
  <2> QED BY <2>2, <2>3, <2>4, <2>5, <2>6 DEF Agrees
<1>12. Agrees(r)'
  BY <1>8, IdleAgrees
<1> QED BY <1>7, <1>8, <1>9, <1>10, <1>11, <1>12 DEF AgendaInv

\* The delete of a session frees its venue and disturbs nobody.
LEMMA DeleteSessionKeeps ==
  ASSUME AgendaInv, NEW s \in Sessions, Agenda!DeleteSession(s) PROVE AgendaInv'
<1>1. /\ UNCHANGED <<venues, window, venueLocked, request>>
      /\ session' = [session EXCEPT ![s].status = "deleted"] /\ Agenda!Exists(s)
  BY DEF Agenda!DeleteSession
<1>2. AgendaRows' /\ RequestTypes'
  BY <1>1 DEF AgendaInv, AgendaRows, SessionRow, RequestTypes
<1>3. /\ session'[s].status = "deleted" /\ session'[s].from = session[s].from
      /\ session'[s].to = session[s].to /\ session[s].status # "absent"
      /\ \A t \in Sessions : t # s => session'[t] = session[t]
  BY <1>1 DEF AgendaInv, AgendaRows, SessionRow, Agenda!Exists
<1>4. NoVenueOverlap'
  BY <1>3 DEF AgendaInv, NoVenueOverlap, Agenda!NoVenueOverlap, Agenda!Overlap
<1>5. SessionsInsideEvent'
  BY <1>1, <1>3 DEF AgendaInv, SessionsInsideEvent, Agenda!SessionsInsideEvent, Agenda!Inside, Agenda!Exists
<1>6. ASSUME NEW r \in Requests PROVE Agrees(r)'
  <2>1. request'[r] = request[r] /\ Agrees(r)
    BY <1>1 DEF AgendaInv
  <2>2. CreateOf(r)'
    BY <1>1, <1>3, <2>1 DEF Agrees, CreateOf, Agenda!Inside
  <2>3. HoldOf(r)'
    BY <1>1, <1>3, <2>1 DEF Agrees, HoldOf, Clear, Agenda!Overlap
  <2>4. UpdateOf(r)'
    BY <1>1, <1>3, <2>1 DEF Agrees, UpdateOf, Clear, Agenda!Overlap, Agenda!Inside
  <2>5. (VenueOf(r) /\ WindowOf(r))'
    BY <1>1, <1>3, <2>1 DEF Agrees, VenueOf, WindowOf, Agenda!Inside, Agenda!Exists
  <2> QED BY <2>2, <2>3, <2>4, <2>5 DEF Agrees
<1> QED BY <1>2, <1>4, <1>5, <1>6 DEF AgendaInv

\* The venue that goes is that of sessions which its delete has missed.
LEMMA VenueDeleteKeeps ==
  ASSUME AgendaInv, NEW r \in Requests, Agenda!VenueDelete(r)
  PROVE  /\ AgendaInv'
         /\ request[r].kind = "venue" /\ venues' = venues \ {request[r].venue}
         /\ \A s \in Sessions : Agenda!Exists(s) /\ session'[s].venue # session[s].venue =>
                                s \in request[r].missed
<1> DEFINE v == request[r].venue
<1>1. /\ request[r].pc = "write" /\ request[r].kind = "venue" /\ UNCHANGED <<window, venueLocked>>
      /\ venues' = venues \ {v} /\ v \in venues /\ Agenda!EndMissed(r, {}, None)
      /\ session' = [s \in Sessions |-> IF session[s].venue = v THEN [session[s] EXCEPT !.venue = None]
                                        ELSE session[s]]
  BY DEF Agenda!VenueDelete, Agenda!End
<1>2. \A s \in Sessions : Agenda!Exists(s) /\ session[s].venue = v => s \in request[r].missed
  BY <1>1 DEF AgendaInv, Agrees, VenueOf
<1>3. /\ RequestTypes' /\ request'[r] = Agenda!IdleRequest
      /\ \A q \in Requests : q # r => AskedKept(q) /\ request'[q].missed = request[q].missed
  <2>1. Agenda!EndMissed(r, {}, None)
    BY <1>1
  <2> QED BY <2>1, Ending
<1> HIDE DEF v
<1>4. \A s \in Sessions :
        /\ session'[s].status = session[s].status /\ session'[s].from = session[s].from
        /\ session'[s].to = session[s].to /\ session'[s].late = session[s].late
        /\ session'[s].venue = IF session[s].venue = v THEN None ELSE session[s].venue
        /\ session'[s] \in SessionRow
  BY <1>1 DEF AgendaInv, AgendaRows, SessionRow
<1>5. AgendaRows'
  <2>1. session' \in [Sessions -> SessionRow]
    BY <1>1, <1>4
  <2> QED BY <1>1, <2>1 DEF AgendaInv, AgendaRows
<1>6. NoVenueOverlap'
  BY <1>4 DEF AgendaInv, NoVenueOverlap, Agenda!NoVenueOverlap, Agenda!Overlap
<1>7. SessionsInsideEvent'
  BY <1>1, <1>4 DEF AgendaInv, SessionsInsideEvent, Agenda!SessionsInsideEvent, Agenda!Inside, Agenda!Exists
<1>8. ASSUME NEW o \in Requests, o # r PROVE Agrees(o)'
  <2>1. AskedKept(o) /\ request'[o].missed = request[o].missed /\ Agrees(o)
    BY <1>3, <1>8 DEF AgendaInv
  <2>2. CreateOf(o)'
    <3>1. \A q \in Requests : q # o /\ request[o].kind = "create" =>
            request'[q].session # request[o].session
      <4>1. request'[r].session = None
        BY <1>3, IdleIs
      <4>2. request[o].kind = "create" => request[o].session \in Sessions
        BY <2>1 DEF Agrees, CreateOf
      <4> QED BY <1>3, <2>1, <4>1, <4>2, AgendaAssumption DEF Agrees, CreateOf, AskedKept
    <3> QED BY <1>1, <1>4, <2>1, <3>1 DEF Agrees, CreateOf, AskedKept, Agenda!Inside
  <2>3. HoldOf(o)'
    <3>1. None \notin venues'
      BY <1>1, AgendaAssumption DEF AgendaInv, AgendaRows
    <3> QED BY <1>1, <1>4, <2>1, <3>1 DEF Agrees, HoldOf, AskedKept, Clear, Agenda!Overlap
  <2>4. UpdateOf(o)'
    BY <1>1, <1>4, <2>1 DEF Agrees, UpdateOf, AskedKept, Clear, Agenda!Overlap, Agenda!Inside
  <2>5. VenueOf(o)'
    BY <1>4, <2>1, AgendaAssumption DEF Agrees, VenueOf, AskedKept, Agenda!Exists
  <2>6. WindowOf(o)'
    BY <1>1, <1>4, <2>1 DEF Agrees, WindowOf, AskedKept, Agenda!Inside, Agenda!Exists
  <2> QED BY <2>2, <2>3, <2>4, <2>5, <2>6 DEF Agrees
<1>9. Agrees(r)'
  BY <1>3, IdleAgrees
<1>10. AgendaInv'
  BY <1>3, <1>5, <1>6, <1>7, <1>8, <1>9 DEF AgendaInv
<1>11. \A s \in Sessions : Agenda!Exists(s) /\ session'[s].venue # session[s].venue =>
                           s \in request[r].missed
  BY <1>2, <1>4
<1> QED BY <1>1, <1>10, <1>11 DEF v

\* New dates that nobody overtook hold every session; every other request
\* misses them.
LEMMA WindowWriteKeeps ==
  ASSUME AgendaInv, NEW r \in Requests, Agenda!WindowWrite(r) PROVE AgendaInv'
<1> DEFINE kinds == {"create", "update", "window"}
<1>1. /\ request[r].pc = "write" /\ request[r].kind = "window" /\ Agenda!EndMissed(r, kinds, None)
      /\ UNCHANGED <<session, venues, venueLocked>>
      /\ window' = [from |-> IF "from" \in request[r].sets THEN request[r].from ELSE window.from,
                    to |-> IF "to" \in request[r].sets THEN request[r].to ELSE window.to,
                    late |-> Agenda!Late(r)]
  BY DEF Agenda!WindowWrite
<1>2. ~window'.late => /\ \A s \in Sessions : Agenda!Exists(s) => Agenda!Inside(session[s], request[r])
                       /\ window'.from = request[r].from /\ window'.to = request[r].to
  BY <1>1 DEF AgendaInv, Agrees, WindowOf, Agenda!Late
<1>3. AgendaRows'
  <2>1. request[r].from \in Nat /\ request[r].to \in Nat
    BY DEF AgendaInv, RequestTypes, AgendaRequest
  <2> QED BY <1>1, <2>1 DEF AgendaInv, AgendaRows, Agenda!Late
<1>4. /\ RequestTypes' /\ request'[r] = Agenda!IdleRequest
      /\ \A q \in Requests : q # r => /\ AskedKept(q)
                                      /\ request[q].kind \in kinds =>
                                           request'[q].missed = request[q].missed \cup {None}
                                      /\ request[q].kind \notin kinds =>
                                           request'[q].missed = request[q].missed
  <2>1. "none" \notin kinds
    OBVIOUS
  <2> HIDE DEF kinds
  <2> QED BY <1>1, <2>1, Ending
<1>5. NoVenueOverlap'
  BY <1>1 DEF AgendaInv, NoVenueOverlap, Agenda!NoVenueOverlap, Agenda!Overlap
<1>6. SessionsInsideEvent'
  BY <1>1, <1>2 DEF AgendaInv, SessionsInsideEvent, Agenda!SessionsInsideEvent, Agenda!Exists, Agenda!Inside
<1>7. ASSUME NEW o \in Requests, o # r PROVE Agrees(o)'
  <2>1. /\ Agrees(o) /\ AskedKept(o)
        /\ request[o].kind \in kinds => request'[o].missed = request[o].missed \cup {None}
        /\ request[o].kind = "venue" => request'[o].missed = request[o].missed
    BY <1>4, <1>7 DEF AgendaInv
  <2>2. CreateOf(o)'
    <3>1. \A q \in Requests : q # o /\ request[o].kind = "create" =>
            request'[q].session # request[o].session
      <4>1. request'[r].session = None
        BY <1>4, IdleIs
      <4>2. request[o].kind = "create" => request[o].session \in Sessions
        BY <2>1 DEF Agrees, CreateOf
      <4> QED BY <1>4, <2>1, <4>1, <4>2, AgendaAssumption DEF Agrees, CreateOf, AskedKept
    <3> QED BY <1>1, <2>1, <3>1 DEF Agrees, CreateOf, AskedKept
  <2>3. HoldOf(o)'
    BY <1>1, <2>1 DEF Agrees, HoldOf, AskedKept
  <2>4. UpdateOf(o)'
    BY <1>1, <2>1 DEF Agrees, UpdateOf, AskedKept
  <2>5. VenueOf(o)'
    BY <1>1, <2>1 DEF Agrees, VenueOf, AskedKept, Agenda!Exists
  <2>6. WindowOf(o)'
    BY <2>1 DEF Agrees, WindowOf, AskedKept
  <2> QED BY <2>2, <2>3, <2>4, <2>5, <2>6 DEF Agrees
<1>8. Agrees(r)'
  BY <1>4, IdleAgrees
<1> QED BY <1>3, <1>4, <1>5, <1>6, <1>7, <1>8 DEF AgendaInv

\* A request that ends without a write lets go of the row it holds.
LEMMA AbortKeeps ==
  ASSUME AgendaInv, NEW r \in Requests, Agenda!Abort(r) PROVE AgendaInv'
<1>1. /\ UNCHANGED <<session, venues, window>>
      /\ venueLocked' = Agenda!Unlock(r) /\ Agenda!EndMissed(r, {}, None)
  BY DEF Agenda!Abort, Agenda!End
<1>2. /\ RequestTypes' /\ request'[r] = Agenda!IdleRequest
      /\ \A q \in Requests : q # r => AskedKept(q) /\ request'[q].missed = request[q].missed
  BY <1>1, Ending
<1>3. AgendaRows'
  BY <1>1 DEF AgendaInv, AgendaRows, Agenda!Unlock
<1>4. \A w \in Venues : venueLocked'[w] = IF venueLocked[w] = r THEN None ELSE venueLocked[w]
  BY <1>1 DEF Agenda!Unlock
<1>5. (NoVenueOverlap /\ SessionsInsideEvent)'
  BY <1>1 DEF AgendaInv, NoVenueOverlap, SessionsInsideEvent, Agenda!NoVenueOverlap,
      Agenda!SessionsInsideEvent, Agenda!Overlap, Agenda!Inside, Agenda!Exists
<1>6. ASSUME NEW o \in Requests, o # r PROVE Agrees(o)'
  <2>1. AskedKept(o) /\ request'[o].missed = request[o].missed /\ Agrees(o)
    BY <1>2, <1>6 DEF AgendaInv
  <2>2. CreateOf(o)'
    <3>1. \A q \in Requests : q # o /\ request[o].kind = "create" =>
            request'[q].session # request[o].session
      <4>1. request'[r].session = None
        BY <1>2, IdleIs
      <4>2. request[o].kind = "create" => request[o].session \in Sessions
        BY <2>1 DEF Agrees, CreateOf
      <4> QED BY <1>2, <2>1, <4>1, <4>2, AgendaAssumption DEF Agrees, CreateOf, AskedKept
    <3> QED BY <1>1, <2>1, <3>1 DEF Agrees, CreateOf, AskedKept, Agenda!Inside
  <2>3. HoldOf(o)'
    <3>1. venues \subseteq Venues
      BY DEF AgendaInv, AgendaRows
    <3> QED BY <1>1, <1>4, <1>6, <2>1, <3>1 DEF Agrees, HoldOf, AskedKept, Clear, Agenda!Overlap
  <2>4. UpdateOf(o)'
    BY <1>1, <2>1 DEF Agrees, UpdateOf, AskedKept, Clear, Agenda!Overlap, Agenda!Inside
  <2>5. (VenueOf(o) /\ WindowOf(o))'
    BY <1>1, <2>1 DEF Agrees, VenueOf, WindowOf, AskedKept, Agenda!Inside, Agenda!Exists
  <2> QED BY <2>2, <2>3, <2>4, <2>5 DEF Agrees
<1>7. Agrees(r)'
  BY <1>2, IdleAgrees
<1> QED BY <1>2, <1>3, <1>5, <1>6, <1>7 DEF AgendaInv

-----------------------------------------------------------------------------
\* Only the delete of a venue takes one away, and only from sessions that it
\* has missed.
DeletesWhatItRead ==
  \A v \in venues \ venues' : \E r \in Requests :
    /\ request[r].kind = "venue" /\ request[r].venue = v
    /\ \A s \in Sessions : Agenda!Exists(s) /\ session[s].venue # session'[s].venue =>
                           s \in request[r].missed

LEMMA AgendaNextKeeps ==
  ASSUME AgendaInv, [Agenda!Next]_(Agenda!vars) PROVE AgendaInv' /\ DeletesWhatItRead
<1> DEFINE keeps == AgendaInv' /\ venues' = venues
<1>1. CASE UNCHANGED Agenda!vars
  <2>1. UNCHANGED <<session, venues, window, venueLocked, request>>
    BY <1>1 DEF Agenda!vars
  <2>2. (AgendaRows /\ RequestTypes /\ NoVenueOverlap /\ SessionsInsideEvent)'
    BY <2>1 DEF AgendaInv, AgendaRows, RequestTypes, NoVenueOverlap, SessionsInsideEvent,
        Agenda!NoVenueOverlap, Agenda!SessionsInsideEvent, Agenda!Overlap, Agenda!Inside, Agenda!Exists
  <2>3. ASSUME NEW r \in Requests PROVE Agrees(r)'
    <3>1. Agrees(r)
      BY DEF AgendaInv
    <3>2. (CreateOf(r) /\ HoldOf(r))'
      BY <2>1, <3>1 DEF Agrees, CreateOf, HoldOf, Clear, Agenda!Overlap, Agenda!Inside
    <3>3. (UpdateOf(r) /\ VenueOf(r) /\ WindowOf(r))'
      BY <2>1, <3>1 DEF Agrees, UpdateOf, VenueOf, WindowOf, Clear, Agenda!Overlap, Agenda!Inside,
          Agenda!Exists
    <3> QED BY <3>2, <3>3 DEF Agrees
  <2> QED BY <2>1, <2>2, <2>3 DEF AgendaInv, DeletesWhatItRead
<1>2. ASSUME NEW s \in Sessions, Agenda!DeleteSession(s) PROVE keeps
  BY <1>2, DeleteSessionKeeps DEF Agenda!DeleteSession
<1>3. ASSUME NEW r \in Requests, NEW s \in Sessions, NEW v \in Venues \cup {None},
             NEW p \in Agenda!Periods, NEW status \in Creating,
             Agenda!CreateRead(r, s, v, p, status)
      PROVE  keeps
  BY <1>3, CreateReadKeeps DEF Agenda!CreateRead
<1>4. ASSUME NEW r \in Requests, NEW s \in Sessions, NEW v \in Venues \cup {None},
             NEW p \in Agenda!Periods, NEW u \in Updating,
             Agenda!UpdateRead(r, s, v, p, u.sets, u.status)
      PROVE  keeps
  <2>1. u.sets \in SUBSET {"from", "to"} /\ u.status \in {"SCHEDULED", "CANCELLED", None}
    BY AgendaAssumption
  <2>2. AgendaInv'
    BY <1>4, <2>1, UpdateReadKeeps
  <2>3. venues' = venues
    BY <1>4 DEF Agenda!UpdateRead
  <2> QED BY <2>2, <2>3
<1>5. ASSUME NEW r \in Requests, NEW v \in Venues, Agenda!VenueRead(r, v) PROVE keeps
  BY <1>5, VenueReadKeeps DEF Agenda!VenueRead
<1>6. ASSUME NEW r \in Requests, NEW p \in Agenda!Periods, NEW sets \in SUBSET {"from", "to"} \ {{}},
             Agenda!WindowRead(r, p, sets)
      PROVE  keeps
  BY <1>6, WindowReadKeeps DEF Agenda!WindowRead, Agenda!ReadsWindow
<1>7. ASSUME NEW r \in Requests, Agenda!CreateLock(r) PROVE keeps
  BY <1>7, CreateLockKeeps DEF Agenda!CreateLock
<1>8. ASSUME NEW r \in Requests, Agenda!CreateWrite(r) PROVE keeps
  BY <1>8, CreateWriteKeeps DEF Agenda!CreateWrite
<1>9. ASSUME NEW r \in Requests, Agenda!UpdateCheck(r) PROVE keeps
  BY <1>9, UpdateCheckKeeps DEF Agenda!UpdateCheck
<1>10. ASSUME NEW r \in Requests, Agenda!UpdateWrite(r) PROVE keeps
  BY <1>10, UpdateWriteKeeps DEF Agenda!UpdateWrite
<1>11. ASSUME NEW r \in Requests, Agenda!WindowWrite(r) PROVE keeps
  BY <1>11, WindowWriteKeeps DEF Agenda!WindowWrite
<1>12. ASSUME NEW r \in Requests, Agenda!Abort(r) PROVE keeps
  BY <1>12, AbortKeeps DEF Agenda!Abort
<1>13. ASSUME NEW r \in Requests, Agenda!VenueDelete(r) PROVE AgendaInv' /\ DeletesWhatItRead
  BY <1>13, VenueDeleteKeeps DEF DeletesWhatItRead
<1>14. keeps => AgendaInv' /\ DeletesWhatItRead
  BY DEF DeletesWhatItRead
<1> HIDE DEF keeps
<1> QED BY <1>1, <1>2, <1>3, <1>4, <1>5, <1>6, <1>7, <1>8, <1>9, <1>10, <1>11, <1>12, <1>13, <1>14
          DEF Agenda!Next

LEMMA AgendaInvariance == Agenda!Spec => []AgendaInv
<1>1. AgendaInv /\ [Agenda!Next]_(Agenda!vars) => AgendaInv'
  BY AgendaNextKeeps
<1> QED BY AgendaInit, <1>1, PTL DEF Agenda!Spec

\* Two sessions hold one venue at the same time only if the write that placed
\* one of them was overtaken: creations alone never do it (sessions.service.ts:
\* the overlap check under FOR UPDATE), updates, which take no lock, may.
THEOREM VenuesNeverOverlap == Agenda!Spec => []NoVenueOverlap
<1>1. AgendaInv => NoVenueOverlap
  BY DEF AgendaInv
<1> QED BY <1>1, AgendaInvariance, PTL

\* Every session starts before it ends and lies in the event's window, unless
\* the write that placed the session, or that moved the window, was overtaken
\* (sessions.service.ts, events.service.ts: the checks of the dates).
THEOREM SessionsStayInside == Agenda!Spec => []SessionsInsideEvent
<1>1. AgendaInv => SessionsInsideEvent
  BY DEF AgendaInv
<1> QED BY <1>1, AgendaInvariance, PTL

\* The delete of a venue, allowed only when no session uses it, takes it away
\* only from sessions written after that check (venues.service.ts, onDelete:
\* SetNull in the schema).
THEOREM VenueDeleteIsSafe == Agenda!Spec => VenueKeepsSessions
<1>1. AgendaInv /\ [Agenda!Next]_(Agenda!vars) => [DeletesWhatItRead]_(Agenda!vars)
  BY AgendaNextKeeps
<1> QED BY <1>1, AgendaInvariance, PTL
        DEF Agenda!Spec, VenueKeepsSessions, Agenda!VenueKeepsSessions, DeletesWhatItRead

-----------------------------------------------------------------------------
(* The organisers.  Neither an account nor its role is ever taken away, so *)
(* what an acceptance or an assignment read of them is still so when it    *)
(* writes.                                                                 *)

OrganizerTypes ==
  /\ invitation \in [1..MaxInvitations -> [status : {"none", "PENDING", "ACCEPTED", "REVOKED"},
                                           expired : BOOLEAN]]
  /\ invitee \in [account : {"none", "open", "ended", "deleted"}, role : BOOLEAN, session : BOOLEAN]
  /\ inviting \in [Inviting -> [pc : {"idle", "insert", "revoke", "accept", "commit",
                                      "acceptNew", "assign", "remove", "gone"},
                                invitation : {0} \cup 1..MaxInvitations]]

\* What each call has read of the account.
AccountRead ==
  \A c \in Inviting :
    /\ inviting[c].pc \in {"accept", "commit"} => invitee.account # "none"
    /\ inviting[c].pc = "assign" => invitee.account # "none" /\ invitee.role = TRUE

Organizing ==
  assigned = TRUE \/ (\E i \in 1..MaxInvitations : invitation[i].status = "ACCEPTED") =>
    invitee.account # "none" /\ invitee.role = TRUE

OrganizerInv == OrganizerTypes /\ AccountRead /\ Organizing

\* The calls that neither accept an invitation nor assign.
LEMMA OrganizerOthersKeep ==
  ASSUME OrganizerInv,
         \/ Organizers!ChangeAccount \/ Organizers!DeleteEvent
         \/ \E i \in 1..MaxInvitations : Organizers!Expire(i)
  PROVE  OrganizerInv'
<1> USE DEF OrganizerInv, OrganizerTypes, AccountRead, Organizing
<1>1. CASE Organizers!ChangeAccount
  BY <1>1 DEF Organizers!ChangeAccount
<1>2. CASE Organizers!DeleteEvent
  BY <1>2 DEF Organizers!DeleteEvent
<1>3. ASSUME NEW i \in 1..MaxInvitations, Organizers!Expire(i) PROVE OrganizerInv'
  <2>1. /\ UNCHANGED <<invitee, assigned, eventThere, inviting>>
        /\ invitation' = [invitation EXCEPT ![i].expired = TRUE]
    BY <1>3 DEF Organizers!Expire
  <2>2. \A k \in 1..MaxInvitations : invitation'[k].status = invitation[k].status
    BY <2>1
  <2>3. OrganizerTypes'
    BY <2>1
  <2>4. AccountRead'
    BY <2>1, <2>2
  <2>5. Organizing'
    BY <2>1, <2>2
  <2> QED BY <2>3, <2>4, <2>5
<1> QED BY <1>1, <1>2, <1>3

LEMMA InvitationsKeep ==
  ASSUME OrganizerInv, NEW c \in Inviting,
         \/ Organizers!RevokePending(c) \/ Organizers!CreateInvitation(c)
         \/ Organizers!RevokeInvitation(c)
         \/ \E i \in 1..MaxInvitations : Organizers!ReadForRevoke(c, i) \/ Organizers!ReadForAccept(c, i)
  PROVE  OrganizerInv'
<1> USE DEF OrganizerInv, OrganizerTypes, AccountRead, Organizing, Organizers!Goes, Organizers!Stops,
            Organizers!At, Organizers!Begins
<1>1. CASE Organizers!RevokePending(c)
  BY <1>1 DEF Organizers!RevokePending
<1>2. CASE Organizers!CreateInvitation(c)
  BY <1>2 DEF Organizers!CreateInvitation
<1>3. CASE Organizers!RevokeInvitation(c)
  <2>1. /\ UNCHANGED <<invitee, assigned, eventThere>>
        /\ invitation' = [invitation EXCEPT ![inviting[c].invitation].status = "REVOKED"]
    BY <1>3 DEF Organizers!RevokeInvitation
  <2>2. \A k \in 1..MaxInvitations :
          invitation'[k].status = "ACCEPTED" => invitation[k].status = "ACCEPTED"
    BY <2>1
  <2>3. OrganizerTypes'
    <3>1. inviting' = [inviting EXCEPT ![c] = [pc |-> "idle", invitation |-> 0]]
      BY <1>3 DEF Organizers!RevokeInvitation
    <3>2. invitation' \in [1..MaxInvitations -> [status : {"none", "PENDING", "ACCEPTED", "REVOKED"},
                                                expired : BOOLEAN]]
      BY <2>1
    <3> QED BY <2>1, <3>1, <3>2
  <2>4. AccountRead'
    BY <1>3, <2>1 DEF Organizers!RevokeInvitation
  <2>5. Organizing'
    BY <2>1, <2>2
  <2> QED BY <2>3, <2>4, <2>5
<1>4. ASSUME NEW i \in 1..MaxInvitations, Organizers!ReadForRevoke(c, i) PROVE OrganizerInv'
  BY <1>4 DEF Organizers!ReadForRevoke
<1>5. ASSUME NEW i \in 1..MaxInvitations, Organizers!ReadForAccept(c, i) PROVE OrganizerInv'
  <2>1. /\ UNCHANGED <<invitation, invitee, assigned>>
        /\ invitee.account # "none" \/ inviting'[c].pc = "acceptNew"
        /\ inviting' \in [Inviting -> [pc : {"idle", "insert", "revoke", "accept", "commit",
                                            "acceptNew", "assign", "remove", "gone"},
                                      invitation : {0} \cup 1..MaxInvitations]]
        /\ \A d \in Inviting : d # c => inviting'[d] = inviting[d]
        /\ inviting'[c].pc \in {"accept", "acceptNew"}
    <3>1. PICK pc \in {"accept", "acceptNew"} :
            /\ UNCHANGED <<invitation, invitee, assigned>>
            /\ invitee.account # "none" \/ pc = "acceptNew"
            /\ inviting' = [inviting EXCEPT ![c] = [pc |-> pc, invitation |-> i]]
      BY <1>5 DEF Organizers!ReadForAccept
    <3>2. [pc |-> pc, invitation |-> i].pc = pc
      OBVIOUS
    <3>3. [pc |-> pc, invitation |-> i]
            \in [pc : {"idle", "insert", "revoke", "accept", "commit",
                      "acceptNew", "assign", "remove", "gone"}, invitation : {0} \cup 1..MaxInvitations]
      OBVIOUS
    <3> QED BY <3>1, <3>2, <3>3
  <2> QED BY <2>1
<1> QED BY <1>1, <1>2, <1>3, <1>4, <1>5

LEMMA AssignmentsKeep ==
  ASSUME OrganizerInv, NEW c \in Inviting,
         \/ Organizers!IssueSession(c) \/ Organizers!AcceptExisting(c) \/ Organizers!AcceptNew(c)
         \/ Organizers!ReadForAssign(c) \/ Organizers!Assign(c)
         \/ Organizers!ReadForRemove(c) \/ Organizers!Remove(c) \/ Organizers!CallFails(c)
  PROVE  OrganizerInv'
<1> USE DEF OrganizerInv, OrganizerTypes, AccountRead, Organizing, Organizers!Goes, Organizers!Stops,
            Organizers!At, Organizers!Begins
<1>1. CASE Organizers!AcceptExisting(c)
  BY <1>1 DEF Organizers!AcceptExisting, Organizers!Accepted
<1>2. CASE Organizers!AcceptNew(c)
  BY <1>2 DEF Organizers!AcceptNew
<1>3. CASE Organizers!ReadForAssign(c)
  BY <1>3 DEF Organizers!ReadForAssign
<1>4. CASE Organizers!Assign(c)
  BY <1>4 DEF Organizers!Assign
<1>5. CASE Organizers!ReadForRemove(c)
  BY <1>5 DEF Organizers!ReadForRemove
<1>6. CASE Organizers!Remove(c)
  BY <1>6 DEF Organizers!Remove, Organizers!NotInviting
<1>7. CASE Organizers!CallFails(c)
  BY <1>7 DEF Organizers!CallFails
<1>8. CASE Organizers!IssueSession(c)
  BY <1>8 DEF Organizers!IssueSession
<1> QED BY <1>1, <1>2, <1>3, <1>4, <1>5, <1>6, <1>7, <1>8

LEMMA OrganizerInvariance == Organizers!OrganizerSpec => []OrganizerInv
<1>1. Organizers!OrganizerInit => OrganizerInv
  <2> SUFFICES ASSUME Organizers!OrganizerInit PROVE OrganizerInv
    OBVIOUS
  <2>1. OrganizerTypes
    BY DEF Organizers!OrganizerInit, Organizers!NoInvitation, Organizers!NotInviting, OrganizerTypes
  <2>2. AccountRead
    BY DEF Organizers!OrganizerInit, Organizers!NotInviting, AccountRead
  <2>3. Organizing
    BY DEF Organizers!OrganizerInit, Organizers!NoInvitation, Organizing
  <2> QED BY <2>1, <2>2, <2>3 DEF OrganizerInv
<1>2. ASSUME OrganizerInv, [Organizers!OrganizerNext]_(Organizers!organizerVars)
      PROVE  OrganizerInv'
  <2>1. DOMAIN invitation = 1..MaxInvitations
    BY <1>2 DEF OrganizerInv, OrganizerTypes
  <2>2. CASE UNCHANGED Organizers!organizerVars
    BY <1>2, <2>2 DEF Organizers!organizerVars, OrganizerInv, OrganizerTypes, AccountRead, Organizing
  <2> QED BY <1>2, <2>1, <2>2, OrganizerOthersKeep, InvitationsKeep, AssignmentsKeep
          DEF Organizers!OrganizerNext
<1> QED BY <1>1, <1>2, PTL DEF Organizers!OrganizerSpec

\* However invitations, acceptances, assignments and the account's own life
\* overlap, nobody organises the event without an account and its role.
THEOREM OrganizersAreAccounts == Organizers!OrganizerSpec => []OrganizersHaveRole
<1>1. OrganizerInv => OrganizersHaveRole
  BY DEF OrganizerInv, OrganizerTypes, Organizing, OrganizersHaveRole, Organizers!OrganizersHaveRole
<1> QED BY <1>1, OrganizerInvariance, PTL

-----------------------------------------------------------------------------
(* The advertisement.  A status that is shown, or that leads back to one   *)
(* that is, was decided on: in the row, and in what any call is to write.  *)

\* Statuses an ad does not come to without a decision.
DecidedStatus == Ads!Live \cup {"PAUSED"}
AdStatus == {"none", "DRAFT", "PENDING_REVIEW", "REJECTED"} \cup DecidedStatus

AdTypes ==
  /\ ad \in [status : AdStatus, deleted : BOOLEAN, edits : Nat, reviewed : Nat, decided : BOOLEAN]
  /\ campaigning \in [Campaigning -> [pc : {"idle", "edit", "dates", "status", "delete", "approve"},
                                      status : AdStatus, edits : Nat]]

AdDecided == ad.status \in DecidedStatus => ad.decided = TRUE

WritesDecided ==
  \A c \in Campaigning :
    campaigning[c].status \in DecidedStatus /\ campaigning[c].pc # "approve" => ad.decided = TRUE

AdInv == AdTypes /\ AdDecided /\ WritesDecided

\* A call that reads the ad is to write the ad's own status, one that leads to
\* a review, or one that an ad with a decision may take.
LEMMA AdReadKeeps ==
  ASSUME AdInv, NEW c \in Campaigning,
         NEW pc \in {"edit", "dates", "status", "delete", "approve"}, NEW status \in AdStatus,
         status \in DecidedStatus /\ pc # "approve" => ad.status \in DecidedStatus,
         Ads!Reads(c, pc, status)
  PROVE  AdInv'
<1>1. UNCHANGED ad /\ campaigning' = [campaigning EXCEPT ![c] =
                                        [pc |-> pc, status |-> status, edits |-> ad.edits]]
  BY DEF Ads!Reads
<1>2. AdTypes' /\ AdDecided'
  BY <1>1 DEF AdInv, AdTypes, AdDecided
<1>3. WritesDecided'
  BY <1>1 DEF AdInv, AdTypes, AdDecided, WritesDecided
<1> QED BY <1>2, <1>3 DEF AdInv

LEMMA AdReadersKeep ==
  ASSUME AdInv, NEW c \in Campaigning,
         \/ Ads!ReadForEdit(c) \/ Ads!ReadForDates(c) \/ Ads!ReadForSubmit(c)
         \/ Ads!ReadForToggle(c) \/ Ads!ReadForDelete(c) \/ Ads!ReadForReview(c)
  PROVE  AdInv'
<1>0. ad.status \in AdStatus
  BY DEF AdInv, AdTypes
<1>1. CASE Ads!ReadForEdit(c)
  BY <1>0, <1>1, AdReadKeeps DEF Ads!ReadForEdit, Ads!UpdatedStatus, AdStatus, DecidedStatus
<1>2. CASE Ads!ReadForDates(c)
  BY <1>0, <1>2, AdReadKeeps DEF Ads!ReadForDates
<1>3. CASE Ads!ReadForSubmit(c)
  BY <1>3, AdReadKeeps DEF Ads!ReadForSubmit, AdStatus, DecidedStatus, Ads!Live
<1>4. CASE Ads!ReadForToggle(c)
  BY <1>0, <1>4, AdReadKeeps DEF Ads!ReadForToggle, Ads!Toggled, AdStatus, DecidedStatus, Ads!Live
<1>5. CASE Ads!ReadForDelete(c)
  BY <1>0, <1>5, AdReadKeeps DEF Ads!ReadForDelete
<1>6. CASE Ads!ReadForReview(c)
  BY <1>6, AdReadKeeps DEF Ads!ReadForReview, AdStatus, DecidedStatus, Ads!Live
<1> QED BY <1>1, <1>2, <1>3, <1>4, <1>5, <1>6

\* A call that ends, and what it has written.
LEMMA AdWriteKeeps ==
  ASSUME AdInv, NEW c \in Campaigning,
         campaigning' = [campaigning EXCEPT ![c] = Ads!NoCampaign],
         ad' \in [status : AdStatus, deleted : BOOLEAN, edits : Nat, reviewed : Nat, decided : BOOLEAN],
         ad.decided = TRUE => ad'.decided = TRUE,
         ad'.status \in DecidedStatus => ad'.decided = TRUE
  PROVE  AdInv'
<1>1. AdTypes'
  BY DEF AdInv, AdTypes, Ads!NoCampaign, AdStatus
<1>2. WritesDecided'
  BY DEF AdInv, AdTypes, WritesDecided, Ads!NoCampaign, DecidedStatus, Ads!Live
<1> QED BY <1>1, <1>2 DEF AdInv, AdDecided

LEMMA AdWritersKeep ==
  ASSUME AdInv, NEW c \in Campaigning,
         \/ Ads!WriteStatus(c) \/ Ads!WriteEdit(c) \/ Ads!WriteDates(c)
         \/ Ads!WriteDelete(c) \/ Ads!WriteApproval(c) \/ Ads!CampaignFails(c)
  PROVE  AdInv'
<1> USE DEF AdInv, AdTypes, AdDecided, WritesDecided, Ads!Writes
<1>1. CASE Ads!WriteStatus(c)
  <2>1. ad' \in [status : AdStatus, deleted : BOOLEAN, edits : Nat, reviewed : Nat, decided : BOOLEAN]
    BY <1>1 DEF Ads!WriteStatus
  <2>2. ad'.decided = ad.decided /\ ad'.status = campaigning[c].status
    BY <1>1 DEF Ads!WriteStatus
  <2> QED BY <1>1, <2>1, <2>2, AdWriteKeeps DEF Ads!WriteStatus
<1>2. CASE Ads!WriteEdit(c)
  <2>1. ad' = [status |-> campaigning[c].status, deleted |-> ad.deleted, edits |-> ad.edits + 1,
               reviewed |-> ad.reviewed, decided |-> ad.decided]
    BY <1>2 DEF Ads!WriteEdit
  <2>2. ad' \in [status : AdStatus, deleted : BOOLEAN, edits : Nat, reviewed : Nat, decided : BOOLEAN]
    <3>1. ad.edits + 1 \in Nat
      OBVIOUS
    <3> QED BY <2>1, <3>1, Zenon
  <2>3. ad'.decided = ad.decided /\ ad'.status = campaigning[c].status
    BY <2>1
  <2> QED BY <1>2, <2>2, <2>3, AdWriteKeeps DEF Ads!WriteEdit
<1>3. CASE Ads!WriteDates(c)
  <2>1. ad' \in [status : AdStatus, deleted : BOOLEAN, edits : Nat, reviewed : Nat, decided : BOOLEAN]
    BY <1>3 DEF Ads!WriteDates
  <2>2. ad'.decided = ad.decided /\ ad'.status = campaigning[c].status
    BY <1>3 DEF Ads!WriteDates
  <2> QED BY <1>3, <2>1, <2>2, AdWriteKeeps DEF Ads!WriteDates
<1>4. CASE Ads!WriteDelete(c)
  <2>1. ad' \in [status : AdStatus, deleted : BOOLEAN, edits : Nat, reviewed : Nat, decided : BOOLEAN]
    BY <1>4 DEF Ads!WriteDelete
  <2>2. ad'.decided = ad.decided /\ ad'.status = ad.status
    BY <1>4 DEF Ads!WriteDelete
  <2> QED BY <1>4, <2>1, <2>2, AdWriteKeeps DEF Ads!WriteDelete
<1>5. CASE Ads!WriteApproval(c)
  <2>1. ad' = [status |-> campaigning[c].status, deleted |-> ad.deleted, edits |-> ad.edits,
               reviewed |-> campaigning[c].edits, decided |-> TRUE]
    BY <1>5 DEF Ads!WriteApproval
  <2>2. ad' \in [status : AdStatus, deleted : BOOLEAN, edits : Nat, reviewed : Nat, decided : BOOLEAN]
    BY <2>1
  <2>3. ad'.decided = TRUE
    BY <2>1
  <2> QED BY <1>5, <2>2, <2>3, AdWriteKeeps DEF Ads!WriteApproval
<1>6. CASE Ads!CampaignFails(c)
  BY <1>6, AdWriteKeeps DEF Ads!CampaignFails
<1> QED BY <1>1, <1>2, <1>3, <1>4, <1>5, <1>6

\* The clock, the surroundings, the creation and the moderation.
LEMMA AdOthersKeep ==
  ASSUME AdInv,
         \/ Ads!Time \/ Ads!Surroundings \/ Ads!CreateAd
         \/ \E status \in {"APPROVED", "REJECTED"} : Ads!Moderate(status)
  PROVE  AdInv'
<1>1. CASE UNCHANGED <<ad, campaigning>>
  BY <1>1 DEF AdInv, AdTypes, AdDecided, WritesDecided
<1>2. CASE Ads!Time \/ Ads!Surroundings
  BY <1>1, <1>2 DEF Ads!Time, Ads!Surroundings
<1>3. CASE Ads!CreateAd
  BY <1>3 DEF Ads!CreateAd, AdInv, AdTypes, AdDecided, WritesDecided, AdStatus, DecidedStatus, Ads!Live
<1>4. CASE Ads!Moderate("APPROVED")
  <2>1. /\ ad' = [status |-> "APPROVED", deleted |-> ad.deleted, edits |-> ad.edits,
                  reviewed |-> ad.edits, decided |-> TRUE]
        /\ UNCHANGED campaigning
    BY <1>4 DEF Ads!Moderate, AdInv, AdTypes
  <2>2. AdTypes'
    BY <2>1 DEF AdInv, AdTypes, AdStatus, DecidedStatus, Ads!Live
  <2>3. AdDecided' /\ WritesDecided'
    BY <2>1 DEF AdDecided, WritesDecided
  <2> QED BY <2>2, <2>3 DEF AdInv
<1>5. CASE Ads!Moderate("REJECTED")
  BY <1>5 DEF Ads!Moderate, AdInv, AdTypes, AdDecided, WritesDecided, AdStatus, DecidedStatus, Ads!Live
<1> QED BY <1>2, <1>3, <1>4, <1>5

LEMMA AdInvariance == Ads!AdSpec => []AdInv
<1>1. Ads!AdInit => AdInv
  BY DEF Ads!AdInit, Ads!NoCampaign, AdInv, AdTypes, AdDecided, WritesDecided, AdStatus,
      DecidedStatus, Ads!Live
<1>2. ASSUME AdInv, [Ads!AdNext]_(Ads!adVars) PROVE AdInv'
  <2>1. CASE UNCHANGED Ads!adVars
    BY <1>2, <2>1 DEF Ads!adVars, AdInv, AdTypes, AdDecided, WritesDecided
  <2> QED BY <1>2, <2>1, AdReadersKeep, AdWritersKeep, AdOthersKeep DEF Ads!AdNext
<1> QED BY <1>1, <1>2, PTL DEF Ads!AdSpec

\* No edit, pause, submission, deletion or overlap of calls shows the public
\* an ad for which no administrator decided.
THEOREM ShownAdsAreDecided == Ads!AdSpec => []VisibleWasDecided
<1>1. AdInv => VisibleWasDecided
  BY DEF AdInv, AdTypes, AdDecided, DecidedStatus, VisibleWasDecided, Ads!VisibleWasDecided, Ads!Visible
<1> QED BY <1>1, AdInvariance, PTL
=============================================================================
