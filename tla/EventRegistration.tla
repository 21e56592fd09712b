------------------------- MODULE EventRegistration -------------------------
(***************************************************************************)
(* One event: its life cycle, its capacity and its registrations.          *)
(*                                                                         *)
(* register holds the event's row (SELECT ... FOR UPDATE) from its checks  *)
(* to its commit.  The organiser's requests (publish, cancel, update,      *)
(* softDelete) read the event, and count the registrations, outside any    *)
(* transaction; their later UPDATE waits for the row and replaces it       *)
(* whatever it has become.                                                 *)
(***************************************************************************)
EXTENDS Naturals, FiniteSets

CONSTANTS Users,
          Registers,   \* register requests that may run at the same time
          Cancels,     \* requests that cancel a registration
          Managers,    \* requests of the owner or an organiser
          Capacities,  \* the capacities an event may be given
          None

ASSUME UsersAssumption == IsFiniteSet(Users)
ASSUME CapacitiesAssumption == Capacities # {} /\ Capacities \subseteq Nat \ {0}
ASSUME NoneAssumption == None \notin Registers \cup Users

VARIABLES event,         \* events: status, capacity, deletedAt, endsAt < now
          registration,  \* event_registrations: status of each user's row
          locked,        \* the register request that holds the event's row, if any
          register,      \* the user each register request writes for
          cancel,        \* the user each cancel request read a registration of
          manage

vars == <<event, registration, locked, register, cancel, manage>>

IdleManager == [kind |-> "none", capacity |-> 0]

Init ==
  /\ event \in [status : {"DRAFT"}, capacity : Capacities, deleted : {FALSE}, over : {FALSE}]
  /\ registration = [u \in Users |-> "none"]
  /\ locked = None
  /\ register = [r \in Registers |-> None]
  /\ cancel = [c \in Cancels |-> None]
  /\ manage = [m \in Managers |-> IdleManager]

Registered == {u \in Users : registration[u] = "REGISTERED"}

\* Mutant of HasRoom: one too many.
HasRoomOffByOne == Cardinality(Registered) <= event.capacity

HasRoom == Cardinality(Registered) < event.capacity

-----------------------------------------------------------------------------
\* endsAt passes.
Ends ==
  /\ ~event.over
  /\ event' = [event EXCEPT !.over = TRUE]
  /\ UNCHANGED <<registration, locked, register, cancel, manage>>

\* The row is locked, and every check is made on it and under it.  (An ONGOING
\* event would accept registrations too, but nothing writes ONGOING or COMPLETED.)
RegisterLock(r, u) ==
  /\ register[r] = None /\ locked = None
  /\ ~event.deleted /\ event.status \notin {"DRAFT", "CANCELLED", "COMPLETED"} /\ ~event.over
  /\ u \notin Registered /\ HasRoom
  /\ locked' = r
  /\ register' = [register EXCEPT ![r] = u]
  /\ UNCHANGED <<event, registration, cancel, manage>>

\* A CANCELLED row is made REGISTERED again, or a new one is created.
RegisterCommit(r) ==
  /\ locked = r
  /\ registration' = [registration EXCEPT ![register[r]] = "REGISTERED"]
  /\ locked' = None
  /\ register' = [register EXCEPT ![r] = None]
  /\ UNCHANGED <<event, cancel, manage>>

RegisterLost(r) ==
  /\ locked = r
  /\ locked' = None
  /\ register' = [register EXCEPT ![r] = None]
  /\ UNCHANGED <<event, registration, cancel, manage>>

-----------------------------------------------------------------------------
CancelRead(c, u) ==
  /\ cancel[c] = None /\ u \in Registered
  /\ cancel' = [cancel EXCEPT ![c] = u]
  /\ UNCHANGED <<event, registration, locked, register, manage>>

\* By the id of the row: a registration made since is cancelled too.
CancelCommit(c) ==
  /\ cancel[c] # None
  /\ registration' = [registration EXCEPT ![cancel[c]] = "CANCELLED"]
  /\ cancel' = [cancel EXCEPT ![c] = None]
  /\ UNCHANGED <<event, locked, register, manage>>

-----------------------------------------------------------------------------
(* The organiser's requests *)

ManageRead(m, kind, capacity) ==
  /\ manage[m] = IdleManager /\ ~event.deleted
  /\ kind = "publish" => event.status = "DRAFT"
  /\ kind = "cancel" => event.status # "CANCELLED"
  /\ kind = "capacity" => capacity >= Cardinality(Registered)
  /\ manage' = [manage EXCEPT ![m] = [kind |-> kind, capacity |-> capacity]]
  /\ UNCHANGED <<event, registration, locked, register, cancel>>

\* What each kind of request makes of the event it finds; new dates may lie
\* in the future again.
Outcomes(kind, capacity) ==
  CASE kind = "publish"  -> {[event EXCEPT !.status = "PUBLISHED"]}
    [] kind = "cancel"   -> {[event EXCEPT !.status = "CANCELLED"]}
    [] kind = "capacity" -> {[event EXCEPT !.capacity = capacity]}
    [] kind = "dates"    -> {[event EXCEPT !.over = b] : b \in BOOLEAN}
    [] kind = "delete"   -> {[event EXCEPT !.status = "CANCELLED", !.deleted = TRUE]}

ManageCommit(m) ==
  /\ manage[m].kind # "none" /\ locked = None
  /\ event' \in Outcomes(manage[m].kind, manage[m].capacity)
  /\ manage' = [manage EXCEPT ![m] = IdleManager]
  /\ UNCHANGED <<registration, locked, register, cancel>>

\* An administrator hides or restores the event: any event, deleted or not.
Moderate(status) ==
  /\ locked = None
  /\ event' = [event EXCEPT !.status = status]
  /\ UNCHANGED <<registration, locked, register, cancel, manage>>

\* The process is lost between the read and the write.
RequestLost ==
  /\ \/ \E c \in Cancels : /\ cancel[c] # None
                           /\ cancel' = [cancel EXCEPT ![c] = None] /\ UNCHANGED manage
     \/ \E m \in Managers : /\ manage[m] # IdleManager
                            /\ manage' = [manage EXCEPT ![m] = IdleManager] /\ UNCHANGED cancel
  /\ UNCHANGED <<event, registration, locked, register>>

-----------------------------------------------------------------------------
Next ==
  \/ Ends \/ RequestLost
  \/ \E r \in Registers : \/ RegisterCommit(r) \/ RegisterLost(r)
                          \/ \E u \in Users : RegisterLock(r, u)
  \/ \E c \in Cancels : CancelCommit(c) \/ \E u \in Users : CancelRead(c, u)
  \/ \E m \in Managers : \/ ManageCommit(m)
                         \/ \E k \in Capacities : ManageRead(m, "capacity", k)
                         \/ \E kind \in {"publish", "cancel", "dates", "delete"} :
                              ManageRead(m, kind, 0)
  \/ \E status \in {"PUBLISHED", "CANCELLED"} : Moderate(status)

Spec == Init /\ [][Next]_vars

-----------------------------------------------------------------------------
(* Properties *)

\* Type invariant.
TypeOK ==
  /\ event \in [status : {"DRAFT", "PUBLISHED", "CANCELLED"}, capacity : Capacities,
                deleted : BOOLEAN, over : BOOLEAN]
  /\ registration \in [Users -> {"none", "REGISTERED", "CANCELLED"}]
  /\ locked \in Registers \cup {None}
  /\ register \in [Registers -> Users \cup {None}]
  /\ cancel \in [Cancels -> Users \cup {None}]
  /\ manage \in [Managers -> [kind : {"none", "publish", "cancel", "capacity", "dates", "delete"},
                              capacity : Capacities \cup {0}]]

\* A registration is granted only by an event that is published and not
\* deleted at that moment, and never beyond the capacity it then has: the
\* checks of register hold until its commit, because of the row lock.
GrantedWithinCapacity ==
  [][Registered' \ Registered # {} =>
       /\ event.status = "PUBLISHED" /\ ~event.deleted
       /\ Cardinality(Registered') <= event.capacity]_vars
=============================================================================
