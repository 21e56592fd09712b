--------------------------- MODULE VenueSchedule ---------------------------
(***************************************************************************)
(* The agenda of one event: its sessions, their venues and times, and the  *)
(* event's own window.                                                     *)
(*                                                                         *)
(* Every request reads and checks first and writes later.  Only the create *)
(* of a session holds its venue's row (SELECT ... FOR UPDATE) from the     *)
(* overlap check to its commit.  A write that gives a session another      *)
(* venue, and the delete of a venue, wait for that row.  What others have  *)
(* written meanwhile is kept as history, in "missed" and "late".           *)
(***************************************************************************)
EXTENDS Naturals, FiniteSets

CONSTANTS Sessions, Venues, Requests,
          Creating,  \* the statuses that creates ask for
          Updating,  \* what updates name: sets (of "from" and "to"), and a status or None
          Horizon,   \* bound: times are 0..Horizon
          None       \* none of Venues, Requests and Sessions

SessionStatus == {"SCHEDULED", "CANCELLED"}   \* LIVE and COMPLETED count as SCHEDULED

VARIABLES session,   \* sessions: status, venue, from (startsAt) and to (endsAt), and
                     \* whether the write that placed it was late
          venues,    \* the rows of venues
          window,    \* events: startsAt and endsAt, and whether their write was late
          locked,    \* the request that holds each venue's row, if any
          request

vars == <<session, venues, window, locked, request>>

Times == 0..Horizon
Periods == {p \in [from : Times, to : Times] : p.from < p.to}

Absent == [status |-> "absent", venue |-> None, from |-> 0, to |-> 1, late |-> FALSE]
\* What a request was asked to write, and how far it has come; "sets" are the
\* times it names, "missed" what others have written since it read: sessions,
\* and None for the window.
IdleRequest == [pc |-> "idle", kind |-> "none", session |-> None, venue |-> None,
                from |-> 0, to |-> 1, sets |-> {}, status |-> "SCHEDULED", missed |-> {}]

Init ==
  /\ session = [s \in Sessions |-> Absent]
  /\ venues = Venues
  /\ window \in [from : Times, to : Times, late : {FALSE}] /\ window.from < window.to
  /\ locked = [v \in Venues |-> None]
  /\ request = [r \in Requests |-> IdleRequest]

Exists(s) == session[s].status \in {"SCHEDULED", "CANCELLED"}
Inside(p, q) == q.from <= p.from /\ p.to <= q.to
Overlap(p, q) == p.from < q.to /\ q.from < p.to

\* Mutant of Conflicts: looks only for sessions that start in the period.
ConflictsByStart(s, v, p) ==
  {t \in Sessions \ {s} : session[t].status = "SCHEDULED" /\ session[t].venue = v
                          /\ session[t].from \in p.from..(p.to - 1)}

\* The query of the overlap check: another session that holds the venue.
Conflicts(s, v, p) ==
  {t \in Sessions \ {s} : session[t].status = "SCHEDULED" /\ session[t].venue = v
                          /\ Overlap(session[t], p)}

Busy == {r \in Requests : request[r].pc # "idle"}
Starts(r) == r \notin Busy

\* r ends; the other requests of these kinds miss what it has written.
EndMissed(r, kinds, what) ==
  request' = [q \in Requests |->
    IF q = r THEN IdleRequest
    ELSE IF request[q].kind \in kinds THEN [request[q] EXCEPT !.missed = @ \cup {what}]
    ELSE request[q]]
End(r) == EndMissed(r, {}, None)
Late(r) == request[r].missed # {}

-----------------------------------------------------------------------------
(* create *)

CreateRead(r, s, v, p, status) ==
  /\ Starts(r) /\ session[s].status = "absent"
  /\ \A q \in Requests : request[q].session # s   \* its id is new
  /\ Inside(p, window)
  /\ v # None => v \in venues
  /\ request' = [request EXCEPT ![r] =
       [pc |-> IF v = None THEN "write" ELSE "lock", kind |-> "create", session |-> s,
        venue |-> v, from |-> p.from, to |-> p.to, sets |-> {}, status |-> status,
        missed |-> {}]]
  /\ UNCHANGED <<session, venues, window, locked>>

\* Mutant of CreateLock: no FOR UPDATE.
CreateCheck(r) ==
  LET q == request[r] IN
  /\ q.pc = "lock" /\ Conflicts(q.session, q.venue, q) = {}
  /\ request' = [request EXCEPT ![r].pc = "write"]
  /\ UNCHANGED <<session, venues, window, locked>>

\* The lock of a venue that has been deleted locks nothing.
CreateLock(r) ==
  LET q == request[r] IN
  /\ q.pc = "lock" /\ locked[q.venue] = None
  /\ Conflicts(q.session, q.venue, q) = {}
  /\ locked' = IF q.venue \in venues THEN [locked EXCEPT ![q.venue] = r] ELSE locked
  /\ request' = [request EXCEPT ![r].pc = "write"]
  /\ UNCHANGED <<session, venues, window>>

Unlock(r) == [v \in Venues |-> IF locked[v] = r THEN None ELSE locked[v]]

CreateWrite(r) ==
  LET q == request[r] IN
  /\ q.pc = "write" /\ q.kind = "create"
  /\ q.venue # None => q.venue \in venues   \* else the foreign key fails
  /\ session' = [session EXCEPT ![q.session] =
       [status |-> q.status, venue |-> q.venue, from |-> q.from, to |-> q.to, late |-> Late(r)]]
  /\ locked' = Unlock(r)
  /\ EndMissed(r, {"update", "venue", "window"}, q.session)
  /\ UNCHANGED <<venues, window>>

-----------------------------------------------------------------------------
(* update: a new venue, new times (both, one or none of them), a new status *)

UpdateRead(r, s, v, p, sets, status) ==
  LET from == IF "from" \in sets THEN p.from ELSE session[s].from
      to   == IF "to" \in sets THEN p.to ELSE session[s].to
  IN
  /\ Starts(r) /\ Exists(s)
  /\ from < to /\ Inside([from |-> from, to |-> to], window)
  /\ v # None => v \in venues
  /\ request' = [request EXCEPT ![r] =
       [pc |-> "check", kind |-> "update", session |-> s, venue |-> v,
        from |-> from, to |-> to, sets |-> sets, status |-> status, missed |-> {}]]
  /\ UNCHANGED <<session, venues, window, locked>>

\* No lock here: another request may take the venue before the write.
UpdateCheck(r) ==
  LET q == request[r] IN
  /\ q.pc = "check"
  /\ q.venue # None => Conflicts(q.session, q.venue, q) = {}
  /\ request' = [request EXCEPT ![r].pc = "write"]
  /\ UNCHANGED <<session, venues, window, locked>>

\* By the session's id: the venue as it was asked for, or else read; the times
\* and the status (None) only if the request names them.
UpdateWrite(r) ==
  LET q == request[r] IN
  /\ q.pc = "write" /\ q.kind = "update"
  /\ q.venue \in {None, session[q.session].venue} \/ (q.venue \in venues /\ locked[q.venue] = None)
  /\ session' = [session EXCEPT ![q.session] =
       [status |-> IF @.status = "deleted" \/ q.status = None THEN @.status ELSE q.status,
        venue |-> q.venue,
        from |-> IF "from" \in q.sets THEN q.from ELSE @.from,
        to |-> IF "to" \in q.sets THEN q.to ELSE @.to, late |-> Late(r)]]
  /\ EndMissed(r, {"create", "update", "venue", "window"}, q.session)
  /\ UNCHANGED <<venues, window, locked>>

-----------------------------------------------------------------------------
(* delete of a session, delete of a venue, new dates of the event *)

DeleteSession(s) ==
  /\ Exists(s)
  /\ session' = [session EXCEPT ![s].status = "deleted"]
  /\ UNCHANGED <<venues, window, locked, request>>

\* Mutant of VenueRead: cancelled sessions do not count.
VenueReadScheduled(r, v) ==
  /\ Starts(r) /\ v \in venues
  /\ \A s \in Sessions : session[s].status = "SCHEDULED" => session[s].venue # v
  /\ request' = [request EXCEPT ![r] =
       [IdleRequest EXCEPT !.pc = "write", !.kind = "venue", !.venue = v]]
  /\ UNCHANGED <<session, venues, window, locked>>

VenueRead(r, v) ==
  /\ Starts(r) /\ v \in venues
  /\ \A s \in Sessions : Exists(s) => session[s].venue # v
  /\ request' = [request EXCEPT ![r] =
       [IdleRequest EXCEPT !.pc = "write", !.kind = "venue", !.venue = v]]
  /\ UNCHANGED <<session, venues, window, locked>>

\* onDelete: SetNull takes the venue away from the sessions that have it.
VenueDelete(r) ==
  LET v == request[r].venue IN
  /\ request[r].pc = "write" /\ request[r].kind = "venue"
  /\ v \in venues /\ locked[v] = None
  /\ venues' = venues \ {v}
  /\ session' = [s \in Sessions |-> IF session[s].venue = v THEN [session[s] EXCEPT !.venue = None]
                                   ELSE session[s]]
  /\ End(r)
  /\ UNCHANGED <<window, locked>>

\* The window a request proposes: the dates it names, the others as they are.
Proposed(p, sets) ==
  [from |-> IF "from" \in sets THEN p.from ELSE window.from,
   to |-> IF "to" \in sets THEN p.to ELSE window.to]

ReadsWindow(r, w, sets) ==
  /\ Starts(r) /\ w.from < w.to
  /\ request' = [request EXCEPT ![r] = [IdleRequest EXCEPT !.pc = "write", !.kind = "window",
                    !.from = w.from, !.to = w.to, !.sets = sets]]
  /\ UNCHANGED <<session, venues, window, locked>>

\* Mutant of WindowRead: only the starts of the sessions are compared.
WindowReadStarts(r, p, sets) ==
  /\ \A s \in Sessions : Exists(s) => Proposed(p, sets).from <= session[s].from
  /\ ReadsWindow(r, Proposed(p, sets), sets)

WindowRead(r, p, sets) ==
  /\ \A s \in Sessions : Exists(s) => Inside(session[s], Proposed(p, sets))
  /\ ReadsWindow(r, Proposed(p, sets), sets)

\* Only the dates that the request names.
WindowWrite(r) ==
  LET q == request[r] IN
  /\ q.pc = "write" /\ q.kind = "window"
  /\ window' = [from |-> IF "from" \in q.sets THEN q.from ELSE window.from,
                to |-> IF "to" \in q.sets THEN q.to ELSE window.to, late |-> Late(r)]
  /\ EndMissed(r, {"create", "update", "window"}, None)
  /\ UNCHANGED <<session, venues, locked>>

\* A check fails, or the process is lost: nothing is written.
Abort(r) ==
  /\ request[r].pc # "idle"
  /\ locked' = Unlock(r)
  /\ End(r)
  /\ UNCHANGED <<session, venues, window>>

-----------------------------------------------------------------------------
Next ==
  \/ \E s \in Sessions : DeleteSession(s)
  \/ \E r \in Requests :
       \/ \E s \in Sessions, v \in Venues \cup {None}, p \in Periods :
            \/ \E status \in Creating : CreateRead(r, s, v, p, status)
            \/ \E u \in Updating : UpdateRead(r, s, v, p, u.sets, u.status)
       \/ \E v \in Venues : VenueRead(r, v)
       \/ \E p \in Periods, sets \in SUBSET {"from", "to"} \ {{}} : WindowRead(r, p, sets)
       \/ CreateLock(r) \/ CreateWrite(r) \/ UpdateCheck(r) \/ UpdateWrite(r)
       \/ VenueDelete(r) \/ WindowWrite(r) \/ Abort(r)

Spec == Init /\ [][Next]_vars

-----------------------------------------------------------------------------
(* Properties *)

\* Two sessions that hold one venue at the same time: one of them was placed by
\* a late write, an update that others overtook between its unlocked check and
\* its write, or a create during which an update wrote.  Creates alone never do.
NoVenueOverlap ==
  \A s, t \in Sessions :
    s # t /\ session[s].status = "SCHEDULED" /\ session[t].status = "SCHEDULED"
      /\ session[s].venue = session[t].venue /\ session[s].venue # None
      /\ Overlap(session[s], session[t])
    => session[s].late \/ session[t].late

\* Every session starts before it ends and lies in the event's window, unless
\* what placed the session or moved the window was late.
SessionsInsideEvent ==
  \A s \in Sessions : Exists(s) /\ ~session[s].late =>
    /\ session[s].from < session[s].to
    /\ window.late \/ Inside(session[s], window)

\* The delete of a venue takes it away only from sessions that were written
\* between its check and the delete.
VenueKeepsSessions ==
  [][\A v \in venues \ venues' : \E r \in Requests :
       /\ request[r].kind = "venue" /\ request[r].venue = v
       /\ \A s \in Sessions : Exists(s) /\ session[s].venue # session'[s].venue =>
                              s \in request[r].missed]_vars
=============================================================================
