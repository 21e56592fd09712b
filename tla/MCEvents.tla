------------------------------ MODULE MCEvents ------------------------------
(***************************************************************************)
(* One event: its registrations, its agenda in the venues, those who       *)
(* organise it, and an advertisement shown with it.  The four share no     *)
(* variable and every property reads one of them, so it is enough to see   *)
(* each beside the others at rest: a step of one is taken only where the   *)
(* others are in a first state, and the states add up.                     *)
(***************************************************************************)
EXTENDS EventRegistration, TLC

CONSTANTS Sessions, Venues, Requests, Creating, Updating, Horizon,   \* agenda
          Inviting, MaxInvitations,                                  \* organisers
          Campaigning, MaxEdits                                      \* advertisement

ASSUME AgendaAssumption ==
  /\ None \notin Sessions \cup Venues \cup Requests
  /\ Creating \subseteq {"SCHEDULED", "CANCELLED"}
  /\ Updating \subseteq [sets : SUBSET {"from", "to"}, status : {"SCHEDULED", "CANCELLED", None}]

VARIABLES session, venues, window, venueLocked, request,
          invitation, invitee, assigned, eventThere, inviting,
          ad, adWindow, sponsorActive, eventOpen, campaigning

Agenda == INSTANCE VenueSchedule WITH locked <- venueLocked
Organizers == INSTANCE EventOrganizers
Ads == INSTANCE SponsorAds WITH window <- adWindow

agendaVars == <<session, venues, window, venueLocked, request>>
organizerVars == <<invitation, invitee, assigned, eventThere, inviting>>
adVars == <<ad, adWindow, sponsorActive, eventOpen, campaigning>>

\* The requests of every component have the same names.
Interchangeable == UNION {Permutations(S) : S \in {Sessions, Venues, Requests}}

\* An update names times or a status.
TimesOrStatus ==
  [sets : SUBSET {"from", "to"} \ {{}}, status : {None}]
    \cup [sets : {{}}, status : {"SCHEDULED", "CANCELLED"}]

\* Bounds of the agenda: a late write ends what is looked at; requests race in the
\* widest window, while no session is cancelled or deleted, and two updates race
\* where both name both times.
AgendaBound ==
  LET having(status) == {s \in Sessions : session[s].status = status}
      updates == {r \in Requests : request[r].kind = "update"}
  IN
  /\ ~window.late /\ \A s \in Sessions : ~session[s].late
  /\ Cardinality(having("CANCELLED")) <= 1
  /\ Cardinality(Agenda!Busy) > 1 =>
       having("deleted") \cup having("CANCELLED") = {} /\ window.to - window.from = Horizon
  /\ Cardinality(updates) > 1 => \A r \in updates : request[r].sets = {"from", "to"}

RegistrationRests == Init /\ event.capacity = CHOOSE c \in Capacities : TRUE
AgendaRests == Agenda!Init /\ window.from = 0 /\ window.to = Horizon
OrganizersRest == Organizers!OrganizerInit /\ invitee.account = "none"
AdRests == Ads!AdInit /\ adWindow = "before" /\ eventOpen

EventsInit == Init /\ Agenda!Init /\ Organizers!OrganizerInit /\ Ads!AdInit

EventsNext ==
  \/ /\ AgendaRests /\ OrganizersRest /\ AdRests
     /\ Next
     /\ UNCHANGED <<agendaVars, organizerVars, adVars>>
  \/ /\ RegistrationRests /\ OrganizersRest /\ AdRests
     /\ Agenda!Next
     /\ UNCHANGED <<vars, organizerVars, adVars>>
  \/ /\ RegistrationRests /\ AgendaRests /\ AdRests
     /\ Organizers!OrganizerNext
     /\ UNCHANGED <<vars, agendaVars, adVars>>
  \/ /\ RegistrationRests /\ AgendaRests /\ OrganizersRest
     /\ Ads!AdNext
     /\ UNCHANGED <<vars, agendaVars, organizerVars>>

EventsSpec == EventsInit /\ [][EventsNext]_<<vars, agendaVars, organizerVars, adVars>>

-----------------------------------------------------------------------------
\* The properties of the components that are instantiated, each stated where
\* the component is.
NoVenueOverlap == Agenda!NoVenueOverlap
SessionsInsideEvent == Agenda!SessionsInsideEvent
VenueKeepsSessions == Agenda!VenueKeepsSessions
OrganizersHaveRole == Organizers!OrganizersHaveRole
VisibleWasDecided == Ads!VisibleWasDecided
=============================================================================
