--------------------------- MODULE ContentReports ---------------------------
(***************************************************************************)
(* The reports of one user about one resource.  Both operations look first *)
(* and write later, by id or not at all: nothing in the table keeps two    *)
(* reports apart, and a resolution does not see that it is the second.     *)
(***************************************************************************)
EXTENDS Naturals, FiniteSets

CONSTANTS Reporting,   \* requests, of the reporter and of administrators
          MaxReports   \* bound: reports ever made

VARIABLES report, reporting

reportVars == <<report, reporting>>

Closed == {"RESOLVED", "DISMISSED"}
NoReporting == [pc |-> "idle", report |-> 0, status |-> "none"]

ReportInit ==
  /\ report = [i \in 1..MaxReports |-> "none"]
  /\ reporting = [c \in Reporting |-> NoReporting]

\* Mutant of Underway: a report in review does not count.
UnderwayIfOpen == {i \in DOMAIN report : report[i] = "OPEN"}

\* The active reports createReport looks for.
Underway == {i \in DOMAIN report : report[i] \in {"OPEN", "IN_REVIEW"}}

\* The resource exists and is not deleted: it may be so at any time.
ReadReports(c) ==
  /\ reporting[c].pc = "idle" /\ Underway = {}
  /\ reporting' = [reporting EXCEPT ![c].pc = "create"]
  /\ UNCHANGED report

CreateReport(c) ==
  /\ reporting[c].pc = "create"
  /\ \E i \in DOMAIN report :
       /\ report[i] = "none" /\ \A j \in 1..(i - 1) : report[j] # "none"
       /\ report' = [report EXCEPT ![i] = "OPEN"]
  /\ reporting' = [reporting EXCEPT ![c] = NoReporting]

ReadForResolution(c, i, status) ==
  /\ reporting[c].pc = "idle"
  /\ report[i] \notin Closed \cup {"none"}
  /\ reporting' = [reporting EXCEPT ![c] = [pc |-> "resolve", report |-> i, status |-> status]]
  /\ UNCHANGED report

\* Whatever the report has become: a closed one is changed, or opened again.
ResolveReport(c) ==
  /\ reporting[c].pc = "resolve"
  /\ report' = [report EXCEPT ![reporting[c].report] = reporting[c].status]
  /\ reporting' = [reporting EXCEPT ![c] = NoReporting]

ReportFails(c) ==
  /\ reporting[c].pc # "idle"
  /\ reporting' = [reporting EXCEPT ![c] = NoReporting]
  /\ UNCHANGED report

ReportNext ==
  \E c \in Reporting :
    \/ ReadReports(c) \/ CreateReport(c) \/ ResolveReport(c) \/ ReportFails(c)
    \/ \E i \in DOMAIN report, status \in {"IN_REVIEW"} \cup Closed : ReadForResolution(c, i, status)

ReportSpec == ReportInit /\ [][ReportNext]_reportVars

-----------------------------------------------------------------------------
\* Of one resource a user never has more reports under way than there are
\* requests at the same time: duplicates come from overlaps alone, in the
\* creation or in a resolution that opens a closed report again.
DuplicatesBounded == Cardinality({i \in DOMAIN report : report[i] \in {"OPEN", "IN_REVIEW"}}) <= Cardinality(Reporting)

\* What docs/sprints/sprint-10-final-report.md says of the workflow: closed
\* reports cannot be modified or opened again.
ClosedStaysClosed ==
  [][\A i \in DOMAIN report : report[i] \in Closed => report'[i] = report[i]]_reportVars
=============================================================================
