--------------------------- MODULE RfqLifecycle ---------------------------
(***************************************************************************)
(* One request for quotation (RFQ) between a sponsor and a vendor, and the *)
(* versions of the vendor's quotation for it.                              *)
(*                                                                         *)
(* Every request reads the rows and checks them first, and writes later, by*)
(* id and without looking again; only an accept looks again, and only      *)
(* whether the RFQ is already ACCEPTED.  The transactions that write take  *)
(* the RFQ's row, or lose by the unique version, so that each is one step. *)
(***************************************************************************)
EXTENDS Naturals, Sequences

CONSTANTS Requests,
          MaxVersions    \* bound: quotations of the RFQ

ASSUME MaxVersionsAssumption == MaxVersions \in Nat \ {0}

\* The operations that work on the RFQ, and those that answer one quotation.
RfqKinds == {"send", "view", "lapse", "clarify", "cancel", "reject", "expire", "quote"}
AnswerKinds == {"accept", "decline"}

VARIABLES rfq,         \* the RFQ's status
          quotations,  \* the status of each version
          past,        \* expiresAt has passed
          lapsed,      \* the versions whose validUntil has passed
          request,     \* per request: what it is about to write, and to which version
          overtaken    \* history: the requests under way since before the negotiation
                       \* last moved, by another's commit

rfqVars == <<rfq, quotations, past, lapsed, request, overtaken>>

RfqStatuses == {"DRAFT", "SENT", "VIEWED", "CLARIFICATION_REQUESTED", "QUOTED",
             "ACCEPTED", "REJECTED", "CANCELLED", "EXPIRED"}
OfferStatuses == {"PENDING", "ACCEPTED", "REJECTED", "SUPERSEDED", "EXPIRED"}

\* Mutant of Terminal: forgets that an accepted RFQ cannot be cancelled.
TerminalNotAccepted == {"REJECTED", "CANCELLED", "EXPIRED"}
Terminal == {"ACCEPTED", "REJECTED", "CANCELLED", "EXPIRED"}
Expirable == {"DRAFT", "SENT", "VIEWED", "CLARIFICATION_REQUESTED"}
Quotable == {"SENT", "VIEWED", "CLARIFICATION_REQUESTED", "QUOTED"}

Idle == [kind |-> "none", version |-> 0]

RfqInit ==
  /\ rfq = "absent" /\ quotations = <<>> /\ past = FALSE /\ lapsed = {}
  /\ request = [r \in Requests |-> Idle] /\ overtaken = {}

Exists == rfq # "absent"
Versions == 1..Len(quotations)

Busy == {r \in Requests : request[r].kind # "none"}

\* Where the negotiation stands: the quotation on the table, those accepted, and
\* whether it goes on.
OnTable == \E v \in Versions : quotations[v] = "PENDING"
Accepted == {v \in Versions : quotations[v] = "ACCEPTED"}
Phase == IF rfq = "ACCEPTED" THEN "agreed" ELSE IF rfq \in Terminal THEN "closed" ELSE "open"
Standing == <<Len(quotations), OnTable, Accepted, Phase>>

\* The reads and checks of request r are done, and it will write.
Start(r, kind, v) ==
  /\ r \notin Busy
  /\ request' = [request EXCEPT ![r] = [kind |-> kind, version |-> v]]
  /\ UNCHANGED <<rfq, quotations, past, lapsed, overtaken>>

\* The transaction of request r commits.  If it moves the negotiation, the requests
\* under way have been overtaken.
Commit(r, kind, status, versions) ==
  /\ request[r].kind = kind
  /\ rfq' = status /\ quotations' = versions
  /\ request' = [request EXCEPT ![r] = Idle]
  /\ overtaken' = (IF Standing' = Standing THEN overtaken ELSE Busy) \ {r}
  /\ UNCHANGED <<past, lapsed>>

\* Every quotation that is still on the table becomes s.
PendingTo(s) == [v \in Versions |-> IF quotations[v] = "PENDING" THEN s ELSE quotations[v]]

-----------------------------------------------------------------------------
(* The sponsor's RFQ *)

\* expiresAt is in the future.
Create(status) ==
  /\ ~Exists
  /\ rfq' = status
  /\ UNCHANGED <<quotations, past, lapsed, request, overtaken>>

SendRead(r) == rfq = "DRAFT" /\ ~past /\ Start(r, "send", 0)
SendCommit(r) == Commit(r, "send", "SENT", quotations)

\* getRfqById: the first look of the vendor, or anybody's after the deadline.
ViewRead(r) == rfq = "SENT" /\ ~past /\ Start(r, "view", 0)
ViewCommit(r) == Commit(r, "view", "VIEWED", quotations)

LapseRead(r) == rfq \in Expirable /\ past /\ Start(r, "lapse", 0)
LapseCommit(r) == Commit(r, "lapse", "EXPIRED", quotations)

\* Of the vendor; other clarifications only add a message.
ClarifyRead(r) == rfq \in {"SENT", "VIEWED"} /\ ~past /\ Start(r, "clarify", 0)
ClarifyCommit(r) == Commit(r, "clarify", "CLARIFICATION_REQUESTED", quotations)

CancelRfqRead(r) == Exists /\ rfq \notin Terminal /\ Start(r, "cancel", 0)
CancelCommit(r) == Commit(r, "cancel", "CANCELLED", PendingTo("REJECTED"))

\* By the vendor, whose quotation stays on the table.
RejectRead(r) == Exists /\ rfq \notin Terminal /\ Start(r, "reject", 0)
RejectCommit(r) == Commit(r, "reject", "REJECTED", quotations)

\* The sweep lists by deadline and status, and expireRfq reads the status again.
ExpireRead(r) == rfq \in Expirable /\ past /\ Start(r, "expire", 0)
ExpireCommit(r) == Commit(r, "expire", "EXPIRED", PendingTo("EXPIRED"))

-----------------------------------------------------------------------------
(* The vendor's quotations *)

QuoteRead(r) ==
  /\ rfq \in Quotable /\ ~past /\ Len(quotations) < MaxVersions
  /\ Start(r, "quote", 0)

\* Mutant of Superseded: only from the third version on.
SupersededLate == IF Len(quotations) > 1 THEN PendingTo("SUPERSEDED") ELSE quotations
Superseded == PendingTo("SUPERSEDED")

QuoteCommit(r) ==
  /\ Len(quotations) < MaxVersions
  /\ Commit(r, "quote", "QUOTED", Append(Superseded, "PENDING"))

\* Inside the transaction, but no row is locked.
AcceptRead(r, v) ==
  /\ v \in Versions \ lapsed /\ quotations[v] = "PENDING"
  /\ Start(r, "accept", v)

\* Mutant of AcceptCommit: leaves a newer quotation on the table.
AcceptKeepsOthers(r) ==
  /\ rfq # "ACCEPTED"
  /\ Commit(r, "accept", "ACCEPTED", [quotations EXCEPT ![request[r].version] = "ACCEPTED"])
AcceptCommit(r) ==
  /\ rfq # "ACCEPTED"
  /\ Commit(r, "accept", "ACCEPTED",
            [PendingTo("SUPERSEDED") EXCEPT ![request[r].version] = "ACCEPTED"])

\* rejectQuotation
DeclineRead(r, v) ==
  /\ v \in Versions /\ quotations[v] = "PENDING"
  /\ Start(r, "decline", v)
DeclineCommit(r) ==
  Commit(r, "decline", rfq, [quotations EXCEPT ![request[r].version] = "REJECTED"])

-----------------------------------------------------------------------------
\* A 409, a deadlock, a version that exists by now or a lost connection: the
\* request ends and writes nothing.
Fail(r) ==
  /\ r \in Busy
  /\ request' = [request EXCEPT ![r] = Idle]
  /\ overtaken' = overtaken \ {r}
  /\ UNCHANGED <<rfq, quotations, past, lapsed>>

\* Time passes.
Pass ==
  /\ Exists /\ ~past
  /\ past' = TRUE
  /\ UNCHANGED <<rfq, quotations, lapsed, request, overtaken>>
Lapse(v) ==
  /\ v \in Versions \ lapsed
  /\ lapsed' = lapsed \cup {v}
  /\ UNCHANGED <<rfq, quotations, past, request, overtaken>>

RfqNext ==
  \/ \E status \in {"DRAFT", "SENT"} : Create(status)
  \/ \E r \in Requests :
       \/ SendRead(r) \/ SendCommit(r)
       \/ ViewRead(r) \/ ViewCommit(r)
       \/ LapseRead(r) \/ LapseCommit(r)
       \/ ClarifyRead(r) \/ ClarifyCommit(r)
       \/ CancelRfqRead(r) \/ CancelCommit(r)
       \/ RejectRead(r) \/ RejectCommit(r)
       \/ ExpireRead(r) \/ ExpireCommit(r)
       \/ QuoteRead(r) \/ QuoteCommit(r)
       \/ AcceptCommit(r) \/ DeclineCommit(r)
       \/ \E v \in Versions : AcceptRead(r, v) \/ DeclineRead(r, v)
       \/ Fail(r)
  \/ Pass
  \/ \E v \in Versions : Lapse(v)

RfqSpec == RfqInit /\ [][RfqNext]_rfqVars

-----------------------------------------------------------------------------
(* Properties *)

\* The rows hold statuses of their tables, the versions stay within their
\* bound, and every request knows the version it is about to write.
RfqTypeOK ==
  /\ rfq \in RfqStatuses \cup {"absent"}
  /\ quotations \in Seq(OfferStatuses) /\ Len(quotations) <= MaxVersions
  /\ past \in BOOLEAN /\ lapsed \subseteq Versions
  /\ request \in [Requests -> [kind : RfqKinds \cup AnswerKinds \cup {"none"},
                               version : 0..MaxVersions]]
  /\ overtaken \subseteq Busy

\* Only the vendor's newest version is ever on the table, however quotes,
\* accepts, rejections and expirations race (quotation.service.ts:165-175).
PendingIsNewest ==
  \A v \in Versions : quotations[v] = "PENDING" => v = Len(quotations)

\* A deal or a cancellation leaves no quotation on the table, whatever was under
\* way when it came (quotation.service.ts:318-326, rfq.service.ts cancelRfq).
EndClearsTable == rfq \in {"ACCEPTED", "CANCELLED"} => ~OnTable

\* At most one quotation of the RFQ is accepted (sprint-7-final-report.md:36).
OneDeal == \A v, w \in Accepted : v = w

\* The negotiation that the rows stand for.
Negotiated == INSTANCE Negotiation
  WITH offers <- Len(quotations), open <- OnTable, deals <- Accepted, phase <- Phase,
       moving <- Busy, overtaken <- overtaken

\* The services carry out the negotiation they promise, but for the requests that
\* another one overtook, which write by id what they read no longer allows
\* (rfq.service.ts, quotation.service.ts, rfq-expiration.service.ts).
Negotiates == Negotiated!Spec
=============================================================================
