--------------------------- MODULE Subscriptions ---------------------------
(***************************************************************************)
(* The recurring subscriptions of one user to one plan: the checkout, the  *)
(* cancellation, and the webhook handlers that copy Stripe's subscription  *)
(* into the subscriptions table and its invoices into payments.            *)
(*                                                                         *)
(* A member of Subs is a checkout session and the Stripe subscription it   *)
(* becomes.  Stripe logs what happens to each; event <<s, n>> is the n-th  *)
(* entry of log[s], and carries the status Stripe had when it was logged.  *)
(***************************************************************************)
EXTENDS Naturals, Sequences, FiniteSets

CONSTANTS Subs, Hooks, Cancellers,
          MaxEvents,   \* bound: entries of a subscription's log
          MaxLate,     \* the same, where the deliveries are out of order
          MaxFaults,   \* bound: lost requests and failed database calls
          None

ASSUME EventsAssumption == MaxEvents \in Nat /\ MaxLate \in 0..MaxEvents /\ MaxFaults \in Nat

VARIABLES local,     \* subscriptions: status and cancelAtPeriodEnd of each row
          ledger,    \* payments: rows created for each invoice event
          stripe,    \* Stripe: the session, then the subscription, and cancel_at_period_end
          log,       \* Stripe: the events of each subscription
          emitted, record, hook,
          checkout,  \* pc of each checkout request
          cancel,    \* the cancellation requests
          faults,
          inOrder    \* TRUE: Stripe happens to deliver the events in order

vars == <<local, ledger, stripe, log, emitted, record, hook, checkout, cancel, faults, inOrder>>
webhook == <<emitted, record, hook>>
steady == <<faults, inOrder>>

Events == Subs \X (1..MaxEvents)
W == INSTANCE StripeWebhook

IdleCancel == [pc |-> "idle", sub |-> None, at |-> "now"]

Init ==
  /\ local = [s \in Subs |-> [status |-> "none", atEnd |-> "no"]]
  /\ ledger = [e \in Events |-> 0]
  /\ stripe = [s \in Subs |-> [status |-> "none", atEnd |-> "no"]]
  /\ log = [s \in Subs |-> <<>>]
  /\ W!WebhookInit
  /\ checkout = [s \in Subs |-> "idle"]
  /\ cancel = [c \in Cancellers |-> IdleCancel]
  /\ faults = 0
  /\ inOrder \in BOOLEAN

-----------------------------------------------------------------------------
(* Stripe *)

\* Stripe's state of s changes and it emits events of the given kinds.
Emits(s, status, atEnd, kinds) ==
  LET entries == [i \in 1..Len(kinds) |->
                    [kind |-> kinds[i], status |-> status, atEnd |-> atEnd]]
      longer == log[s] \o entries
  IN
  /\ Len(longer) <= IF inOrder THEN MaxEvents ELSE MaxLate
  /\ stripe' = [stripe EXCEPT ![s] = [status |-> status, atEnd |-> atEnd]]
  /\ log' = [log EXCEPT ![s] = longer]
  /\ emitted' = emitted \cup {<<s, n>> : n \in 1..Len(longer)}
  /\ UNCHANGED <<record, hook>>

\* PAUSED stands for the statuses of Stripe that statusMap does not list
\* (paused, incomplete_expired), PAST_DUE for those it lists beside active.
Running(s) == stripe[s].status \in {"ACTIVE", "PAST_DUE", "PAUSED"}

\* The customer completes the session: Stripe reports the subscription it
\* created, the first invoice and the session, in one order or another.
Subscribe(s) ==
  /\ stripe[s].status = "open"
  /\ \/ Emits(s, "ACTIVE", "no", <<"completed", "paid">>)
     \/ Emits(s, "ACTIVE", "no", <<"paid", "completed">>)
  /\ UNCHANGED <<local, ledger, checkout, cancel, steady>>

Renew(s) ==
  /\ stripe[s].status \in {"ACTIVE", "PAST_DUE"} /\ stripe[s].atEnd = "no"
  /\ Emits(s, "ACTIVE", "no", <<"paid", "updated">>)
  /\ UNCHANGED <<local, ledger, checkout, cancel, steady>>

RenewalFails(s) ==
  /\ stripe[s] = [status |-> "ACTIVE", atEnd |-> "no"]
  /\ Emits(s, "PAST_DUE", "no", <<"failed", "updated">>)
  /\ UNCHANGED <<local, ledger, checkout, cancel, steady>>

PauseOrResume(s) ==
  /\ stripe[s].atEnd = "no"
  /\ \/ stripe[s].status = "ACTIVE" /\ Emits(s, "PAUSED", "no", <<"updated">>)
     \/ stripe[s].status = "PAUSED" /\ Emits(s, "ACTIVE", "no", <<"updated">>)
  /\ UNCHANGED <<local, ledger, checkout, cancel, steady>>

\* The period of a subscription that was to be cancelled at its end is over.
PeriodEnds(s) ==
  /\ Running(s) /\ stripe[s].atEnd = "yes"
  /\ Emits(s, "CANCELLED", "yes", <<"deleted">>)
  /\ UNCHANGED <<local, ledger, checkout, cancel, steady>>

-----------------------------------------------------------------------------
(* createCheckout *)

Subscribed(s) == local[s] = [status |-> "ACTIVE", atEnd |-> "no"]

CheckConflict(s) ==
  /\ checkout[s] = "idle"
  /\ \A t \in Subs : ~Subscribed(t)
  /\ checkout' = [checkout EXCEPT ![s] = "checked"]
  /\ UNCHANGED <<local, ledger, stripe, log, webhook, cancel, steady>>

OpenSession(s) ==
  /\ checkout[s] = "checked"
  /\ stripe' = [stripe EXCEPT ![s].status = "open"]
  /\ checkout' = [checkout EXCEPT ![s] = "done"]
  /\ UNCHANGED <<local, ledger, log, webhook, cancel, steady>>

-----------------------------------------------------------------------------
(* cancelSubscription: at the end of the period, or at once *)

RequestCancel(c, s, at) ==
  /\ cancel[c].pc = "idle"
  /\ local[s].status \notin {"none", "CANCELLED"}
  /\ cancel' = [cancel EXCEPT ![c] = [pc |-> "stripe", sub |-> s, at |-> at]]
  /\ UNCHANGED <<local, ledger, stripe, log, webhook, checkout, steady>>

\* Stripe refuses to cancel what it has cancelled already.
CancelAtStripe(c) ==
  LET s == cancel[c].sub IN
  /\ cancel[c].pc = "stripe"
  /\ \/ /\ Running(s)
        /\ IF cancel[c].at = "now" THEN Emits(s, "CANCELLED", stripe[s].atEnd, <<"deleted">>)
           ELSE Emits(s, stripe[s].status, "yes", <<"updated">>)
        /\ cancel' = [cancel EXCEPT ![c].pc = "write"]
     \/ /\ ~Running(s)
        /\ cancel' = [cancel EXCEPT ![c] = IdleCancel]
        /\ UNCHANGED <<stripe, log, webhook>>
  /\ UNCHANGED <<local, ledger, checkout, steady>>

\* Mutant of CancelWrite: CANCELLED at once, whatever was asked for.
CancelWriteAtOnce(c) ==
  /\ cancel[c].pc = "write"
  /\ local' = [local EXCEPT ![cancel[c].sub] = [status |-> "CANCELLED", atEnd |-> "no"]]
  /\ cancel' = [cancel EXCEPT ![c] = IdleCancel]
  /\ UNCHANGED <<ledger, stripe, log, webhook, checkout, steady>>

CancelWrite(c) ==
  LET s == cancel[c].sub IN
  /\ cancel[c].pc = "write"
  /\ local' = IF cancel[c].at = "now"
              THEN [local EXCEPT ![s] = [status |-> "CANCELLED", atEnd |-> "no"]]
              ELSE [local EXCEPT ![s].atEnd = "yes"]
  /\ cancel' = [cancel EXCEPT ![c] = IdleCancel]
  /\ UNCHANGED <<ledger, stripe, log, webhook, checkout, steady>>

CancelLost(c) ==
  /\ cancel[c].pc # "idle"
  /\ faults < MaxFaults /\ faults' = faults + 1
  /\ cancel' = [cancel EXCEPT ![c] = IdleCancel]
  /\ UNCHANGED <<local, ledger, stripe, log, webhook, checkout, inOrder>>

-----------------------------------------------------------------------------
(* The webhook request *)

\* Nothing is left to do for the event; the session's ends as a failure that
\* Stripe repeats when its subscription row exists already.
Handled(e) == \/ record[e] = "PROCESSED"
              \/ log[e[1]][e[2]].kind = "completed" /\ local[e[1]].status # "none"

\* In order, an event waits until the earlier ones of its subscription have
\* been handled and their requests are over.
Turn(e) ==
  inOrder => \A n \in 1..(e[2] - 1) : /\ Handled(<<e[1], n>>)
                                      /\ \A h \in Hooks : hook[h].ev # <<e[1], n>>

elsewhere == <<local, ledger, stripe, log, checkout, cancel>>
DeliverInTurn(h, e) == W!Deliver(h, e) /\ Turn(e) /\ UNCHANGED <<elsewhere, steady>>
Bookkeeping(h) == /\ W!CreateRecord(h) \/ W!MarkProcessed(h) \/ W!MarkFailed(h)
                  /\ UNCHANGED <<elsewhere, steady>>
WebhookFault(h) == /\ faults < MaxFaults /\ faults' = faults + 1
                   /\ W!CallFails(h) \/ W!Lost(h)
                   /\ UNCHANGED <<elsewhere, inOrder>>

Handles(h, kind) ==
  /\ hook[h].pc = "dispatch"
  /\ log[hook[h].ev[1]][hook[h].ev[2]].kind = kind
Dispatched(h) == /\ W!Goto(h, "mark")
                 /\ UNCHANGED <<stripe, log, emitted, record, checkout, cancel, steady>>

\* activateSubscriptionFromSession: the payment row's session id is unique, so
\* once the row exists a later activation rolls back, its upsert included.
Activate(h) ==
  LET s == hook[h].ev[1] IN
  /\ Handles(h, "completed") /\ local[s].status = "none"
  /\ local' = [local EXCEPT ![s] = [status |-> "ACTIVE", atEnd |-> "no"]]
  /\ Dispatched(h) /\ UNCHANGED ledger

ActivateRollback(h) ==
  /\ Handles(h, "completed") /\ local[hook[h].ev[1]].status # "none"
  /\ W!Goto(h, "fail")
  /\ UNCHANGED <<elsewhere, emitted, record, steady>>

\* The other handlers return at once when the row does not exist (yet).
NoSubscription(h) ==
  /\ \E kind \in {"updated", "deleted", "paid", "failed"} : Handles(h, kind)
  /\ local[hook[h].ev[1]].status = "none"
  /\ Dispatched(h) /\ UNCHANGED <<local, ledger>>

\* statusMap, and the ACTIVE it falls back to for a status it does not list.
RowStatus(status) == IF status = "PAUSED" THEN "ACTIVE" ELSE status

HandleUpdated(h) ==
  LET s == hook[h].ev[1]
      sent == log[s][hook[h].ev[2]]
  IN
  /\ Handles(h, "updated") /\ local[s].status # "none"
  /\ local' = [local EXCEPT ![s] = [status |-> RowStatus(sent.status), atEnd |-> sent.atEnd]]
  /\ Dispatched(h) /\ UNCHANGED ledger

\* Mutant of HandleDeleted: the status is not written.
HandleDeletedKeepsStatus(h) ==
  LET s == hook[h].ev[1] IN
  /\ Handles(h, "deleted") /\ local[s].status # "none"
  /\ local' = [local EXCEPT ![s].atEnd = "no"]
  /\ Dispatched(h) /\ UNCHANGED ledger

HandleDeleted(h) ==
  LET s == hook[h].ev[1] IN
  /\ Handles(h, "deleted") /\ local[s].status # "none"
  /\ local' = [local EXCEPT ![s].status = "CANCELLED"]
  /\ Dispatched(h) /\ UNCHANGED ledger

\* One more payment row: nothing ties the row to the invoice id.  The status is
\* written when the invoice's first line has the end of a period, and not else.
HandleInvoicePaid(h) ==
  LET s == hook[h].ev[1] IN
  /\ Handles(h, "paid") /\ local[s].status # "none"
  /\ local' \in {local, [local EXCEPT ![s].status = "ACTIVE"]}
  /\ ledger' = [ledger EXCEPT ![hook[h].ev] = @ + 1]
  /\ Dispatched(h)

HandlePaymentFailed(h) ==
  LET s == hook[h].ev[1] IN
  /\ Handles(h, "failed") /\ local[s].status # "none"
  /\ local' = [local EXCEPT ![s].status = "PAST_DUE"]
  /\ Dispatched(h) /\ UNCHANGED ledger

-----------------------------------------------------------------------------
Dispatch(h) == \/ Activate(h) \/ ActivateRollback(h) \/ NoSubscription(h) \/ HandleUpdated(h)
               \/ HandleDeleted(h) \/ HandleInvoicePaid(h) \/ HandlePaymentFailed(h)

Next ==
  \/ \E s \in Subs : \/ Subscribe(s) \/ Renew(s) \/ RenewalFails(s) \/ PeriodEnds(s)
                     \/ PauseOrResume(s) \/ CheckConflict(s) \/ OpenSession(s)
  \/ \E c \in Cancellers : \/ \E s \in Subs, at \in {"now", "end"} : RequestCancel(c, s, at)
                           \/ CancelAtStripe(c) \/ CancelWrite(c) \/ CancelLost(c)
  \/ \E h \in Hooks : \/ \E e \in Events : DeliverInTurn(h, e)
                      \/ Bookkeeping(h) \/ WebhookFault(h) \/ Dispatch(h)

Spec == Init /\ [][Next]_vars

\* As in SponsorshipPayments: Stripe redelivers, and a request that was not
\* lost runs on.
Fairness ==
  /\ \A h \in Hooks : WF_vars(Bookkeeping(h) \/ Dispatch(h))
  /\ \A e \in Events : SF_vars(\E h \in Hooks : DeliverInTurn(h, e))
FairSpec == Spec /\ Fairness

-----------------------------------------------------------------------------
(* Properties *)

Status == {"ACTIVE", "PAST_DUE", "CANCELLED"}
StripeStatus == Status \cup {"PAUSED"}

\* A row that says CANCELLED is cancelled at Stripe too, so a customer who was
\* told so is charged no more: both writers of CANCELLED follow Stripe.
CancelledAtStripe ==
  \A s \in Subs : local[s].status = "CANCELLED" => stripe[s].status = "CANCELLED"

\* A customer who subscribed gets the row, whatever requests are lost and
\* however the events overtake each other.
PaidHasSubscription ==
  \A s \in Subs : Running(s) ~> local[s].status # "none"

\* Every event was handled, and no request is under way.
Settled(s) ==
  /\ stripe[s].status \in StripeStatus
  /\ \A n \in 1..Len(log[s]) : Handled(<<s, n>>)
  /\ \A h \in Hooks : hook[h].ev = None \/ hook[h].ev[1] # s
  /\ \A c \in Cancellers : cancel[c].sub # s

\* Once the events Stripe delivered in order are handled, the row shows what
\* statusMap makes of the status Stripe has (ACTIVE for one it does not list, so
\* a paused subscription keeps its plan) and whether the subscription ends with
\* its period, although cancelSubscription writes both besides and any request
\* may be lost or repeated.
FollowsStripe ==
  \A s \in Subs : inOrder /\ Settled(s) =>
    /\ local[s].status = RowStatus(stripe[s].status)
    /\ stripe[s].status # "CANCELLED" => local[s].atEnd = stripe[s].atEnd
=============================================================================
