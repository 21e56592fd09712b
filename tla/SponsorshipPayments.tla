------------------------ MODULE SponsorshipPayments ------------------------
(***************************************************************************)
(* The one-off payments that sponsor a community: the checkout request,    *)
(* the Stripe webhook that fulfils it, the administrator's refund, the     *)
(* reconciliation of stale payments and the sweep of expired sponsorships. *)
(*                                                                         *)
(* Every await of the code is a point where another request may run, so a  *)
(* request is a record with a program counter "pc" and the values it read  *)
(* earlier.  A Prisma transaction runs at READ COMMITTED: the read that    *)
(* decides is one action, the commit of all its writes is a later one.     *)
(* A payment identifies its checkout request, its Stripe session, its      *)
(* charge and the sponsorship row created for it (paymentId is unique).    *)
(***************************************************************************)
EXTENDS Integers, FiniteSets

CONSTANTS Payments,      \* checkout requests, and the payment rows they create
          Communities,
          CommunityOf,   \* the community each checkout request names
          Hooks,         \* webhook requests that may run at the same time
          Refunders,     \* administrator refund requests
          Reconcilers,   \* runs of the reconciliation
          Sweepers,      \* runs of the expiration sweep
          Amount,        \* the price of a plan, in units a refund may return
          MaxFaults,     \* bound: lost processes and failed database calls
          None

ASSUME CommunityOfAssumption == CommunityOf \in [Payments -> Communities]
ASSUME AmountAssumption == Amount \in Nat \ {0}
ASSUME MaxFaultsAssumption == MaxFaults \in Nat
ASSUME NoneAssumption == None \notin Payments

VARIABLES payment,      \* payments: status, session id saved, intent id saved, amount refunded
          sponsorship,  \* community_sponsorships: status of the row of each payment
          lapsed,       \* payments whose sponsorship has endsAt <= now
          benefit,      \* communities with isSponsored, isPinned and the plan's memberCapacity
          stripe,       \* Stripe: the session and the amount returned to the card
          emitted,      \* Stripe: the events it delivers, and delivers again
          record,       \* stripe_webhook_events: processingStatus of each event
          checkout,     \* pc of each checkout request
          hook, refund, recon, sweep,
          faults

rows == <<payment, sponsorship, lapsed, benefit, record>>
external == <<stripe, emitted>>
vars == <<rows, external, checkout, hook, refund, recon, sweep, faults>>

Completed(p) == <<"completed", p, 0>>
ChargeRefunded(p, a) == <<"refunded", p, a>>
Events == {Completed(p) : p \in Payments}
          \cup {ChargeRefunded(p, a) : p \in Payments, a \in 1..Amount}

\* The webhook endpoint; the handlers below own its "dispatch" and "commit".
W == INSTANCE StripeWebhook

PaymentStatus == {"absent", "PENDING", "SUCCEEDED", "FAILED",
                  "PARTIALLY_REFUNDED", "REFUNDED"}
SponsorshipStatus == {"none", "ACTIVE", "EXPIRED", "CANCELLED"}

IdleRefund == [pc |-> "idle", pay |-> None, cancel |-> {},
               base |-> 0, target |-> 0, clear |-> {}]
\* wrote: history, the payments the reconciliation has written as paid
IdleRecon == [todo |-> {}, pay |-> None, verdict |-> None, wrote |-> {}]
IdleSweep == [todo |-> {}, pay |-> None, clear |-> {}]

Init ==
  /\ payment = [p \in Payments |-> [status |-> "absent", session |-> "null",
                                    intent |-> "null", refunded |-> 0]]
  /\ sponsorship = [p \in Payments |-> "none"]
  /\ lapsed = {}
  /\ benefit = {}
  /\ stripe = [p \in Payments |-> [session |-> "none", returned |-> 0]]
  /\ W!WebhookInit
  /\ checkout = [p \in Payments |-> "idle"]
  /\ refund = [r \in Refunders |-> IdleRefund]
  /\ recon = [r \in Reconcilers |-> IdleRecon]
  /\ sweep = [s \in Sweepers |-> IdleSweep]
  /\ faults = 0

\* status = ACTIVE and endsAt > now: the query every conflict check makes
Unexpired(p) == sponsorship[p] = "ACTIVE" /\ p \notin lapsed
UnexpiredOf(c) == {p \in Payments : CommunityOf[p] = c /\ Unexpired(p)}

-----------------------------------------------------------------------------
(* The checkout request *)

CheckConflict(p) ==
  /\ checkout[p] = "idle"
  /\ UnexpiredOf(CommunityOf[p]) = {}
  /\ checkout' = [checkout EXCEPT ![p] = "checked"]
  /\ UNCHANGED <<rows, external, hook, refund, recon, sweep, faults>>

CreatePayment(p) ==
  /\ checkout[p] = "checked"
  /\ payment' = [payment EXCEPT ![p].status = "PENDING"]
  /\ checkout' = [checkout EXCEPT ![p] = "created"]
  /\ UNCHANGED <<sponsorship, lapsed, benefit, record, external,
                 hook, refund, recon, sweep, faults>>

OpenSession(p) ==
  /\ checkout[p] = "created"
  /\ stripe' = [stripe EXCEPT ![p].session = "open"]
  /\ checkout' = [checkout EXCEPT ![p] = "opened"]
  /\ UNCHANGED <<rows, emitted, hook, refund, recon, sweep, faults>>

SaveSession(p) ==
  /\ checkout[p] = "opened"
  /\ payment' = [payment EXCEPT ![p].session = "set"]
  /\ checkout' = [checkout EXCEPT ![p] = "done"]
  /\ UNCHANGED <<sponsorship, lapsed, benefit, record, external,
                 hook, refund, recon, sweep, faults>>

Fault == faults < MaxFaults /\ faults' = faults + 1

CheckoutLost(p) ==
  /\ checkout[p] \in {"checked", "created", "opened"}
  /\ Fault
  /\ checkout' = [checkout EXCEPT ![p] = "done"]
  /\ UNCHANGED <<rows, external, hook, refund, recon, sweep>>

-----------------------------------------------------------------------------
(* Stripe and the calendar *)

\* The customer pays the session, or it expires unpaid.
Pay(p) ==
  /\ stripe[p].session = "open"
  /\ stripe' = [stripe EXCEPT ![p].session = "paid"]
  /\ emitted' = emitted \cup {Completed(p)}
  /\ UNCHANGED <<rows, checkout, hook, refund, recon, sweep, faults>>

SessionExpires(p) ==
  /\ stripe[p].session = "open"
  /\ stripe' = [stripe EXCEPT ![p].session = "expired"]
  /\ UNCHANGED <<rows, emitted, checkout, hook, refund, recon, sweep, faults>>

\* endsAt of the payment's sponsorship passes.
Lapse(p) ==
  /\ sponsorship[p] # "none" /\ p \notin lapsed
  /\ lapsed' = lapsed \cup {p}
  /\ UNCHANGED <<payment, sponsorship, benefit, record, external,
                 checkout, hook, refund, recon, sweep, faults>>

-----------------------------------------------------------------------------
(* The webhook request *)

elsewhere == <<payment, sponsorship, lapsed, benefit, stripe, checkout,
               refund, recon, sweep>>

WebhookStep(h) == W!ProtocolStep(h) /\ UNCHANGED <<elsewhere, faults>>
WebhookFault(h) == (W!CallFails(h) \/ W!Lost(h)) /\ Fault /\ UNCHANGED elsewhere

\* The early returns of the two handlers: nothing is left to do.
AlreadyHandled(e) ==
  IF e[1] = "completed" THEN payment[e[2]].status = "SUCCEEDED"
  ELSE payment[e[2]].intent = "null" \/ payment[e[2]].status = "REFUNDED"

Dispatch(h) ==
  /\ hook[h].pc = "dispatch"
  /\ hook' = [hook EXCEPT ![h].pc = IF AlreadyHandled(hook[h].ev) THEN "mark" ELSE "commit"]
  /\ UNCHANGED <<rows, external, checkout, refund, recon, sweep, faults>>

\* Mutant of Activate: paymentId is not unique in community_sponsorships.
ActivateAgain(h) ==
  LET p == hook[h].ev[2] IN
  /\ hook[h].pc = "commit" /\ hook[h].ev[1] = "completed"
  /\ payment' = [payment EXCEPT ![p].status = "SUCCEEDED", ![p].intent = "set"]
  /\ sponsorship' = [sponsorship EXCEPT ![p] = "ACTIVE"]
  /\ benefit' = benefit \cup {CommunityOf[p]}
  /\ hook' = [hook EXCEPT ![h].pc = "mark"]
  /\ UNCHANGED <<lapsed, record, external, checkout, refund, recon, sweep, faults>>

\* activateCommunitySponsorshipFromSession: paymentId is unique in
\* community_sponsorships, so a second activation rolls back as a whole.
Activate(h) ==
  LET p == hook[h].ev[2] IN
  /\ hook[h].pc = "commit" /\ hook[h].ev[1] = "completed"
  /\ sponsorship[p] = "none"
  /\ payment' = [payment EXCEPT ![p].status = "SUCCEEDED", ![p].intent = "set"]
  /\ sponsorship' = [sponsorship EXCEPT ![p] = "ACTIVE"]
  /\ benefit' = benefit \cup {CommunityOf[p]}
  /\ hook' = [hook EXCEPT ![h].pc = "mark"]
  /\ UNCHANGED <<lapsed, record, external, checkout, refund, recon, sweep, faults>>

ActivateRollback(h) ==
  /\ hook[h].pc = "commit" /\ hook[h].ev[1] = "completed"
  /\ sponsorship[hook[h].ev[2]] # "none"
  /\ hook' = [hook EXCEPT ![h].pc = "fail"]
  /\ UNCHANGED <<rows, external, checkout, refund, recon, sweep, faults>>

\* Mutant of RecordChargeRefund: the whole amount counts as refunded.
RecordWholeRefund(h) ==
  LET p == hook[h].ev[2] IN
  /\ hook[h].pc = "commit" /\ hook[h].ev[1] = "refunded"
  /\ payment' = [payment EXCEPT ![p].status = "REFUNDED", ![p].refunded = Amount]
  /\ hook' = [hook EXCEPT ![h].pc = "mark"]
  /\ UNCHANGED <<sponsorship, lapsed, benefit, record, external,
                 checkout, refund, recon, sweep, faults>>

\* handleChargeRefunded: REFUNDED whatever amount the charge event carries.
RecordChargeRefund(h) ==
  LET p == hook[h].ev[2] IN
  /\ hook[h].pc = "commit" /\ hook[h].ev[1] = "refunded"
  /\ payment' = [payment EXCEPT ![p].status = "REFUNDED", ![p].refunded = hook[h].ev[3]]
  /\ hook' = [hook EXCEPT ![h].pc = "mark"]
  /\ UNCHANGED <<sponsorship, lapsed, benefit, record, external,
                 checkout, refund, recon, sweep, faults>>

-----------------------------------------------------------------------------
(* The administrator's refund *)

RequestRefund(r, p, target) ==
  /\ refund[r].pc = "idle"
  /\ payment[p].status \in {"SUCCEEDED", "PARTIALLY_REFUNDED"}
  /\ target > 0 /\ target <= Amount - payment[p].refunded
  /\ refund' = [refund EXCEPT ![r] =
                  [pc |-> "stripe", pay |-> p,
                   cancel |-> {p} \cap {q \in Payments : sponsorship[q] # "none"},
                   base |-> payment[p].refunded, target |-> target, clear |-> {}]]
  /\ UNCHANGED <<rows, external, checkout, hook, recon, sweep, faults>>

\* Stripe refuses to return more than was charged, and the request ends there.
\* A refundable payment always has its intent: Stripe gives one to every paid session
\* of a one-off payment, and both writers of SUCCEEDED store it; so the branch that
\* refunds without Stripe (payments.service.ts:347) is never taken.
RefundAtStripe(r) ==
  LET p == refund[r].pay
      total == stripe[p].returned + refund[r].target
  IN
  /\ refund[r].pc = "stripe"
  /\ \/ /\ payment[p].intent = "set" /\ total <= Amount
        /\ stripe' = [stripe EXCEPT ![p].returned = total]
        /\ emitted' = emitted \cup {ChargeRefunded(p, total)}
        /\ refund' = [refund EXCEPT ![r].pc = "read"]
     \/ /\ payment[p].intent = "set" /\ total > Amount
        /\ refund' = [refund EXCEPT ![r] = IdleRefund]
        /\ UNCHANGED external
  /\ UNCHANGED <<rows, checkout, hook, recon, sweep, faults>>

FullRefund(r) == refund[r].base + refund[r].target >= Amount

\* The transaction looks for another unexpired sponsorship of the community.
RefundRead(r) ==
  LET p == refund[r].pay IN
  /\ refund[r].pc = "read"
  /\ refund' = [refund EXCEPT ![r] = [@ EXCEPT !.pc = "commit",
                  !.clear = IF /\ FullRefund(r) /\ refund[r].cancel # {}
                               /\ UnexpiredOf(CommunityOf[p]) \subseteq {p}
                            THEN {CommunityOf[p]} ELSE {}]]
  /\ UNCHANGED <<rows, external, checkout, hook, recon, sweep, faults>>

RefundCommit(r) ==
  LET p == refund[r].pay IN
  /\ refund[r].pc = "commit"
  /\ payment' = [payment EXCEPT
       ![p].status = IF FullRefund(r) THEN "REFUNDED" ELSE "PARTIALLY_REFUNDED",
       ![p].refunded = refund[r].base + refund[r].target]
  /\ sponsorship' = [q \in Payments |-> IF FullRefund(r) /\ q \in refund[r].cancel
                                       THEN "CANCELLED" ELSE sponsorship[q]]
  /\ benefit' = benefit \ refund[r].clear
  /\ refund' = [refund EXCEPT ![r] = IdleRefund]
  /\ UNCHANGED <<lapsed, record, external, checkout, hook, recon, sweep, faults>>

RefundLost(r) ==
  /\ refund[r].pc # "idle"
  /\ Fault
  /\ refund' = [refund EXCEPT ![r] = IdleRefund]
  /\ UNCHANGED <<rows, external, checkout, hook, recon, sweep>>

-----------------------------------------------------------------------------
(* Reconciliation: the list is read once, then each payment is settled *)

\* Any PENDING payment may be older than the cutoff; those without a session
\* id are counted as unresolved and left alone.
ReconcileStart(r) ==
  /\ recon[r].todo = {} /\ recon[r].pay = None
  /\ recon' = [recon EXCEPT ![r].todo =
                 {p \in Payments : payment[p].status = "PENDING" /\ payment[p].session = "set"}]
  /\ recon'[r].todo # {}
  /\ UNCHANGED <<rows, external, checkout, hook, refund, sweep, faults>>

\* Mutant of ReconcileAsk: a session that has not expired counts as paid.
ReconcileAskOpenIsPaid(r, p) ==
  /\ recon[r].pay = None
  /\ p \in recon[r].todo
  /\ recon' = [recon EXCEPT ![r] =
       [todo |-> recon[r].todo \ {p}, pay |-> p, wrote |-> recon[r].wrote,
        verdict |-> IF stripe[p].session = "expired" THEN "expired" ELSE "paid"]]
  /\ UNCHANGED <<rows, external, checkout, hook, refund, sweep, faults>>

ReconcileAsk(r, p) ==
  /\ recon[r].pay = None
  /\ p \in recon[r].todo
  /\ recon' = [recon EXCEPT ![r] =
       [todo |-> recon[r].todo \ {p}, wrote |-> recon[r].wrote,
        pay |-> IF stripe[p].session \in {"paid", "expired"} THEN p ELSE None,
        verdict |-> IF stripe[p].session \in {"paid", "expired"}
                    THEN stripe[p].session ELSE None]]
  /\ UNCHANGED <<rows, external, checkout, hook, refund, sweep, faults>>

\* The update is by id alone, whatever the payment has become since the list.
ReconcileWrite(r) ==
  LET p == recon[r].pay IN
  /\ p # None
  /\ payment' = [payment EXCEPT
       ![p].status = IF recon[r].verdict = "paid" THEN "SUCCEEDED" ELSE "FAILED",
       ![p].intent = IF recon[r].verdict = "paid" THEN "set" ELSE @]
  /\ recon' = [recon EXCEPT ![r] =
       [todo |-> recon[r].todo, pay |-> None, verdict |-> None,
        wrote |-> IF recon[r].verdict = "paid" THEN recon[r].wrote \cup {p} ELSE recon[r].wrote]]
  /\ UNCHANGED <<sponsorship, lapsed, benefit, record, external,
                 checkout, hook, refund, sweep, faults>>

-----------------------------------------------------------------------------
(* The sweep of expired sponsorships *)

SweepStart(s) ==
  /\ sweep[s] = IdleSweep
  /\ sweep' = [sweep EXCEPT ![s].todo =
                 {p \in lapsed : sponsorship[p] = "ACTIVE"}]
  /\ sweep'[s].todo # {}
  /\ UNCHANGED <<rows, external, checkout, hook, refund, recon, faults>>

SweepRead(s, p) ==
  /\ sweep[s].pay = None
  /\ p \in sweep[s].todo
  /\ sweep' = [sweep EXCEPT ![s] =
       [todo |-> sweep[s].todo \ {p}, pay |-> p,
        clear |-> IF UnexpiredOf(CommunityOf[p]) \subseteq {p} THEN {CommunityOf[p]} ELSE {}]]
  /\ UNCHANGED <<rows, external, checkout, hook, refund, recon, faults>>

SweepCommit(s) ==
  LET p == sweep[s].pay IN
  /\ p # None
  /\ sponsorship' = [sponsorship EXCEPT ![p] = "EXPIRED"]
  /\ benefit' = benefit \ sweep[s].clear
  /\ sweep' = [sweep EXCEPT ![s].pay = None, ![s].clear = {}]
  /\ UNCHANGED <<payment, lapsed, record, external, checkout, hook, refund, recon, faults>>

-----------------------------------------------------------------------------
CheckoutStep(p) == CheckConflict(p) \/ CreatePayment(p) \/ OpenSession(p)
                   \/ SaveSession(p) \/ CheckoutLost(p)
StripeStep(p) == Pay(p) \/ SessionExpires(p) \/ Lapse(p)
HookStep(h) == \/ WebhookStep(h) \/ WebhookFault(h)
               \/ Dispatch(h) \/ Activate(h) \/ ActivateRollback(h) \/ RecordChargeRefund(h)
RefundStep(r) == \/ \E p \in Payments, a \in 1..Amount : RequestRefund(r, p, a)
                 \/ RefundAtStripe(r) \/ RefundRead(r) \/ RefundCommit(r) \/ RefundLost(r)
ReconcileStep(r) == \/ ReconcileStart(r) \/ ReconcileWrite(r)
                    \/ \E p \in Payments : ReconcileAsk(r, p)
SweepStep(s) == \/ SweepStart(s) \/ SweepCommit(s)
                \/ \E p \in Payments : SweepRead(s, p)

Next ==
  \/ \E p \in Payments : CheckoutStep(p) \/ StripeStep(p)
  \/ \E h \in Hooks : HookStep(h)
  \/ \E r \in Refunders : RefundStep(r)
  \/ \E r \in Reconcilers : ReconcileStep(r)
  \/ \E s \in Sweepers : SweepStep(s)

Spec == Init /\ [][Next]_vars

(***************************************************************************)
(* Stripe delivers an event until it is answered with success, so an event *)
(* that keeps being deliverable is delivered; the bound on Hooks is the    *)
(* model's own, hence strong fairness.  A request that was not lost runs   *)
(* on.  No fairness is assumed of administrators, of the reconciliation or *)
(* of the sweep, which nothing in the code schedules.                      *)
(***************************************************************************)
HookRuns(h) ==
  \/ (W!CreateRecord(h) \/ W!MarkProcessed(h) \/ W!MarkFailed(h)) /\ UNCHANGED <<elsewhere, faults>>
  \/ Dispatch(h) \/ Activate(h) \/ ActivateRollback(h) \/ RecordChargeRefund(h)
Fairness ==
  /\ \A h \in Hooks : WF_vars(HookRuns(h))
  /\ \A e \in Events : SF_vars(\E h \in Hooks : W!Deliver(h, e) /\ UNCHANGED <<elsewhere, faults>>)
FairSpec == Spec /\ Fairness

-----------------------------------------------------------------------------
(* Properties *)

\* Type invariant: the rows, Stripe, and the local state of every request.
RowsTypeOK ==
  /\ payment \in [Payments -> [status : PaymentStatus, session : {"null", "set"},
                               intent : {"null", "set"}, refunded : 0..Amount]]
  /\ sponsorship \in [Payments -> SponsorshipStatus]
  /\ lapsed \subseteq Payments
  /\ benefit \subseteq Communities

StripeTypeOK ==
  /\ stripe \in [Payments -> [session : {"none", "open", "paid", "expired"},
                              returned : 0..Amount]]
  /\ checkout \in [Payments -> {"idle", "checked", "created", "opened", "done"}]
  /\ faults \in 0..MaxFaults

RefundRequests == [pc : {"idle", "stripe", "read", "commit"},
                   pay : Payments \cup {None}, cancel : SUBSET Payments,
                   base : 0..Amount, target : 0..Amount, clear : SUBSET Communities]
RefundTypeOK == refund \in [Refunders -> RefundRequests]

BatchTypeOK ==
  /\ recon \in [Reconcilers -> [todo : SUBSET Payments, pay : Payments \cup {None},
                                verdict : {None, "paid", "expired"},
                                wrote : SUBSET Payments]]
  /\ sweep \in [Sweepers -> [todo : SUBSET Payments, pay : Payments \cup {None},
                             clear : SUBSET Communities]]

TypeOK == RowsTypeOK /\ StripeTypeOK /\ W!WebhookTypeOK /\ RefundTypeOK /\ BatchTypeOK

\* No payment is settled, and no sponsorship granted, for a session the
\* customer has not paid; a payment is FAILED only when its session expired
\* (webhook and reconciliation write the status by id, from stale reads).
SettledOnlyIfPaid ==
  \A p \in Payments :
    /\ (\/ payment[p].status \in {"SUCCEEDED", "PARTIALLY_REFUNDED", "REFUNDED"}
        \/ sponsorship[p] # "none") => stripe[p].session = "paid"
    /\ payment[p].status = "FAILED" => stripe[p].session = "expired"

\* The ledger never shows more refunded than Stripe has returned to the card,
\* although concurrent refunds and charge.refunded overwrite refundAmount
\* with sums they computed from earlier reads.
LedgerWithinReturned ==
  \A p \in Payments : payment[p].refunded <= stripe[p].returned

\* An acknowledged completed session is never lost: once the event is marked
\* PROCESSED, and later deliveries are skipped, its payment is settled.
AcknowledgedIsSettled ==
  \A p \in Payments : record[Completed(p)] = "PROCESSED" =>
    payment[p].status \in {"SUCCEEDED", "PARTIALLY_REFUNDED", "REFUNDED"}

\* A sponsorship that expired or was cancelled is never made active again by
\* a redelivered or concurrent activation, and none expires before its end.
NeverRevived ==
  [][\A p \in Payments :
       /\ sponsorship[p] \in {"EXPIRED", "CANCELLED"} => sponsorship'[p] # "ACTIVE"
       /\ sponsorship[p] = "ACTIVE" /\ sponsorship'[p] = "EXPIRED" => p \in lapsed]_vars

\* Every paid session eventually activates its sponsorship (the webhook's
\* transaction settles the payment and creates the sponsorship together).
PaidIsActivated ==
  \A p \in Payments : stripe[p].session = "paid" ~> sponsorship[p] # "none"

\* A refunded payment becomes a succeeded one again only if the reconciliation, which
\* writes by id what it read before, has written it as paid: then or earlier, when it
\* left the payment without a sponsorship to keep a late activation out.
Reconciled == UNION {recon[r].wrote : r \in Reconcilers}
RefundIsFinal ==
  [][\A p \in Payments :
       payment[p].status = "REFUNDED" /\ payment'[p].status = "SUCCEEDED" => p \in Reconciled']_vars
=============================================================================
