--------------------- MODULE SponsorshipPaymentsProofs ---------------------
(***************************************************************************)
(* Type correctness and the safety properties, for any number of payments, *)
(* of concurrent webhook deliveries, of refunds, of reconciliations and of *)
(* sweeps.                                                                 *)
(*                                                                         *)
(* No property is inductive: the writes come from values read before an    *)
(* await.  The strengthening says, for every kind of request, what is      *)
(* still true of Stripe when it writes - a paid or expired session stays   *)
(* so, and the amount returned only grows - so that stale values are safe. *)
(* AckInv, LapsedInv and GrantedInv rest on it, one for each property of   *)
(* the last three sections.                                                *)
(***************************************************************************)
EXTENDS SponsorshipPayments, TLAPS

\* A session exists only from the time the checkout request opened it.
SessionInv ==
  \A p \in Payments :
    checkout[p] \in {"idle", "checked", "created"} => stripe[p].session = "none"

\* Whatever Stripe has announced stays true of the session and the charge.
EmittedInv ==
  \A e \in emitted :
    /\ stripe[e[2]].session = "paid"
    /\ e[1] = "refunded" => e[3] <= stripe[e[2]].returned

IntentInv == \A p \in Payments : payment[p].intent = "set" => stripe[p].session = "paid"

HookInv == \A h \in Hooks : hook[h].pc # "idle" => hook[h].ev \in emitted

\* base was read from the ledger; target has been returned from "read" on.
RefundInv ==
  \A r \in Refunders :
    refund[r].pc # "idle" =>
      /\ refund[r].pay \in Payments
      /\ stripe[refund[r].pay].session = "paid"
      /\ refund[r].cancel \subseteq {refund[r].pay}
      /\ refund[r].target >= 1 /\ refund[r].base + refund[r].target <= Amount
      /\ refund[r].base <= stripe[refund[r].pay].returned
      /\ refund[r].pc \in {"read", "commit"} =>
           refund[r].base + refund[r].target <= stripe[refund[r].pay].returned

ReconInv ==
  \A r \in Reconcilers :
    recon[r].pay # None => /\ recon[r].verdict \in {"paid", "expired"}
                           /\ stripe[recon[r].pay].session = recon[r].verdict

SweepInv ==
  \A s \in Sweepers : \A p \in sweep[s].todo \cup {sweep[s].pay} :
    p # None => stripe[p].session = "paid"

IndInv == /\ TypeOK /\ SettledOnlyIfPaid /\ LedgerWithinReturned
          /\ SessionInv /\ EmittedInv /\ IntentInv
          /\ HookInv /\ RefundInv /\ ReconInv /\ SweepInv

-----------------------------------------------------------------------------
\* The initial state satisfies the inductive invariant.
LEMMA InitIndInv == Init => IndInv
  BY AmountAssumption, MaxFaultsAssumption, NoneAssumption
  DEF Init, IndInv, TypeOK, SettledOnlyIfPaid, LedgerWithinReturned, SessionInv,
      EmittedInv, IntentInv, HookInv, RefundInv, ReconInv, SweepInv,
      RowsTypeOK, StripeTypeOK, W!WebhookTypeOK, RefundTypeOK, BatchTypeOK,
      RefundRequests, W!WebhookInit, W!IdleHook, W!ProcessingStatus,
      IdleRefund, IdleRecon, IdleSweep, PaymentStatus, SponsorshipStatus

\* Members of Events, taken apart.
LEMMA EventParts ==
  \A e \in Events : /\ e[2] \in Payments /\ e[3] \in 0..Amount
                    /\ e[1] \in {"completed", "refunded"}
  BY AmountAssumption DEF Events, Completed, ChargeRefunded

\* The steps of a checkout request keep the invariant.
LEMMA CheckoutKeeps ==
  ASSUME IndInv, NEW p \in Payments, CheckoutStep(p) PROVE IndInv'
<1>1. CASE CheckConflict(p)
  <2>1. TypeOK'
    BY <1>1 DEF CheckConflict, rows, external, IndInv, TypeOK, RowsTypeOK, StripeTypeOK,
        W!WebhookTypeOK, RefundTypeOK, BatchTypeOK
  <2>2. (SettledOnlyIfPaid /\ LedgerWithinReturned /\ SessionInv /\ EmittedInv /\ IntentInv)'
    BY <1>1 DEF CheckConflict, rows, external, IndInv, TypeOK, StripeTypeOK,
        SettledOnlyIfPaid, LedgerWithinReturned, SessionInv, EmittedInv, IntentInv
  <2>3. (HookInv /\ RefundInv /\ ReconInv /\ SweepInv)'
    BY <1>1 DEF CheckConflict, rows, external, IndInv, HookInv, RefundInv, ReconInv, SweepInv
  <2> QED BY <2>1, <2>2, <2>3 DEF IndInv
<1>2. CASE CreatePayment(p)
  <2>1. RowsTypeOK'
    BY <1>2 DEF CreatePayment, IndInv, TypeOK, RowsTypeOK, PaymentStatus
  <2>2. (StripeTypeOK /\ W!WebhookTypeOK /\ RefundTypeOK /\ BatchTypeOK)'
    BY <1>2 DEF CreatePayment, external, IndInv, TypeOK, StripeTypeOK,
        W!WebhookTypeOK, RefundTypeOK, BatchTypeOK
  <2>3. (SettledOnlyIfPaid /\ LedgerWithinReturned /\ SessionInv /\ EmittedInv /\ IntentInv)'
    BY <1>2 DEF CreatePayment, external, IndInv, TypeOK, RowsTypeOK, StripeTypeOK,
        SettledOnlyIfPaid, LedgerWithinReturned, SessionInv, EmittedInv, IntentInv
  <2>4. (HookInv /\ RefundInv /\ ReconInv /\ SweepInv)'
    BY <1>2 DEF CreatePayment, external, IndInv, HookInv, RefundInv, ReconInv, SweepInv
  <2> QED BY <2>1, <2>2, <2>3, <2>4 DEF IndInv, TypeOK
<1>3. CASE OpenSession(p)
  <2>1. StripeTypeOK'
    BY <1>3 DEF OpenSession, IndInv, TypeOK, StripeTypeOK
  <2>2. (RowsTypeOK /\ W!WebhookTypeOK /\ RefundTypeOK /\ BatchTypeOK)'
    BY <1>3 DEF OpenSession, rows, IndInv, TypeOK, RowsTypeOK,
        W!WebhookTypeOK, RefundTypeOK, BatchTypeOK
  <2>3. (SettledOnlyIfPaid /\ LedgerWithinReturned /\ SessionInv /\ IntentInv)'
    BY <1>3 DEF OpenSession, rows, IndInv, TypeOK, StripeTypeOK,
        SettledOnlyIfPaid, LedgerWithinReturned, SessionInv, IntentInv
  <2>4. (EmittedInv /\ HookInv)'
    BY <1>3, EventParts DEF OpenSession, IndInv, TypeOK, StripeTypeOK, SessionInv,
        EmittedInv, HookInv
  <2>5. (RefundInv /\ ReconInv /\ SweepInv)'
    BY <1>3 DEF OpenSession, IndInv, TypeOK, StripeTypeOK, BatchTypeOK, SessionInv,
        RefundInv, ReconInv, SweepInv
  <2> QED BY <2>1, <2>2, <2>3, <2>4, <2>5 DEF IndInv, TypeOK
<1>4. CASE SaveSession(p)
  <2>1. RowsTypeOK'
    BY <1>4 DEF SaveSession, IndInv, TypeOK, RowsTypeOK
  <2>2. (StripeTypeOK /\ W!WebhookTypeOK /\ RefundTypeOK /\ BatchTypeOK)'
    BY <1>4 DEF SaveSession, external, IndInv, TypeOK, StripeTypeOK,
        W!WebhookTypeOK, RefundTypeOK, BatchTypeOK
  <2>3. (SettledOnlyIfPaid /\ LedgerWithinReturned /\ SessionInv /\ EmittedInv /\ IntentInv)'
    BY <1>4 DEF SaveSession, external, IndInv, TypeOK, RowsTypeOK, StripeTypeOK,
        SettledOnlyIfPaid, LedgerWithinReturned, SessionInv, EmittedInv, IntentInv
  <2>4. (HookInv /\ RefundInv /\ ReconInv /\ SweepInv)'
    BY <1>4 DEF SaveSession, external, IndInv, HookInv, RefundInv, ReconInv, SweepInv
  <2> QED BY <2>1, <2>2, <2>3, <2>4 DEF IndInv, TypeOK
<1>5. CASE CheckoutLost(p)
  <2>1. TypeOK'
    BY <1>5, MaxFaultsAssumption DEF CheckoutLost, Fault, rows, external, IndInv, TypeOK,
        RowsTypeOK, StripeTypeOK, W!WebhookTypeOK, RefundTypeOK, BatchTypeOK
  <2>2. (SettledOnlyIfPaid /\ LedgerWithinReturned /\ SessionInv /\ EmittedInv /\ IntentInv)'
    BY <1>5 DEF CheckoutLost, rows, external, IndInv, TypeOK, StripeTypeOK,
        SettledOnlyIfPaid, LedgerWithinReturned, SessionInv, EmittedInv, IntentInv
  <2>3. (HookInv /\ RefundInv /\ ReconInv /\ SweepInv)'
    BY <1>5 DEF CheckoutLost, rows, external, IndInv, HookInv, RefundInv, ReconInv, SweepInv
  <2> QED BY <2>1, <2>2, <2>3 DEF IndInv
<1> QED BY <1>1, <1>2, <1>3, <1>4, <1>5 DEF CheckoutStep
\* The steps of Stripe and of the calendar keep the invariant.
LEMMA StripeKeeps ==
  ASSUME IndInv, NEW p \in Payments, StripeStep(p) PROVE IndInv'
<1>1. CASE Pay(p)
  <2>1. StripeTypeOK'
    BY <1>1 DEF Pay, IndInv, TypeOK, StripeTypeOK
  <2>2. (RowsTypeOK /\ W!WebhookTypeOK /\ RefundTypeOK /\ BatchTypeOK)'
    BY <1>1 DEF Pay, Completed, Events, rows, IndInv, TypeOK, RowsTypeOK, W!WebhookTypeOK, RefundTypeOK,
        BatchTypeOK
  <2>3. (SettledOnlyIfPaid /\ LedgerWithinReturned /\ SessionInv /\ IntentInv)'
    BY <1>1 DEF Pay, rows, IndInv, TypeOK, StripeTypeOK, RowsTypeOK, SettledOnlyIfPaid,
        LedgerWithinReturned, SessionInv, IntentInv
  <2>4. (EmittedInv /\ HookInv)'
    BY <1>1, EventParts DEF Pay, Completed, IndInv, TypeOK, StripeTypeOK, W!WebhookTypeOK, EmittedInv,
        HookInv
  <2>5. (RefundInv /\ ReconInv /\ SweepInv)'
    BY <1>1 DEF Pay, IndInv, TypeOK, StripeTypeOK, BatchTypeOK, RefundInv, ReconInv,
        SweepInv
  <2> QED BY <2>1, <2>2, <2>3, <2>4, <2>5 DEF IndInv, TypeOK
<1>2. CASE SessionExpires(p)
  <2>1. StripeTypeOK'
    BY <1>2 DEF SessionExpires, IndInv, TypeOK, StripeTypeOK
  <2>2. (RowsTypeOK /\ W!WebhookTypeOK /\ RefundTypeOK /\ BatchTypeOK)'
    BY <1>2 DEF SessionExpires, rows, IndInv, TypeOK, RowsTypeOK, W!WebhookTypeOK, RefundTypeOK,
        BatchTypeOK
  <2>3. (SettledOnlyIfPaid /\ LedgerWithinReturned /\ SessionInv /\ IntentInv)'
    BY <1>2 DEF SessionExpires, rows, IndInv, TypeOK, StripeTypeOK, RowsTypeOK,
        SettledOnlyIfPaid, LedgerWithinReturned, SessionInv, IntentInv
  <2>4. (EmittedInv /\ HookInv)'
    BY <1>2, EventParts DEF SessionExpires, IndInv, TypeOK, StripeTypeOK, EmittedInv,
        HookInv
  <2>5. (RefundInv /\ ReconInv /\ SweepInv)'
    BY <1>2 DEF SessionExpires, IndInv, TypeOK, StripeTypeOK, BatchTypeOK, RefundInv,
        ReconInv, SweepInv
  <2> QED BY <2>1, <2>2, <2>3, <2>4, <2>5 DEF IndInv, TypeOK
<1>3. CASE Lapse(p)
  <2>1. TypeOK'
    BY <1>3 DEF Lapse, external, IndInv, TypeOK, RowsTypeOK, StripeTypeOK, W!WebhookTypeOK,
        RefundTypeOK, BatchTypeOK
  <2>2. (SettledOnlyIfPaid /\ LedgerWithinReturned /\ SessionInv /\ EmittedInv /\ IntentInv)'
    BY <1>3 DEF Lapse, external, IndInv, SettledOnlyIfPaid, LedgerWithinReturned,
        SessionInv, EmittedInv, IntentInv
  <2>3. (HookInv /\ RefundInv /\ ReconInv /\ SweepInv)'
    BY <1>3 DEF Lapse, external, IndInv, HookInv, RefundInv, ReconInv, SweepInv
  <2> QED BY <2>1, <2>2, <2>3 DEF IndInv, TypeOK
<1> QED BY <1>1, <1>2, <1>3 DEF StripeStep

\* The protocol's own steps emit nothing, and a request keeps its event.
LEMMA ProtocolKeeps ==
  ASSUME W!WebhookTypeOK, HookInv, NEW h \in Hooks,
         W!ProtocolStep(h) \/ W!CallFails(h) \/ W!Lost(h)
  PROVE  emitted' = emitted /\ W!WebhookTypeOK' /\ HookInv'
<1> USE DEF W!WebhookTypeOK, W!ProcessingStatus, HookInv, W!Goto, W!Return, W!IdleHook
<1>1. CASE \E e \in Events : W!Deliver(h, e)
  BY <1>1 DEF W!Deliver
<1>2. CASE W!CreateRecord(h)
  <2>1. hook[h].ev \in Events
    BY <1>2 DEF W!CreateRecord
  <2> QED BY <1>2, <2>1 DEF W!CreateRecord
<1>3. CASE W!MarkProcessed(h)
  <2>1. hook[h].ev \in Events
    BY <1>3 DEF W!MarkProcessed
  <2> QED BY <1>3, <2>1 DEF W!MarkProcessed
<1>4. CASE W!MarkFailed(h)
  <2>1. hook[h].ev \in Events
    BY <1>4 DEF W!MarkFailed
  <2> QED BY <1>4, <2>1 DEF W!MarkFailed
<1>5. CASE W!CallFails(h)
  BY <1>5 DEF W!CallFails
<1>6. CASE W!Lost(h)
  BY <1>6 DEF W!Lost
<1> QED BY <1>1, <1>2, <1>3, <1>4, <1>5, <1>6 DEF W!ProtocolStep

\* The steps of a webhook request keep the invariant.
LEMMA HookKeeps ==
  ASSUME IndInv, NEW h \in Hooks, HookStep(h) PROVE IndInv'
<1>1. CASE WebhookStep(h) \/ WebhookFault(h)
  <2>1. emitted' = emitted /\ W!WebhookTypeOK' /\ HookInv'
    BY <1>1, ProtocolKeeps DEF WebhookStep, WebhookFault, IndInv, TypeOK
  <2>2. faults' \in 0..MaxFaults
    BY <1>1, MaxFaultsAssumption DEF WebhookStep, WebhookFault, Fault, IndInv, TypeOK, StripeTypeOK
  <2>3. UNCHANGED elsewhere
    BY <1>1 DEF WebhookStep, WebhookFault, elsewhere
  <2>4. (RowsTypeOK /\ StripeTypeOK /\ RefundTypeOK /\ BatchTypeOK)'
    BY <2>2, <2>3 DEF elsewhere, IndInv, TypeOK, RowsTypeOK, StripeTypeOK, RefundTypeOK,
        BatchTypeOK
  <2>5. (SettledOnlyIfPaid /\ LedgerWithinReturned /\ SessionInv /\ EmittedInv /\ IntentInv)'
    BY <2>1, <2>3 DEF elsewhere, IndInv, SettledOnlyIfPaid, LedgerWithinReturned,
        SessionInv, EmittedInv, IntentInv
  <2>6. (RefundInv /\ ReconInv /\ SweepInv)'
    BY <2>3 DEF elsewhere, IndInv, RefundInv, ReconInv, SweepInv
  <2> QED BY <2>1, <2>4, <2>5, <2>6 DEF IndInv, TypeOK
<1>2. CASE Dispatch(h)
  <2>1. (W!WebhookTypeOK /\ HookInv)'
    BY <1>2 DEF Dispatch, rows, external, IndInv, TypeOK, W!WebhookTypeOK, HookInv
  <2>2. (RowsTypeOK /\ StripeTypeOK /\ RefundTypeOK /\ BatchTypeOK)'
    BY <1>2 DEF Dispatch, rows, external, IndInv, TypeOK, RowsTypeOK, StripeTypeOK,
        RefundTypeOK, BatchTypeOK
  <2>3. (SettledOnlyIfPaid /\ LedgerWithinReturned /\ SessionInv /\ EmittedInv /\ IntentInv)'
    BY <1>2 DEF Dispatch, rows, external, IndInv, SettledOnlyIfPaid,
        LedgerWithinReturned, SessionInv, EmittedInv, IntentInv
  <2>4. (RefundInv /\ ReconInv /\ SweepInv)'
    BY <1>2 DEF Dispatch, rows, external, IndInv, RefundInv, ReconInv, SweepInv
  <2> QED BY <2>1, <2>2, <2>3, <2>4 DEF IndInv, TypeOK
<1>3. CASE Activate(h)
  <2>1. /\ hook[h].ev \in emitted /\ hook[h].ev[2] \in Payments
        /\ stripe[hook[h].ev[2]].session = "paid"
    BY <1>3, EventParts DEF Activate, IndInv, TypeOK, W!WebhookTypeOK, HookInv, EmittedInv
  <2> DEFINE p == hook[h].ev[2]
  <2>9. /\ payment \in [Payments -> [status : PaymentStatus, session : {"null", "set"},
                                     intent : {"null", "set"}, refunded : 0..Amount]]
        /\ p \in Payments /\ stripe[p].session = "paid"
        /\ payment' = [payment EXCEPT ![p].status = "SUCCEEDED", ![p].intent = "set"]
        /\ sponsorship \in [Payments -> SponsorshipStatus]
        /\ sponsorship' = [sponsorship EXCEPT ![p] = "ACTIVE"]
        /\ stripe' = stripe /\ checkout' = checkout /\ emitted' = emitted
    BY <1>3, <2>1 DEF Activate, external, IndInv, TypeOK, RowsTypeOK
  <2>2. payment' \in [Payments -> [status : PaymentStatus, session : {"null", "set"},
                                   intent : {"null", "set"}, refunded : 0..Amount]]
    <3> HIDE DEF p
    <3>1. payment[p] \in [status : PaymentStatus, session : {"null", "set"},
                         intent : {"null", "set"}, refunded : 0..Amount]
      BY <2>9
    <3>2. [payment[p] EXCEPT !.status = "SUCCEEDED", !.intent = "set"]
            \in [status : PaymentStatus, session : {"null", "set"},
                intent : {"null", "set"}, refunded : 0..Amount]
      BY <3>1 DEF PaymentStatus
    <3>3. payment' = [payment EXCEPT ![p] = [payment[p] EXCEPT !.status = "SUCCEEDED",
                                                               !.intent = "set"]]
      BY <2>9
    <3> QED BY <2>9, <3>2, <3>3
  <2>10. /\ payment'[p].status = "SUCCEEDED" /\ payment'[p].refunded = payment[p].refunded
         /\ \A q \in Payments \ {p} : payment'[q] = payment[q] /\ sponsorship'[q] = sponsorship[q]
    <3> HIDE DEF p
    <3> QED BY <2>9
  <2>3. CommunityOf[hook[h].ev[2]] \in Communities
    BY <1>3, <2>1, CommunityOfAssumption DEF Activate
  <2>4. RowsTypeOK'
    BY <1>3, <2>1, <2>2, <2>3 DEF Activate, IndInv, TypeOK, RowsTypeOK, SponsorshipStatus
  <2>5. (W!WebhookTypeOK /\ HookInv)'
    BY <1>3 DEF Activate, external, IndInv, TypeOK, W!WebhookTypeOK, HookInv
  <2>6. (StripeTypeOK /\ RefundTypeOK /\ BatchTypeOK)'
    BY <1>3 DEF Activate, external, IndInv, TypeOK, StripeTypeOK, RefundTypeOK,
        BatchTypeOK
  <2>7. (SettledOnlyIfPaid /\ LedgerWithinReturned /\ SessionInv /\ EmittedInv /\ IntentInv)'
    <3> HIDE DEF p
    <3>1. (SettledOnlyIfPaid /\ IntentInv)'
      BY <2>9, <2>10 DEF IndInv, SettledOnlyIfPaid, IntentInv
    <3>2. (LedgerWithinReturned /\ SessionInv /\ EmittedInv)'
      BY <2>9, <2>10 DEF IndInv, LedgerWithinReturned, SessionInv, EmittedInv
    <3> QED BY <3>1, <3>2
  <2>8. (RefundInv /\ ReconInv /\ SweepInv)'
    BY <1>3 DEF Activate, external, IndInv, RefundInv, ReconInv, SweepInv
  <2> QED BY <2>1, <2>2, <2>3, <2>4, <2>5, <2>6, <2>7, <2>8 DEF IndInv, TypeOK
<1>4. CASE ActivateRollback(h)
  <2>1. (W!WebhookTypeOK /\ HookInv)'
    BY <1>4 DEF ActivateRollback, rows, external, IndInv, TypeOK, W!WebhookTypeOK, HookInv
  <2>2. (RowsTypeOK /\ StripeTypeOK /\ RefundTypeOK /\ BatchTypeOK)'
    BY <1>4 DEF ActivateRollback, rows, external, IndInv, TypeOK, RowsTypeOK, StripeTypeOK,
        RefundTypeOK, BatchTypeOK
  <2>3. (SettledOnlyIfPaid /\ LedgerWithinReturned /\ SessionInv /\ EmittedInv /\ IntentInv)'
    BY <1>4 DEF ActivateRollback, rows, external, IndInv, SettledOnlyIfPaid,
        LedgerWithinReturned, SessionInv, EmittedInv, IntentInv
  <2>4. (RefundInv /\ ReconInv /\ SweepInv)'
    BY <1>4 DEF ActivateRollback, rows, external, IndInv, RefundInv, ReconInv, SweepInv
  <2> QED BY <2>1, <2>2, <2>3, <2>4 DEF IndInv, TypeOK
<1>5. CASE RecordChargeRefund(h)
  <2>1. hook[h].ev \in Events /\ hook[h].ev \in emitted
    BY <1>5 DEF RecordChargeRefund, IndInv, TypeOK, W!WebhookTypeOK, HookInv
  <2>2. /\ hook[h].ev[2] \in Payments /\ hook[h].ev[3] \in 0..Amount
        /\ stripe[hook[h].ev[2]].session = "paid"
        /\ hook[h].ev[3] <= stripe[hook[h].ev[2]].returned
    BY <1>5, <2>1, EventParts DEF RecordChargeRefund, IndInv, EmittedInv
  <2>3. RowsTypeOK'
    <3>1. /\ payment' = [payment EXCEPT ![hook[h].ev[2]].status = "REFUNDED",
                                       ![hook[h].ev[2]].refunded = hook[h].ev[3]]
          /\ UNCHANGED <<sponsorship, lapsed, benefit>>
      BY <1>5 DEF RecordChargeRefund
    <3>2. payment \in [Payments -> [status : PaymentStatus, session : {"null", "set"},
                                   intent : {"null", "set"}, refunded : 0..Amount]]
      BY DEF IndInv, TypeOK, RowsTypeOK
    <3>3. payment' \in [Payments -> [status : PaymentStatus, session : {"null", "set"},
                                    intent : {"null", "set"}, refunded : 0..Amount]]
      <4> DEFINE q == hook[h].ev[2]
                 amount == hook[h].ev[3]
      <4>1. q \in Payments /\ amount \in 0..Amount
        BY <2>2
      <4>2. payment' = [payment EXCEPT ![q] = [payment[q] EXCEPT !.status = "REFUNDED",
                                                                 !.refunded = amount]]
        BY <3>1
      <4> HIDE DEF q, amount
      <4>3. [payment[q] EXCEPT !.status = "REFUNDED", !.refunded = amount]
              \in [status : PaymentStatus, session : {"null", "set"},
                  intent : {"null", "set"}, refunded : 0..Amount]
        BY <3>2, <4>1 DEF PaymentStatus
      <4> QED BY <3>2, <4>2, <4>3
    <3> QED BY <3>1, <3>3 DEF IndInv, TypeOK, RowsTypeOK
  <2>4. (W!WebhookTypeOK /\ HookInv)'
    BY <1>5 DEF RecordChargeRefund, external, IndInv, TypeOK, W!WebhookTypeOK, HookInv
  <2>5. (StripeTypeOK /\ RefundTypeOK /\ BatchTypeOK)'
    BY <1>5 DEF RecordChargeRefund, external, IndInv, TypeOK, StripeTypeOK, RefundTypeOK,
        BatchTypeOK
  <2> DEFINE p == hook[h].ev[2]
             total == hook[h].ev[3]
  <2>9. /\ payment \in [Payments -> [status : PaymentStatus, session : {"null", "set"},
                                     intent : {"null", "set"}, refunded : 0..Amount]]
        /\ payment' = [payment EXCEPT ![p].status = "REFUNDED", ![p].refunded = total]
        /\ stripe' = stripe /\ sponsorship' = sponsorship
    BY <1>5 DEF RecordChargeRefund, external, IndInv, TypeOK, RowsTypeOK
  <2>10. /\ payment'[p].status = "REFUNDED" /\ payment'[p].refunded = total
         /\ \A q \in Payments \ {p} : payment'[q] = payment[q]
    <3>1. p \in Payments
      BY <2>2
    <3> HIDE DEF p, total
    <3> QED BY <2>9, <3>1
  <2>6. (SettledOnlyIfPaid /\ LedgerWithinReturned)'
    <3>1. stripe[p].session = "paid" /\ total <= stripe[p].returned
      BY <2>2
    <3> HIDE DEF p, total
    <3> QED BY <2>9, <2>10, <3>1 DEF IndInv, SettledOnlyIfPaid, LedgerWithinReturned
  <2>7. (SessionInv /\ EmittedInv /\ IntentInv)'
    <3>1. UNCHANGED <<stripe, emitted, checkout>>
      BY <1>5 DEF RecordChargeRefund, external
    <3>2. p \in Payments
      BY <2>2
    <3> HIDE DEF p, total
    <3>3. \A q \in Payments : payment'[q].session = payment[q].session
                            /\ payment'[q].intent = payment[q].intent
      BY <2>9, <3>2
    <3>4. (SessionInv /\ EmittedInv)'
      BY <3>1, <3>3 DEF IndInv, SessionInv, EmittedInv
    <3>5. IntentInv'
      BY <2>9, <2>10, <3>1, <3>2, <3>3 DEF IndInv, IntentInv
    <3> QED BY <3>4, <3>5
  <2>8. (RefundInv /\ ReconInv /\ SweepInv)'
    BY <1>5 DEF RecordChargeRefund, external, IndInv, RefundInv, ReconInv, SweepInv
  <2> QED BY <2>1, <2>2, <2>3, <2>4, <2>5, <2>6, <2>7, <2>8 DEF IndInv, TypeOK
<1> QED BY <1>1, <1>2, <1>3, <1>4, <1>5 DEF HookStep

\* The steps of a refund request keep the invariant.
LEMMA RefundKeeps ==
  ASSUME IndInv, NEW r \in Refunders, RefundStep(r) PROVE IndInv'
<1>1. CASE \E p \in Payments, a \in 1..Amount : RequestRefund(r, p, a)
  <2>1. (RefundTypeOK /\ RefundInv)'
    BY <1>1, AmountAssumption, NoneAssumption DEF RequestRefund, rows, external, IndInv,
        TypeOK, RefundTypeOK, RefundRequests, RefundInv, IdleRefund, RowsTypeOK,
        StripeTypeOK, SettledOnlyIfPaid, LedgerWithinReturned
  <2>2. (RowsTypeOK /\ StripeTypeOK /\ W!WebhookTypeOK /\ BatchTypeOK)'
    BY <1>1 DEF RequestRefund, rows, external, IndInv, TypeOK, RowsTypeOK, StripeTypeOK,
        W!WebhookTypeOK, BatchTypeOK
  <2>3. (SettledOnlyIfPaid /\ LedgerWithinReturned /\ SessionInv /\ EmittedInv /\ IntentInv)'
    BY <1>1 DEF RequestRefund, rows, external, IndInv, SettledOnlyIfPaid,
        LedgerWithinReturned, SessionInv, EmittedInv, IntentInv
  <2>4. (HookInv /\ ReconInv /\ SweepInv)'
    BY <1>1 DEF RequestRefund, rows, external, IndInv, HookInv, ReconInv, SweepInv
  <2> QED BY <2>1, <2>2, <2>3, <2>4 DEF IndInv, TypeOK
<1>2. CASE RefundAtStripe(r)
  <2>1. /\ refund[r].pay \in Payments /\ refund[r].base \in 0..Amount /\ refund[r].target \in 0..Amount
        /\ stripe[refund[r].pay].session = "paid" /\ stripe[refund[r].pay].returned \in 0..Amount
    BY <1>2 DEF RefundAtStripe, IndInv, TypeOK, StripeTypeOK, RefundTypeOK, RefundRequests,
        RefundInv
  <2>2. /\ stripe' \in [Payments -> [session : {"none", "open", "paid", "expired"}, returned : 0..Amount]]
        /\ \A p \in Payments : /\ stripe'[p].session = stripe[p].session
                               /\ stripe[p].returned <= stripe'[p].returned
    BY <1>2, <2>1, AmountAssumption DEF RefundAtStripe, external, IndInv, TypeOK,
        StripeTypeOK
  <2>3. \/ emitted' = emitted
        \/ /\ emitted' = emitted \cup {ChargeRefunded(refund[r].pay, stripe'[refund[r].pay].returned)}
           /\ stripe'[refund[r].pay].returned \in 1..Amount
    BY <1>2, <2>1, AmountAssumption DEF RefundAtStripe, external, IndInv, TypeOK,
        StripeTypeOK, RefundInv
  <2>4. StripeTypeOK'
    BY <1>2, <2>1, <2>2, <2>3 DEF RefundAtStripe, rows, Events, IndInv, TypeOK,
        StripeTypeOK
  <2>5. /\ refund[r] \in RefundRequests /\ IdleRefund \in RefundRequests
        /\ [refund[r] EXCEPT !.pc = "read"] \in RefundRequests
    BY <1>2, AmountAssumption DEF RefundAtStripe, IndInv, TypeOK, RefundTypeOK,
        RefundRequests, IdleRefund
  <2>6. RefundTypeOK'
    BY <1>2, <2>5 DEF RefundAtStripe, IndInv, TypeOK, RefundTypeOK
  <2>7. RefundInv'
    <3> SUFFICES ASSUME NEW q \in Refunders, refund'[q].pc # "idle"
                 PROVE  /\ refund'[q].pay \in Payments
                        /\ stripe'[refund'[q].pay].session = "paid"
                        /\ refund'[q].cancel \subseteq {refund'[q].pay}
                        /\ refund'[q].target >= 1
                        /\ refund'[q].base + refund'[q].target <= Amount
                        /\ refund'[q].base <= stripe'[refund'[q].pay].returned
                        /\ refund'[q].pc \in {"read", "commit"} =>
                             refund'[q].base + refund'[q].target
                               <= stripe'[refund'[q].pay].returned
      BY DEF RefundInv
    <3>1. CASE q # r
      <4>1. refund'[q] = refund[q]
        BY <1>2, <3>1 DEF RefundAtStripe, IndInv, TypeOK, RefundTypeOK
      <4>2. refund[q].base \in Nat /\ refund[q].target \in Nat
        BY AmountAssumption DEF IndInv, TypeOK, RefundTypeOK, RefundRequests
      <4> QED BY <2>2, <4>1, <4>2, AmountAssumption
          DEF IndInv, TypeOK, StripeTypeOK, RefundInv
    <3>2. CASE q = r
      <4>1. /\ refund' = [refund EXCEPT ![r] = [refund[r] EXCEPT !.pc = "read"]]
            /\ stripe'[refund[r].pay].returned = stripe[refund[r].pay].returned + refund[r].target
        BY <1>2, <2>1, <3>2 DEF RefundAtStripe, IdleRefund, IndInv, TypeOK, RefundTypeOK,
            StripeTypeOK
      <4>2. /\ refund'[r].pay = refund[r].pay /\ refund'[r].base = refund[r].base
            /\ refund'[r].target = refund[r].target /\ refund'[r].cancel = refund[r].cancel
        BY <2>5, <4>1 DEF IndInv, TypeOK, RefundTypeOK, RefundRequests
      <4>3. /\ refund[r].target >= 1 /\ refund[r].base + refund[r].target <= Amount
            /\ refund[r].cancel \subseteq {refund[r].pay}
            /\ refund[r].base <= stripe[refund[r].pay].returned
        BY <1>2 DEF RefundAtStripe, IndInv, RefundInv
      <4> QED BY <2>1, <2>2, <3>2, <4>1, <4>2, <4>3, AmountAssumption
    <3> QED BY <3>1, <3>2
  <2>8. (RowsTypeOK /\ W!WebhookTypeOK /\ BatchTypeOK)'
    <3>1. emitted' \subseteq Events
      BY <2>1, <2>3 DEF Events, IndInv, TypeOK, W!WebhookTypeOK
    <3>2. UNCHANGED <<payment, sponsorship, lapsed, benefit, record, hook, recon, sweep>>
      BY <1>2 DEF RefundAtStripe, rows
    <3> QED BY <3>1, <3>2 DEF IndInv, TypeOK, RowsTypeOK, W!WebhookTypeOK, BatchTypeOK
  <2>9. (SettledOnlyIfPaid /\ LedgerWithinReturned /\ SessionInv /\ IntentInv)'
    BY <1>2, <2>2, AmountAssumption DEF RefundAtStripe, rows, IndInv, TypeOK, RowsTypeOK,
        StripeTypeOK, SettledOnlyIfPaid, LedgerWithinReturned, SessionInv, IntentInv
  <2>10. EmittedInv'
    BY <1>2, <2>1, <2>2, <2>3, EventParts, AmountAssumption DEF RefundAtStripe,
        ChargeRefunded, IndInv, TypeOK, StripeTypeOK, W!WebhookTypeOK, EmittedInv
  <2>11. HookInv'
    BY <1>2 DEF RefundAtStripe, external, IndInv, HookInv
  <2>12. (ReconInv /\ SweepInv)'
    BY <1>2, <2>2 DEF RefundAtStripe, IndInv, TypeOK, BatchTypeOK, ReconInv, SweepInv
  <2> QED BY <2>1, <2>2, <2>3, <2>4, <2>5, <2>6, <2>7, <2>8, <2>9, <2>10, <2>11, <2>12 DEF IndInv, TypeOK
<1>3. CASE RefundRead(r)
  <2>1. /\ refund[r] \in RefundRequests
        /\ \A c \in SUBSET Communities : [refund[r] EXCEPT !.pc = "commit", !.clear = c] \in RefundRequests
    BY <1>3 DEF RefundRead, IndInv, TypeOK, RefundTypeOK, RefundRequests
  <2>2. \E c \in SUBSET Communities :
        refund' = [refund EXCEPT ![r] = [refund[r] EXCEPT !.pc = "commit", !.clear = c]]
    <3> DEFINE c == IF /\ FullRefund(r) /\ refund[r].cancel # {}
                       /\ UnexpiredOf(CommunityOf[refund[r].pay]) \subseteq {refund[r].pay}
                    THEN {CommunityOf[refund[r].pay]} ELSE {}
    <3>1. CommunityOf[refund[r].pay] \in Communities
      BY <1>3, CommunityOfAssumption DEF RefundRead, IndInv, RefundInv
    <3>2. c \in SUBSET Communities
      BY <3>1
    <3>3. refund' = [refund EXCEPT ![r] = [refund[r] EXCEPT !.pc = "commit", !.clear = c]]
      BY <1>3 DEF RefundRead
    <3> HIDE DEF c
    <3> QED BY <3>2, <3>3
  <2>3. RefundTypeOK'
    BY <1>3, <2>1, <2>2 DEF RefundRead, IndInv, TypeOK, RefundTypeOK
  <2>4. RefundInv'
    BY <1>3, <2>1, <2>2, AmountAssumption DEF RefundRead, external, IndInv, TypeOK,
        RefundTypeOK, RefundRequests, RefundInv
  <2>5. (RowsTypeOK /\ StripeTypeOK /\ W!WebhookTypeOK /\ BatchTypeOK)'
    BY <1>3 DEF RefundRead, rows, external, IndInv, TypeOK, RowsTypeOK, StripeTypeOK,
        W!WebhookTypeOK, BatchTypeOK
  <2>6. (SettledOnlyIfPaid /\ LedgerWithinReturned /\ SessionInv /\ EmittedInv /\ IntentInv)'
    BY <1>3 DEF RefundRead, rows, external, IndInv, SettledOnlyIfPaid,
        LedgerWithinReturned, SessionInv, EmittedInv, IntentInv
  <2>7. (HookInv /\ ReconInv /\ SweepInv)'
    BY <1>3 DEF RefundRead, rows, external, IndInv, HookInv, ReconInv, SweepInv
  <2> QED BY <2>1, <2>2, <2>3, <2>4, <2>5, <2>6, <2>7 DEF IndInv, TypeOK
<1>4. CASE RefundCommit(r)
  <2>1. /\ refund[r].pay \in Payments
        /\ refund[r].base + refund[r].target \in 0..Amount
    BY <1>4, AmountAssumption DEF RefundCommit, IndInv, TypeOK, RefundTypeOK,
        RefundRequests, RefundInv
  <2>2. payment' \in [Payments -> [status : PaymentStatus, session : {"null", "set"},
                                   intent : {"null", "set"}, refunded : 0..Amount]]
    BY <1>4, <2>1 DEF RefundCommit, IndInv, TypeOK, RowsTypeOK, PaymentStatus
  <2>3. RowsTypeOK'
    BY <1>4, <2>2 DEF RefundCommit, IndInv, TypeOK, RowsTypeOK, SponsorshipStatus
  <2>4. (RefundTypeOK /\ RefundInv)'
    BY <1>4, AmountAssumption, NoneAssumption DEF RefundCommit, external, IndInv, TypeOK,
        RefundTypeOK, RefundRequests, RefundInv, IdleRefund
  <2>5. (StripeTypeOK /\ W!WebhookTypeOK /\ BatchTypeOK)'
    BY <1>4 DEF RefundCommit, external, IndInv, TypeOK, StripeTypeOK, W!WebhookTypeOK,
        BatchTypeOK
  <2>6. (SettledOnlyIfPaid /\ LedgerWithinReturned /\ SessionInv /\ EmittedInv /\ IntentInv)'
    BY <1>4, AmountAssumption DEF RefundCommit, external, FullRefund, IndInv, TypeOK,
        RowsTypeOK, StripeTypeOK, RefundTypeOK, RefundRequests, RefundInv,
        SettledOnlyIfPaid, LedgerWithinReturned, SessionInv, EmittedInv, IntentInv
  <2>7. (HookInv /\ ReconInv /\ SweepInv)'
    BY <1>4 DEF RefundCommit, external, IndInv, HookInv, ReconInv, SweepInv
  <2> QED BY <2>1, <2>2, <2>3, <2>4, <2>5, <2>6, <2>7 DEF IndInv, TypeOK
<1>5. CASE RefundLost(r)
  <2>1. (RefundTypeOK /\ RefundInv)'
    BY <1>5, MaxFaultsAssumption, AmountAssumption, NoneAssumption DEF RefundLost, Fault,
        rows, external, IndInv, TypeOK, RefundTypeOK, RefundRequests, RefundInv,
        IdleRefund
  <2>2. (RowsTypeOK /\ StripeTypeOK /\ W!WebhookTypeOK /\ BatchTypeOK)'
    BY <1>5, MaxFaultsAssumption DEF RefundLost, Fault, rows, external, IndInv, TypeOK,
        RowsTypeOK, StripeTypeOK, W!WebhookTypeOK, BatchTypeOK
  <2>3. (SettledOnlyIfPaid /\ LedgerWithinReturned /\ SessionInv /\ EmittedInv /\ IntentInv)'
    BY <1>5 DEF RefundLost, Fault, rows, external, IndInv, SettledOnlyIfPaid,
        LedgerWithinReturned, SessionInv, EmittedInv, IntentInv
  <2>4. (HookInv /\ ReconInv /\ SweepInv)'
    BY <1>5 DEF RefundLost, Fault, rows, external, IndInv, HookInv, ReconInv, SweepInv
  <2> QED BY <2>1, <2>2, <2>3, <2>4 DEF IndInv, TypeOK
<1> QED BY <1>1, <1>2, <1>3, <1>4, <1>5 DEF RefundStep

\* The steps of a reconciliation keep the invariant.
LEMMA ReconcileKeeps ==
  ASSUME IndInv, NEW r \in Reconcilers, ReconcileStep(r) PROVE IndInv'
<1>1. CASE ReconcileStart(r)
  <2>1. (BatchTypeOK /\ ReconInv)'
    BY <1>1, NoneAssumption, CommunityOfAssumption DEF ReconcileStart, rows, external,
        IndInv, TypeOK, StripeTypeOK, BatchTypeOK, ReconInv, IdleRecon
  <2>2. (RowsTypeOK /\ StripeTypeOK /\ W!WebhookTypeOK /\ RefundTypeOK)'
    BY <1>1 DEF ReconcileStart, rows, external, IndInv, TypeOK, RowsTypeOK, StripeTypeOK,
        W!WebhookTypeOK, RefundTypeOK
  <2>3. (SettledOnlyIfPaid /\ LedgerWithinReturned /\ SessionInv /\ EmittedInv /\ IntentInv)'
    BY <1>1 DEF ReconcileStart, rows, external, IndInv, SettledOnlyIfPaid,
        LedgerWithinReturned, SessionInv, EmittedInv, IntentInv
  <2>4. (HookInv /\ RefundInv /\ SweepInv)'
    BY <1>1 DEF ReconcileStart, rows, external, IndInv, HookInv, RefundInv, SweepInv
  <2> QED BY <2>1, <2>2, <2>3, <2>4 DEF IndInv, TypeOK
<1>2. CASE \E p \in Payments : ReconcileAsk(r, p)
  <2>1. (BatchTypeOK /\ ReconInv)'
    BY <1>2, NoneAssumption, CommunityOfAssumption DEF ReconcileAsk, rows, external,
        IndInv, TypeOK, StripeTypeOK, BatchTypeOK, ReconInv
  <2>2. (RowsTypeOK /\ StripeTypeOK /\ W!WebhookTypeOK /\ RefundTypeOK)'
    BY <1>2 DEF ReconcileAsk, rows, external, IndInv, TypeOK, RowsTypeOK, StripeTypeOK,
        W!WebhookTypeOK, RefundTypeOK
  <2>3. (SettledOnlyIfPaid /\ LedgerWithinReturned /\ SessionInv /\ EmittedInv /\ IntentInv)'
    BY <1>2 DEF ReconcileAsk, rows, external, IndInv, SettledOnlyIfPaid,
        LedgerWithinReturned, SessionInv, EmittedInv, IntentInv
  <2>4. (HookInv /\ RefundInv /\ SweepInv)'
    BY <1>2 DEF ReconcileAsk, rows, external, IndInv, HookInv, RefundInv, SweepInv
  <2> QED BY <2>1, <2>2, <2>3, <2>4 DEF IndInv, TypeOK
<1>3. CASE ReconcileWrite(r)
  <2>1. recon[r].pay \in Payments
    BY <1>3 DEF ReconcileWrite, IndInv, TypeOK, BatchTypeOK
  <2>2. RowsTypeOK'
    BY <1>3, <2>1 DEF ReconcileWrite, IndInv, TypeOK, RowsTypeOK, PaymentStatus
  <2>3. (BatchTypeOK /\ ReconInv)'
    BY <1>3, NoneAssumption DEF ReconcileWrite, external, IndInv, TypeOK, BatchTypeOK,
        ReconInv
  <2>4. (StripeTypeOK /\ W!WebhookTypeOK /\ RefundTypeOK)'
    BY <1>3 DEF ReconcileWrite, external, IndInv, TypeOK, StripeTypeOK, W!WebhookTypeOK,
        RefundTypeOK
  <2>5. (SettledOnlyIfPaid /\ LedgerWithinReturned /\ SessionInv /\ EmittedInv /\ IntentInv)'
    BY <1>3, <2>1 DEF ReconcileWrite, external, IndInv, TypeOK, RowsTypeOK, StripeTypeOK,
        ReconInv, SettledOnlyIfPaid, LedgerWithinReturned, SessionInv, EmittedInv,
        IntentInv
  <2>6. (HookInv /\ RefundInv /\ SweepInv)'
    BY <1>3 DEF ReconcileWrite, external, IndInv, HookInv, RefundInv, SweepInv
  <2> QED BY <2>1, <2>2, <2>3, <2>4, <2>5, <2>6 DEF IndInv, TypeOK
<1> QED BY <1>1, <1>2, <1>3 DEF ReconcileStep

\* The steps of a sweep keep the invariant.
LEMMA SweepKeeps ==
  ASSUME IndInv, NEW s \in Sweepers, SweepStep(s) PROVE IndInv'
<1>1. CASE SweepStart(s)
  <2>1. (BatchTypeOK /\ SweepInv)'
    <3>1. BatchTypeOK'
      BY <1>1 DEF SweepStart, IndInv, TypeOK, RowsTypeOK, BatchTypeOK, IdleSweep
    <3>2. SweepInv'
      <4>1. \A p \in Payments : sponsorship[p] = "ACTIVE" => stripe[p].session = "paid"
        BY DEF IndInv, SettledOnlyIfPaid
      <4>2. \A o \in Sweepers \ {s} : sweep'[o] = sweep[o]
        BY <1>1 DEF SweepStart, IndInv, TypeOK, BatchTypeOK
      <4>3. /\ sweep'[s].pay = None
            /\ sweep'[s].todo = {p \in lapsed : sponsorship[p] = "ACTIVE"}
        BY <1>1 DEF SweepStart, IndInv, TypeOK, BatchTypeOK, IdleSweep
      <4>4. lapsed \subseteq Payments /\ UNCHANGED stripe
        BY <1>1 DEF SweepStart, external, IndInv, TypeOK, RowsTypeOK
      <4> QED BY <4>1, <4>2, <4>3, <4>4 DEF SweepInv, IndInv
    <3> QED BY <3>1, <3>2
  <2>2. (RowsTypeOK /\ StripeTypeOK /\ W!WebhookTypeOK /\ RefundTypeOK)'
    BY <1>1 DEF SweepStart, rows, external, IndInv, TypeOK, RowsTypeOK, StripeTypeOK,
        W!WebhookTypeOK, RefundTypeOK
  <2>3. (SettledOnlyIfPaid /\ LedgerWithinReturned /\ SessionInv /\ EmittedInv /\ IntentInv)'
    BY <1>1 DEF SweepStart, rows, external, IndInv, SettledOnlyIfPaid,
        LedgerWithinReturned, SessionInv, EmittedInv, IntentInv
  <2>4. (HookInv /\ RefundInv /\ ReconInv)'
    BY <1>1 DEF SweepStart, rows, external, IndInv, HookInv, RefundInv, ReconInv
  <2> QED BY <2>1, <2>2, <2>3, <2>4 DEF IndInv, TypeOK
<1>2. CASE \E p \in Payments : SweepRead(s, p)
  <2>1. (BatchTypeOK /\ SweepInv)'
    BY <1>2, NoneAssumption, CommunityOfAssumption DEF SweepRead, rows, external, IndInv,
        TypeOK, StripeTypeOK, BatchTypeOK, SweepInv
  <2>2. (RowsTypeOK /\ StripeTypeOK /\ W!WebhookTypeOK /\ RefundTypeOK)'
    BY <1>2 DEF SweepRead, rows, external, IndInv, TypeOK, RowsTypeOK, StripeTypeOK,
        W!WebhookTypeOK, RefundTypeOK
  <2>3. (SettledOnlyIfPaid /\ LedgerWithinReturned /\ SessionInv /\ EmittedInv /\ IntentInv)'
    BY <1>2 DEF SweepRead, rows, external, IndInv, SettledOnlyIfPaid, LedgerWithinReturned,
        SessionInv, EmittedInv, IntentInv
  <2>4. (HookInv /\ RefundInv /\ ReconInv)'
    BY <1>2 DEF SweepRead, rows, external, IndInv, HookInv, RefundInv, ReconInv
  <2> QED BY <2>1, <2>2, <2>3, <2>4 DEF IndInv, TypeOK
<1>3. CASE SweepCommit(s)
  <2>1. sweep[s].pay \in Payments
    BY <1>3 DEF SweepCommit, IndInv, TypeOK, BatchTypeOK
  <2>2. RowsTypeOK'
    BY <1>3, <2>1 DEF SweepCommit, IndInv, TypeOK, RowsTypeOK, SponsorshipStatus
  <2>3. (BatchTypeOK /\ SweepInv)'
    <3>1. sweep' = [sweep EXCEPT ![s].pay = None, ![s].clear = {}] /\ recon' = recon
      BY <1>3 DEF SweepCommit
    <3>2. BatchTypeOK'
      BY <3>1 DEF IndInv, TypeOK, BatchTypeOK
    <3>3. SweepInv'
      <4>1. \A o \in Sweepers \ {s} : sweep'[o] = sweep[o]
        BY <3>1 DEF IndInv, TypeOK, BatchTypeOK
      <4>2. sweep'[s].pay = None /\ sweep'[s].todo = sweep[s].todo
        BY <3>1 DEF IndInv, TypeOK, BatchTypeOK
      <4>3. UNCHANGED stripe
        BY <1>3 DEF SweepCommit, external
      <4> QED BY <4>1, <4>2, <4>3 DEF SweepInv, IndInv
    <3> QED BY <3>2, <3>3
  <2>4. (StripeTypeOK /\ W!WebhookTypeOK /\ RefundTypeOK)'
    BY <1>3 DEF SweepCommit, external, IndInv, TypeOK, StripeTypeOK, W!WebhookTypeOK,
        RefundTypeOK
  <2>5. (SettledOnlyIfPaid /\ LedgerWithinReturned /\ SessionInv /\ EmittedInv /\ IntentInv)'
    BY <1>3, <2>1 DEF SweepCommit, external, IndInv, TypeOK, RowsTypeOK, StripeTypeOK,
        SweepInv, SettledOnlyIfPaid, LedgerWithinReturned, SessionInv, EmittedInv,
        IntentInv
  <2>6. (HookInv /\ RefundInv /\ ReconInv)'
    BY <1>3 DEF SweepCommit, external, IndInv, HookInv, RefundInv, ReconInv
  <2> QED BY <2>1, <2>2, <2>3, <2>4, <2>5, <2>6 DEF IndInv, TypeOK
<1> QED BY <1>1, <1>2, <1>3 DEF SweepStep

\* Every step, and every stuttering step, keeps the invariant.
LEMMA NextKeeps == IndInv /\ [Next]_vars => IndInv'
<1> SUFFICES ASSUME IndInv, [Next]_vars PROVE IndInv'
  OBVIOUS
<1>1. CASE Next
  BY <1>1, CheckoutKeeps, StripeKeeps, HookKeeps, RefundKeeps, ReconcileKeeps, SweepKeeps
  DEF Next
<1>2. CASE UNCHANGED vars
  <2>1. TypeOK'
    BY <1>2 DEF vars, rows, external, IndInv, TypeOK, RowsTypeOK, StripeTypeOK, W!WebhookTypeOK,
        RefundTypeOK, BatchTypeOK
  <2>2. (SettledOnlyIfPaid /\ LedgerWithinReturned /\ SessionInv /\ EmittedInv /\ IntentInv)'
    BY <1>2 DEF vars, rows, external, IndInv, SettledOnlyIfPaid, LedgerWithinReturned,
        SessionInv, EmittedInv, IntentInv
  <2>3. (HookInv /\ RefundInv /\ ReconInv /\ SweepInv)'
    BY <1>2 DEF vars, rows, external, IndInv, HookInv, RefundInv, ReconInv, SweepInv
  <2> QED BY <2>1, <2>2, <2>3 DEF IndInv
<1> QED BY <1>1, <1>2

LEMMA Invariance == Spec => []IndInv
<1>1. Init => IndInv
  BY InitIndInv
<1>2. IndInv /\ [Next]_vars => IndInv'
  BY NextKeeps
<1> QED BY <1>1, <1>2, PTL DEF Spec

-----------------------------------------------------------------------------
\* Type correctness of every row and of every request's local state.
THEOREM TypeCorrect == Spec => []TypeOK
  BY Invariance, PTL DEF IndInv

\* No interleaving of stale writers settles an unpaid payment or grants a
\* sponsorship for it, nor fails a payment whose session was paid.
THEOREM OnlyPaidIsSettled == Spec => []SettledOnlyIfPaid
  BY Invariance, PTL DEF IndInv

\* Whatever refunds and charge.refunded deliveries overlap, the ledger claims
\* no refund that Stripe has not made.
THEOREM LedgerSound == Spec => []LedgerWithinReturned
  BY Invariance, PTL DEF IndInv

-----------------------------------------------------------------------------
(* What is acknowledged is settled.  On top of IndInv: a settled payment   *)
(* stays settled, and a webhook request that is about to mark a completed  *)
(* session PROCESSED has seen, or written, the settled payment.            *)

SettledStatus == {"SUCCEEDED", "PARTIALLY_REFUNDED", "REFUNDED"}

MarkInv ==
  \A h \in Hooks :
    hook[h].pc = "mark" /\ hook[h].ev[1] = "completed" => payment[hook[h].ev[2]].status \in SettledStatus

AckInv == AcknowledgedIsSettled /\ MarkInv

\* A new status of a payment is a settled one, or the payment was not settled
\* before: CreatePayment comes before the session, and FAILED is written only
\* for a session that expired unpaid.
LEMMA SettledStays ==
  ASSUME IndInv, [Next]_vars, NEW p \in Payments, payment[p].status \in SettledStatus
  PROVE  payment'[p].status \in SettledStatus
<1>0. stripe[p].session = "paid"
  BY DEF IndInv, SettledOnlyIfPaid, SettledStatus
<1>1. ASSUME NEW q \in Payments, CheckoutStep(q) PROVE payment'[p].status \in SettledStatus
  <2>1. CASE CreatePayment(q)
    BY <1>0, <2>1 DEF CreatePayment, IndInv, TypeOK, RowsTypeOK, SessionInv, SettledStatus
  <2>2. CASE SaveSession(q)
    BY <2>2 DEF SaveSession, IndInv, TypeOK, RowsTypeOK, SettledStatus
  <2>3. CASE CheckConflict(q) \/ OpenSession(q) \/ CheckoutLost(q)
    BY <2>3 DEF CheckConflict, OpenSession, CheckoutLost, rows, SettledStatus
  <2> QED BY <1>1, <2>1, <2>2, <2>3 DEF CheckoutStep
<1>2. ASSUME NEW q \in Payments, StripeStep(q) PROVE payment'[p].status \in SettledStatus
  BY <1>2 DEF StripeStep, Pay, SessionExpires, Lapse, rows, SettledStatus
<1>3. ASSUME NEW h \in Hooks, HookStep(h) PROVE payment'[p].status \in SettledStatus
  <2>1. CASE Activate(h)
    BY <2>1 DEF Activate, IndInv, TypeOK, RowsTypeOK, SettledStatus
  <2>2. CASE RecordChargeRefund(h)
    BY <2>2 DEF RecordChargeRefund, IndInv, TypeOK, RowsTypeOK, SettledStatus
  <2>3. CASE WebhookStep(h) \/ WebhookFault(h) \/ Dispatch(h) \/ ActivateRollback(h)
    BY <2>3 DEF WebhookStep, WebhookFault, Dispatch, ActivateRollback, elsewhere, rows,
        SettledStatus
  <2> QED BY <1>3, <2>1, <2>2, <2>3 DEF HookStep
<1>4. ASSUME NEW r \in Refunders, RefundStep(r) PROVE payment'[p].status \in SettledStatus
  <2>1. CASE RefundCommit(r)
    BY <2>1 DEF RefundCommit, IndInv, TypeOK, RowsTypeOK, SettledStatus
  <2>2. CASE \/ \E q \in Payments, a \in 1..Amount : RequestRefund(r, q, a)
             \/ RefundAtStripe(r) \/ RefundRead(r) \/ RefundLost(r)
    BY <2>2 DEF RequestRefund, RefundAtStripe, RefundRead, RefundLost, rows, SettledStatus
  <2> QED BY <1>4, <2>1, <2>2 DEF RefundStep
<1>5. ASSUME NEW r \in Reconcilers, ReconcileStep(r) PROVE payment'[p].status \in SettledStatus
  <2>1. CASE ReconcileWrite(r)
    <3>1. recon[r].pay = p => recon[r].verdict = "paid"
      BY <1>0, <2>1 DEF ReconcileWrite, IndInv, ReconInv
    <3> QED BY <2>1, <3>1 DEF ReconcileWrite, IndInv, TypeOK, RowsTypeOK, SettledStatus
  <2>2. CASE ReconcileStart(r) \/ \E q \in Payments : ReconcileAsk(r, q)
    BY <2>2 DEF ReconcileStart, ReconcileAsk, rows, SettledStatus
  <2> QED BY <1>5, <2>1, <2>2 DEF ReconcileStep
<1>6. ASSUME NEW s \in Sweepers, SweepStep(s) PROVE payment'[p].status \in SettledStatus
  BY <1>6 DEF SweepStep, SweepStart, SweepRead, SweepCommit, rows, SettledStatus
<1>7. CASE UNCHANGED vars
  BY <1>7 DEF vars, rows, SettledStatus
<1> QED BY <1>1, <1>2, <1>3, <1>4, <1>5, <1>6, <1>7 DEF Next

\* Only a webhook request that stands at "mark" writes PROCESSED, and a
\* request comes to "mark" by a settled payment.
LEMMA HookAcknowledges ==
  ASSUME IndInv, AckInv, [Next]_vars, NEW h \in Hooks, HookStep(h) PROVE AckInv'
<1> USE DEF W!WebhookTypeOK
<1>0. ASSUME NEW p \in Payments, payment[p].status \in SettledStatus PROVE payment'[p].status \in SettledStatus
  BY <1>0, SettledStays
<1>1. ASSUME NEW g \in Hooks, hook[g].pc # "idle" PROVE hook[g].ev[2] \in Payments
  BY <1>1, EventParts DEF IndInv, TypeOK, HookInv
<1>2. ASSUME UNCHANGED record,
             \A g \in Hooks : hook'[g].pc = "mark" /\ hook'[g].ev[1] = "completed" =>
               \/ hook'[g] = hook[g]
               \/ hook'[g].ev[2] \in Payments /\ payment'[hook'[g].ev[2]].status \in SettledStatus
      PROVE  AckInv'
  <2>1. AcknowledgedIsSettled'
    BY <1>0, <1>2 DEF AckInv, AcknowledgedIsSettled, SettledStatus
  <2>2. ASSUME NEW g \in Hooks, hook'[g].pc = "mark", hook'[g].ev[1] = "completed"
        PROVE  payment'[hook'[g].ev[2]].status \in SettledStatus
    <3>1. CASE hook'[g] = hook[g]
      BY <1>0, <1>1, <2>2, <3>1 DEF AckInv, MarkInv
    <3> QED BY <1>2, <2>2, <3>1
  <2>3. MarkInv'
    BY <2>2 DEF MarkInv, SettledStatus
  <2> QED BY <2>1, <2>3 DEF AckInv
<1>3. CASE W!MarkProcessed(h)
  <2>1. \A g \in Hooks : hook'[g].pc = "mark" => hook'[g] = hook[g]
    BY <1>3 DEF W!MarkProcessed, W!Return, W!IdleHook, IndInv, TypeOK
  <2>2. MarkInv'
    BY <1>0, <1>1, <2>1 DEF AckInv, MarkInv, SettledStatus
  <2>3. ASSUME NEW p \in Payments, record'[Completed(p)] = "PROCESSED"
        PROVE  payment'[p].status \in SettledStatus
    <3>1. CASE hook[h].ev = Completed(p)
      BY <1>0, <1>3, <3>1 DEF W!MarkProcessed, Completed, AckInv, MarkInv
    <3>2. CASE hook[h].ev # Completed(p)
      <4>1. record[Completed(p)] = "PROCESSED"
        BY <1>3, <2>3, <3>2 DEF W!MarkProcessed, Events, IndInv, TypeOK
      <4> QED BY <1>0, <4>1 DEF AckInv, AcknowledgedIsSettled, SettledStatus
    <3> QED BY <3>1, <3>2
  <2>4. AcknowledgedIsSettled'
    BY <2>3 DEF AcknowledgedIsSettled, SettledStatus, Completed
  <2> QED BY <2>2, <2>4 DEF AckInv
<1>4. CASE W!CreateRecord(h) \/ W!MarkFailed(h)
  <2>1. \A g \in Hooks : hook'[g].pc = "mark" => hook'[g] = hook[g]
    BY <1>4 DEF W!CreateRecord, W!MarkFailed, W!Goto, W!Return, W!IdleHook, IndInv, TypeOK
  <2>2. MarkInv'
    BY <1>0, <1>1, <2>1 DEF AckInv, MarkInv, SettledStatus
  <2>3. hook[h].ev \in Events
    BY <1>4 DEF W!CreateRecord, W!MarkFailed, IndInv, TypeOK, HookInv
  <2>4. \A e \in Events : record'[e] = "PROCESSED" => record[e] = "PROCESSED"
    BY <1>4, <2>3 DEF W!CreateRecord, W!MarkFailed, IndInv, TypeOK
  <2>5. AcknowledgedIsSettled'
    BY <1>0, <2>4 DEF AckInv, AcknowledgedIsSettled, SettledStatus, Completed, Events
  <2> QED BY <2>2, <2>5 DEF AckInv
<1>5. CASE (\E e \in Events : W!Deliver(h, e)) \/ W!CallFails(h) \/ W!Lost(h)
  <2>1. UNCHANGED record /\ \A g \in Hooks : hook'[g].pc = "mark" => hook'[g] = hook[g]
    BY <1>5 DEF W!Deliver, W!CallFails, W!Lost, W!Goto, W!Return, W!IdleHook, IndInv, TypeOK
  <2> QED BY <1>2, <2>1
<1>6. CASE Dispatch(h)
  <2>1. UNCHANGED <<record, payment>>
    BY <1>6 DEF Dispatch, rows
  <2>2. \A g \in Hooks : g # h => hook'[g] = hook[g]
    BY <1>6 DEF Dispatch, IndInv, TypeOK
  <2>3. /\ hook'[h].ev = hook[h].ev
        /\ hook'[h].pc = "mark" => AlreadyHandled(hook[h].ev)
    BY <1>6 DEF Dispatch, IndInv, TypeOK
  <2>4. hook[h].ev[2] \in Payments
    BY <1>1, <1>6 DEF Dispatch
  <2>5. hook'[h].pc = "mark" /\ hook'[h].ev[1] = "completed" => payment'[hook'[h].ev[2]].status \in SettledStatus
    BY <2>1, <2>3 DEF AlreadyHandled, SettledStatus
  <2> QED BY <1>2, <2>1, <2>2, <2>3, <2>4, <2>5
<1>7. CASE ActivateRollback(h)
  <2>1. UNCHANGED record /\ \A g \in Hooks : hook'[g].pc = "mark" => hook'[g] = hook[g]
    BY <1>7 DEF ActivateRollback, rows, IndInv, TypeOK
  <2> QED BY <1>2, <2>1
<1>8. CASE Activate(h) \/ RecordChargeRefund(h)
  <2>1. UNCHANGED record
    BY <1>8 DEF Activate, RecordChargeRefund
  <2>2. hook[h].ev[2] \in Payments
    BY <1>1, <1>8 DEF Activate, RecordChargeRefund
  <2>3. \A g \in Hooks : g # h => hook'[g] = hook[g]
    BY <1>8 DEF Activate, RecordChargeRefund, IndInv, TypeOK
  <2>4. hook'[h].ev = hook[h].ev
    BY <1>8 DEF Activate, RecordChargeRefund, IndInv, TypeOK
  <2>5. payment'[hook[h].ev[2]].status \in SettledStatus
    <3> DEFINE p == hook[h].ev[2]
    <3>1. /\ payment \in [Payments -> [status : PaymentStatus, session : {"null", "set"},
                                       intent : {"null", "set"}, refunded : 0..Amount]]
          /\ \/ payment' = [payment EXCEPT ![p].status = "SUCCEEDED", ![p].intent = "set"]
             \/ payment' = [payment EXCEPT ![p].status = "REFUNDED", ![p].refunded = hook[h].ev[3]]
      BY <1>8 DEF Activate, RecordChargeRefund, IndInv, TypeOK, RowsTypeOK
    <3>2. p \in Payments
      BY <2>2
    <3>3. payment'[p].status \in {"SUCCEEDED", "REFUNDED"}
      <4> HIDE DEF p
      <4> QED BY <3>1, <3>2
    <3> QED BY <3>3 DEF SettledStatus
  <2> QED BY <1>2, <2>1, <2>2, <2>3, <2>4, <2>5
<1> QED BY <1>3, <1>4, <1>5, <1>6, <1>7, <1>8
        DEF HookStep, WebhookStep, WebhookFault, W!ProtocolStep

\* Nobody else touches the webhook's records and requests.
LEMMA AckKeeps == IndInv /\ AckInv /\ [Next]_vars => AckInv'
<1> SUFFICES ASSUME IndInv, AckInv, [Next]_vars PROVE AckInv'
  OBVIOUS
<1>1. CASE \E h \in Hooks : HookStep(h)
  BY <1>1, HookAcknowledges
<1>2. CASE UNCHANGED <<record, hook>>
  <2>1. ASSUME NEW p \in Payments, payment[p].status \in SettledStatus PROVE payment'[p].status \in SettledStatus
    BY <2>1, SettledStays
  <2>2. \A h \in Hooks : hook[h].pc = "mark" => hook[h].ev[2] \in Payments
    BY EventParts DEF IndInv, TypeOK, W!WebhookTypeOK, HookInv
  <2> QED BY <1>2, <2>1, <2>2 DEF AckInv, AcknowledgedIsSettled, MarkInv, SettledStatus
<1>3. ASSUME NEW p \in Payments, CheckoutStep(p) \/ StripeStep(p) PROVE UNCHANGED <<record, hook>>
  BY <1>3 DEF CheckoutStep, StripeStep, CheckConflict, CreatePayment, OpenSession, SaveSession,
      CheckoutLost, Pay, SessionExpires, Lapse, rows
<1>4. ASSUME NEW r \in Refunders, RefundStep(r) PROVE UNCHANGED <<record, hook>>
  BY <1>4 DEF RefundStep, RequestRefund, RefundAtStripe, RefundRead, RefundCommit, RefundLost, rows
<1>5. ASSUME NEW r \in Reconcilers, ReconcileStep(r) PROVE UNCHANGED <<record, hook>>
  BY <1>5 DEF ReconcileStep, ReconcileStart, ReconcileAsk, ReconcileWrite, rows
<1>6. ASSUME NEW s \in Sweepers, SweepStep(s) PROVE UNCHANGED <<record, hook>>
  BY <1>6 DEF SweepStep, SweepStart, SweepRead, SweepCommit, rows
<1>7. CASE UNCHANGED vars
  BY <1>2, <1>7 DEF vars, rows
<1> QED BY <1>1, <1>2, <1>3, <1>4, <1>5, <1>6, <1>7 DEF Next

\* Whatever deliveries, refunds and reconciliations overlap, an event is
\* acknowledged to Stripe only with its payment settled, and stays so.
THEOREM AcknowledgedSettled == Spec => []AcknowledgedIsSettled
<1>1. Init => AckInv
  BY DEF Init, AckInv, AcknowledgedIsSettled, MarkInv, W!WebhookInit, W!IdleHook, Events
<1>2. IndInv /\ AckInv /\ [Next]_vars => AckInv'
  BY AckKeeps
<1>3. AckInv => AcknowledgedIsSettled
  BY DEF AckInv
<1> QED BY <1>1, <1>2, <1>3, Invariance, PTL DEF Spec

-----------------------------------------------------------------------------
(* A sponsorship is revived by nobody: an activation finds its row there.  *)
(* It expires only after its end, which a sweep saw when it listed it.     *)

LapsedInv ==
  \A s \in Sweepers : \A p \in sweep[s].todo \cup {sweep[s].pay} : p # None => p \in lapsed

\* What has lapsed stays lapsed, and a sweep lists only that.
LEMMA LapsedKeeps == IndInv /\ LapsedInv /\ [Next]_vars => LapsedInv'
<1> SUFFICES ASSUME IndInv, LapsedInv, [Next]_vars PROVE LapsedInv'
  OBVIOUS
<1>1. CASE lapsed \subseteq lapsed' /\ UNCHANGED sweep
  BY <1>1 DEF LapsedInv
<1>2. ASSUME NEW s \in Sweepers, SweepStep(s) PROVE LapsedInv'
  BY <1>2 DEF SweepStep, SweepStart, SweepRead, SweepCommit, rows, IdleSweep, LapsedInv,
      IndInv, TypeOK, BatchTypeOK
<1>3. ASSUME NEW p \in Payments, CheckoutStep(p) \/ StripeStep(p)
      PROVE  lapsed \subseteq lapsed' /\ UNCHANGED sweep
  BY <1>3 DEF CheckoutStep, StripeStep, CheckConflict, CreatePayment, OpenSession, SaveSession,
      CheckoutLost, Pay, SessionExpires, Lapse, rows
<1>4. ASSUME NEW h \in Hooks, HookStep(h) PROVE UNCHANGED <<lapsed, sweep>>
  BY <1>4 DEF HookStep, WebhookStep, WebhookFault, elsewhere, Dispatch, Activate,
      ActivateRollback, RecordChargeRefund, rows
<1>5. ASSUME NEW r \in Refunders, RefundStep(r) PROVE UNCHANGED <<lapsed, sweep>>
  BY <1>5 DEF RefundStep, RequestRefund, RefundAtStripe, RefundRead, RefundCommit, RefundLost, rows
<1>6. ASSUME NEW r \in Reconcilers, ReconcileStep(r) PROVE UNCHANGED <<lapsed, sweep>>
  BY <1>6 DEF ReconcileStep, ReconcileStart, ReconcileAsk, ReconcileWrite, rows
<1>7. CASE UNCHANGED vars
  BY <1>1, <1>7 DEF vars, rows
<1> QED BY <1>1, <1>2, <1>3, <1>4, <1>5, <1>6, <1>7 DEF Next

\* Three handlers write a sponsorship: the activation only where there is
\* none, the refund CANCELLED, and the sweep EXPIRED for what has lapsed.
LEMMA RevivesNone ==
  ASSUME IndInv, LapsedInv, [Next]_vars, NEW p \in Payments
  PROVE  /\ sponsorship[p] \in {"EXPIRED", "CANCELLED"} => sponsorship'[p] # "ACTIVE"
         /\ sponsorship[p] = "ACTIVE" /\ sponsorship'[p] = "EXPIRED" => p \in lapsed
<1>1. CASE UNCHANGED sponsorship
  BY <1>1
<1>2. ASSUME NEW q \in Payments, CheckoutStep(q) \/ StripeStep(q) PROVE UNCHANGED sponsorship
  BY <1>2 DEF CheckoutStep, StripeStep, CheckConflict, CreatePayment, OpenSession, SaveSession,
      CheckoutLost, Pay, SessionExpires, Lapse, rows
<1>3. ASSUME NEW h \in Hooks, HookStep(h)
      PROVE  \/ UNCHANGED sponsorship
             \/ \E q \in Payments : /\ sponsorship[q] = "none"
                                    /\ sponsorship' = [sponsorship EXCEPT ![q] = "ACTIVE"]
  <2>1. CASE Activate(h)
    <3>1. hook[h].ev[2] \in Payments
      BY <2>1, EventParts DEF Activate, IndInv, TypeOK, W!WebhookTypeOK, HookInv
    <3> QED BY <2>1, <3>1 DEF Activate
  <2> QED BY <1>3, <2>1 DEF HookStep, WebhookStep, WebhookFault, elsewhere, Dispatch,
          ActivateRollback, RecordChargeRefund, rows
<1>4. ASSUME NEW r \in Refunders, RefundStep(r)
      PROVE  sponsorship'[p] \in {sponsorship[p], "CANCELLED"}
  BY <1>4 DEF RefundStep, RequestRefund, RefundAtStripe, RefundRead, RefundCommit, RefundLost, rows
<1>5. ASSUME NEW r \in Reconcilers, ReconcileStep(r) PROVE UNCHANGED sponsorship
  BY <1>5 DEF ReconcileStep, ReconcileStart, ReconcileAsk, ReconcileWrite, rows
<1>6. ASSUME NEW s \in Sweepers, SweepStep(s)
      PROVE  \/ UNCHANGED sponsorship
             \/ \E q \in lapsed : sponsorship' = [sponsorship EXCEPT ![q] = "EXPIRED"]
  BY <1>6 DEF SweepStep, SweepStart, SweepRead, SweepCommit, rows, LapsedInv
<1>7. CASE UNCHANGED vars
  BY <1>1, <1>7 DEF vars, rows
<1>8. sponsorship \in [Payments -> SponsorshipStatus] /\ lapsed \subseteq Payments
  BY DEF IndInv, TypeOK, RowsTypeOK
<1> QED BY <1>1, <1>2, <1>3, <1>4, <1>5, <1>6, <1>7, <1>8 DEF Next

\* Redelivered activations, refunds and sweeps may overlap in any way: an
\* ended sponsorship stays ended, and none expires early.
THEOREM SponsorshipsStayEnded == Spec => NeverRevived
<1>1. Init => LapsedInv
  BY DEF Init, LapsedInv, IdleSweep
<1>2. IndInv /\ LapsedInv /\ [Next]_vars => LapsedInv'
  BY LapsedKeeps
<1>3. IndInv /\ LapsedInv /\ [Next]_vars =>
        [\A p \in Payments :
           /\ sponsorship[p] \in {"EXPIRED", "CANCELLED"} => sponsorship'[p] # "ACTIVE"
           /\ sponsorship[p] = "ACTIVE" /\ sponsorship'[p] = "EXPIRED" => p \in lapsed]_vars
  BY RevivesNone
<1> QED BY <1>1, <1>2, <1>3, Invariance, PTL DEF Spec, NeverRevived

-----------------------------------------------------------------------------
(* A refund is final but for the reconciliation.  SUCCEEDED is otherwise   *)
(* written with the sponsorship alone, so whatever is refunded, or is      *)
(* being refunded, has a sponsorship that keeps every later activation     *)
(* out, or was written by a reconciliation, which grants none.             *)

GrantedInv ==
  \A p \in Payments : sponsorship[p] = "none" /\ p \notin Reconciled =>
    /\ payment[p].status \in {"absent", "PENDING", "FAILED"}
    /\ \A r \in Refunders : refund[r].pc # "idle" => refund[r].pay # p
    /\ \A e \in emitted : e[1] = "refunded" => e[2] # p

\* Only a reconciliation changes which payments reconciliations have written.
LEMMA ReconciledSame == ASSUME recon' = recon PROVE Reconciled' = Reconciled
  BY DEF Reconciled

\* A reconciliation keeps the invariant: what it writes as paid it has written.
LEMMA ReconcileGrants ==
  ASSUME IndInv, GrantedInv, NEW r \in Reconcilers, ReconcileStep(r)
  PROVE  /\ GrantedInv'
         /\ \A p \in Payments : payment'[p].status = "SUCCEEDED" =>
              payment[p].status = "SUCCEEDED" \/ p \in Reconciled'
<1>0. /\ recon \in [Reconcilers -> [todo : SUBSET Payments, pay : Payments \cup {None},
                                    verdict : {None, "paid", "expired"},
                                    wrote : SUBSET Payments]]
      /\ payment \in [Payments -> [status : PaymentStatus, session : {"null", "set"},
                                   intent : {"null", "set"}, refunded : 0..Amount]]
  BY DEF IndInv, TypeOK, RowsTypeOK, BatchTypeOK
<1>1. UNCHANGED <<sponsorship, refund, emitted>>
  BY DEF ReconcileStep, ReconcileStart, ReconcileAsk, ReconcileWrite, rows, external
<1>2. CASE ReconcileWrite(r)
  <2> DEFINE p == recon[r].pay
  <2>1. /\ p \in Payments /\ recon[r].verdict \in {"paid", "expired"}
        /\ payment' = [payment EXCEPT
             ![p].status = IF recon[r].verdict = "paid" THEN "SUCCEEDED" ELSE "FAILED",
             ![p].intent = IF recon[r].verdict = "paid" THEN "set" ELSE @]
    BY <1>0, <1>2 DEF ReconcileWrite, IndInv, ReconInv
  <2>2. /\ \A q \in Reconcilers : recon[q].wrote \subseteq recon'[q].wrote
        /\ recon[r].verdict = "paid" => p \in recon'[r].wrote
    BY <1>0, <1>2 DEF ReconcileWrite
  <2>3. /\ Reconciled \subseteq Reconciled'
        /\ recon[r].verdict = "paid" => p \in Reconciled'
    BY <2>2 DEF Reconciled
  <2>4. /\ \A q \in Payments \ {p} : payment'[q] = payment[q]
        /\ payment'[p].status = IF recon[r].verdict = "paid" THEN "SUCCEEDED" ELSE "FAILED"
    <3>1. payment[p] \in [status : PaymentStatus, session : {"null", "set"},
                          intent : {"null", "set"}, refunded : 0..Amount]
      BY <1>0, <2>1
    <3>2. \A q \in Payments \ {p} : payment'[q] = payment[q]
      BY <1>0, <2>1
    <3>3. payment'[p] = [payment[p] EXCEPT
             !.status = IF recon[r].verdict = "paid" THEN "SUCCEEDED" ELSE "FAILED",
             !.intent = IF recon[r].verdict = "paid" THEN "set" ELSE @]
      BY <1>0, <2>1
    <3> QED BY <3>1, <3>2, <3>3
  <2>5. payment'[p].status = "SUCCEEDED" => p \in Reconciled'
    BY <2>1, <2>3, <2>4
  <2> QED BY <1>1, <2>3, <2>4, <2>5 DEF GrantedInv
<1>3. CASE ReconcileStart(r) \/ \E p \in Payments : ReconcileAsk(r, p)
  <2>1. UNCHANGED payment /\ \A q \in Reconcilers : recon'[q].wrote = recon[q].wrote
    <3>1. CASE ReconcileStart(r)
      BY <1>0, <3>1 DEF ReconcileStart, rows
    <3>2. ASSUME NEW p \in Payments, ReconcileAsk(r, p)
          PROVE  UNCHANGED payment /\ \A q \in Reconcilers : recon'[q].wrote = recon[q].wrote
      <4>1. \A q \in Reconcilers \ {r} : recon'[q] = recon[q]
        BY <1>0, <3>2 DEF ReconcileAsk
      <4>2. recon'[r].wrote = recon[r].wrote
        BY <1>0, <3>2 DEF ReconcileAsk
      <4>3. UNCHANGED payment
        BY <3>2 DEF ReconcileAsk, rows
      <4> QED BY <4>1, <4>2, <4>3
    <3> QED BY <1>3, <3>1, <3>2
  <2>2. Reconciled' = Reconciled
    BY <2>1 DEF Reconciled
  <2> QED BY <1>1, <2>1, <2>2 DEF GrantedInv
<1> QED BY <1>2, <1>3 DEF ReconcileStep

\* Every refund begins with a payment that SUCCEEDED, hence granted.
LEMMA GrantedKeeps ==
  ASSUME IndInv, GrantedInv, [Next]_vars PROVE GrantedInv'
<1>0. /\ sponsorship \in [Payments -> SponsorshipStatus]
      /\ payment \in [Payments -> [status : PaymentStatus, session : {"null", "set"},
                                   intent : {"null", "set"}, refunded : 0..Amount]]
      /\ refund \in [Refunders -> RefundRequests]
  BY DEF IndInv, TypeOK, RowsTypeOK, RefundTypeOK
<1>1. ASSUME NEW q \in Payments, CheckoutStep(q) PROVE GrantedInv'
  <2>1. UNCHANGED <<sponsorship, refund, emitted>> /\ Reconciled' = Reconciled
    BY <1>1, ReconciledSame DEF CheckoutStep, CheckConflict, CreatePayment, OpenSession,
        SaveSession, CheckoutLost, rows, external
  <2>2. \A p \in Payments : payment'[p].status \in {"PENDING", payment[p].status}
    BY <1>0, <1>1 DEF CheckoutStep, CheckConflict, CreatePayment, OpenSession, SaveSession,
        CheckoutLost, rows
  <2> QED BY <2>1, <2>2 DEF GrantedInv
<1>2. ASSUME NEW q \in Payments, StripeStep(q) PROVE GrantedInv'
  <2>1. /\ UNCHANGED <<sponsorship, payment, refund>>
        /\ emitted' \subseteq emitted \cup {Completed(q)} /\ Reconciled' = Reconciled
    BY <1>2, ReconciledSame DEF StripeStep, Pay, SessionExpires, Lapse, rows, external
  <2> QED BY <2>1 DEF GrantedInv, Completed
<1>3. ASSUME NEW h \in Hooks, HookStep(h) PROVE GrantedInv'
  <2>1. UNCHANGED <<refund, emitted>> /\ Reconciled' = Reconciled
    <3>1. CASE WebhookStep(h) \/ WebhookFault(h)
      BY <3>1, ProtocolKeeps, ReconciledSame DEF WebhookStep, WebhookFault, elsewhere, IndInv, TypeOK
    <3> QED BY <1>3, <3>1, ReconciledSame DEF HookStep, Dispatch, Activate, ActivateRollback,
            RecordChargeRefund, external
  <2>2. CASE Activate(h)
    <3>1. hook[h].ev[2] \in Payments
      BY <2>2, EventParts DEF Activate, IndInv, TypeOK, W!WebhookTypeOK, HookInv
    <3>2. \A p \in Payments : sponsorship'[p] = "none" =>
            sponsorship[p] = "none" /\ payment'[p] = payment[p]
      BY <1>0, <2>2, <3>1 DEF Activate
    <3> QED BY <2>1, <3>2 DEF GrantedInv
  <2>3. CASE RecordChargeRefund(h)
    <3>1. /\ sponsorship[hook[h].ev[2]] # "none" \/ hook[h].ev[2] \in Reconciled
          /\ hook[h].ev[2] \in Payments
      BY <2>3, EventParts DEF RecordChargeRefund, IndInv, TypeOK, W!WebhookTypeOK, HookInv,
          GrantedInv
    <3>2. \A p \in Payments : sponsorship'[p] = "none" /\ p \notin Reconciled =>
            sponsorship[p] = "none" /\ payment'[p] = payment[p]
      BY <1>0, <2>3, <3>1 DEF RecordChargeRefund
    <3> QED BY <2>1, <3>2 DEF GrantedInv
  <2>4. CASE UNCHANGED <<payment, sponsorship>>
    BY <2>1, <2>4 DEF GrantedInv
  <2> QED BY <1>3, <2>2, <2>3, <2>4 DEF HookStep, WebhookStep, WebhookFault, elsewhere, Dispatch,
          ActivateRollback, rows
<1>4. ASSUME NEW r \in Refunders, RefundStep(r) PROVE GrantedInv'
  <2>0. Reconciled' = Reconciled
    BY <1>4, ReconciledSame DEF RefundStep, RequestRefund, RefundAtStripe, RefundRead, RefundCommit,
       RefundLost
  <2>1. ASSUME NEW q \in Payments, NEW a \in 1..Amount, RequestRefund(r, q, a) PROVE GrantedInv'
    <3>1. sponsorship[q] # "none" \/ q \in Reconciled
      BY <2>1 DEF RequestRefund, GrantedInv
    <3> QED BY <1>0, <2>0, <2>1, <3>1 DEF RequestRefund, rows, external, GrantedInv, RefundRequests
  <2>2. CASE RefundAtStripe(r)
    <3>1. /\ refund[r].pc # "idle" /\ UNCHANGED <<sponsorship, payment>>
          /\ \A e \in emitted' : e \in emitted \/ e[2] = refund[r].pay
      BY <2>2 DEF RefundAtStripe, rows, external, ChargeRefunded
    <3>2. \A o \in Refunders : refund'[o].pc # "idle" =>
            refund'[o].pay = refund[o].pay /\ refund[o].pc # "idle"
      BY <1>0, <2>2 DEF RefundAtStripe, IdleRefund, RefundRequests
    <3> QED BY <2>0, <3>1, <3>2 DEF GrantedInv
  <2>3. CASE RefundRead(r)
    <3>1. \A o \in Refunders : refund'[o].pc # "idle" =>
            refund'[o].pay = refund[o].pay /\ refund[o].pc # "idle"
      BY <1>0, <2>3 DEF RefundRead, RefundRequests
    <3> QED BY <2>0, <2>3, <3>1 DEF RefundRead, rows, external, GrantedInv
  <2>4. CASE RefundLost(r)
    BY <1>0, <2>0, <2>4 DEF RefundLost, rows, external, IdleRefund, GrantedInv, RefundRequests
  <2>5. CASE RefundCommit(r)
    <3>1. /\ refund[r].pay \in Payments
          /\ sponsorship[refund[r].pay] # "none" \/ refund[r].pay \in Reconciled
          /\ refund[r].cancel \subseteq {refund[r].pay}
      BY <2>5 DEF RefundCommit, IndInv, RefundInv, GrantedInv
    <3>2. \A p \in Payments : sponsorship'[p] = "none" /\ p \notin Reconciled =>
            sponsorship[p] = "none" /\ payment'[p] = payment[p]
      BY <1>0, <2>5, <3>1 DEF RefundCommit
    <3>3. \A o \in Refunders : refund'[o].pc # "idle" =>
            refund'[o].pay = refund[o].pay /\ refund[o].pc # "idle"
      BY <1>0, <2>5 DEF RefundCommit, IdleRefund
    <3>4. UNCHANGED emitted
      BY <2>5 DEF RefundCommit, external
    <3> QED BY <2>0, <3>2, <3>3, <3>4 DEF GrantedInv
  <2> QED BY <1>4, <2>1, <2>2, <2>3, <2>4, <2>5 DEF RefundStep
<1>5. ASSUME NEW s \in Sweepers, SweepStep(s) PROVE GrantedInv'
  <2>1. UNCHANGED <<payment, refund, emitted>> /\ Reconciled' = Reconciled
    BY <1>5, ReconciledSame DEF SweepStep, SweepStart, SweepRead, SweepCommit, rows, external
  <2>2. \A p \in Payments : sponsorship'[p] = "none" => sponsorship[p] = "none"
    BY <1>0, <1>5 DEF SweepStep, SweepStart, SweepRead, SweepCommit, rows
  <2> QED BY <2>1, <2>2 DEF GrantedInv
<1>6. ASSUME NEW r \in Reconcilers, ReconcileStep(r) PROVE GrantedInv'
  BY <1>6, ReconcileGrants
<1>7. CASE UNCHANGED vars
  BY <1>7, ReconciledSame DEF vars, rows, external, GrantedInv
<1> QED BY <1>1, <1>2, <1>3, <1>4, <1>5, <1>6, <1>7 DEF Next

\* SUCCEEDED is written by an activation, where nothing was granted, and by a
\* reconciliation.
LEMMA RefundedStays ==
  ASSUME IndInv, GrantedInv, [Next]_vars, NEW p \in Payments,
         payment[p].status = "REFUNDED", payment'[p].status = "SUCCEEDED"
  PROVE  p \in Reconciled'
<1>0. payment \in [Payments -> [status : PaymentStatus, session : {"null", "set"},
                                intent : {"null", "set"}, refunded : 0..Amount]]
  BY DEF IndInv, TypeOK, RowsTypeOK
<1>1. sponsorship[p] # "none" \/ p \in Reconciled
  BY DEF GrantedInv
<1>2. ASSUME NEW q \in Payments, CheckoutStep(q) \/ StripeStep(q) PROVE FALSE
  BY <1>0, <1>2 DEF CheckoutStep, StripeStep, CheckConflict, CreatePayment, OpenSession,
      SaveSession, CheckoutLost, Pay, SessionExpires, Lapse, rows
<1>3. ASSUME NEW h \in Hooks, HookStep(h) PROVE p \in Reconciled'
  <2>1. CASE Activate(h)
    <3>1. sponsorship[p] = "none" /\ UNCHANGED recon
      BY <1>0, <2>1 DEF Activate
    <3> QED BY <1>1, <3>1, ReconciledSame
  <2>2. CASE RecordChargeRefund(h)
    BY <1>0, <2>2 DEF RecordChargeRefund
  <2> QED BY <1>3, <2>1, <2>2 DEF HookStep, WebhookStep, WebhookFault, elsewhere, Dispatch,
          ActivateRollback, rows
<1>4. ASSUME NEW r \in Refunders, RefundStep(r) PROVE FALSE
  BY <1>0, <1>4 DEF RefundStep, RequestRefund, RefundAtStripe, RefundRead, RefundCommit,
      RefundLost, rows
<1>5. ASSUME NEW s \in Sweepers, SweepStep(s) PROVE FALSE
  BY <1>5 DEF SweepStep, SweepStart, SweepRead, SweepCommit, rows
<1>6. ASSUME NEW r \in Reconcilers, ReconcileStep(r) PROVE p \in Reconciled'
  BY <1>6, ReconcileGrants
<1>7. CASE UNCHANGED vars
  BY <1>7 DEF vars, rows
<1> QED BY <1>2, <1>3, <1>4, <1>5, <1>6, <1>7 DEF Next

\* Whatever deliveries, refunds, sweeps and reconciliations overlap, a refunded
\* payment is SUCCEEDED again only if a reconciliation has written it as paid.
THEOREM RefundsAreFinal == Spec => RefundIsFinal
<1>1. Init => GrantedInv
  BY DEF Init, GrantedInv, W!WebhookInit, IdleRefund
<1>2. IndInv /\ GrantedInv /\ [Next]_vars => GrantedInv'
  BY GrantedKeeps
<1>3. IndInv /\ GrantedInv /\ [Next]_vars =>
        [\A p \in Payments :
           payment[p].status = "REFUNDED" /\ payment'[p].status = "SUCCEEDED"
             => p \in Reconciled']_vars
  BY RefundedStays
<1> QED BY <1>1, <1>2, <1>3, Invariance, PTL DEF Spec, RefundIsFinal
=============================================================================
