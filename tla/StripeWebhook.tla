--------------------------- MODULE StripeWebhook ---------------------------
(***************************************************************************)
(* handleWebhook: what happens around the dispatch of a Stripe event.      *)
(*                                                                         *)
(* Stripe delivers an event until it is answered with success and may      *)
(* deliver it twice; several requests may run for one event.  A request is *)
(* a record of its program counter and its event.  The modules that handle *)
(* the events own the steps between "dispatch" and "mark" or "fail".       *)
(***************************************************************************)
CONSTANTS Events, Hooks, None

VARIABLES emitted,   \* Stripe: the events it delivers, and delivers again
          record,    \* stripe_webhook_events: processingStatus of each event
          hook       \* the webhook requests

IdleHook == [pc |-> "idle", ev |-> None]
ProcessingStatus == {"none", "PENDING", "PROCESSED", "FAILED"}

WebhookTypeOK ==
  /\ emitted \subseteq Events
  /\ record \in [Events -> ProcessingStatus]
  /\ hook \in [Hooks -> [pc : {"idle", "create", "dispatch", "commit", "mark", "fail"},
                        ev : Events \cup {None}]]

WebhookInit ==
  /\ emitted = {}
  /\ record = [e \in Events |-> "none"]
  /\ hook = [h \in Hooks |-> IdleHook]

Goto(h, label) == hook' = [hook EXCEPT ![h].pc = label]
Return(h) == hook' = [hook EXCEPT ![h] = IdleHook]

\* Mutant of Deliver: an event with a record is not handled again.
DeliverOnce(h, e) ==
  /\ hook[h].pc = "idle" /\ e \in emitted /\ record[e] = "none"
  /\ hook' = [hook EXCEPT ![h] = [pc |-> "create", ev |-> e]]
  /\ UNCHANGED <<emitted, record>>

\* A delivery of an event that is already PROCESSED answers at once.
Deliver(h, e) ==
  /\ hook[h].pc = "idle"
  /\ e \in emitted
  /\ record[e] # "PROCESSED"
  /\ hook' = [hook EXCEPT ![h] =
                [pc |-> IF record[e] = "none" THEN "create" ELSE "dispatch", ev |-> e]]
  /\ UNCHANGED <<emitted, record>>

\* Mutant of CreateRecord: the record is PROCESSED from the start.
CreateRecordProcessed(h) ==
  /\ hook[h].pc = "create" /\ record[hook[h].ev] = "none"
  /\ record' = [record EXCEPT ![hook[h].ev] = "PROCESSED"]
  /\ Goto(h, "dispatch")
  /\ UNCHANGED emitted

\* (provider, providerEventId) is unique: the second of two creates fails,
\* outside the try, and the request ends without a FAILED mark.
CreateRecord(h) ==
  LET e == hook[h].ev IN
  /\ hook[h].pc = "create"
  /\ \/ /\ record[e] = "none"
        /\ record' = [record EXCEPT ![e] = "PENDING"]
        /\ Goto(h, "dispatch")
     \/ /\ record[e] # "none"
        /\ Return(h)
        /\ UNCHANGED record
  /\ UNCHANGED emitted

MarkProcessed(h) ==
  /\ hook[h].pc = "mark"
  /\ record' = [record EXCEPT ![hook[h].ev] = "PROCESSED"]
  /\ Return(h)
  /\ UNCHANGED emitted

\* The catch block; Stripe receives the error and delivers the event again.
MarkFailed(h) ==
  /\ hook[h].pc = "fail"
  /\ record' = [record EXCEPT ![hook[h].ev] = "FAILED"]
  /\ Return(h)
  /\ UNCHANGED emitted

\* A database call inside the try fails.
CallFails(h) ==
  /\ hook[h].pc \in {"dispatch", "commit", "mark"}
  /\ Goto(h, "fail")
  /\ UNCHANGED <<emitted, record>>

\* The process is lost, or the call that marks the failure fails too.
Lost(h) ==
  /\ hook[h].pc # "idle"
  /\ Return(h)
  /\ UNCHANGED <<emitted, record>>

ProtocolStep(h) == \/ \E e \in Events : Deliver(h, e)
                   \/ CreateRecord(h) \/ MarkProcessed(h) \/ MarkFailed(h)
=============================================================================
