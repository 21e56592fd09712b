------------------------ MODULE SubscriptionsProofs ------------------------
(***************************************************************************)
(* Theorems of Subscriptions: a row that says CANCELLED is cancelled at    *)
(* Stripe, and a row whose events came in order and are handled shows what *)
(* Stripe has, for any number of subscriptions, webhook requests,          *)
(* cancellations, faults and events.                                       *)
(***************************************************************************)
EXTENDS Subscriptions, SequenceTheorems, TLAPS

-----------------------------------------------------------------------------
(* The inductive invariant *)

Kinds == {"completed", "paid", "failed", "updated", "deleted"}
YesNo == {"no", "yes"}
Entry == [kind : Kinds, status : StripeStatus, atEnd : YesNo]

TypeInv ==
  /\ local \in [Subs -> [status : {"none"} \cup Status, atEnd : YesNo]]
  /\ stripe \in [Subs -> [status : {"none", "open"} \cup StripeStatus, atEnd : YesNo]]
  /\ log \in [Subs -> Seq(Entry)]
  /\ \A s \in Subs : Len(log[s]) <= MaxEvents
  /\ W!WebhookTypeOK
  /\ checkout \in [Subs -> {"idle", "checked", "done"}]

\* A request runs for the event.
Busy(h, e) == hook[h].pc # "idle" /\ hook[h].ev = e

\* A webhook request and a record are about an event that Stripe emitted.
RequestInv ==
  /\ \A e \in emitted : e[2] <= Len(log[e[1]])
  /\ \A h \in Hooks : hook[h].pc # "idle" => hook[h].ev \in emitted
  /\ \A e \in Events : record[e] # "none" => e \in emitted

\* What the n-th event of s says, and what Stripe cannot have taken back since.
EntryOK(s, n) ==
  /\ log[s][n].kind \in {"completed", "paid"} =>
       log[s][n].status = "ACTIVE" /\ log[s][n].atEnd = "no"
  /\ log[s][n].kind = "failed" => log[s][n].status = "PAST_DUE" /\ log[s][n].atEnd = "no"
  /\ log[s][n].kind = "deleted" => log[s][n].status = "CANCELLED"
  /\ log[s][n].status = "CANCELLED" => stripe[s].status = "CANCELLED"
  /\ log[s][n].atEnd = "yes" => stripe[s].atEnd = "yes"
  /\ log[s][n].kind = "completed" => n <= 2

\* A subscription's log starts with its session and ends with Stripe's state.
SessionOK(s) ==
  /\ checkout[s] # "done" => stripe[s].status = "none"
  /\ stripe[s].status \notin StripeStatus => log[s] = <<>> /\ stripe[s].atEnd = "no"
  /\ stripe[s].status \in StripeStatus =>
       /\ Len(log[s]) >= 2
       /\ {log[s][1].kind, log[s][2].kind} = {"completed", "paid"}
       /\ log[s][Len(log[s])].status = stripe[s].status
       /\ log[s][Len(log[s])].atEnd = stripe[s].atEnd
       /\ Len(log[s]) > 2 => log[s][Len(log[s])].kind # "paid"

StripeInv == \A s \in Subs : SessionOK(s) /\ \A n \in 1..Len(log[s]) : EntryOK(s, n)

\* The row never says more than Stripe has, and neither does a cancellation
\* that is about to write it.
LocalInv ==
  \A s \in Subs : /\ local[s].status # "none" => stripe[s].status \in StripeStatus
                  /\ local[s].status = "CANCELLED" => stripe[s].status = "CANCELLED"
                  /\ local[s].atEnd = "yes" => stripe[s].atEnd = "yes"
                  /\ Len(log[s]) <= 2 => local[s].status \in {"none", "ACTIVE"}

Cancellation == [pc : {"idle", "stripe", "write"}, sub : Subs \cup {None}, at : {"now", "end"}]
CancelOK(c) ==
  /\ cancel[c].pc # "idle" => cancel[c].sub \in Subs
  /\ cancel[c].pc = "write" =>
       IF cancel[c].at = "now" THEN stripe[cancel[c].sub].status = "CANCELLED"
       ELSE stripe[cancel[c].sub].atEnd = "yes"
CancelInv == /\ cancel \in [Cancellers -> Cancellation]
             /\ \A c \in Cancellers : CancelOK(c)

\* The handling of the event is over, or can do no more than roll back.
Past(s, n) ==
  \/ record[<<s, n>>] = "PROCESSED" /\ \A h \in Hooks : ~Busy(h, <<s, n>>)
  \/ log[s][n].kind = "completed" /\ local[s].status # "none"

Started(e) == record[e] # "none" \/ \E h \in Hooks : Busy(h, e)

\* In order, an event that was started leaves no earlier one open.
OrderInv ==
  inOrder => \A s \in Subs : \A n \in 1..Len(log[s]) :
               Started(<<s, n>>) => \A m \in 1..(n - 1) : Past(s, m)

\* The handler of the event has committed.
Applied(e) == \/ record[e] = "PROCESSED"
              \/ \E h \in Hooks : hook[h].pc = "mark" /\ hook[h].ev = e

\* The session's handler leaves a row.
ActiveInv ==
  \A s \in Subs : \A n \in 1..Len(log[s]) :
    log[s][n].kind = "completed" /\ Applied(<<s, n>>) => local[s].status # "none"

Shows(s) == /\ local[s].status = RowStatus(stripe[s].status)
            /\ stripe[s].status # "CANCELLED" => local[s].atEnd = stripe[s].atEnd

Newest(s) == <<s, Len(log[s])>>
NewestApplied(s) ==
  \/ Applied(Newest(s))
  \/ log[s][Len(log[s])].kind = "completed" /\ local[s].status # "none"

\* In order, the row shows Stripe's state from the commit of the newest event on.
ShowsInv == inOrder => \A s \in Subs : stripe[s].status \in StripeStatus /\ NewestApplied(s) => Shows(s)

RowsInv == TypeInv /\ RequestInv /\ StripeInv /\ LocalInv /\ OrderInv /\ ActiveInv /\ ShowsInv
Inv == RowsInv /\ CancelInv

-----------------------------------------------------------------------------
(* A new event of s *)

\* Stripe comes to the state (status, atEnd) of s and logs it.
Grows(s, status, atEnd) ==
  /\ Len(log[s]) < Len(log'[s]) /\ Len(log'[s]) <= MaxEvents
  /\ log' = [log EXCEPT ![s] = log'[s]] /\ log'[s] \in Seq(Entry)
  /\ \A n \in 1..Len(log[s]) : log'[s][n] = log[s][n]
  /\ \A n \in (Len(log[s]) + 1)..Len(log'[s]) :
       log'[s][n].status = status /\ log'[s][n].atEnd = atEnd
  /\ stripe' = [stripe EXCEPT ![s] = [status |-> status, atEnd |-> atEnd]]
  /\ emitted' = emitted \cup {<<s, n>> : n \in 1..Len(log'[s])}
  /\ UNCHANGED <<record, hook>>

\* Emits appends one entry for each kind.
LEMMA EmitsGrows ==
  ASSUME TypeInv, NEW s \in Subs, NEW new \in StripeStatus, NEW atEnd \in YesNo,
         NEW kinds \in Seq(Kinds), Len(kinds) > 0, Emits(s, new, atEnd, kinds)
  PROVE  /\ Grows(s, new, atEnd)
         /\ Len(log'[s]) = Len(log[s]) + Len(kinds)
         /\ \A n \in 1..Len(kinds) : log'[s][Len(log[s]) + n].kind = kinds[n]
<1> DEFINE entries == [i \in 1..Len(kinds) |->
                         [kind |-> kinds[i], status |-> new, atEnd |-> atEnd]]
           longer == log[s] \o entries
<1>1. log[s] \in Seq(Entry) /\ log \in [Subs -> Seq(Entry)]
  BY DEF TypeInv
<1>2. Len(kinds) \in Nat /\ \A i \in 1..Len(kinds) : kinds[i] \in Kinds
  OBVIOUS
<1>3. entries \in [1..Len(kinds) -> Entry]
  BY <1>2 DEF Entry
<1>4. entries \in Seq(Entry) /\ Len(entries) = Len(kinds)
  <2>1. entries \in Seq(Entry)
    BY <1>2, <1>3, SeqDef
  <2>2. DOMAIN entries = 1..Len(kinds)
    BY <1>3
  <2> HIDE DEF entries
  <2> QED BY <1>2, <2>1, <2>2, LenProperties
<1>5. \A i \in 1..Len(kinds) : entries[i] = [kind |-> kinds[i], status |-> new, atEnd |-> atEnd]
  OBVIOUS
<1>6. /\ Len(longer) <= IF inOrder THEN MaxEvents ELSE MaxLate
      /\ stripe' = [stripe EXCEPT ![s] = [status |-> new, atEnd |-> atEnd]]
      /\ log' = [log EXCEPT ![s] = longer]
      /\ emitted' = emitted \cup {<<s, n>> : n \in 1..Len(longer)}
      /\ UNCHANGED <<record, hook>>
  BY DEF Emits
<1> HIDE DEF entries
<1>7. /\ longer \in Seq(Entry) /\ Len(longer) = Len(log[s]) + Len(kinds)
      /\ \A n \in 1..Len(log[s]) : longer[n] = log[s][n]
      /\ \A n \in 1..Len(kinds) : longer[Len(log[s]) + n] = entries[n]
  <2>1. \A n \in 1..(Len(log[s]) + Len(kinds)) :
          longer[n] = IF n <= Len(log[s]) THEN log[s][n] ELSE entries[n - Len(log[s])]
    BY <1>1, <1>4, ConcatProperties
  <2>a. longer \in Seq(Entry) /\ Len(longer) = Len(log[s]) + Len(entries)
    BY <1>1, <1>4, ConcatProperties
  <2>2. longer \in Seq(Entry) /\ Len(longer) = Len(log[s]) + Len(kinds)
    BY <2>a, <1>4
  <2>3. Len(log[s]) \in Nat
    BY <1>1
  <2> HIDE DEF longer
  <2>4. \A n \in 1..Len(log[s]) : longer[n] = log[s][n]
    BY <1>2, <2>1, <2>3
  <2>5. \A n \in 1..Len(kinds) : longer[Len(log[s]) + n] = entries[n]
    <3> TAKE n \in 1..Len(kinds)
    <3>1. /\ Len(log[s]) + n \in 1..(Len(log[s]) + Len(kinds))
          /\ ~(Len(log[s]) + n <= Len(log[s])) /\ Len(log[s]) + n - Len(log[s]) = n
      BY <1>2, <2>3
    <3> QED BY <2>1, <3>1
  <2> QED BY <2>2, <2>4, <2>5
<1> HIDE DEF longer
<1>8. log'[s] = longer /\ log' = [log EXCEPT ![s] = log'[s]]
  BY <1>1, <1>6
<1>9. Len(longer) <= MaxEvents
  BY <1>6, <1>7, EventsAssumption
<1>10. Len(log[s]) \in Nat
  BY <1>1
<1>11. \A n \in (Len(log[s]) + 1)..Len(longer) :
         longer[n].status = new /\ longer[n].atEnd = atEnd
  <2> SUFFICES ASSUME NEW n \in (Len(log[s]) + 1)..Len(longer)
               PROVE  longer[n].status = new /\ longer[n].atEnd = atEnd
    OBVIOUS
  <2>1. PICK i \in 1..Len(kinds) : n = Len(log[s]) + i
    <3>1. n - Len(log[s]) \in 1..Len(kinds) /\ n = Len(log[s]) + (n - Len(log[s]))
      BY <1>2, <1>7, <1>10
    <3> QED BY <3>1
  <2>2. longer[n] = [kind |-> kinds[i], status |-> new, atEnd |-> atEnd]
    BY <2>1, <1>5, <1>7
  <2> QED BY <2>2
<1>12. Len(log[s]) < Len(longer)
  BY <1>2, <1>7, <1>10
<1>13. Grows(s, new, atEnd)
  BY <1>6, <1>7, <1>8, <1>9, <1>11, <1>12 DEF Grows
<1>14. \A n \in 1..Len(kinds) : longer[Len(log[s]) + n].kind = kinds[n]
  <2> TAKE n \in 1..Len(kinds)
  <2>1. longer[Len(log[s]) + n] = [kind |-> kinds[n], status |-> new, atEnd |-> atEnd]
    BY <1>5, <1>7
  <2> QED BY <2>1
<1> QED BY <1>13, <1>14, <1>7, <1>8

\* The kinds of the new entries agree with the state, and Stripe takes back
\* neither a cancellation nor its announcement.
Lawful(s, status, atEnd) ==
  /\ stripe[s].status = "open" \/ Running(s)
  /\ stripe[s].atEnd = "yes" => atEnd = "yes"
  /\ \A n \in (Len(log[s]) + 1)..Len(log'[s]) :
       /\ log'[s][n].kind \in {"completed", "paid"} => status = "ACTIVE" /\ atEnd = "no"
       /\ log'[s][n].kind = "failed" => status = "PAST_DUE" /\ atEnd = "no"
       /\ log'[s][n].kind = "deleted" => status = "CANCELLED"
       /\ log'[s][n].kind = "completed" => n <= 2 /\ stripe[s].status = "open"
  /\ stripe[s].status = "open" =>
       Len(log'[s]) >= 2 /\ {log'[s][1].kind, log'[s][2].kind} = {"completed", "paid"}
  /\ Len(log'[s]) > 2 => log'[s][Len(log'[s])].kind # "paid"

\* A new event leaves the rows as they were and everything true of them.
LEMMA GrowsPreserves ==
  ASSUME RowsInv, NEW s \in Subs, NEW new \in StripeStatus, NEW atEnd \in YesNo,
         Grows(s, new, atEnd), Lawful(s, new, atEnd), UNCHANGED <<local, checkout, inOrder>>
  PROVE  /\ RowsInv'
         /\ \A t \in Subs : /\ stripe[t].status = "CANCELLED" => stripe'[t].status = "CANCELLED"
                            /\ stripe[t].atEnd = "yes" => stripe'[t].atEnd = "yes"
<1> USE DEF RowsInv
<1>1. /\ stripe'[s].status = new /\ stripe'[s].atEnd = atEnd
      /\ \A t \in Subs \ {s} : stripe'[t] = stripe[t] /\ log'[t] = log[t]
      /\ \A t \in Subs : Len(log[t]) \in Nat /\ Len(log'[t]) \in Nat
  <2>1. log'[s] \in Seq(Entry) /\ \A t \in Subs : log[t] \in Seq(Entry)
    BY DEF TypeInv, Grows
  <2>2. log' = [log EXCEPT ![s] = log'[s]] /\ log \in [Subs -> Seq(Entry)]
    BY DEF TypeInv, Grows
  <2>3. \A t \in Subs \ {s} : log'[t] = log[t]
    BY <2>2
  <2>4. \A t \in Subs : Len(log[t]) \in Nat /\ Len(log'[t]) \in Nat
    BY <2>1, <2>3
  <2> QED BY <2>3, <2>4 DEF Grows, TypeInv
<1>2. /\ stripe[s].status # "CANCELLED" /\ new \in StripeStatus
      /\ \A n \in 1..Len(log[s]) : log'[s][n] = log[s][n]
      /\ Len(log[s]) < Len(log'[s]) /\ Len(log'[s]) <= MaxEvents
  BY DEF Lawful, Running, Grows
<1>3. \A t \in Subs : /\ stripe[t].status = "CANCELLED" => stripe'[t].status = "CANCELLED"
                      /\ stripe[t].atEnd = "yes" => stripe'[t].atEnd = "yes"
                      /\ stripe[t].status \in StripeStatus => stripe'[t].status \in StripeStatus
  BY <1>1, <1>2 DEF Lawful
<1>4. TypeInv'
  <2>1. stripe' \in [Subs -> [status : {"none", "open"} \cup StripeStatus, atEnd : YesNo]]
    BY DEF Grows, TypeInv
  <2>2. log' \in [Subs -> Seq(Entry)]
    BY DEF Grows, TypeInv
  <2>3. \A t \in Subs : Len(log'[t]) <= MaxEvents
    BY <1>1, <1>2 DEF TypeInv
  <2>4. W!WebhookTypeOK'
    <3>1. {<<s, n>> : n \in 1..Len(log'[s])} \subseteq Events
      BY <1>1, <1>2, EventsAssumption DEF Events
    <3> QED BY <3>1 DEF TypeInv, Grows, W!WebhookTypeOK
  <2> QED BY <2>1, <2>2, <2>3, <2>4 DEF TypeInv
<1>5. \A e \in emitted : e \in Events /\ e[1] \in Subs /\ e[2] \in 1..Len(log[e[1]])
  <2>1. emitted \subseteq Events
    BY DEF TypeInv, W!WebhookTypeOK
  <2> QED BY <2>1, <1>1, EventsAssumption DEF Events, RequestInv
<1>6. RequestInv'
  <2>1. \A e \in emitted' : e[2] <= Len(log'[e[1]])
    <3> TAKE e \in emitted'
    <3>1. CASE e \in emitted
      <4>1. CASE e[1] = s
        BY <4>1, <3>1, <1>1, <1>2, <1>5
      <4>2. CASE e[1] # s
        BY <4>2, <3>1, <1>1, <1>5
      <4> QED BY <4>1, <4>2
    <3>2. CASE e \in {<<s, n>> : n \in 1..Len(log'[s])}
      BY <3>2, <1>1
    <3> QED BY <3>1, <3>2 DEF Grows
  <2> QED BY <2>1 DEF RequestInv, Grows
<1>7. \A t \in Subs : \A n \in 1..Len(log'[t]) : Started(<<t, n>>) => n \in 1..Len(log[t])
  <2> TAKE t \in Subs
  <2> TAKE n \in 1..Len(log'[t])
  <2> HAVE Started(<<t, n>>)
  <2>1. <<t, n>> \in emitted
    <3>1. <<t, n>> \in Events
      BY <1>1, <1>2, <1>4, EventsAssumption DEF Events, TypeInv
    <3> QED BY <3>1 DEF Started, Busy, RequestInv
  <2> QED BY <2>1, <1>5
<1>8. StripeInv'
  <2> SUFFICES ASSUME NEW t \in Subs
               PROVE  SessionOK(t)' /\ \A n \in 1..Len(log'[t]) : EntryOK(t, n)'
    BY DEF StripeInv
  <2>1. CASE t # s
    <3>1. checkout' = checkout /\ stripe'[t] = stripe[t] /\ log'[t] = log[t]
      BY <2>1, <1>1
    <3> QED BY <3>1 DEF StripeInv, SessionOK, EntryOK
  <2>2. CASE t = s
    <3>1. SessionOK(s)'
      <4>1. checkout[s] = "done"
        BY DEF StripeInv, SessionOK, Lawful, Running
      <4>2. Len(log'[s]) >= 2 /\ {log'[s][1].kind, log'[s][2].kind} = {"completed", "paid"}
        <5>1. CASE stripe[s].status = "open"
          BY <5>1 DEF Lawful
        <5>2. CASE Running(s)
          <6>1. Len(log[s]) >= 2 /\ {log[s][1].kind, log[s][2].kind} = {"completed", "paid"}
            BY <5>2 DEF Running, StripeInv, SessionOK, Status, StripeStatus
          <6>2. log'[s][1] = log[s][1] /\ log'[s][2] = log[s][2] /\ Len(log'[s]) >= 2
            BY <6>1, <1>1, <1>2
          <6> QED BY <6>1, <6>2
        <5> QED BY <5>1, <5>2 DEF Lawful
      <4>3. log'[s][Len(log'[s])].status = new /\ log'[s][Len(log'[s])].atEnd = atEnd
        <5>1. Len(log'[s]) \in (Len(log[s]) + 1)..Len(log'[s])
          BY <1>1, <1>2
        <5> QED BY <5>1 DEF Grows
      <4>4. Len(log'[s]) > 2 => log'[s][Len(log'[s])].kind # "paid"
        BY DEF Lawful
      <4> QED BY <4>1, <4>2, <4>3, <4>4, <1>1, <1>2 DEF SessionOK
    <3>2. ASSUME NEW n \in 1..Len(log'[s]) PROVE EntryOK(s, n)'
      <4>1. CASE n \in 1..Len(log[s])
        <5>1. log'[s][n] = log[s][n] /\ EntryOK(s, n)
          BY <4>1, <1>2 DEF StripeInv
        <5> QED BY <5>1, <1>3 DEF EntryOK
      <4>2. CASE n \notin 1..Len(log[s])
        <5>1. n \in (Len(log[s]) + 1)..Len(log'[s])
          BY <4>2, <1>1
        <5>2. log'[s][n].status = new /\ log'[s][n].atEnd = atEnd
          BY <5>1 DEF Grows
        <5> QED BY <5>1, <5>2, <1>1 DEF EntryOK, Lawful
      <4> QED BY <4>1, <4>2
    <3> QED BY <2>2, <3>1, <3>2
  <2> QED BY <2>1, <2>2
<1>9. LocalInv'
  <2>1. ASSUME NEW t \in Subs, Len(log'[t]) <= 2 PROVE local[t].status \in {"none", "ACTIVE"}
    <3>1. Len(log[t]) <= 2
      BY <2>1, <1>1, <1>2
    <3> QED BY <3>1 DEF LocalInv
  <2> QED BY <2>1, <1>3 DEF LocalInv
<1>10. ASSUME NEW t \in Subs, NEW n \in 1..Len(log[t]), Past(t, n)
       PROVE  Past(t, n)'
  <2>1. log'[t][n] = log[t][n]
    BY <1>1, <1>2
  <2> QED BY <1>10, <2>1 DEF Past, Busy, Grows
<1>11. OrderInv'
  <2> SUFFICES ASSUME inOrder, NEW t \in Subs, NEW n \in 1..Len(log'[t]), Started(<<t, n>>),
                      NEW m \in 1..(n - 1)
               PROVE  Past(t, m)'
    BY DEF OrderInv, Started, Busy, Grows
  <2>1. n \in 1..Len(log[t])
    BY <1>7
  <2>2. m \in 1..Len(log[t])
    BY <2>1, <1>1
  <2>3. Past(t, m)
    BY <2>1 DEF OrderInv
  <2> QED BY <2>2, <2>3, <1>10
<1>12. \A e : Applied(e)' <=> Applied(e)
  BY DEF Applied, Grows
<1>13. \A t \in Subs : \A n \in 1..Len(log'[t]) : Applied(<<t, n>>) => n \in 1..Len(log[t])
  BY <1>7 DEF Applied, Started, Busy
<1>14. ActiveInv'
  <2> SUFFICES ASSUME NEW t \in Subs, NEW n \in 1..Len(log'[t]),
                      log'[t][n].kind = "completed", Applied(<<t, n>>)
               PROVE  local[t].status # "none"
    BY <1>12 DEF ActiveInv
  <2>1. n \in 1..Len(log[t])
    BY <1>13
  <2>2. log'[t][n] = log[t][n]
    BY <2>1, <1>1, <1>2
  <2> QED BY <2>1, <2>2 DEF ActiveInv
<1>15. ShowsInv'
  <2> SUFFICES ASSUME inOrder, NEW t \in Subs, stripe'[t].status \in StripeStatus, NewestApplied(t)'
               PROVE  Shows(t)'
    BY DEF ShowsInv
  <2>1. CASE t # s
    <3>1. stripe'[t] = stripe[t] /\ log'[t] = log[t]
      BY <2>1, <1>1
    <3>2. NewestApplied(t) /\ stripe[t].status \in StripeStatus
      BY <3>1, <1>12 DEF NewestApplied, Newest
    <3> QED BY <3>1, <3>2 DEF ShowsInv, Shows
  <2>2. CASE t = s
    <3>1. Len(log'[s]) \in 1..Len(log'[s]) /\ ~(Len(log'[s]) \in 1..Len(log[s]))
      BY <1>1, <1>2
    <3>2. ~Applied(<<s, Len(log'[s])>>)
      BY <3>1, <1>13
    <3>3. ~Applied(Newest(s))'
      BY <3>2 DEF Newest, Applied, Grows
    <3>5. log'[s][Len(log'[s])].kind = "completed" /\ local[s].status # "none"
      BY <2>2, <3>3 DEF NewestApplied
    <3>4. stripe[s].status = "open"
      <4>1. Len(log'[s]) \in (Len(log[s]) + 1)..Len(log'[s])
        BY <1>1, <1>2
      <4> QED BY <4>1, <3>5 DEF Lawful
    <3> QED BY <3>5, <3>4 DEF LocalInv, Status, StripeStatus
  <2> QED BY <2>1, <2>2
<1> QED BY <1>3, <1>4, <1>6, <1>8, <1>9, <1>11, <1>14, <1>15

-----------------------------------------------------------------------------
(* The webhook requests *)

Request == [pc : {"idle", "create", "dispatch", "commit", "mark", "fail"}, ev : Events \cup {None}]

LEMMA RequestTypes ==
  ASSUME RowsInv
  PROVE  /\ hook \in [Hooks -> Request] /\ record \in [Events -> W!ProcessingStatus]
         /\ \A e \in emitted : e \in Events /\ e[1] \in Subs /\ e[2] \in 1..Len(log[e[1]])
         /\ \A h \in Hooks : hook[h].pc # "idle" =>
              /\ hook[h].ev \in emitted /\ hook[h].ev = <<hook[h].ev[1], hook[h].ev[2]>>
              /\ Busy(h, hook[h].ev)
         /\ \A s \in Subs : Len(log[s]) \in Nat
<1>1. /\ hook \in [Hooks -> Request] /\ record \in [Events -> W!ProcessingStatus]
      /\ emitted \subseteq Events
  BY DEF RowsInv, TypeInv, W!WebhookTypeOK, Request
<1>2. \A s \in Subs : log[s] \in Seq(Entry) /\ Len(log[s]) \in Nat
  BY DEF RowsInv, TypeInv
<1>3. \A e \in emitted : e[2] <= Len(log[e[1]])
  BY DEF RowsInv, RequestInv
<1>4. \A e \in emitted : e \in Events /\ e[1] \in Subs /\ e[2] \in 1..Len(log[e[1]]) /\ e = <<e[1], e[2]>>
  BY <1>1, <1>2, <1>3, EventsAssumption DEF Events
<1>5. \A h \in Hooks : hook[h].pc # "idle" => hook[h].ev \in emitted
  BY DEF RowsInv, RequestInv
<1> QED BY <1>1, <1>2, <1>4, <1>5 DEF Busy

\* A step of a request that applies no event: it keeps its event or ends, and
\* writes no more into the record than the handler has done.
LEMMA ProtocolPreserves ==
  ASSUME RowsInv, NEW h \in Hooks, hook[h].pc # "idle",
         NEW new \in Request, hook' = [hook EXCEPT ![h] = new],
         new.pc = "idle" \/ new.ev = hook[h].ev, new.pc # "mark",
         NEW mark \in W!ProcessingStatus, record' = [record EXCEPT ![hook[h].ev] = mark],
         mark = "PROCESSED" => record[hook[h].ev] = "PROCESSED" \/ hook[h].pc = "mark",
         UNCHANGED <<local, stripe, log, emitted, checkout, inOrder>>
  PROVE  RowsInv'
<1> DEFINE e == hook[h].ev
<1>1. /\ e \in emitted /\ e \in Events /\ Busy(h, e)
      /\ hook \in [Hooks -> Request] /\ record \in [Events -> W!ProcessingStatus]
  BY RequestTypes
<1> HIDE DEF e
<1>2. /\ \A f \in Events : f # e => record'[f] = record[f]
      /\ record'[e] = mark
      /\ \A g \in Hooks : g # h => hook'[g] = hook[g]
      /\ hook'[h] = new
      /\ hook' \in [Hooks -> Request] /\ record' \in [Events -> W!ProcessingStatus]
  BY <1>1 DEF e
<1>3. ASSUME NEW g \in Hooks, NEW f, Busy(g, f)'
      PROVE  Busy(g, f)
  BY <1>3, <1>1, <1>2 DEF Busy, e
<1>4. TypeInv'
  BY <1>2 DEF TypeInv, RowsInv, W!WebhookTypeOK, Request
<1>5. RequestInv'
  <2>1. \A g \in Hooks : hook'[g].pc # "idle" => hook'[g].ev \in emitted
    BY <1>1, <1>2 DEF RowsInv, RequestInv, e
  <2>2. \A f \in Events : record'[f] # "none" => f \in emitted
    BY <1>1, <1>2 DEF RowsInv, RequestInv
  <2> QED BY <2>1, <2>2 DEF RowsInv, RequestInv
<1>6. StripeInv' /\ LocalInv'
  <2>1. \A s : SessionOK(s)' <=> SessionOK(s)
    BY DEF SessionOK
  <2>2. \A s, n : EntryOK(s, n)' <=> EntryOK(s, n)
    BY DEF EntryOK
  <2>3. StripeInv'
    BY <2>1, <2>2 DEF RowsInv, StripeInv
  <2> QED BY <2>3 DEF RowsInv, LocalInv
<1>7. ASSUME NEW f \in Events, Started(f)' PROVE Started(f)
  <2>1. CASE f = e
    BY <2>1, <1>1 DEF Started
  <2>2. CASE f # e
    BY <2>2, <1>2, <1>3, <1>7 DEF Started
  <2> QED BY <2>1, <2>2
<1>8. ASSUME NEW f \in Events, Applied(f)' PROVE Applied(f)
  <2>1. CASE record'[f] = "PROCESSED"
    <3>1. CASE f = e
      BY <3>1, <2>1, <1>2 DEF Applied, e
    <3>2. CASE f # e
      BY <3>2, <2>1, <1>2 DEF Applied
    <3> QED BY <3>1, <3>2
  <2>2. CASE \E g \in Hooks : hook'[g].pc = "mark" /\ hook'[g].ev = f
    BY <2>2, <1>2 DEF Applied
  <2> QED BY <1>8, <2>1, <2>2 DEF Applied
<1>9. ASSUME NEW s \in Subs, NEW n \in 1..Len(log[s]), Past(s, n) PROVE Past(s, n)'
  <2>1. CASE log[s][n].kind = "completed" /\ local[s].status # "none"
    BY <2>1 DEF Past
  <2>2. CASE record[<<s, n>>] = "PROCESSED" /\ \A g \in Hooks : ~Busy(g, <<s, n>>)
    <3>1. <<s, n>> # e
      BY <2>2, <1>1
    <3>2. <<s, n>> \in Events
      BY RequestTypes, EventsAssumption DEF Events, RowsInv, TypeInv
    <3>3. record'[<<s, n>>] = "PROCESSED"
      BY <3>1, <3>2, <2>2, <1>2
    <3>4. \A g \in Hooks : ~Busy(g, <<s, n>>)'
      BY <2>2, <1>3
    <3> QED BY <3>3, <3>4 DEF Past
  <2> QED BY <1>9, <2>1, <2>2 DEF Past
<1>10. \A s \in Subs : /\ Len(log[s]) \in Nat
                       /\ \A n \in 1..Len(log[s]) : <<s, n>> \in Events
  BY RequestTypes, EventsAssumption DEF Events, RowsInv, TypeInv
<1>11. OrderInv'
  <2> SUFFICES ASSUME inOrder, NEW s \in Subs, NEW n \in 1..Len(log[s]), Started(<<s, n>>)',
                      NEW m \in 1..(n - 1)
               PROVE  Past(s, m)'
    BY DEF OrderInv
  <2>1. Started(<<s, n>>)
    BY <1>7, <1>10
  <2>2. Past(s, m) /\ m \in 1..Len(log[s])
    BY <2>1, <1>10 DEF RowsInv, OrderInv
  <2> QED BY <2>2, <1>9
<1>12. ActiveInv'
  BY <1>8, <1>10 DEF ActiveInv, RowsInv
<1>13. ShowsInv'
  <2> SUFFICES ASSUME inOrder, NEW s \in Subs, stripe[s].status \in StripeStatus, NewestApplied(s)'
               PROVE  Shows(s)
    BY DEF ShowsInv, Shows
  <2>1. Newest(s) \in Events
    <3>1. Len(log[s]) \in 1..Len(log[s])
      BY <1>10 DEF RowsInv, StripeInv, SessionOK
    <3> QED BY <3>1, <1>10 DEF Newest
  <2>2. NewestApplied(s)
    <3>1. CASE Applied(Newest(s))'
      <4>1. Applied(<<s, Len(log[s])>>)'
        BY <3>1 DEF Newest
      <4>2. Applied(<<s, Len(log[s])>>)
        BY <4>1, <2>1, <1>8 DEF Newest
      <4> QED BY <4>2 DEF NewestApplied, Newest
    <3>2. CASE ~Applied(Newest(s))'
      BY <3>2 DEF NewestApplied
    <3> QED BY <3>1, <3>2
  <2> QED BY <2>2 DEF RowsInv, ShowsInv
<1> QED BY <1>4, <1>5, <1>6, <1>11, <1>12, <1>13 DEF RowsInv

\* A delivery in its turn leaves no earlier event open.
LEMMA DeliveryPreserves ==
  ASSUME RowsInv, NEW h \in Hooks, NEW e \in Events, DeliverInTurn(h, e)
  PROVE  RowsInv'
<1> DEFINE new == [pc |-> IF record[e] = "none" THEN "create" ELSE "dispatch", ev |-> e]
<1>1. /\ hook[h].pc = "idle" /\ e \in emitted /\ record[e] # "PROCESSED" /\ Turn(e)
      /\ hook' = [hook EXCEPT ![h] = new]
      /\ UNCHANGED <<local, stripe, log, emitted, record, checkout, inOrder>>
  BY DEF DeliverInTurn, W!Deliver, elsewhere, steady
<1>2. /\ hook \in [Hooks -> Request] /\ new \in Request
      /\ e = <<e[1], e[2]>> /\ e[1] \in Subs /\ e[2] \in 1..Len(log[e[1]])
      /\ \A s \in Subs : Len(log[s]) \in Nat
  BY <1>1, RequestTypes DEF Request, Events
<1>3. /\ hook' \in [Hooks -> Request] /\ hook'[h] = new
      /\ \A g \in Hooks : g # h => hook'[g] = hook[g]
  BY <1>1, <1>2
<1>4. new.pc \notin {"idle", "mark"} /\ new.ev = e
  OBVIOUS
<1> HIDE DEF new
<1>5. TypeInv' /\ RequestInv'
  <2>1. TypeInv'
    BY <1>1, <1>3 DEF RowsInv, TypeInv, W!WebhookTypeOK, Request
  <2>2. \A g \in Hooks : hook'[g].pc # "idle" => hook'[g].ev \in emitted
    BY <1>1, <1>3, <1>4 DEF RowsInv, RequestInv
  <2> QED BY <2>1, <2>2, <1>1 DEF RowsInv, RequestInv
<1>6. StripeInv' /\ LocalInv'
  <2>1. \A s : SessionOK(s)' <=> SessionOK(s)
    BY <1>1 DEF SessionOK
  <2>2. \A s, n : EntryOK(s, n)' <=> EntryOK(s, n)
    BY <1>1 DEF EntryOK
  <2>3. StripeInv'
    BY <1>1, <2>1, <2>2 DEF RowsInv, StripeInv
  <2> QED BY <1>1, <2>3 DEF RowsInv, LocalInv
<1>7. ASSUME NEW g \in Hooks, NEW f, Busy(g, f)' PROVE Busy(g, f) \/ f = e
  BY <1>3, <1>4, <1>7 DEF Busy
<1>8. ASSUME NEW s \in Subs, NEW n \in 1..Len(log[s]), Past(s, n) PROVE Past(s, n)'
  <2>1. CASE log[s][n].kind = "completed" /\ local[s].status # "none"
    BY <1>1, <2>1 DEF Past
  <2>2. CASE record[<<s, n>>] = "PROCESSED" /\ \A g \in Hooks : ~Busy(g, <<s, n>>)
    <3>1. \A g \in Hooks : ~Busy(g, <<s, n>>)'
      BY <1>1, <1>7, <2>2
    <3> QED BY <3>1, <2>2, <1>1 DEF Past
  <2> QED BY <1>8, <2>1, <2>2 DEF Past
<1>9. OrderInv'
  <2> SUFFICES ASSUME inOrder, NEW s \in Subs, NEW n \in 1..Len(log[s]), Started(<<s, n>>)',
                      NEW m \in 1..(n - 1)
               PROVE  Past(s, m)'
    BY <1>1 DEF OrderInv
  <2>1. m \in 1..Len(log[s])
    BY <1>2
  <2>2. Past(s, m)
    <3>1. CASE Started(<<s, n>>)
      BY <3>1 DEF RowsInv, OrderInv
    <3>2. CASE <<s, n>> = e
      <4>1. Handled(<<s, m>>) /\ \A g \in Hooks : hook[g].ev # <<s, m>>
        BY <3>2, <1>1 DEF Turn
      <4> QED BY <4>1 DEF Handled, Past, Busy
    <3>3. CASE ~Started(<<s, n>>) /\ <<s, n>> # e
      BY <3>3, <1>1, <1>7 DEF Started
    <3> QED BY <3>1, <3>2, <3>3
  <2> QED BY <2>1, <2>2, <1>8
<1>10. \A f : Applied(f)' => Applied(f)
  BY <1>1, <1>3, <1>4 DEF Applied
<1>11. ActiveInv'
  BY <1>1, <1>10 DEF RowsInv, ActiveInv
<1>12. ShowsInv'
  BY <1>1, <1>10 DEF RowsInv, ShowsInv, NewestApplied, Newest, Shows
<1> QED BY <1>5, <1>6, <1>9, <1>11, <1>12 DEF RowsInv

\* The record, the answers and the faults.
LEMMA RequestStepsPreserve ==
  ASSUME RowsInv, NEW h \in Hooks, Bookkeeping(h) \/ WebhookFault(h) \/ ActivateRollback(h)
  PROVE  RowsInv'
<1> DEFINE e == hook[h].ev
<1>1. hook[h].pc # "idle" /\ UNCHANGED <<local, stripe, log, emitted, checkout, inOrder>>
  BY DEF Bookkeeping, WebhookFault, ActivateRollback, Handles, elsewhere, steady, W!CreateRecord,
     W!MarkProcessed, W!MarkFailed, W!CallFails, W!Lost, W!Goto, W!Return
<1>2. /\ hook \in [Hooks -> Request] /\ record \in [Events -> W!ProcessingStatus] /\ e \in Events
      /\ hook[h] \in Request
  BY <1>1, RequestTypes
<1>3. W!IdleHook \in Request /\ W!IdleHook.pc = "idle"
  BY DEF Request, W!IdleHook
<1>4. record = [record EXCEPT ![e] = record[e]] /\ record[e] \in W!ProcessingStatus
  BY <1>2
<1>5. ASSUME NEW label \in {"dispatch", "fail"}
      PROVE  /\ [hook EXCEPT ![h].pc = label] = [hook EXCEPT ![h] = [pc |-> label, ev |-> e]]
             /\ [pc |-> label, ev |-> e] \in Request
  <2>1. [hook[h] EXCEPT !.pc = label] = [pc |-> label, ev |-> e]
    BY <1>2 DEF Request, e
  <2>2. [hook EXCEPT ![h].pc = label] = [hook EXCEPT ![h] = [hook[h] EXCEPT !.pc = label]]
    OBVIOUS
  <2>3. [pc |-> label, ev |-> e] \in Request
    BY <1>2 DEF Request
  <2> QED BY <2>1, <2>2, <2>3
<1> HIDE DEF e
<1>6. CASE W!CreateRecord(h) /\ W!Goto(h, "dispatch") /\ record[e] = "none"
           /\ record' = [record EXCEPT ![e] = "PENDING"]
  BY <1>6, <1>1, <1>2, <1>5, ProtocolPreserves DEF W!Goto, W!ProcessingStatus, e
<1>7. CASE W!Return(h) /\ UNCHANGED record
  BY <1>7, <1>1, <1>2, <1>3, <1>4, ProtocolPreserves DEF W!Return, e
<1>8. CASE W!MarkProcessed(h)
  BY <1>8, <1>1, <1>2, <1>3, ProtocolPreserves
     DEF W!MarkProcessed, W!Return, W!ProcessingStatus, e
<1>9. CASE W!MarkFailed(h)
  BY <1>9, <1>1, <1>2, <1>3, ProtocolPreserves
     DEF W!MarkFailed, W!Return, W!ProcessingStatus, e
<1>10. CASE W!Goto(h, "fail") /\ UNCHANGED record
  BY <1>10, <1>1, <1>2, <1>4, <1>5, ProtocolPreserves DEF W!Goto, e
<1> QED
  BY <1>6, <1>7, <1>8, <1>9, <1>10
     DEF Bookkeeping, WebhookFault, ActivateRollback, W!CreateRecord, W!CallFails, W!Lost, steady, e

\* A handler that commits writes what its event says, and answers.
LEMMA HandlerPreserves ==
  ASSUME RowsInv, NEW h \in Hooks, hook[h].pc = "dispatch",
         NEW s \in Subs, NEW n, hook[h].ev = <<s, n>>, n \in 1..Len(log[s]),
         NEW row \in [status : Status, atEnd : YesNo], local' = [local EXCEPT ![s] = row],
         \/ row.status = RowStatus(log[s][n].status)
         \/ row.status = local[s].status /\ log[s][n].kind = "paid",
         row.atEnd = log[s][n].atEnd \/ (row.atEnd = local[s].atEnd /\ log[s][n].kind # "updated"),
         log[s][n].kind = "completed" => local[s].status = "none",
         hook' = [hook EXCEPT ![h] = [pc |-> "mark", ev |-> <<s, n>>]],
         UNCHANGED <<stripe, log, emitted, record, checkout, inOrder>>
  PROVE  RowsInv'
<1> DEFINE e == <<s, n>>
           new == [pc |-> "mark", ev |-> e]
<1>1. /\ hook \in [Hooks -> Request] /\ record \in [Events -> W!ProcessingStatus]
      /\ e \in Events /\ e \in emitted /\ Busy(h, e) /\ new \in Request
      /\ \A t \in Subs : Len(log[t]) \in Nat
  BY RequestTypes DEF Request
<1>2. /\ hook' \in [Hooks -> Request] /\ hook'[h] = new /\ new.pc = "mark" /\ new.ev = e
      /\ \A g \in Hooks : g # h => hook'[g] = hook[g]
  BY <1>1
<1> HIDE DEF e, new
<1>3. /\ local' \in [Subs -> [status : {"none"} \cup Status, atEnd : YesNo]] /\ local'[s] = row
      /\ \A t \in Subs : t # s => local'[t] = local[t]
      /\ row.status \in Status /\ row.status # "none" /\ row.atEnd \in YesNo
  BY DEF RowsInv, TypeInv, Status, StripeStatus
<1>4. TypeInv' /\ RequestInv'
  <2>1. TypeInv'
    BY <1>2, <1>3 DEF RowsInv, TypeInv, W!WebhookTypeOK, Request
  <2>2. \A g \in Hooks : hook'[g].pc # "idle" => hook'[g].ev \in emitted
    BY <1>1, <1>2 DEF RowsInv, RequestInv
  <2> QED BY <2>1, <2>2 DEF RowsInv, RequestInv
<1>5. StripeInv'
  <2>1. \A t : SessionOK(t)' <=> SessionOK(t)
    BY DEF SessionOK
  <2>2. \A t, m : EntryOK(t, m)' <=> EntryOK(t, m)
    BY DEF EntryOK
  <2> QED BY <2>1, <2>2 DEF RowsInv, StripeInv
<1>6. EntryOK(s, n) /\ SessionOK(s) /\ stripe[s].status \in StripeStatus
  <2>1. EntryOK(s, n) /\ SessionOK(s)
    BY DEF RowsInv, StripeInv
  <2>2. log[s] # <<>>
    BY <1>1, EmptySeq
  <2> QED BY <2>1, <2>2 DEF SessionOK
<1>7. row.status = "CANCELLED" => stripe[s].status = "CANCELLED"
  BY <1>6 DEF EntryOK, RowStatus, RowsInv, LocalInv
<1>a. Len(log[s]) <= 2 => row.status = "ACTIVE"
  <2> HAVE Len(log[s]) <= 2
  <2>0. Len(log[s]) >= 2 /\ Len(log[s]) \in Nat
    BY <1>1, <1>6 DEF SessionOK
  <2>1. n \in {1, 2}
    <3>1. \A k \in Nat : k <= 2 /\ k >= 2 => k = 2
      OBVIOUS
    <3>2. Len(log[s]) = 2
      BY <2>0, <3>1, Zenon
    <3> QED BY <3>2
  <2>2. log[s][n].kind \in {log[s][1].kind, log[s][2].kind}
    BY <2>1
  <2>3. log[s][n].kind \in {"completed", "paid"}
    BY <2>2, <1>6 DEF SessionOK
  <2>4. log[s][n].status = "ACTIVE" /\ local[s].status \in {"none", "ACTIVE"}
    BY <2>3, <1>6 DEF EntryOK, RowsInv, LocalInv
  <2> QED BY <2>4, <1>3 DEF RowStatus
<1>8. row.atEnd = "yes" => stripe[s].atEnd = "yes"
  BY <1>6 DEF EntryOK, RowsInv, LocalInv
<1>9. LocalInv'
  <2>1. \A t \in Subs : Len(log[t]) <= 2 => local'[t].status \in {"none", "ACTIVE"}
    BY <1>a, <1>3 DEF RowsInv, LocalInv
  <2> QED BY <2>1, <1>3, <1>6, <1>7, <1>8 DEF RowsInv, LocalInv
<1>10. ASSUME NEW g \in Hooks, NEW f, Busy(g, f)' PROVE Busy(g, f)
  BY <1>1, <1>2, <1>10 DEF Busy
<1>11. ASSUME NEW t \in Subs, NEW m \in 1..Len(log[t]), Past(t, m) PROVE Past(t, m)'
  BY <1>3, <1>10, <1>11 DEF Past
<1>12. \A f : Started(f)' => Started(f)
  BY <1>10 DEF Started
<1>13. OrderInv'
  <2> SUFFICES ASSUME inOrder, NEW t \in Subs, NEW k \in 1..Len(log[t]), Started(<<t, k>>)',
                      NEW m \in 1..(k - 1)
               PROVE  Past(t, m)'
    BY DEF OrderInv
  <2>1. m \in 1..Len(log[t])
    BY <1>1
  <2>2. Past(t, m)
    BY <1>12 DEF RowsInv, OrderInv
  <2> QED BY <2>1, <2>2, <1>11
<1>14. \A f : Applied(f)' => Applied(f) \/ f = e
  BY <1>2 DEF Applied
<1>15. ActiveInv'
  <2> SUFFICES ASSUME NEW t \in Subs, NEW k \in 1..Len(log[t]), log[t][k].kind = "completed",
                      Applied(<<t, k>>)', t # s
               PROVE  local[t].status # "none"
    BY <1>3 DEF ActiveInv
  <2>1. <<t, k>> # e
    BY DEF e
  <2> QED BY <2>1, <1>14 DEF RowsInv, ActiveInv
<1>16. ShowsInv'
  <2> SUFFICES ASSUME inOrder, NEW t \in Subs, stripe[t].status \in StripeStatus, NewestApplied(t)'
               PROVE  Shows(t)'
    BY DEF ShowsInv
  <2>1. CASE t # s
    <3>1. Newest(t) # e
      BY <2>1 DEF Newest, e
    <3>2. NewestApplied(t)
      BY <2>1, <3>1, <1>3, <1>14 DEF NewestApplied, Newest
    <3> QED BY <2>1, <3>2, <1>3 DEF RowsInv, ShowsInv, Shows
  <2>2. CASE t = s /\ n = Len(log[s])
    <3>0. log[s][n].status = stripe[s].status /\ log[s][n].atEnd = stripe[s].atEnd
      BY <2>2, <1>6 DEF SessionOK
    <3>1. row.status = RowStatus(stripe[s].status) /\ log[s][n].atEnd = stripe[s].atEnd
      <4>1. CASE log[s][n].kind = "paid"
        <5>1. Len(log[s]) <= 2
          BY <4>1, <2>2, <1>1, <1>6 DEF SessionOK
        <5>2. stripe[s].status = "ACTIVE"
          BY <4>1, <3>0, <1>6 DEF EntryOK
        <5> QED BY <5>1, <5>2, <3>0, <1>a DEF RowStatus
      <4>2. CASE log[s][n].kind # "paid"
        BY <4>2, <3>0
      <4> QED BY <4>1, <4>2
    <3>2. row.atEnd = local[s].atEnd /\ stripe[s].atEnd = "no" => row.atEnd = "no"
      BY <1>3 DEF YesNo, RowsInv, LocalInv
    <3>3. log[s][n].kind \in {"completed", "paid", "failed"} => stripe[s].atEnd = "no"
      BY <3>0, <1>6 DEF EntryOK
    <3>4. log[s][n].kind \in Kinds
      <4>1. log[s] \in Seq(Entry)
        BY DEF RowsInv, TypeInv
      <4>2. log[s][n] \in Entry
        BY <4>1, ElementOfSeq
      <4> QED BY <4>2 DEF Entry
    <3>5. log[s][n].kind = "deleted" => stripe[s].status = "CANCELLED"
      BY <1>6 DEF EntryOK
    <3>6. stripe[s].status # "CANCELLED" => row.atEnd = stripe[s].atEnd
      BY <3>0, <3>2, <3>3, <3>4, <3>5 DEF Kinds
    <3> QED BY <2>2, <3>1, <3>6, <1>3 DEF Shows
  <2>3. CASE t = s /\ n # Len(log[s])
    <3>1. Len(log[s]) \in 1..Len(log[s]) /\ n \in 1..(Len(log[s]) - 1)
      BY <2>3, <1>1
    <3>2. ~Past(s, n)
      BY <1>1 DEF Past, e
    <3>3. ~Started(Newest(s))
      BY <3>1, <3>2 DEF RowsInv, OrderInv, Newest
    <3>4. ~Applied(Newest(s))
      BY <3>3 DEF Applied, Started, Busy
    <3>5. ~Applied(<<s, Len(log[s])>>)'
      BY <3>4, <1>14, <2>3 DEF Newest, e
    <3>6. log[s][Len(log[s])].kind = "completed"
      BY <2>3, <3>5 DEF NewestApplied, Newest
    <3>7. Len(log[s]) = 2 /\ stripe[s].status = "ACTIVE" /\ stripe[s].atEnd = "no"
      <4>1. EntryOK(s, Len(log[s]))
        BY <3>1 DEF RowsInv, StripeInv
      <4>2. log[s][Len(log[s])].status = "ACTIVE" /\ log[s][Len(log[s])].atEnd = "no"
        BY <4>1, <3>6 DEF EntryOK
      <4>3. Len(log[s]) <= 2
        BY <4>1, <3>6 DEF EntryOK
      <4>4. Len(log[s]) >= 2
        BY <1>6 DEF SessionOK
      <4>5. Len(log[s]) = 2
        <5>1. \A k \in Nat : k <= 2 /\ k >= 2 => k = 2
          OBVIOUS
        <5> QED BY <5>1, <4>3, <4>4, <1>1, Zenon
      <4> QED BY <4>2, <4>5, <1>6 DEF SessionOK
    <3>8. n = 1 /\ log[s][n].kind \in {"completed", "paid"}
      <4>1. n = 1
        BY <3>1, <3>7
      <4>2. {log[s][1].kind, log[s][2].kind} = {"completed", "paid"}
        BY <1>6 DEF SessionOK
      <4>3. log[s][1].kind \in {"completed", "paid"}
        BY <4>2
      <4> QED BY <4>1, <4>3
    <3>9. row.status = "ACTIVE" /\ row.atEnd = "no"
      BY <3>7, <3>8, <1>a, <1>3, <1>6, <1>8 DEF EntryOK, YesNo
    <3> QED BY <2>3, <3>7, <3>9, <1>3 DEF Shows, RowStatus
  <2> QED BY <2>1, <2>2, <2>3
<1> QED BY <1>4, <1>5, <1>9, <1>13, <1>15, <1>16 DEF RowsInv

\* An event of a subscription without a row is answered only after the session's,
\* which leaves one: so it is not the newest of those that came in order.
LEMMA NoSubscriptionPreserves ==
  ASSUME RowsInv, NEW h \in Hooks, NoSubscription(h)
  PROVE  RowsInv'
<1> DEFINE e == hook[h].ev
           s == e[1]
           n == e[2]
           new == [pc |-> "mark", ev |-> e]
<1>1. /\ hook[h].pc = "dispatch" /\ local[s].status = "none" /\ log[s][n].kind # "completed"
      /\ UNCHANGED <<local, stripe, log, emitted, record, checkout, inOrder>>
      /\ hook' = [hook EXCEPT ![h].pc = "mark"]
  BY DEF NoSubscription, Handles, Dispatched, W!Goto, steady
<1>2. /\ hook \in [Hooks -> Request] /\ record \in [Events -> W!ProcessingStatus]
      /\ e \in Events /\ e \in emitted /\ Busy(h, e) /\ hook[h] \in Request
      /\ s \in Subs /\ n \in 1..Len(log[s]) /\ e = <<s, n>>
      /\ \A t \in Subs : Len(log[t]) \in Nat
  BY <1>1, RequestTypes
<1>3. new \in Request /\ [hook[h] EXCEPT !.pc = "mark"] = new
  BY <1>2 DEF Request
<1>4. hook' = [hook EXCEPT ![h] = new]
  BY <1>1, <1>3
<1> HIDE DEF e, s, n
<1>5. /\ hook' \in [Hooks -> Request] /\ hook'[h] = new /\ new.pc = "mark" /\ new.ev = e
      /\ \A g \in Hooks : g # h => hook'[g] = hook[g]
  BY <1>2, <1>3, <1>4
<1> HIDE DEF new
<1>6. TypeInv' /\ RequestInv'
  <2>1. TypeInv'
    BY <1>1, <1>5 DEF RowsInv, TypeInv, W!WebhookTypeOK, Request
  <2>2. \A g \in Hooks : hook'[g].pc # "idle" => hook'[g].ev \in emitted
    BY <1>2, <1>5 DEF RowsInv, RequestInv
  <2> QED BY <1>1, <2>1, <2>2 DEF RowsInv, RequestInv
<1>7. StripeInv' /\ LocalInv'
  <2>1. \A t : SessionOK(t)' <=> SessionOK(t)
    BY <1>1 DEF SessionOK
  <2>2. \A t, m : EntryOK(t, m)' <=> EntryOK(t, m)
    BY <1>1 DEF EntryOK
  <2>3. StripeInv'
    BY <1>1, <2>1, <2>2 DEF RowsInv, StripeInv
  <2> QED BY <1>1, <2>3 DEF RowsInv, LocalInv
<1>8. ASSUME NEW g \in Hooks, NEW f, Busy(g, f)' PROVE Busy(g, f)
  BY <1>2, <1>5, <1>8 DEF Busy
<1>9. ASSUME NEW t \in Subs, NEW m \in 1..Len(log[t]), Past(t, m) PROVE Past(t, m)'
  BY <1>1, <1>8, <1>9 DEF Past
<1>10. \A f : Started(f)' => Started(f)
  BY <1>1, <1>8 DEF Started
<1>11. OrderInv'
  <2> SUFFICES ASSUME inOrder, NEW t \in Subs, NEW k \in 1..Len(log[t]), Started(<<t, k>>)',
                      NEW m \in 1..(k - 1)
               PROVE  Past(t, m)'
    BY <1>1 DEF OrderInv
  <2>1. m \in 1..Len(log[t])
    BY <1>2
  <2>2. Past(t, m)
    BY <1>10 DEF RowsInv, OrderInv
  <2> QED BY <2>1, <2>2, <1>9
<1>12. \A f : Applied(f)' => Applied(f) \/ f = e
  BY <1>1, <1>5 DEF Applied
<1>13. ActiveInv'
  <2> SUFFICES ASSUME NEW t \in Subs, NEW k \in 1..Len(log[t]), log[t][k].kind = "completed",
                      Applied(<<t, k>>)'
               PROVE  local[t].status # "none"
    BY <1>1 DEF ActiveInv
  <2>1. <<t, k>> # e
    BY <1>1, <1>2
  <2> QED BY <2>1, <1>12 DEF RowsInv, ActiveInv
<1>14. inOrder => n # Len(log[s])
  <2> SUFFICES ASSUME inOrder, n = Len(log[s]) PROVE FALSE
    OBVIOUS
  <2>1. log[s] # <<>> /\ SessionOK(s)
    BY <1>2, EmptySeq DEF RowsInv, StripeInv
  <2>2. Len(log[s]) >= 2 /\ {log[s][1].kind, log[s][2].kind} = {"completed", "paid"}
    BY <2>1 DEF SessionOK
  <2>3. PICK m \in {1, 2} : log[s][m].kind = "completed"
    BY <2>2
  <2>4. m # n /\ m \in 1..(n - 1) /\ m \in 1..Len(log[s])
    BY <2>2, <2>3, <1>1, <1>2
  <2>5. Past(s, m)
    BY <2>4, <1>2 DEF RowsInv, OrderInv, Started
  <2>6. record[<<s, m>>] = "PROCESSED"
    BY <2>5, <1>1 DEF Past
  <2> QED BY <2>3, <2>4, <2>6, <1>1, <1>2 DEF RowsInv, ActiveInv, Applied
<1>15. ShowsInv'
  <2> SUFFICES ASSUME inOrder, NEW t \in Subs, stripe[t].status \in StripeStatus, NewestApplied(t)'
               PROVE  Shows(t)
    BY <1>1 DEF ShowsInv, Shows
  <2>1. Newest(t) # e
    BY <1>2, <1>14 DEF Newest
  <2>2. NewestApplied(t)
    BY <2>1, <1>1, <1>12 DEF NewestApplied, Newest
  <2> QED BY <2>2 DEF RowsInv, ShowsInv
<1> QED BY <1>6, <1>7, <1>11, <1>13, <1>15 DEF RowsInv

\* The six handlers.
LEMMA DispatchPreserves ==
  ASSUME RowsInv, NEW h \in Hooks, Dispatch(h)
  PROVE  RowsInv'
<1>1. CASE ActivateRollback(h)
  BY <1>1, RequestStepsPreserve
<1>2. CASE NoSubscription(h)
  BY <1>2, NoSubscriptionPreserves
<1>3. ASSUME Activate(h) \/ HandleUpdated(h) \/ HandleDeleted(h) \/ HandleInvoicePaid(h)
               \/ HandlePaymentFailed(h)
      PROVE  RowsInv'
  <2> DEFINE s == hook[h].ev[1]
             n == hook[h].ev[2]
  <2>1. /\ hook[h].pc = "dispatch" /\ hook' = [hook EXCEPT ![h].pc = "mark"]
        /\ UNCHANGED <<stripe, log, emitted, record, checkout, inOrder>>
    BY <1>3 DEF Activate, HandleUpdated, HandleDeleted, HandleInvoicePaid, HandlePaymentFailed,
       Handles, Dispatched, W!Goto, steady
  <2>2. /\ hook[h].ev = <<s, n>> /\ s \in Subs /\ n \in 1..Len(log[s]) /\ hook[h] \in Request
    BY <2>1, RequestTypes
  <2>3. [hook[h] EXCEPT !.pc = "mark"] = [pc |-> "mark", ev |-> <<s, n>>]
    BY <2>2 DEF Request
  <2>4. hook' = [hook EXCEPT ![h] = [pc |-> "mark", ev |-> <<s, n>>]]
    BY <2>1, <2>3
  <2>5. /\ log[s][n] \in Entry /\ EntryOK(s, n)
        /\ local[s] \in [status : {"none"} \cup Status, atEnd : YesNo]
    <3>1. log[s] \in Seq(Entry)
      BY <2>2 DEF RowsInv, TypeInv
    <3>2. log[s][n] \in Entry
      BY <2>2, <3>1, ElementOfSeq
    <3> QED BY <2>2, <3>2 DEF RowsInv, TypeInv, StripeInv
  <2> DEFINE sent == log[s][n]
  <2>6. ASSUME NEW new \in Status
        PROVE  /\ [local EXCEPT ![s].status = new]
                    = [local EXCEPT ![s] = [status |-> new, atEnd |-> local[s].atEnd]]
               /\ [status |-> new, atEnd |-> local[s].atEnd] \in [status : Status, atEnd : YesNo]
    <3>1. [local[s] EXCEPT !.status = new] = [status |-> new, atEnd |-> local[s].atEnd]
      BY <2>5
    <3> QED BY <3>1, <2>5
  <2> HIDE DEF s, n
  <2>7. ASSUME NEW row \in [status : Status, atEnd : YesNo],
               local' = [local EXCEPT ![s] = row],
               \/ row.status = RowStatus(sent.status)
               \/ row.status = local[s].status /\ sent.kind = "paid",
               row.atEnd = sent.atEnd \/ (row.atEnd = local[s].atEnd /\ sent.kind # "updated"),
               sent.kind = "completed" => local[s].status = "none"
        PROVE  RowsInv'
    BY <2>1, <2>2, <2>4, <2>7, HandlerPreserves
  <2>8. CASE Activate(h)
    <3> DEFINE row == [status |-> "ACTIVE", atEnd |-> "no"]
    <3>1. /\ local' = [local EXCEPT ![s] = row] /\ row \in [status : Status, atEnd : YesNo]
          /\ row.status = RowStatus(sent.status)
          /\ row.atEnd = sent.atEnd \/ (row.atEnd = local[s].atEnd /\ sent.kind # "updated")
          /\ sent.kind = "completed" => local[s].status = "none"
      BY <2>8, <2>5, <2>6 DEF Activate, RowStatus, Handles, EntryOK, Status, StripeStatus, YesNo, s, n
    <3> QED BY <3>1, <2>7
  <2>9. CASE HandleUpdated(h)
    <3> DEFINE row == [status |-> RowStatus(sent.status), atEnd |-> sent.atEnd]
    <3>1. /\ local' = [local EXCEPT ![s] = row] /\ row \in [status : Status, atEnd : YesNo]
          /\ row.status = RowStatus(sent.status)
          /\ row.atEnd = sent.atEnd \/ (row.atEnd = local[s].atEnd /\ sent.kind # "updated")
          /\ sent.kind = "completed" => local[s].status = "none"
      BY <2>9, <2>5, <2>6 DEF HandleUpdated, RowStatus, Handles, Entry, Status, StripeStatus, s, n
    <3> QED BY <3>1, <2>7
  <2>10. CASE HandleDeleted(h)
    <3> DEFINE row == [status |-> "CANCELLED", atEnd |-> local[s].atEnd]
    <3>1. /\ local' = [local EXCEPT ![s] = row] /\ row \in [status : Status, atEnd : YesNo]
          /\ row.status = RowStatus(sent.status)
          /\ row.atEnd = sent.atEnd \/ (row.atEnd = local[s].atEnd /\ sent.kind # "updated")
          /\ sent.kind = "completed" => local[s].status = "none"
      BY <2>10, <2>5, <2>6 DEF HandleDeleted, RowStatus, Handles, EntryOK, Status, StripeStatus, s, n
    <3> QED BY <3>1, <2>7
  <2>11. CASE HandleInvoicePaid(h)
    <3>1. sent.kind = "paid" /\ local[s].status # "none"
          /\ local' \in {local, [local EXCEPT ![s].status = "ACTIVE"]}
      BY <2>11 DEF HandleInvoicePaid, Handles, s, n
    <3>2. CASE local' = [local EXCEPT ![s].status = "ACTIVE"]
      <4> DEFINE row == [status |-> "ACTIVE", atEnd |-> local[s].atEnd]
      <4>1. /\ local' = [local EXCEPT ![s] = row] /\ row \in [status : Status, atEnd : YesNo]
            /\ row.status = RowStatus(sent.status)
            /\ row.atEnd = local[s].atEnd /\ sent.kind # "updated" /\ sent.kind # "completed"
        BY <3>1, <3>2, <2>5, <2>6 DEF EntryOK, RowStatus, Status
      <4> QED BY <4>1, <2>7
    <3>3. CASE local' = local
      <4>0. local \in [Subs -> [status : {"none"} \cup Status, atEnd : YesNo]]
        BY DEF RowsInv, TypeInv
      <4>1. local' = [local EXCEPT ![s] = local[s]] /\ local[s] \in [status : Status, atEnd : YesNo]
        BY <4>0, <3>1, <3>3, <2>5
      <4> QED BY <4>1, <3>1, <2>7
    <3> QED BY <3>1, <3>2, <3>3
  <2>12. CASE HandlePaymentFailed(h)
    <3> DEFINE row == [status |-> "PAST_DUE", atEnd |-> local[s].atEnd]
    <3>1. /\ local' = [local EXCEPT ![s] = row] /\ row \in [status : Status, atEnd : YesNo]
          /\ row.status = RowStatus(sent.status)
          /\ row.atEnd = sent.atEnd \/ (row.atEnd = local[s].atEnd /\ sent.kind # "updated")
          /\ sent.kind = "completed" => local[s].status = "none"
      BY <2>12, <2>5, <2>6 DEF HandlePaymentFailed, RowStatus, Handles, EntryOK, Status, StripeStatus, s, n
    <3> QED BY <3>1, <2>7
  <2> QED BY <1>3, <2>8, <2>9, <2>10, <2>11, <2>12
<1> QED BY <1>1, <1>2, <1>3 DEF Dispatch

-----------------------------------------------------------------------------
(* Stripe and the two requests of the user *)

\* A change that Emits logs, for lists of kinds that Lawful allows.
LEMMA EmitsPreserves ==
  ASSUME RowsInv, NEW s \in Subs, NEW new \in StripeStatus, NEW atEnd \in YesNo, NEW kinds \in Seq(Kinds),
         Len(kinds) > 0, Emits(s, new, atEnd, kinds), UNCHANGED <<local, checkout, inOrder>>,
         stripe[s].status = "open" \/ Running(s),
         stripe[s].atEnd = "yes" => atEnd = "yes",
         \A i \in 1..Len(kinds) :
           /\ kinds[i] \in {"completed", "paid"} => new = "ACTIVE" /\ atEnd = "no"
           /\ kinds[i] = "failed" => new = "PAST_DUE" /\ atEnd = "no"
           /\ kinds[i] = "deleted" => new = "CANCELLED"
           /\ kinds[i] = "completed" => Len(kinds) = 2 /\ stripe[s].status = "open",
         stripe[s].status = "open" =>
           Len(kinds) = 2 /\ {kinds[1], kinds[2]} = {"completed", "paid"},
         stripe[s].status = "open" \/ kinds[Len(kinds)] # "paid"
  PROVE  /\ RowsInv'
         /\ \A t \in Subs : /\ stripe[t].status = "CANCELLED" => stripe'[t].status = "CANCELLED"
                            /\ stripe[t].atEnd = "yes" => stripe'[t].atEnd = "yes"
         /\ stripe'[s].status = new /\ stripe'[s].atEnd = atEnd
<1>1. /\ Grows(s, new, atEnd) /\ Len(log'[s]) = Len(log[s]) + Len(kinds)
      /\ \A n \in 1..Len(kinds) : log'[s][Len(log[s]) + n].kind = kinds[n]
  BY EmitsGrows DEF RowsInv
<1>2. Len(log[s]) \in Nat /\ Len(kinds) \in Nat
  BY DEF RowsInv, TypeInv
<1>3. stripe[s].status = "open" => Len(log[s]) = 0
  BY EmptySeq DEF RowsInv, StripeInv, SessionOK, Status, StripeStatus
<1>4. Lawful(s, new, atEnd)
  <2>1. ASSUME NEW n \in (Len(log[s]) + 1)..Len(log'[s])
        PROVE  /\ log'[s][n].kind \in {"completed", "paid"} => new = "ACTIVE" /\ atEnd = "no"
               /\ log'[s][n].kind = "failed" => new = "PAST_DUE" /\ atEnd = "no"
               /\ log'[s][n].kind = "deleted" => new = "CANCELLED"
               /\ log'[s][n].kind = "completed" => n <= 2 /\ stripe[s].status = "open"
    <3> DEFINE i == n - Len(log[s])
    <3>1. i \in 1..Len(kinds) /\ n = Len(log[s]) + i
      <4>1. n \in (Len(log[s]) + 1)..(Len(log[s]) + Len(kinds))
        BY <1>1
      <4>2. \A k, l \in Nat : \A m \in (k + 1)..(k + l) : m - k \in 1..l /\ m = k + (m - k)
        OBVIOUS
      <4> QED BY <4>1, <4>2, <1>2, Zenon
    <3> HIDE DEF i
    <3>2. log'[s][n].kind = kinds[i]
      BY <1>1, <3>1
    <3>3. kinds[i] = "completed" => n <= 2
      BY <1>2, <1>3, <3>1
    <3> QED BY <3>1, <3>2, <3>3
  <2>2. stripe[s].status = "open" =>
          Len(log'[s]) >= 2 /\ {log'[s][1].kind, log'[s][2].kind} = {"completed", "paid"}
    <3> HAVE stripe[s].status = "open"
    <3>1. Len(kinds) = 2 /\ Len(log[s]) = 0 /\ Len(log[s]) + 1 = 1 /\ Len(log[s]) + 2 = 2
      BY <1>3
    <3>2. log'[s][1].kind = kinds[1] /\ log'[s][2].kind = kinds[2]
      BY <3>1, <1>1
    <3>3. {kinds[1], kinds[2]} = {"completed", "paid"}
      OBVIOUS
    <3>4. Len(log'[s]) >= 2
      BY <1>1, <3>1
    <3> QED BY <3>2, <3>3, <3>4
  <2>3. Len(log'[s]) > 2 => log'[s][Len(log'[s])].kind # "paid"
    <3> HAVE Len(log'[s]) > 2
    <3>1. stripe[s].status # "open"
      BY <1>1, <1>2, <1>3
    <3>2. Len(kinds) \in 1..Len(kinds) /\ kinds[Len(kinds)] # "paid"
      BY <3>1, <1>2
    <3>3. log'[s][Len(log[s]) + Len(kinds)].kind = kinds[Len(kinds)]
      BY <3>2, <1>1
    <3> QED BY <3>2, <3>3, <1>1
  <2> QED BY <2>1, <2>2, <2>3 DEF Lawful
<1>5. stripe'[s].status = new /\ stripe'[s].atEnd = atEnd
  BY <1>1 DEF Grows, RowsInv, TypeInv
<1> QED BY <1>1, <1>4, <1>5, GrowsPreserves

\* The same for a change that one event reports, and for one that two report.
LEMMA OneEventPreserves ==
  ASSUME RowsInv, NEW s \in Subs, NEW new \in StripeStatus, NEW atEnd \in YesNo,
         NEW kind \in {"updated", "deleted"},
         Emits(s, new, atEnd, <<kind>>), UNCHANGED <<local, checkout, inOrder>>,
         Running(s), stripe[s].atEnd = "yes" => atEnd = "yes",
         kind = "deleted" => new = "CANCELLED"
  PROVE  /\ RowsInv'
         /\ \A t \in Subs : /\ stripe[t].status = "CANCELLED" => stripe'[t].status = "CANCELLED"
                            /\ stripe[t].atEnd = "yes" => stripe'[t].atEnd = "yes"
         /\ stripe'[s].status = new /\ stripe'[s].atEnd = atEnd
<1> DEFINE kinds == <<kind>>
<1>1. kinds \in Seq(Kinds) /\ Len(kinds) = 1 /\ \A i \in 1..Len(kinds) : kinds[i] = kind
  BY DEF Kinds
<1>2. Emits(s, new, atEnd, kinds) /\ stripe[s].status # "open"
  BY DEF Running
<1> HIDE DEF kinds
<1>3. \A i \in 1..Len(kinds) :
        /\ kinds[i] \in {"completed", "paid"} => new = "ACTIVE" /\ atEnd = "no"
        /\ kinds[i] = "failed" => new = "PAST_DUE" /\ atEnd = "no"
        /\ kinds[i] = "deleted" => new = "CANCELLED"
        /\ kinds[i] = "completed" => Len(kinds) = 2 /\ stripe[s].status = "open"
  BY <1>1
<1>4. stripe[s].status = "open" => Len(kinds) = 2 /\ {kinds[1], kinds[2]} = {"completed", "paid"}
  BY <1>1, <1>2
<1>5. Len(kinds) > 0
  BY <1>1
<1>6. kinds[Len(kinds)] # "paid"
  BY <1>1
<1> QED BY <1>1, <1>2, <1>3, <1>4, <1>5, <1>6, EmitsPreserves

LEMMA TwoEventsPreserve ==
  ASSUME RowsInv, NEW s \in Subs, NEW new \in StripeStatus, NEW first \in Kinds, NEW second \in Kinds,
         Emits(s, new, "no", <<first, second>>), UNCHANGED <<local, checkout, inOrder>>,
         stripe[s].status = "open" \/ Running(s), stripe[s].atEnd = "no",
         \A kind \in {first, second} :
           /\ kind \in {"completed", "paid"} => new = "ACTIVE"
           /\ kind = "failed" => new = "PAST_DUE"
           /\ kind # "deleted"
           /\ kind = "completed" => stripe[s].status = "open",
         stripe[s].status = "open" => {first, second} = {"completed", "paid"},
         stripe[s].status = "open" \/ second # "paid"
  PROVE  /\ RowsInv'
         /\ \A t \in Subs : /\ stripe[t].status = "CANCELLED" => stripe'[t].status = "CANCELLED"
                            /\ stripe[t].atEnd = "yes" => stripe'[t].atEnd = "yes"
<1> DEFINE kinds == <<first, second>>
<1>1. /\ kinds \in Seq(Kinds) /\ Len(kinds) = 2 /\ kinds[1] = first /\ kinds[2] = second
      /\ \A i \in 1..Len(kinds) : kinds[i] \in {first, second}
  OBVIOUS
<1>2. Emits(s, new, "no", kinds) /\ "no" \in YesNo
  BY DEF YesNo
<1> HIDE DEF kinds
<1>3. \A i \in 1..Len(kinds) :
        /\ kinds[i] \in {"completed", "paid"} => new = "ACTIVE"
        /\ kinds[i] = "failed" => new = "PAST_DUE"
        /\ kinds[i] = "deleted" => new = "CANCELLED"
        /\ kinds[i] = "completed" => Len(kinds) = 2 /\ stripe[s].status = "open"
  BY <1>1
<1>4. stripe[s].status = "open" => Len(kinds) = 2 /\ {kinds[1], kinds[2]} = {"completed", "paid"}
  BY <1>1, <1>2
<1>5. Len(kinds) > 0
  BY <1>1
<1>6. stripe[s].status = "open" \/ kinds[Len(kinds)] # "paid"
  BY <1>1
<1> QED BY <1>1, <1>2, <1>3, <1>4, <1>5, <1>6, EmitsPreserves

\* What Stripe does on its own.
LEMMA StripeStepsPreserve ==
  ASSUME Inv, NEW s \in Subs,
         Subscribe(s) \/ Renew(s) \/ RenewalFails(s) \/ PauseOrResume(s) \/ PeriodEnds(s)
  PROVE  Inv'
<1> DEFINE Goal == /\ RowsInv'
                   /\ \A t \in Subs :
                        /\ stripe[t].status = "CANCELLED" => stripe'[t].status = "CANCELLED"
                        /\ stripe[t].atEnd = "yes" => stripe'[t].atEnd = "yes"
<1>1. RowsInv /\ UNCHANGED <<local, checkout, cancel, inOrder>>
  BY DEF Inv, Subscribe, Renew, RenewalFails, PauseOrResume, PeriodEnds, steady
<1>2. stripe[s] \in [status : {"none", "open"} \cup StripeStatus, atEnd : YesNo]
  BY <1>1 DEF RowsInv, TypeInv
<1>3. stripe[s].status = "open" => stripe[s].atEnd = "no"
  BY <1>1 DEF RowsInv, StripeInv, SessionOK, Status, StripeStatus
<1>4. /\ "ACTIVE" \in StripeStatus /\ "PAST_DUE" \in StripeStatus /\ "CANCELLED" \in StripeStatus
      /\ "no" \in YesNo /\ "yes" \in YesNo
  BY DEF Status, StripeStatus, YesNo
<1>5. Kinds = {"completed", "paid", "failed", "updated", "deleted"}
  BY DEF Kinds
<1>6. ASSUME Subscribe(s) PROVE Goal
  <2>1. stripe[s].status = "open"
    BY <1>6 DEF Subscribe
  <2>2. CASE Emits(s, "ACTIVE", "no", <<"completed", "paid">>)
    BY <2>1, <2>2, <1>1, <1>3, <1>4, <1>5, TwoEventsPreserve
  <2>3. CASE Emits(s, "ACTIVE", "no", <<"paid", "completed">>)
    BY <2>1, <2>3, <1>1, <1>3, <1>4, <1>5, TwoEventsPreserve
  <2> QED BY <1>6, <2>2, <2>3 DEF Subscribe
<1>7. ASSUME Renew(s) PROVE Goal
  <2>1. Running(s) /\ stripe[s].atEnd = "no" /\ stripe[s].status # "open"
    BY <1>7 DEF Renew, Running
  <2>2. Emits(s, "ACTIVE", "no", <<"paid", "updated">>)
    BY <1>7 DEF Renew
  <2> QED BY <2>1, <2>2, <1>1, <1>4, <1>5, TwoEventsPreserve
<1>8. ASSUME RenewalFails(s) PROVE Goal
  <2>1. Running(s) /\ stripe[s].atEnd = "no" /\ stripe[s].status # "open"
    BY <1>8 DEF RenewalFails, Running
  <2>2. Emits(s, "PAST_DUE", "no", <<"failed", "updated">>)
    BY <1>8 DEF RenewalFails
  <2> QED BY <2>1, <2>2, <1>1, <1>4, <1>5, TwoEventsPreserve
<1>9. ASSUME PeriodEnds(s) PROVE Goal
  <2>1. Running(s) /\ Emits(s, "CANCELLED", "yes", <<"deleted">>)
    BY <1>9 DEF PeriodEnds
  <2> QED BY <2>1, <1>1, <1>4, OneEventPreserves
<1>10. ASSUME PauseOrResume(s) PROVE Goal
  <2>1. Running(s) /\ stripe[s].atEnd = "no" /\ "PAUSED" \in StripeStatus
    BY <1>10 DEF PauseOrResume, Running, StripeStatus
  <2>2. Emits(s, "PAUSED", "no", <<"updated">>) \/ Emits(s, "ACTIVE", "no", <<"updated">>)
    BY <1>10 DEF PauseOrResume
  <2> QED BY <2>1, <2>2, <1>1, <1>4, OneEventPreserves
<1>11. Goal
  BY <1>6, <1>7, <1>8, <1>9, <1>10
<1> QED BY <1>1, <1>11 DEF Inv, CancelInv, CancelOK

\* The checkout, which opens a session once.
LEMMA CheckoutPreserves ==
  ASSUME Inv, NEW s \in Subs, CheckConflict(s) \/ OpenSession(s)
  PROVE  Inv'
<1>1. UNCHANGED <<local, log, emitted, record, hook, cancel, inOrder>>
  BY DEF CheckConflict, OpenSession, webhook, steady
<1>2. RowsInv /\ checkout \in [Subs -> {"idle", "checked", "done"}]
      /\ stripe \in [Subs -> [status : {"none", "open"} \cup StripeStatus, atEnd : YesNo]]
  BY DEF Inv, RowsInv, TypeInv
<1>3. /\ \A t \in Subs : /\ stripe'[t].atEnd = stripe[t].atEnd
                         /\ stripe[t].status \in StripeStatus => stripe'[t].status = stripe[t].status
                         /\ stripe'[t].status \in StripeStatus => stripe[t].status \in StripeStatus
      /\ stripe' \in [Subs -> [status : {"none", "open"} \cup StripeStatus, atEnd : YesNo]]
      /\ checkout' \in [Subs -> {"idle", "checked", "done"}]
      /\ \A t \in Subs : checkout'[t] # "done" => checkout[t] # "done" /\ stripe'[t] = stripe[t]
  <2>1. CASE CheckConflict(s)
    <3>1. stripe' = stripe /\ checkout' = [checkout EXCEPT ![s] = "checked"] /\ checkout[s] = "idle"
      BY <2>1 DEF CheckConflict
    <3> QED BY <3>1, <1>2
  <2>2. CASE OpenSession(s)
    <3>1. /\ stripe' = [stripe EXCEPT ![s].status = "open"] /\ checkout[s] = "checked"
          /\ checkout' = [checkout EXCEPT ![s] = "done"]
      BY <2>2 DEF OpenSession
    <3>2. stripe[s].status = "none"
      BY <3>1, <1>2 DEF RowsInv, StripeInv, SessionOK
    <3>3. /\ stripe'[s].status = "open" /\ stripe'[s].atEnd = stripe[s].atEnd
          /\ \A t \in Subs : t # s => stripe'[t] = stripe[t] /\ checkout'[t] = checkout[t]
          /\ checkout'[s] = "done"
      BY <3>1, <1>2
    <3>4. /\ stripe' \in [Subs -> [status : {"none", "open"} \cup StripeStatus, atEnd : YesNo]]
          /\ checkout' \in [Subs -> {"idle", "checked", "done"}]
      BY <3>1, <1>2
    <3> QED BY <3>2, <3>3, <3>4 DEF Status, StripeStatus
  <2> QED BY <2>1, <2>2
<1>4. TypeInv' /\ RequestInv'
  BY <1>1, <1>2, <1>3 DEF RowsInv, TypeInv, RequestInv, W!WebhookTypeOK
<1>5. StripeInv'
  <2> SUFFICES ASSUME NEW t \in Subs
               PROVE  SessionOK(t)' /\ \A n \in 1..Len(log[t]) : EntryOK(t, n)'
    BY <1>1 DEF StripeInv
  <2>1. SessionOK(t) /\ \A n \in 1..Len(log[t]) : EntryOK(t, n)
    BY <1>2 DEF RowsInv, StripeInv
  <2>2. SessionOK(t)'
    BY <2>1, <1>1, <1>3 DEF SessionOK
  <2>3. "CANCELLED" \in StripeStatus
    BY DEF Status, StripeStatus
  <2>4. \A n \in 1..Len(log[t]) : EntryOK(t, n)'
    BY <2>1, <2>3, <1>1, <1>3 DEF EntryOK
  <2> QED BY <2>2, <2>4
<1>6. LocalInv'
  BY <1>1, <1>2, <1>3 DEF RowsInv, LocalInv, Status, StripeStatus
<1>7. OrderInv' /\ ActiveInv'
  <2>1. OrderInv'
    BY <1>1, <1>2 DEF RowsInv, OrderInv, Started, Busy, Past
  <2>2. ActiveInv'
    BY <1>1, <1>2 DEF RowsInv, ActiveInv, Applied
  <2> QED BY <2>1, <2>2
<1>8. ShowsInv'
  <2> SUFFICES ASSUME inOrder, NEW t \in Subs, stripe'[t].status \in StripeStatus, NewestApplied(t)'
               PROVE  Shows(t)'
    BY <1>1 DEF ShowsInv
  <2>1. NewestApplied(t)
    BY <1>1 DEF NewestApplied, Newest, Applied
  <2>2. Shows(t)
    BY <2>1, <1>2, <1>3 DEF RowsInv, ShowsInv
  <2> QED BY <2>2, <1>1, <1>3 DEF Shows
<1>9. CancelInv'
  BY <1>1, <1>3 DEF Inv, CancelInv, CancelOK, Status, StripeStatus
<1> QED BY <1>4, <1>5, <1>6, <1>7, <1>8, <1>9 DEF Inv, RowsInv

\* The cancellation: what it will write is true at Stripe from its call on.
LEMMA CancelStepsPreserve ==
  ASSUME Inv, NEW c \in Cancellers,
         \/ \E s \in Subs, at \in {"now", "end"} : RequestCancel(c, s, at)
         \/ CancelAtStripe(c) \/ CancelLost(c)
  PROVE  Inv'
<1>1. cancel \in [Cancellers -> Cancellation] /\ RowsInv /\ cancel[c] \in Cancellation
  BY DEF Inv, CancelInv
<1>2. IdleCancel \in Cancellation /\ IdleCancel.pc = "idle"
  BY DEF Cancellation, IdleCancel
<1>3. ASSUME UNCHANGED <<local, stripe, log, emitted, record, hook, checkout, inOrder>>
      PROVE  RowsInv'
  <2>1. TypeInv' /\ RequestInv' /\ LocalInv'
    BY <1>1, <1>3 DEF RowsInv, TypeInv, RequestInv, W!WebhookTypeOK, LocalInv
  <2>2. StripeInv'
    <3>1. \A t : SessionOK(t)' <=> SessionOK(t)
      BY <1>3 DEF SessionOK
    <3>2. \A t, n : EntryOK(t, n)' <=> EntryOK(t, n)
      BY <1>3 DEF EntryOK
    <3> QED BY <3>1, <3>2, <1>1, <1>3 DEF RowsInv, StripeInv
  <2>3. OrderInv'
    BY <1>1, <1>3 DEF RowsInv, OrderInv, Started, Busy, Past
  <2>4. ActiveInv'
    BY <1>1, <1>3 DEF RowsInv, ActiveInv, Applied
  <2>5. ShowsInv'
    BY <1>1, <1>3 DEF RowsInv, ShowsInv, NewestApplied, Newest, Applied, Shows
  <2> QED BY <2>1, <2>2, <2>3, <2>4, <2>5 DEF RowsInv
<1>4. ASSUME NEW new \in Cancellation, cancel' = [cancel EXCEPT ![c] = new],
             \A t \in Subs : /\ stripe[t].status = "CANCELLED" => stripe'[t].status = "CANCELLED"
                             /\ stripe[t].atEnd = "yes" => stripe'[t].atEnd = "yes",
             new.pc # "idle" => new.sub \in Subs,
             new.pc = "write" => IF new.at = "now" THEN stripe'[new.sub].status = "CANCELLED"
                                 ELSE stripe'[new.sub].atEnd = "yes"
      PROVE  CancelInv'
  <2>1. cancel' \in [Cancellers -> Cancellation] /\ cancel'[c] = new
        /\ \A d \in Cancellers : d # c => cancel'[d] = cancel[d]
    BY <1>1, <1>4
  <2>2. CancelOK(c)'
    BY <2>1, <1>4 DEF CancelOK
  <2>3. ASSUME NEW d \in Cancellers, d # c PROVE CancelOK(d)'
    <3>1. CancelOK(d) /\ cancel'[d] = cancel[d]
      BY <2>1, <2>3 DEF Inv, CancelInv
    <3>2. cancel[d].pc # "idle" => cancel[d].sub \in Subs
      BY <3>1 DEF CancelOK
    <3>3. ASSUME cancel[d].pc = "write", cancel[d].at = "now"
          PROVE  stripe'[cancel[d].sub].status = "CANCELLED"
      <4>1. stripe[cancel[d].sub].status = "CANCELLED" /\ cancel[d].sub \in Subs
        BY <3>1, <3>2, <3>3 DEF CancelOK
      <4> QED BY <4>1, <1>4
    <3>4. ASSUME cancel[d].pc = "write", cancel[d].at # "now"
          PROVE  stripe'[cancel[d].sub].atEnd = "yes"
      <4>1. stripe[cancel[d].sub].atEnd = "yes" /\ cancel[d].sub \in Subs
        BY <3>1, <3>2, <3>4 DEF CancelOK
      <4> QED BY <4>1, <1>4
    <3> QED BY <3>1, <3>2, <3>3, <3>4 DEF CancelOK
  <2> QED BY <2>1, <2>2, <2>3 DEF CancelInv
<1>5. ASSUME NEW s \in Subs, NEW at \in {"now", "end"}, RequestCancel(c, s, at)
      PROVE  Inv'
  <2> DEFINE new == [pc |-> "stripe", sub |-> s, at |-> at]
  <2>1. /\ new \in Cancellation /\ new.pc = "stripe" /\ new.sub \in Subs
    BY DEF Cancellation
  <2>2. cancel' = [cancel EXCEPT ![c] = new]
        /\ UNCHANGED <<local, stripe, log, emitted, record, hook, checkout, inOrder>>
    BY <1>5 DEF RequestCancel, webhook, steady
  <2> HIDE DEF new
  <2>3. CancelInv'
    BY <2>1, <2>2, <1>4
  <2> QED BY <2>2, <2>3, <1>3 DEF Inv
<1>6. ASSUME cancel' = [cancel EXCEPT ![c] = IdleCancel],
             UNCHANGED <<local, stripe, log, emitted, record, hook, checkout, inOrder>>
      PROVE  Inv'
  <2>1. CancelInv'
    BY <1>2, <1>4, <1>6
  <2> QED BY <2>1, <1>3, <1>6 DEF Inv
<1>7. ASSUME CancelAtStripe(c) PROVE Inv'
  <2> DEFINE s == cancel[c].sub
             new == [pc |-> "write", sub |-> s, at |-> cancel[c].at]
  <2>1. cancel[c].pc = "stripe" /\ s \in Subs /\ UNCHANGED <<local, checkout, inOrder>>
    BY <1>7 DEF CancelAtStripe, Inv, CancelInv, CancelOK, steady
  <2>2. new \in Cancellation /\ [cancel[c] EXCEPT !.pc = "write"] = new /\ new.pc = "write"
        /\ new.sub = s /\ new.at = cancel[c].at /\ cancel[c].at \in {"now", "end"}
    BY <1>1 DEF Cancellation
  <2>3. stripe[s].atEnd \in YesNo /\ stripe[s].status \in {"none", "open"} \cup StripeStatus
    BY <1>1, <2>1 DEF RowsInv, TypeInv
  <2> HIDE DEF s, new
  <2>4. CASE Running(s) /\ cancel[c].at = "now" /\ cancel' = [cancel EXCEPT ![c].pc = "write"]
             /\ Emits(s, "CANCELLED", stripe[s].atEnd, <<"deleted">>)
    <3>1. /\ RowsInv' /\ stripe'[s].status = "CANCELLED"
          /\ \A t \in Subs : /\ stripe[t].status = "CANCELLED" => stripe'[t].status = "CANCELLED"
                             /\ stripe[t].atEnd = "yes" => stripe'[t].atEnd = "yes"
      BY <2>1, <2>3, <2>4, <1>1, OneEventPreserves DEF Status, StripeStatus
    <3>2. cancel' = [cancel EXCEPT ![c] = new]
      BY <2>2, <2>4
    <3>3. CancelInv'
      BY <3>1, <3>2, <2>1, <2>2, <2>4, <1>4
    <3> QED BY <3>1, <3>3 DEF Inv
  <2>5. CASE Running(s) /\ cancel[c].at = "end" /\ cancel' = [cancel EXCEPT ![c].pc = "write"]
             /\ Emits(s, stripe[s].status, "yes", <<"updated">>)
    <3>0. stripe[s].status \in StripeStatus /\ "yes" \in YesNo
      BY <2>5 DEF Running, Status, StripeStatus, YesNo
    <3>1. /\ RowsInv' /\ stripe'[s].atEnd = "yes"
          /\ \A t \in Subs : /\ stripe[t].status = "CANCELLED" => stripe'[t].status = "CANCELLED"
                             /\ stripe[t].atEnd = "yes" => stripe'[t].atEnd = "yes"
      BY <3>0, <2>1, <2>5, <1>1, OneEventPreserves
    <3>2. cancel' = [cancel EXCEPT ![c] = new]
      BY <2>2, <2>5
    <3>3. CancelInv'
      BY <3>1, <3>2, <2>1, <2>2, <2>5, <1>4
    <3> QED BY <3>1, <3>3 DEF Inv
  <2>6. CASE cancel' = [cancel EXCEPT ![c] = IdleCancel] /\ UNCHANGED <<stripe, log, webhook>>
    BY <2>1, <2>6, <1>6 DEF webhook
  <2> QED BY <1>7, <2>2, <2>4, <2>5, <2>6 DEF CancelAtStripe, s
<1>8. ASSUME CancelLost(c) PROVE Inv'
  BY <1>6, <1>8 DEF CancelLost, webhook
<1> QED BY <1>5, <1>7, <1>8

LEMMA CancelWritePreserves ==
  ASSUME Inv, NEW c \in Cancellers, CancelWrite(c)
  PROVE  Inv'
<1> DEFINE s == cancel[c].sub
           row == IF cancel[c].at = "now" THEN [status |-> "CANCELLED", atEnd |-> "no"]
                  ELSE [status |-> local[s].status, atEnd |-> "yes"]
<1>1. /\ RowsInv /\ cancel[c].pc = "write" /\ s \in Subs
      /\ cancel' = [cancel EXCEPT ![c] = IdleCancel]
      /\ UNCHANGED <<stripe, log, emitted, record, hook, checkout, inOrder>>
  BY DEF CancelWrite, Inv, CancelInv, CancelOK, webhook, steady
<1>2. IF cancel[c].at = "now" THEN stripe[s].status = "CANCELLED" ELSE stripe[s].atEnd = "yes"
  BY <1>1 DEF Inv, CancelInv, CancelOK
<1>3. /\ local \in [Subs -> [status : {"none"} \cup Status, atEnd : YesNo]]
      /\ local[s] \in [status : {"none"} \cup Status, atEnd : YesNo]
  BY <1>1 DEF RowsInv, TypeInv
<1>4. local' = [local EXCEPT ![s] = row]
  <2>1. CASE cancel[c].at = "now"
    BY <2>1 DEF CancelWrite
  <2>2. CASE cancel[c].at # "now"
    <3>1. local' = [local EXCEPT ![s] = [local[s] EXCEPT !.atEnd = "yes"]]
      BY <2>2 DEF CancelWrite
    <3>2. [local[s] EXCEPT !.atEnd = "yes"] = [status |-> local[s].status, atEnd |-> "yes"]
      BY <1>3
    <3> QED BY <2>2, <3>1, <3>2
  <2> QED BY <2>1, <2>2
<1>5. /\ row \in [status : {"none"} \cup Status, atEnd : YesNo]
      /\ row.status = "none" => local[s].status = "none"
      /\ local[s].status # "none" => row.status # "none"
      /\ row.status \in {"CANCELLED", local[s].status}
  BY <1>3 DEF Status, StripeStatus, YesNo
<1>6. /\ row.status # local[s].status => stripe[s].status = "CANCELLED"
      /\ row.atEnd # local[s].atEnd => stripe[s].status = "CANCELLED" \/ row.atEnd = stripe[s].atEnd
      /\ row.atEnd = "yes" => stripe[s].atEnd = "yes"
  BY <1>2
<1> HIDE DEF row, s
<1>7. /\ local' \in [Subs -> [status : {"none"} \cup Status, atEnd : YesNo]] /\ local'[s] = row
      /\ \A t \in Subs : t # s => local'[t] = local[t]
  BY <1>1, <1>3, <1>4, <1>5
<1>8. TypeInv' /\ RequestInv'
  BY <1>1, <1>7 DEF RowsInv, TypeInv, RequestInv, W!WebhookTypeOK
<1>9. StripeInv'
  <2>1. \A t : SessionOK(t)' <=> SessionOK(t)
    BY <1>1 DEF SessionOK
  <2>2. \A t, n : EntryOK(t, n)' <=> EntryOK(t, n)
    BY <1>1 DEF EntryOK
  <2> QED BY <1>1, <2>1, <2>2 DEF RowsInv, StripeInv
<1>a. Len(log[s]) <= 2 => stripe[s].status # "CANCELLED"
  <2>1. SessionOK(s) /\ \A n \in 1..Len(log[s]) : EntryOK(s, n)
    BY <1>1 DEF RowsInv, StripeInv
  <2>2. ASSUME Len(log[s]) <= 2, stripe[s].status = "CANCELLED" PROVE FALSE
    <3>1. Len(log[s]) \in Nat
      BY <1>1 DEF RowsInv, TypeInv
    <3>2. Len(log[s]) = 2 /\ {log[s][1].kind, log[s][2].kind} = {"completed", "paid"}
          /\ log[s][2].status = "CANCELLED"
      <4>1. "CANCELLED" \in StripeStatus
        BY DEF Status, StripeStatus
      <4>2. /\ Len(log[s]) >= 2 /\ {log[s][1].kind, log[s][2].kind} = {"completed", "paid"}
            /\ log[s][Len(log[s])].status = "CANCELLED"
        BY <2>1, <2>2, <4>1 DEF SessionOK
      <4>3. \A k \in Nat : k <= 2 /\ k >= 2 => k = 2
        OBVIOUS
      <4>4. Len(log[s]) = 2
        BY <2>2, <3>1, <4>2, <4>3, Zenon
      <4> QED BY <4>2, <4>4
    <3>3. log[s][2].kind \in {"completed", "paid"} /\ EntryOK(s, 2)
      BY <2>1, <3>2
    <3> QED BY <3>2, <3>3 DEF EntryOK
  <2> QED BY <2>2
<1>10. LocalInv'
  <2>1. ASSUME NEW t \in Subs, t # s
        PROVE  /\ local'[t].status # "none" => stripe[t].status \in StripeStatus
               /\ local'[t].status = "CANCELLED" => stripe[t].status = "CANCELLED"
               /\ local'[t].atEnd = "yes" => stripe[t].atEnd = "yes"
    BY <2>1, <1>1, <1>7 DEF RowsInv, LocalInv
  <2>2. /\ row.status # "none" => stripe[s].status \in StripeStatus
        /\ row.status = "CANCELLED" => stripe[s].status = "CANCELLED"
    BY <1>1, <1>5, <1>6 DEF RowsInv, LocalInv, Status, StripeStatus
  <2>3. Len(log[s]) <= 2 => row.status \in {"none", "ACTIVE"}
    BY <1>a, <1>1, <1>6 DEF RowsInv, LocalInv
  <2>4. \A t \in Subs : Len(log[t]) <= 2 => local'[t].status \in {"none", "ACTIVE"}
    BY <2>3, <1>1, <1>7 DEF RowsInv, LocalInv
  <2> QED BY <2>1, <2>2, <2>4, <1>1, <1>6, <1>7 DEF LocalInv
<1>11. \A t \in Subs : local[t].status # "none" => local'[t].status # "none"
  BY <1>5, <1>7
<1>12. OrderInv'
  <2>1. \A e : Started(e)' <=> Started(e)
    BY <1>1 DEF Started, Busy
  <2>2. \A t \in Subs : \A n : Past(t, n) => Past(t, n)'
    BY <1>1, <1>11 DEF Past, Busy
  <2> QED BY <2>1, <2>2, <1>1 DEF RowsInv, OrderInv
<1>13. ActiveInv'
  <2>1. \A e : Applied(e)' <=> Applied(e)
    BY <1>1 DEF Applied
  <2> QED BY <2>1, <1>1, <1>11 DEF RowsInv, ActiveInv
<1>14. ShowsInv'
  <2> SUFFICES ASSUME inOrder, NEW t \in Subs, stripe[t].status \in StripeStatus, NewestApplied(t)'
               PROVE  Shows(t)'
    BY <1>1 DEF ShowsInv
  <2>1. Applied(Newest(t))' <=> Applied(Newest(t))
    BY <1>1 DEF Applied, Newest
  <2>2. CASE t # s
    <3>1. NewestApplied(t)
      BY <2>1, <2>2, <1>1, <1>7 DEF NewestApplied
    <3> QED BY <3>1, <2>2, <1>1, <1>7 DEF RowsInv, ShowsInv, Shows
  <2>3. CASE t = s /\ row.status # local[s].status
    <3>1. stripe[s].status = "CANCELLED" /\ row.status = "CANCELLED"
      BY <2>3, <1>5, <1>6
    <3> QED BY <3>1, <2>3, <1>1, <1>7 DEF Shows, RowStatus
  <2>4. CASE t = s /\ row.status = local[s].status
    <3>1. NewestApplied(s)
      BY <2>1, <2>4, <1>1, <1>7 DEF NewestApplied
    <3>2. Shows(s)
      BY <3>1, <2>4, <1>1 DEF RowsInv, ShowsInv
    <3> QED BY <3>2, <2>4, <1>1, <1>6, <1>7 DEF Shows
  <2> QED BY <2>2, <2>3, <2>4
<1>15. CancelInv'
  <2>1. IdleCancel \in Cancellation /\ IdleCancel.pc = "idle"
    BY DEF Cancellation, IdleCancel
  <2>2. /\ cancel' \in [Cancellers -> Cancellation] /\ cancel'[c] = IdleCancel
        /\ \A d \in Cancellers : d # c => cancel'[d] = cancel[d]
    BY <2>1, <1>1 DEF Inv, CancelInv
  <2> QED BY <2>1, <2>2, <1>1 DEF Inv, CancelInv, CancelOK
<1> QED BY <1>8, <1>9, <1>10, <1>12, <1>13, <1>14, <1>15 DEF Inv, RowsInv

-----------------------------------------------------------------------------
(* The theorems *)

LEMMA InitInv == Init => Inv
<1> SUFFICES ASSUME Init PROVE Inv
  OBVIOUS
<1>1. /\ \A s \in Subs : /\ log[s] = <<>> /\ stripe[s].status = "none" /\ stripe[s].atEnd = "no"
                         /\ local[s].status = "none" /\ local[s].atEnd = "no"
      /\ \A c \in Cancellers : cancel[c].pc = "idle"
      /\ emitted = {} /\ \A e \in Events : record[e] = "none"
      /\ \A h \in Hooks : hook[h].pc = "idle"
  BY DEF Init, W!WebhookInit, W!IdleHook, IdleCancel
<1>2. \A s \in Subs : Len(log[s]) = 0
  BY <1>1
<1>3. TypeInv
  <2>1. log \in [Subs -> Seq(Entry)]
    BY DEF Init
  <2>2. W!WebhookTypeOK
    BY DEF Init, W!WebhookInit, W!WebhookTypeOK, W!IdleHook, W!ProcessingStatus
  <2>3. /\ local \in [Subs -> [status : {"none"} \cup Status, atEnd : YesNo]]
        /\ stripe \in [Subs -> [status : {"none", "open"} \cup StripeStatus, atEnd : YesNo]]
        /\ checkout \in [Subs -> {"idle", "checked", "done"}]
    BY DEF Init, YesNo
  <2> QED BY <1>2, <2>1, <2>2, <2>3, EventsAssumption DEF TypeInv
<1>4. RequestInv
  BY <1>1 DEF RequestInv
<1>5. StripeInv
  BY <1>1, <1>2 DEF StripeInv, SessionOK, Status, StripeStatus
<1>6. LocalInv
  BY <1>1 DEF LocalInv
<1>7. OrderInv /\ ActiveInv
  BY <1>2 DEF OrderInv, ActiveInv
<1>8. ShowsInv
  BY <1>1 DEF ShowsInv, Status, StripeStatus
<1>9. CancelInv
  BY <1>1 DEF Init, CancelInv, CancelOK, Cancellation, IdleCancel
<1> QED BY <1>3, <1>4, <1>5, <1>6, <1>7, <1>8, <1>9 DEF Inv, RowsInv

LEMMA NextInv == Inv /\ [Next]_vars => Inv'
<1> SUFFICES ASSUME Inv, [Next]_vars PROVE Inv'
  OBVIOUS
<1>1. CASE \E s \in Subs : \/ Subscribe(s) \/ Renew(s) \/ RenewalFails(s)
                            \/ PauseOrResume(s) \/ PeriodEnds(s)
  BY <1>1, StripeStepsPreserve
<1>2. CASE \E s \in Subs : CheckConflict(s) \/ OpenSession(s)
  BY <1>2, CheckoutPreserves
<1>3. ASSUME NEW c \in Cancellers,
             \/ \E s \in Subs, at \in {"now", "end"} : RequestCancel(c, s, at)
             \/ CancelAtStripe(c) \/ CancelLost(c)
      PROVE  Inv'
  BY <1>3, CancelStepsPreserve
<1>4. ASSUME NEW c \in Cancellers, CancelWrite(c) PROVE Inv'
  BY <1>4, CancelWritePreserves
<1>5. ASSUME NEW h \in Hooks,
             \/ \E e \in Events : DeliverInTurn(h, e)
             \/ Bookkeeping(h) \/ WebhookFault(h) \/ Dispatch(h)
      PROVE  Inv'
  <2>1. RowsInv'
    BY <1>5, DeliveryPreserves, RequestStepsPreserve, DispatchPreserves DEF Inv
  <2>2. UNCHANGED <<stripe, cancel>>
    BY <1>5 DEF DeliverInTurn, Bookkeeping, WebhookFault, Dispatch, Activate, ActivateRollback,
       NoSubscription, HandleUpdated, HandleDeleted, HandleInvoicePaid, HandlePaymentFailed,
       Dispatched, elsewhere
  <2>3. CancelInv'
    BY <2>2 DEF Inv, CancelInv, CancelOK
  <2> QED BY <2>1, <2>3 DEF Inv
<1>6. CASE UNCHANGED vars
  <2>1. UNCHANGED <<local, stripe, log, emitted, record, hook, checkout, cancel, inOrder>>
    BY <1>6 DEF vars
  <2>2. TypeInv' /\ RequestInv' /\ LocalInv' /\ CancelInv'
    BY <2>1 DEF Inv, RowsInv, TypeInv, RequestInv, W!WebhookTypeOK, LocalInv, CancelInv, CancelOK
  <2>3. StripeInv'
    <3>1. \A t : SessionOK(t)' <=> SessionOK(t)
      BY <2>1 DEF SessionOK
    <3>2. \A t, n : EntryOK(t, n)' <=> EntryOK(t, n)
      BY <2>1 DEF EntryOK
    <3> QED BY <2>1, <3>1, <3>2 DEF Inv, RowsInv, StripeInv
  <2>4. OrderInv'
    BY <2>1 DEF Inv, RowsInv, OrderInv, Started, Busy, Past
  <2>5. ActiveInv'
    BY <2>1 DEF Inv, RowsInv, ActiveInv, Applied
  <2>6. ShowsInv'
    BY <2>1 DEF Inv, RowsInv, ShowsInv, NewestApplied, Newest, Applied, Shows
  <2> QED BY <2>2, <2>3, <2>4, <2>5, <2>6 DEF Inv, RowsInv
<1> QED BY <1>1, <1>2, <1>3, <1>4, <1>5, <1>6 DEF Next

\* The rows, Stripe's log and every request stay of their types, and no log
\* grows past its bound, for any number of subscriptions and of requests.
THEOREM SubscriptionTypeCorrect == Spec => [](TypeInv /\ CancelInv)
<1>1. Inv => TypeInv /\ CancelInv
  BY DEF Inv, RowsInv
<1> QED BY <1>1, InitInv, NextInv, PTL DEF Spec

\* However the webhooks and the cancellations interleave, whatever is lost and
\* repeated: a row that says CANCELLED is of a subscription Stripe has cancelled.
THEOREM CancelledIsCancelled == Spec => []CancelledAtStripe
<1>1. Inv => CancelledAtStripe
  BY DEF Inv, RowsInv, LocalInv, CancelledAtStripe
<1> QED BY <1>1, InitInv, NextInv, PTL DEF Spec

\* A row follows Stripe: when the events that came in order are handled, it shows
\* the status and the end of the period that Stripe has, for any number of
\* subscriptions, of deliveries of each event and of cancellations.
THEOREM RowFollowsStripe == Spec => []FollowsStripe
<1>1. Inv => FollowsStripe
  <2> SUFFICES ASSUME Inv, NEW s \in Subs, inOrder, Settled(s) PROVE Shows(s)
    BY DEF FollowsStripe, Shows
  <2>1. stripe[s].status \in StripeStatus /\ \A n \in 1..Len(log[s]) : Handled(<<s, n>>)
    BY DEF Settled
  <2>2. Len(log[s]) \in 1..Len(log[s])
    BY <2>1 DEF Inv, RowsInv, TypeInv, StripeInv, SessionOK
  <2>3. NewestApplied(s)
    BY <2>1, <2>2 DEF Handled, NewestApplied, Newest, Applied
  <2> QED BY <2>1, <2>3 DEF Inv, RowsInv, ShowsInv
<1> QED BY <1>1, InitInv, NextInv, PTL DEF Spec
=============================================================================
