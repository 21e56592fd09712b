---------------------------- MODULE OutboxProofs ----------------------------
(***************************************************************************)
(* Theorems of OutboxProcessor: what PROCESSED and DELIVERED mean, for any *)
(* number of events, workers, runners, crashes and errors; and who may     *)
(* still change an event that is finished.                                 *)
(***************************************************************************)
EXTENDS OutboxProcessor, NaturalsInduction, WellFoundedInduction, TLAPS

-----------------------------------------------------------------------------
(* The inductive invariant *)

EventStatus == {"absent", "PENDING", "PROCESSING", "PROCESSED", "DEAD_LETTER"}
Deliveries == Notifications \X (1..JobAttempts)
Handling == {"upsert", "job", "finish", "fail"}

StoreInv ==
  /\ outbox \in [Events -> [status : EventStatus, attempts : Nat]]
  /\ stale \subseteq Events
  /\ notification \in [Notifications -> {"none", "PENDING", "DELIVERED", "FAILED"}]
  /\ jobs \in [Deliveries -> Nat]
  /\ sent \subseteq Notifications
  /\ queued \subseteq Notifications /\ skipped \subseteq Notifications

Batches == SUBSET (Events \X Nat)
Oldest(batch) == CHOOSE row \in batch : \A other \in batch : row[1] <= other[1]
WorkerStates == [pc : {"idle", "recover", "claim"} \cup Handling, batch : Batches,
                 channel : 1..Len(Channels)]

\* A worker handles a row it has; it leaves no channel of it behind, and adds a
\* job only for a notification that is stored.
GoodWorker(state, stored, done) ==
  LET event == Oldest(state.batch)[1] IN
  /\ state \in WorkerStates
  /\ state.pc \in {"claim"} \cup Handling => state.batch # {}
  /\ state.pc \notin Handling => state.channel = 1
  /\ state.pc = "job" => stored[<<event, state.channel>>] # "none"
  /\ state.pc \in {"upsert", "job"} => \A i \in 1..(state.channel - 1) : <<event, i>> \in done
  /\ state.pc = "finish" => \A i \in 1..Len(Channels) : <<event, i>> \in done

WorkersInv == /\ worker \in [Workers -> WorkerStates]
              /\ \A w \in Workers : GoodWorker(worker[w], notification, queued \cup skipped)

\* What was queued is stored.
QueueInv == /\ \A n \in queued : notification[n] # "none"
            /\ \A d \in Deliveries : jobs[d] > 0 => d[1] \in queued

\* A delivery is of a queued notification, and goes to the provider first.
RunnerStates == [pc : {"idle", "deliver", "sent"}, job : Deliveries \cup {<<None, 0>>}]
GoodRunner(state, sends) ==
  state.pc # "idle" => /\ state.job \in Deliveries /\ state.job[1] \in queued
                       /\ state.pc = "sent" => state.job[1] \in sends

RunnersInv == /\ runner \in [Runners -> RunnerStates]
              /\ \A r \in Runners : GoodRunner(runner[r], sent)

DeliveryInv == /\ StoreInv /\ WorkersInv /\ QueueInv /\ RunnersInv
               /\ ProcessedMeansQueued /\ DeliveredWasSent

-----------------------------------------------------------------------------
(* The row in progress *)

LEMMA LeastOf == ASSUME NEW T \in SUBSET Nat, T # {} PROVE \E x \in T : \A y \in T : x <= y
<1> DEFINE R == OpToRel(<, Nat)
<1>1. IsWellFoundedOn(R, Nat)
  BY NatLessThanWellFounded
<1> HIDE DEF R
<1>2. PICK x \in T : \A y \in T : ~ (<<y, x>> \in R)
  BY <1>1, WFMin
<1>3. \A y \in T : ~(y < x)
  BY <1>2 DEF R, OpToRel
<1> QED BY <1>3

\* A batch has an oldest row.
LEMMA OldestIsRow ==
  ASSUME NEW batch \in Batches, batch # {}
  PROVE  Oldest(batch) \in batch /\ Oldest(batch)[1] \in Events /\ Oldest(batch)[2] \in Nat
<1> DEFINE ids == {row[1] : row \in batch}
<1>1. \A row \in batch : row[1] \in Events /\ row[2] \in Nat /\ row[1] \in Nat
  BY OutboxAssumption DEF Batches, Events
<1>2. ids \in SUBSET Nat /\ ids # {}
  BY <1>1
<1>3. PICK id \in ids : \A other \in ids : id <= other
  BY <1>2, LeastOf
<1>4. PICK row \in batch : row[1] = id
  BY <1>3
<1>5. \A other \in batch : row[1] <= other[1]
  BY <1>3, <1>4
<1>6. Oldest(batch) \in batch
  BY <1>5 DEF Oldest
<1> QED BY <1>1, <1>6

LEMMA RowInProgress ==
  ASSUME DeliveryInv, NEW w \in Workers
  PROVE  /\ worker[w] \in WorkerStates /\ GoodWorker(worker[w], notification, queued \cup skipped)
         /\ Current(w) = Oldest(worker[w].batch)
         /\ Key(w) = <<Oldest(worker[w].batch)[1], worker[w].channel>>
         /\ worker[w].batch # {} =>
              /\ Current(w) \in worker[w].batch /\ Current(w)[1] \in Events /\ Current(w)[2] \in Nat
              /\ Key(w) \in Notifications
<1>1. worker[w] \in WorkerStates /\ GoodWorker(worker[w], notification, queued \cup skipped)
  BY DEF DeliveryInv, WorkersInv
<1>2. Current(w) = Oldest(worker[w].batch)
  BY DEF Current, Oldest
<1>3. Key(w) = <<Oldest(worker[w].batch)[1], worker[w].channel>>
  BY <1>2 DEF Key
<1>4. ASSUME worker[w].batch # {}
      PROVE  /\ Oldest(worker[w].batch) \in worker[w].batch /\ Oldest(worker[w].batch)[1] \in Events
             /\ Oldest(worker[w].batch)[2] \in Nat
  BY <1>1, <1>4, OldestIsRow DEF WorkerStates
<1>5. worker[w].channel \in 1..Len(Channels)
  BY <1>1 DEF WorkerStates
<1> QED BY <1>1, <1>2, <1>3, <1>4, <1>5 DEF Notifications

\* Nothing that is stored, queued or skipped is taken back.
Keeps == /\ \A n \in Notifications : notification[n] # "none" => notification'[n] # "none"
         /\ queued \subseteq queued' /\ skipped \subseteq skipped'

LEMMA GoodStays ==
  ASSUME NEW state, GoodWorker(state, notification, queued \cup skipped), Keeps
  PROVE  GoodWorker(state, notification', queued' \cup skipped')
<1> DEFINE event == Oldest(state.batch)[1]
<1>1. state \in WorkerStates /\ state.batch \in Batches /\ state.channel \in 1..Len(Channels)
  BY DEF GoodWorker, WorkerStates
<1>2. state.pc = "job" => notification'[<<event, state.channel>>] # "none"
  <2> HAVE state.pc = "job"
  <2>1. event \in Events
    BY <1>1, OldestIsRow DEF GoodWorker, Handling
  <2>2. <<event, state.channel>> \in Notifications
    BY <1>1, <2>1 DEF Notifications
  <2>3. notification[<<event, state.channel>>] # "none"
    BY DEF GoodWorker
  <2> QED BY <2>2, <2>3 DEF Keeps
<1>3. queued \cup skipped \subseteq queued' \cup skipped'
  BY DEF Keeps
<1> QED BY <1>2, <1>3 DEF GoodWorker

\* A step of a worker: the state it comes to is good, and what it writes is due.
LEMMA WorkerPreserves ==
  ASSUME DeliveryInv, NEW w \in Workers, NEW state, worker' = [worker EXCEPT ![w] = state],
         GoodWorker(state, notification', queued' \cup skipped'), StoreInv', Keeps, QueueInv',
         \A e \in Events : outbox'[e].status = "PROCESSED" =>
           \/ outbox[e].status = "PROCESSED"
           \/ \A i \in 1..Len(Channels) : <<e, i>> \in queued' \cup skipped',
         \A n \in Notifications : notification'[n] = "DELIVERED" => notification[n] = "DELIVERED",
         UNCHANGED <<runner, sent>>
  PROVE  DeliveryInv'
<1>1. worker \in [Workers -> WorkerStates] /\ state \in WorkerStates
  BY DEF DeliveryInv, WorkersInv, GoodWorker
<1>2. WorkersInv'
  <2>1. /\ worker' \in [Workers -> WorkerStates] /\ worker'[w] = state
        /\ \A v \in Workers : v # w => worker'[v] = worker[v]
    BY <1>1
  <2>2. \A v \in Workers : v # w => GoodWorker(worker[v], notification', queued' \cup skipped')
    BY GoodStays DEF DeliveryInv, WorkersInv
  <2>3. \A v \in Workers : GoodWorker(worker'[v], notification', queued' \cup skipped')
    BY <2>1, <2>2
  <2> QED BY <2>1, <2>3 DEF WorkersInv
<1>3. RunnersInv'
  BY DEF DeliveryInv, RunnersInv, GoodRunner, Keeps
<1>4. ProcessedMeansQueued'
  <2> SUFFICES ASSUME NEW e \in Events, outbox'[e].status = "PROCESSED", NEW i \in 1..Len(Channels)
               PROVE  <<e, i>> \in queued' \cup skipped'
    BY DEF ProcessedMeansQueued
  <2>1. CASE outbox[e].status = "PROCESSED"
    <3>1. <<e, i>> \in queued \cup skipped
      BY <2>1 DEF DeliveryInv, ProcessedMeansQueued
    <3> QED BY <3>1 DEF Keeps
  <2> QED BY <2>1
<1>5. DeliveredWasSent'
  BY DEF DeliveryInv, DeliveredWasSent, Keeps
<1> QED BY <1>2, <1>3, <1>4, <1>5 DEF DeliveryInv

\* A step of a runner: it marks DELIVERED what the provider has.
LEMMA RunnerPreserves ==
  ASSUME DeliveryInv, NEW r \in Runners, NEW state \in RunnerStates,
         runner' = [runner EXCEPT ![r] = state], GoodRunner(state, sent'), StoreInv', QueueInv',
         \A n \in Notifications :
           /\ notification[n] # "none" => notification'[n] # "none"
           /\ notification'[n] = "DELIVERED" =>
                notification[n] = "DELIVERED" \/ n \in sent \/ Channels[n[2]] = "PUSH"
           /\ n \in sent => n \in sent'
           /\ n \in sent' => n \in sent \/ n \in queued,
         UNCHANGED <<outbox, stale, queued, skipped, worker>>
  PROVE  DeliveryInv'
<1>1. Keeps
  BY DEF Keeps
<1>2. WorkersInv'
  <2>1. \A v \in Workers : GoodWorker(worker[v], notification', queued' \cup skipped')
    BY <1>1, GoodStays DEF DeliveryInv, WorkersInv
  <2> QED BY <2>1 DEF DeliveryInv, WorkersInv
<1>3. RunnersInv'
  <2>1. /\ runner' \in [Runners -> RunnerStates] /\ runner'[r] = state
        /\ \A s \in Runners : s # r => runner'[s] = runner[s]
    BY DEF DeliveryInv, RunnersInv
  <2>2. ASSUME NEW s \in Runners, s # r PROVE GoodRunner(runner'[s], sent')
    <3>1. GoodRunner(runner[s], sent) /\ runner'[s] = runner[s]
      BY <2>1, <2>2 DEF DeliveryInv, RunnersInv
    <3>2. \A d \in Deliveries : d[1] \in Notifications
      BY DEF Deliveries
    <3> QED BY <3>1, <3>2 DEF GoodRunner
  <2> QED BY <2>1, <2>2 DEF RunnersInv, GoodRunner
<1>4. ProcessedMeansQueued' /\ DeliveredWasSent'
  <2>1. ProcessedMeansQueued'
    BY DEF DeliveryInv, ProcessedMeansQueued
  <2>2. DeliveredWasSent'
    BY DEF DeliveryInv, DeliveredWasSent, QueueInv
  <2> QED BY <2>1, <2>2
<1> QED BY <1>2, <1>3, <1>4 DEF DeliveryInv

-----------------------------------------------------------------------------
(* The steps of a worker *)

\* Two fields of a worker's state are written.
LEMMA NewBatch ==
  ASSUME NEW old \in WorkerStates, NEW pc, NEW batch
  PROVE  [old EXCEPT !.pc = pc, !.batch = batch]
           = [pc |-> pc, batch |-> batch, channel |-> old.channel]
<1> DEFINE first == [old EXCEPT !.pc = pc]
<1>1. first = [pc |-> pc, batch |-> old.batch, channel |-> old.channel]
  BY DEF WorkerStates
<1>2. [old EXCEPT !.pc = pc, !.batch = batch] = [first EXCEPT !.batch = batch]
  OBVIOUS
<1> HIDE DEF first
<1>3. [first EXCEPT !.batch = batch] = [pc |-> pc, batch |-> batch, channel |-> old.channel]
  BY <1>1
<1> QED BY <1>2, <1>3

LEMMA NewChannel ==
  ASSUME NEW old \in WorkerStates, NEW pc, NEW channel
  PROVE  [old EXCEPT !.pc = pc, !.channel = channel]
           = [pc |-> pc, batch |-> old.batch, channel |-> channel]
<1> DEFINE first == [old EXCEPT !.pc = pc]
<1>1. first = [pc |-> pc, batch |-> old.batch, channel |-> old.channel]
  BY DEF WorkerStates
<1>2. [old EXCEPT !.pc = pc, !.channel = channel] = [first EXCEPT !.channel = channel]
  OBVIOUS
<1> HIDE DEF first
<1>3. [first EXCEPT !.channel = channel] = [pc |-> pc, batch |-> old.batch, channel |-> channel]
  BY <1>1
<1> QED BY <1>2, <1>3

\* The next event of the batch starts with its first channel.
LEMMA NextEventGood ==
  ASSUME DeliveryInv, NEW w \in Workers, worker[w].pc \in Handling, NextEvent(w)
  PROVE  \E state : /\ worker' = [worker EXCEPT ![w] = state]
                    /\ \A stored, done : GoodWorker(state, stored, done)
<1> DEFINE rest == worker[w].batch \ {Current(w)}
           state == IF rest = {} THEN IdleWorker ELSE [pc |-> "upsert", batch |-> rest, channel |-> 1]
<1>1. worker' = [worker EXCEPT ![w] = state]
  BY DEF NextEvent
<1>2. rest \in Batches /\ 1 \in 1..Len(Channels) /\ {} \in Batches
  BY RowInProgress, OutboxAssumption DEF WorkerStates, Batches
<1> HIDE DEF rest
<1>3. /\ state \in WorkerStates /\ state.channel = 1 /\ state.pc \in {"idle", "upsert"}
      /\ state.pc = "upsert" => state.batch # {}
  BY <1>2 DEF WorkerStates, IdleWorker, Handling
<1> HIDE DEF state
<1>4. \A stored, done : GoodWorker(state, stored, done)
  <2> TAKE stored, done
  <2>1. state.pc \notin Handling => state.channel = 1
    BY <1>3
  <2>2. state.pc \in {"claim"} \cup Handling => state.batch # {}
    BY <1>3 DEF Handling
  <2>3. \A i \in 1..(state.channel - 1) : FALSE
    BY <1>3
  <2> QED BY <2>1, <2>2, <2>3, <1>3 DEF GoodWorker
<1> QED BY <1>1, <1>4

\* The next channel follows one that is done; after the last one all are.
LEMMA NextChannelGood ==
  ASSUME DeliveryInv, NEW w \in Workers, worker[w].pc \in {"upsert", "job"}, NextChannel(w),
         NEW done, queued \cup skipped \subseteq done, Key(w) \in done
  PROVE  \E state : /\ worker' = [worker EXCEPT ![w] = state]
                    /\ \A stored : GoodWorker(state, stored, done)
<1> DEFINE old == worker[w]
           event == Oldest(old.batch)[1]
           state == IF old.channel < Len(Channels)
                    THEN [pc |-> "upsert", batch |-> old.batch, channel |-> old.channel + 1]
                    ELSE [pc |-> "finish", batch |-> old.batch, channel |-> old.channel]
<1>0. worker' = [worker EXCEPT ![w] =
         IF old.channel < Len(Channels) THEN [old EXCEPT !.pc = "upsert", !.channel = old.channel + 1]
         ELSE [old EXCEPT !.pc = "finish"]]
  BY DEF NextChannel
<1>1. /\ old \in WorkerStates /\ old.batch # {} /\ Key(w) = <<event, old.channel>>
      /\ \A i \in 1..(old.channel - 1) : <<event, i>> \in done
      /\ old.batch \in Batches /\ old.channel \in 1..Len(Channels) /\ Len(Channels) \in Nat
  BY RowInProgress, OutboxAssumption DEF GoodWorker, Handling, WorkerStates
<1> HIDE DEF old
<1>2. /\ [old EXCEPT !.pc = "upsert", !.channel = old.channel + 1]
           = [pc |-> "upsert", batch |-> old.batch, channel |-> old.channel + 1]
      /\ [old EXCEPT !.pc = "finish"] = [pc |-> "finish", batch |-> old.batch, channel |-> old.channel]
  <2>1. [old EXCEPT !.pc = "finish"] = [pc |-> "finish", batch |-> old.batch, channel |-> old.channel]
    BY <1>1 DEF WorkerStates
  <2> QED BY <2>1, <1>1, NewChannel
<1>3. worker' = [worker EXCEPT ![w] = state]
  BY <1>0, <1>2
<1>4. \A i \in 1..old.channel : <<event, i>> \in done
  BY <1>1
<1>5. /\ state \in WorkerStates /\ state.batch = old.batch
      /\ \/ state.pc = "upsert" /\ state.channel = old.channel + 1
         \/ state.pc = "finish" /\ old.channel = Len(Channels)
  BY <1>1 DEF WorkerStates, Handling
<1> HIDE DEF state
<1>6. \A stored : GoodWorker(state, stored, done)
  <2> TAKE stored
  <2>1. CASE state.pc = "upsert" /\ state.channel = old.channel + 1
    <3>1. state.channel - 1 = old.channel
      BY <2>1, <1>1
    <3> QED BY <2>1, <3>1, <1>1, <1>4, <1>5 DEF GoodWorker, Handling
  <2>2. CASE state.pc = "finish" /\ old.channel = Len(Channels)
    BY <2>2, <1>1, <1>4, <1>5 DEF GoodWorker, Handling
  <2> QED BY <2>1, <2>2, <1>5
<1> QED BY <1>3, <1>6

\* The recovery, the claim and the crash write no notification.
LEMMA BatchStepsPreserve ==
  ASSUME DeliveryInv, NEW w \in Workers,
         \/ ListStale(w) \/ Recover(w) \/ RecoverFails(w) \/ Select(w) \/ Claim(w) \/ Crash(w)
  PROVE  DeliveryInv'
<1> DEFINE old == worker[w]
<1>1. UNCHANGED <<notification, jobs, queued, skipped, runner, sent>>
  BY DEF ListStale, Recover, RecoverFails, Select, Claim, Crash, faults
<1>2. Keeps /\ QueueInv' /\ \A n \in Notifications : notification'[n] = notification[n]
  BY <1>1 DEF Keeps, DeliveryInv, QueueInv
<1>3. old \in WorkerStates /\ GoodWorker(old, notification, queued \cup skipped)
  BY RowInProgress
<1>4. \A status \in EventStatus : Rows(status) \in Batches
  BY DEF Rows, Batches, DeliveryInv, StoreInv
<1>5. StoreInv /\ "PENDING" \in EventStatus /\ "PROCESSING" \in EventStatus
      /\ "DEAD_LETTER" \in EventStatus
  BY DEF DeliveryInv, EventStatus
<1>6. ASSUME NEW state, worker' = [worker EXCEPT ![w] = state],
             state \in WorkerStates, state.pc \in {"idle", "recover", "claim"}, state.channel = 1,
             state.pc = "claim" => state.batch # {}, UNCHANGED <<outbox>>, stale' \subseteq Events
      PROVE  DeliveryInv'
  <2>1. GoodWorker(state, notification', queued' \cup skipped')
    BY <1>6 DEF GoodWorker, Handling
  <2>2. StoreInv'
    BY <1>1, <1>5, <1>6 DEF StoreInv
  <2> QED BY <1>1, <1>2, <1>6, <2>1, <2>2, WorkerPreserves
<1> HIDE DEF old
<1>7. CASE ListStale(w)
  <2> DEFINE found == {row \in Rows("PROCESSING") : row[1] \in stale}
             state == [pc |-> "recover", batch |-> found, channel |-> 1]
  <2>1. old.pc = "idle" /\ UNCHANGED <<outbox, stale>>
        /\ worker' = [worker EXCEPT ![w] = [old EXCEPT !.pc = "recover", !.batch = found]]
    BY <1>7 DEF ListStale, old
  <2>2. found \in Batches
    BY <1>4, <1>5 DEF Batches
  <2> HIDE DEF found
  <2>3. old.channel = 1 /\ [old EXCEPT !.pc = "recover", !.batch = found] = state
    <3>1. old.channel = 1
      BY <2>1, <1>3 DEF GoodWorker, Handling
    <3>2. [old EXCEPT !.pc = "recover", !.batch = found]
            = [pc |-> "recover", batch |-> found, channel |-> old.channel]
      BY <1>3, NewBatch
    <3> QED BY <3>1, <3>2
  <2>4. state \in WorkerStates
    BY <2>2, <2>3, <1>3 DEF WorkerStates
  <2> QED BY <2>1, <2>3, <2>4, <1>5, <1>6 DEF StoreInv
<1>8. CASE RecoverFails(w)
  <2> DEFINE state == [pc |-> "recover", batch |-> {}, channel |-> 1]
  <2>1. old.pc = "recover" /\ UNCHANGED <<outbox, stale>>
        /\ worker' = [worker EXCEPT ![w] = [old EXCEPT !.batch = {}]]
    BY <1>8 DEF RecoverFails, old
  <2>2. old.channel = 1 /\ [old EXCEPT !.batch = {}] = state
    <3>1. old.channel = 1
      BY <2>1, <1>3 DEF GoodWorker, Handling
    <3>2. [old EXCEPT !.batch = {}] = [pc |-> old.pc, batch |-> {}, channel |-> old.channel]
      BY <1>3 DEF WorkerStates
    <3> QED BY <2>1, <3>1, <3>2
  <2>3. state \in WorkerStates
    BY <2>2, <1>3 DEF WorkerStates, Batches
  <2> QED BY <2>1, <2>2, <2>3, <1>5, <1>6 DEF StoreInv
<1>9. CASE Select(w)
  <2> DEFINE state == IF Rows("PENDING") = {} THEN IdleWorker
                      ELSE [pc |-> "claim", batch |-> Rows("PENDING"), channel |-> 1]
  <2>1. old.pc = "recover" /\ UNCHANGED <<outbox, stale>>
        /\ worker' = [worker EXCEPT ![w] =
             IF Rows("PENDING") = {} THEN IdleWorker
             ELSE [old EXCEPT !.pc = "claim", !.batch = Rows("PENDING")]]
    BY <1>9 DEF Select, old
  <2>2. old.channel = 1 /\ [old EXCEPT !.pc = "claim", !.batch = Rows("PENDING")]
                             = [pc |-> "claim", batch |-> Rows("PENDING"), channel |-> 1]
    <3>1. old.channel = 1
      BY <2>1, <1>3 DEF GoodWorker, Handling
    <3>2. [old EXCEPT !.pc = "claim", !.batch = Rows("PENDING")]
            = [pc |-> "claim", batch |-> Rows("PENDING"), channel |-> old.channel]
      BY <1>3, NewBatch
    <3> QED BY <3>1, <3>2
  <2>3. worker' = [worker EXCEPT ![w] = state]
    BY <2>1, <2>2
  <2>4. /\ state \in WorkerStates /\ state.pc \in {"idle", "claim"} /\ state.channel = 1
        /\ state.pc = "claim" => state.batch # {}
    BY <2>2, <1>3, <1>4, <1>5 DEF WorkerStates, IdleWorker, Batches
  <2> HIDE DEF state
  <2> QED BY <2>1, <2>3, <2>4, <1>5, <1>6 DEF StoreInv
<1>10. CASE Crash(w)
  <2>1. worker' = [worker EXCEPT ![w] = IdleWorker] /\ UNCHANGED <<outbox, stale>>
    BY <1>10 DEF Crash
  <2>2. /\ IdleWorker \in WorkerStates /\ IdleWorker.pc = "idle" /\ IdleWorker.channel = 1
    BY OutboxAssumption DEF WorkerStates, IdleWorker, Batches
  <2> QED BY <2>1, <2>2, <1>5, <1>6 DEF StoreInv
<1>11. CASE Recover(w)
  <2> DEFINE row == Current(w)
             rest == old.batch \ {row}
             state == [pc |-> "recover", batch |-> rest, channel |-> 1]
  <2>1. /\ old.pc = "recover" /\ old.batch # {} /\ Retry(row)
        /\ worker' = [worker EXCEPT ![w] = [old EXCEPT !.batch = rest]]
    BY <1>11 DEF Recover, old
  <2>2. row[1] \in Events /\ row[2] \in Nat
    BY <2>1, RowInProgress DEF old
  <2>3. rest \in Batches /\ old.channel = 1
    BY <2>1, <1>3 DEF GoodWorker, Handling, WorkerStates, Batches
  <2> HIDE DEF row, rest
  <2>4. [old EXCEPT !.batch = rest] = state /\ state \in WorkerStates
    BY <2>1, <2>3, <1>3 DEF WorkerStates
  <2>5. StoreInv' /\ \A e \in Events : outbox'[e].status = "PROCESSED" => outbox[e].status = "PROCESSED"
    BY <2>1, <2>2, <1>1, <1>5 DEF StoreInv, Retry
  <2>6. GoodWorker(state, notification', queued' \cup skipped')
    BY <2>4 DEF GoodWorker, Handling
  <2>7. worker' = [worker EXCEPT ![w] = state]
    BY <2>1, <2>4
  <2> HIDE DEF state
  <2> QED BY <2>5, <2>6, <2>7, <1>1, <1>2, WorkerPreserves
<1>12. CASE Claim(w)
  <2> DEFINE state == [pc |-> "upsert", batch |-> old.batch, channel |-> 1]
  <2>1. old.pc = "claim" /\ worker' = [worker EXCEPT ![w] = [old EXCEPT !.pc = "upsert"]]
    BY <1>12 DEF Claim, old
  <2>2. [old EXCEPT !.pc = "upsert"] = state /\ state \in WorkerStates /\ old.batch # {}
    BY <2>1, <1>3 DEF WorkerStates, GoodWorker, Handling
  <2>3. StoreInv' /\ \A e \in Events : outbox'[e].status = "PROCESSED" => outbox[e].status = "PROCESSED"
    <3>1. \A e \in Events : outbox[e] \in [status : EventStatus, attempts : Nat]
      BY <1>5 DEF StoreInv
    <3>2. \A e \in Events : \/ outbox'[e] = outbox[e]
                            \/ outbox'[e] = [outbox[e] EXCEPT !.status = "PROCESSING"]
      BY <1>12 DEF Claim
    <3>3. \A e \in Events : outbox'[e] \in [status : EventStatus, attempts : Nat]
      BY <3>1, <3>2, <1>5
    <3>4. \A e \in Events : outbox'[e].status = "PROCESSED" => outbox[e].status = "PROCESSED"
      BY <3>1, <3>2
    <3>5. outbox' \in [Events -> [status : EventStatus, attempts : Nat]]
      <4>1. outbox' = [e \in Events |-> outbox'[e]]
        BY <1>12 DEF Claim
      <4> QED BY <4>1, <3>3
    <3>6. stale' \subseteq Events
      BY <1>5, <1>12 DEF Claim, StoreInv
    <3> QED BY <3>4, <3>5, <3>6, <1>1, <1>5 DEF StoreInv
  <2>4. GoodWorker(state, notification', queued' \cup skipped')
    <3>1. \A i \in 1..(state.channel - 1) : FALSE
      OBVIOUS
    <3> QED BY <3>1, <2>2 DEF GoodWorker, Handling
  <2>5. worker' = [worker EXCEPT ![w] = state]
    BY <2>1, <2>2
  <2> HIDE DEF state
  <2> QED BY <2>3, <2>4, <2>5, <1>1, <1>2, WorkerPreserves
<1> QED BY <1>7, <1>8, <1>9, <1>10, <1>11, <1>12

\* A row is finished or retried, and the next one begins.
LEMMA RowStepsPreserve ==
  ASSUME DeliveryInv, NEW w \in Workers, Finish(w) \/ Fail(w)
  PROVE  DeliveryInv'
<1> DEFINE row == Current(w)
<1>1. /\ UNCHANGED <<notification, jobs, queued, skipped, runner, sent>> /\ NextEvent(w)
      /\ worker[w].pc \in {"finish", "fail"}
  BY DEF Finish, Fail, faults
<1>2. Keeps /\ QueueInv' /\ \A n \in Notifications : notification'[n] = notification[n]
  BY <1>1 DEF Keeps, DeliveryInv, QueueInv
<1>3. worker[w].batch # {}
  BY <1>1, RowInProgress DEF GoodWorker, Handling
<1>4. row[1] \in Events /\ row[2] \in Nat
  BY <1>3, RowInProgress
<1>5. worker[w].pc = "finish" =>
        \A i \in 1..Len(Channels) : <<row[1], i>> \in queued \cup skipped
  BY RowInProgress DEF GoodWorker
<1> HIDE DEF row
<1>6. StoreInv /\ "PENDING" \in EventStatus /\ "PROCESSED" \in EventStatus
      /\ "DEAD_LETTER" \in EventStatus
  BY DEF DeliveryInv, EventStatus
<1>7. /\ StoreInv'
      /\ \A e \in Events : outbox'[e].status = "PROCESSED" =>
           outbox[e].status = "PROCESSED" \/ \A i \in 1..Len(Channels) : <<e, i>> \in queued \cup skipped
  <2>1. CASE Finish(w)
    <3>1. outbox' = [outbox EXCEPT ![row[1]].status = "PROCESSED"] /\ stale' = stale \ {row[1]}
          /\ worker[w].pc = "finish"
      BY <2>1 DEF Finish, row
    <3>2. StoreInv'
      BY <3>1, <1>1, <1>4, <1>6 DEF StoreInv
    <3>3. \A e \in Events : e # row[1] => outbox'[e] = outbox[e]
      BY <3>1, <1>4, <1>6 DEF StoreInv
    <3> QED BY <3>1, <3>2, <3>3, <1>5
  <2>2. CASE Fail(w)
    <3>1. Retry(row)
      BY <2>2 DEF Fail, row
    <3> QED BY <3>1, <1>1, <1>4, <1>6 DEF StoreInv, Retry
  <2> QED BY <2>1, <2>2
<1>8. PICK state : /\ worker' = [worker EXCEPT ![w] = state]
                   /\ \A stored, done : GoodWorker(state, stored, done)
  BY <1>1, NextEventGood DEF Handling
<1> QED BY <1>1, <1>2, <1>7, <1>8, WorkerPreserves

\* One channel of the row: the upsert and the job, and the errors they meet.
LEMMA ChannelStepsPreserve ==
  ASSUME DeliveryInv, NEW w \in Workers,
         Upsert(w) \/ UpsertFails(w) \/ AddJob(w) \/ DropJob(w) \/ Throws(w)
  PROVE  DeliveryInv'
<1> DEFINE old == worker[w]
           event == Oldest(old.batch)[1]
           key == Key(w)
<1>1. UNCHANGED <<outbox, stale, runner, sent>> /\ old.pc \in {"upsert", "job", "finish"}
  BY DEF Upsert, UpsertFails, AddJob, DropJob, Throws, faults
<1>2. /\ old \in WorkerStates /\ old.batch # {} /\ old.batch \in Batches
      /\ GoodWorker(old, notification, queued \cup skipped)
      /\ key = <<event, old.channel>> /\ key \in Notifications /\ event = Current(w)[1]
      /\ event \in Events /\ old.channel \in 1..Len(Channels) /\ Len(Channels) \in Nat
  BY <1>1, RowInProgress, OutboxAssumption DEF GoodWorker, Handling, WorkerStates
<1>3. StoreInv /\ QueueInv
  BY DEF DeliveryInv
<1> HIDE DEF old, event, key
<1>4. CASE Upsert(w)
  <2> DEFINE state == [pc |-> "job", batch |-> old.batch, channel |-> old.channel]
  <2>1. /\ old.pc = "upsert" /\ worker' = [worker EXCEPT ![w] = [old EXCEPT !.pc = "job"]]
        /\ notification' = IF notification[key] = "none" THEN [notification EXCEPT ![key] = "PENDING"]
                           ELSE notification
        /\ UNCHANGED <<jobs, queued, skipped>>
    BY <1>4 DEF Upsert, key, old
  <2>2. [old EXCEPT !.pc = "job"] = state /\ state \in WorkerStates
    BY <1>2 DEF WorkerStates, Handling
  <2>3. /\ notification'[key] # "none" /\ StoreInv'
        /\ \A n \in Notifications : /\ notification[n] # "none" => notification'[n] # "none"
                                    /\ notification'[n] = "DELIVERED" => notification[n] = "DELIVERED"
    BY <2>1, <1>1, <1>2, <1>3 DEF StoreInv
  <2>4. Keeps /\ QueueInv'
    BY <2>1, <2>3, <1>3 DEF Keeps, QueueInv, StoreInv
  <2>5. GoodWorker(state, notification', queued' \cup skipped')
    BY <2>1, <2>2, <2>3, <1>2 DEF GoodWorker, Handling, event
  <2>6. worker' = [worker EXCEPT ![w] = state]
    BY <2>1, <2>2
  <2> HIDE DEF state
  <2> QED BY <2>3, <2>4, <2>5, <2>6, <1>1, WorkerPreserves
<1>5. CASE UpsertFails(w) \/ DropJob(w)
  <2>1. /\ old.pc \in {"upsert", "job"} /\ NextChannel(w) /\ skipped' = skipped \cup {key}
        /\ UNCHANGED <<notification, jobs, queued>>
    BY <1>5 DEF UpsertFails, DropJob, key, old
  <2>2. StoreInv' /\ QueueInv' /\ Keeps /\ \A n \in Notifications : notification'[n] = notification[n]
    BY <2>1, <1>1, <1>2, <1>3 DEF StoreInv, QueueInv, Keeps
  <2>3. queued \cup skipped \subseteq queued' \cup skipped' /\ Key(w) \in queued' \cup skipped'
    BY <2>1 DEF key
  <2>4. PICK state : /\ worker' = [worker EXCEPT ![w] = state]
                     /\ \A stored : GoodWorker(state, stored, queued' \cup skipped')
    BY <2>1, <2>3, NextChannelGood DEF old
  <2> QED BY <2>2, <2>4, <1>1, WorkerPreserves
<1>6. CASE AddJob(w)
  <2>1. /\ old.pc = "job" /\ NextChannel(w) /\ queued' = queued \cup {key}
        /\ jobs' = [jobs EXCEPT ![<<key, 1>>] = jobs[<<key, 1>>] + 1]
        /\ UNCHANGED <<notification, skipped>>
    BY <1>6 DEF AddJob, key, old
  <2>2. notification[key] # "none"
    BY <2>1, <1>2 DEF GoodWorker, event
  <2>3. <<key, 1>> \in Deliveries
    BY <1>2 DEF Deliveries, JobAttempts
  <2>4. jobs' \in [Deliveries -> Nat] /\ \A d \in Deliveries : d # <<key, 1>> => jobs'[d] = jobs[d]
    BY <2>1, <2>3, <1>3 DEF StoreInv
  <2>5. StoreInv' /\ Keeps /\ \A n \in Notifications : notification'[n] = notification[n]
    BY <2>1, <2>4, <1>1, <1>2, <1>3 DEF StoreInv, Keeps
  <2>6. QueueInv'
    <3>1. \A n \in queued' : notification'[n] # "none"
      BY <2>1, <2>2, <1>3 DEF QueueInv
    <3>2. ASSUME NEW d \in Deliveries, jobs'[d] > 0 PROVE d[1] \in queued'
      <4>1. CASE d = <<key, 1>>
        BY <4>1, <2>1
      <4>2. CASE d # <<key, 1>>
        BY <4>2, <3>2, <2>1, <2>4, <1>3 DEF QueueInv
      <4> QED BY <4>1, <4>2
    <3> QED BY <3>1, <3>2 DEF QueueInv
  <2>7. queued \cup skipped \subseteq queued' \cup skipped' /\ Key(w) \in queued' \cup skipped'
    BY <2>1 DEF key
  <2>8. PICK state : /\ worker' = [worker EXCEPT ![w] = state]
                     /\ \A stored : GoodWorker(state, stored, queued' \cup skipped')
    BY <2>1, <2>7, NextChannelGood DEF old
  <2> QED BY <2>5, <2>6, <2>8, <1>1, WorkerPreserves
<1>7. CASE Throws(w)
  <2> DEFINE next == IF old.pc # "finish" /\ event \in FanOut THEN "finish" ELSE "fail"
             state == [pc |-> next, batch |-> old.batch, channel |-> old.channel]
  <2>1. /\ worker' = [worker EXCEPT ![w] = [old EXCEPT !.pc = next]]
        /\ skipped' = IF worker'[w].pc = "fail" THEN skipped
                      ELSE skipped \cup {event} \X (old.channel..Len(Channels))
        /\ UNCHANGED <<notification, jobs, queued>>
    BY <1>7, <1>2 DEF Throws, old
  <2>2. [old EXCEPT !.pc = next] = state /\ state \in WorkerStates
    BY <1>2 DEF WorkerStates, Handling
  <2>3. worker' = [worker EXCEPT ![w] = state]
    BY <2>1, <2>2
  <2>4. worker'[w].pc = next
    BY <2>3 DEF DeliveryInv, WorkersInv
  <2>5. {event} \X (old.channel..Len(Channels)) \subseteq Notifications
    BY <1>2 DEF Notifications
  <2>6. StoreInv' /\ QueueInv' /\ Keeps /\ \A n \in Notifications : notification'[n] = notification[n]
    BY <2>1, <2>5, <1>1, <1>3 DEF StoreInv, QueueInv, Keeps
  <2>7. next = "finish" => \A i \in 1..Len(Channels) : <<event, i>> \in queued' \cup skipped'
    <3> SUFFICES ASSUME next = "finish", NEW i \in 1..Len(Channels)
                 PROVE  <<event, i>> \in queued' \cup skipped'
      OBVIOUS
    <3>1. old.pc \in {"upsert", "job"} /\ skipped' = skipped \cup {event} \X (old.channel..Len(Channels))
      BY <2>1, <2>4, <1>1
    <3>2. CASE i < old.channel
      <4>1. i \in 1..(old.channel - 1)
        BY <3>2, <1>2
      <4>2. <<event, i>> \in queued \cup skipped
        BY <3>1, <4>1, <1>2 DEF GoodWorker, event
      <4> QED BY <4>2, <2>6 DEF Keeps
    <3>3. CASE ~(i < old.channel)
      <4>1. i \in old.channel..Len(Channels)
        BY <3>3, <1>2
      <4> QED BY <4>1, <3>1
    <3> QED BY <3>2, <3>3
  <2>8. next \in {"finish", "fail"}
    OBVIOUS
  <2> HIDE DEF next
  <2>9. GoodWorker(state, notification', queued' \cup skipped')
    BY <2>2, <2>7, <2>8, <1>2 DEF GoodWorker, Handling, event
  <2> HIDE DEF state
  <2> QED BY <2>3, <2>6, <2>9, <1>1, WorkerPreserves
<1> QED BY <1>4, <1>5, <1>6, <1>7

-----------------------------------------------------------------------------
(* The steps of a delivery job, and of the outbox itself *)

LEMMA RunnerStepPreserves ==
  ASSUME DeliveryInv, NEW r \in Runners, RunnerStep(r)
  PROVE  DeliveryInv'
<1> DEFINE old == runner[r]
<1>1. UNCHANGED <<outbox, stale, queued, skipped, worker>>
  BY DEF RunnerStep, TakeJob, Send, RecordDelivery, NoDevice, DeliveryThrows, PushRefused, faults
<1>2. /\ old \in RunnerStates /\ GoodRunner(old, sent) /\ StoreInv /\ QueueInv /\ DeliveredWasSent
      /\ runner \in [Runners -> RunnerStates]
  BY DEF DeliveryInv, RunnersInv
<1>3. /\ DOMAIN jobs = Deliveries
      /\ \A d \in Deliveries : d[1] \in Notifications /\ d[2] \in 1..JobAttempts /\ d = <<d[1], d[2]>>
  BY <1>2 DEF StoreInv, Deliveries
<1> HIDE DEF old
<1>4. IdleRunner \in RunnerStates /\ IdleRunner.pc = "idle"
  BY DEF RunnerStates, IdleRunner
<1>5. ASSUME NEW j \in Deliveries, TakeJob(r, j) PROVE DeliveryInv'
  <2> DEFINE state == [pc |-> "deliver", job |-> j]
  <2>1. /\ jobs[j] > 0 /\ jobs' = [jobs EXCEPT ![j] = jobs[j] - 1] /\ UNCHANGED <<notification, sent>>
        /\ runner' = [runner EXCEPT ![r] = state]
    BY <1>5 DEF TakeJob
  <2>2. /\ jobs' \in [Deliveries -> Nat] /\ jobs'[j] = jobs[j] - 1
        /\ \A d \in Deliveries : d # j => jobs'[d] = jobs[d]
    BY <2>1, <1>2 DEF StoreInv
  <2>3. \A d \in Deliveries : jobs'[d] > 0 => jobs[d] > 0
    BY <2>1, <2>2
  <2>4. StoreInv' /\ QueueInv'
    BY <2>1, <2>2, <2>3, <1>1, <1>2 DEF StoreInv, QueueInv
  <2>5. state \in RunnerStates /\ GoodRunner(state, sent')
    BY <2>1, <1>2 DEF RunnerStates, GoodRunner, QueueInv
  <2> HIDE DEF state
  <2> QED BY <2>1, <2>4, <2>5, <1>1, RunnerPreserves
<1>6. CASE Send(r)
  <2> DEFINE n == old.job[1]
             state == [pc |-> "sent", job |-> old.job]
  <2>1. /\ old.pc = "deliver" /\ sent' = sent \cup {n} /\ UNCHANGED <<notification, jobs>>
        /\ runner' = [runner EXCEPT ![r] = [old EXCEPT !.pc = "sent"]]
    BY <1>6 DEF Send, old
  <2>2. old.job \in Deliveries /\ n \in queued /\ n \in Notifications
    BY <2>1, <1>2, <1>3 DEF GoodRunner
  <2>3. [old EXCEPT !.pc = "sent"] = state /\ state \in RunnerStates
    BY <1>2 DEF RunnerStates
  <2>4. sent' \subseteq Notifications /\ sent' = sent \cup {n}
    BY <2>1, <2>2, <1>2 DEF StoreInv
  <2>5. GoodRunner(state, sent')
    BY <2>2, <2>4, <1>1 DEF GoodRunner
  <2>6. StoreInv' /\ QueueInv'
    BY <2>1, <2>4, <1>1, <1>2 DEF StoreInv, QueueInv
  <2>7. \A m \in Notifications :
          /\ m \in sent => m \in sent'
          /\ m \in sent' => m \in sent \/ m \in queued
    BY <2>2, <2>4
  <2>8. runner' = [runner EXCEPT ![r] = state]
    BY <2>1, <2>3
  <2>9. \A m \in Notifications :
          /\ notification[m] # "none" => notification'[m] # "none"
          /\ notification'[m] = "DELIVERED" =>
               notification[m] = "DELIVERED" \/ m \in sent \/ Channels[m[2]] = "PUSH"
          /\ m \in sent => m \in sent'
          /\ m \in sent' => m \in sent \/ m \in queued
    BY <2>1, <2>7
  <2> HIDE DEF state, n
  <2> QED BY <2>3, <2>5, <2>6, <2>8, <2>9, <1>1, RunnerPreserves
<1>7. ASSUME runner' = [runner EXCEPT ![r] = IdleRunner], sent' = sent, StoreInv', QueueInv',
             \A n \in Notifications :
               /\ notification[n] # "none" => notification'[n] # "none"
               /\ notification'[n] = "DELIVERED" =>
                    notification[n] = "DELIVERED" \/ n \in sent \/ Channels[n[2]] = "PUSH"
      PROVE  DeliveryInv'
  <2>1. GoodRunner(IdleRunner, sent')
    BY <1>4 DEF GoodRunner
  <2> QED BY <2>1, <1>1, <1>4, <1>7, RunnerPreserves
<1>8. ASSUME NEW n \in queued, NEW new \in {"DELIVERED", "FAILED"},
             notification' = [notification EXCEPT ![n] = new] \/ notification' = notification,
             new = "DELIVERED" => n \in sent \/ Channels[n[2]] = "PUSH",
             \/ jobs' = jobs
             \/ \E attempt \in 1..JobAttempts : jobs' = RunAgain(n, attempt),
             sent' = sent
      PROVE  /\ StoreInv' /\ QueueInv'
             /\ \A m \in Notifications :
                  /\ notification[m] # "none" => notification'[m] # "none"
                  /\ notification'[m] = "DELIVERED" =>
                       notification[m] = "DELIVERED" \/ m \in sent \/ Channels[m[2]] = "PUSH"
  <2>1. n \in Notifications
    BY <1>2 DEF StoreInv
  <2>2. /\ notification' \in [Notifications -> {"none", "PENDING", "DELIVERED", "FAILED"}]
        /\ \A m \in Notifications :
             notification'[m] = notification[m] \/ (m = n /\ notification'[m] = new)
    <3>0. notification \in [Notifications -> {"none", "PENDING", "DELIVERED", "FAILED"}]
      BY <1>2 DEF StoreInv
    <3>1. CASE notification' = notification
      BY <3>0, <3>1
    <3>2. CASE notification' = [notification EXCEPT ![n] = new]
      BY <3>0, <3>2, <2>1
    <3> QED BY <3>1, <3>2, <1>8
  <2>3. /\ jobs' \in [Deliveries -> Nat]
        /\ \A d \in Deliveries : jobs'[d] > 0 => jobs[d] > 0 \/ d[1] = n
    <3>1. CASE jobs' = jobs
      BY <3>1, <1>2 DEF StoreInv
    <3>2. ASSUME NEW attempt \in 1..JobAttempts, attempt < JobAttempts,
                 jobs' = [jobs EXCEPT ![<<n, attempt + 1>>] = jobs[<<n, attempt + 1>>] + 1]
          PROVE  /\ jobs' \in [Deliveries -> Nat]
                 /\ \A d \in Deliveries : jobs'[d] > 0 => jobs[d] > 0 \/ d[1] = n
      <4> DEFINE again == <<n, attempt + 1>>
      <4>1. again \in Deliveries
        BY <2>1, <3>2 DEF Deliveries, JobAttempts
      <4>2. again[1] = n
        OBVIOUS
      <4> HIDE DEF again
      <4>3. jobs' = [jobs EXCEPT ![again] = jobs[again] + 1]
        BY <3>2 DEF again
      <4>4. jobs' \in [Deliveries -> Nat] /\ \A d \in Deliveries : d # again => jobs'[d] = jobs[d]
        BY <4>1, <4>3, <1>2 DEF StoreInv
      <4> QED BY <4>2, <4>4
    <3> QED BY <3>1, <3>2, <1>8 DEF RunAgain
  <2>4. StoreInv'
    BY <2>2, <2>3, <1>1, <1>2, <1>8 DEF StoreInv
  <2>5. QueueInv'
    <3>1. \A m \in queued : notification'[m] # "none"
      BY <2>2, <1>2 DEF QueueInv, StoreInv
    <3>2. \A d \in Deliveries : jobs'[d] > 0 => d[1] \in queued
      BY <2>3, <1>2 DEF QueueInv
    <3> QED BY <3>1, <3>2, <1>1 DEF QueueInv
  <2>6. \A m \in Notifications :
          /\ notification[m] # "none" => notification'[m] # "none"
          /\ notification'[m] = "DELIVERED" =>
               notification[m] = "DELIVERED" \/ m \in sent \/ Channels[m[2]] = "PUSH"
    BY <2>2, <1>8
  <2> QED BY <2>4, <2>5, <2>6
<1>9. old.pc # "idle" => old.job \in Deliveries /\ old.job[1] \in queued /\ old.job[2] \in 1..JobAttempts
  BY <1>2, <1>3 DEF GoodRunner
<1>10. CASE RecordDelivery(r)
  <2>1. /\ old.pc = "sent" /\ notification' = [notification EXCEPT ![old.job[1]] = "DELIVERED"]
        /\ runner' = [runner EXCEPT ![r] = IdleRunner] /\ jobs' = jobs /\ sent' = sent
    BY <1>10 DEF RecordDelivery, old
  <2>2. old.job[1] \in sent
    BY <2>1, <1>2 DEF GoodRunner
  <2> QED BY <2>1, <2>2, <1>7, <1>8, <1>9
<1>11. CASE NoDevice(r)
  <2>1. /\ old.pc = "deliver" /\ notification' = [notification EXCEPT ![old.job[1]] = "DELIVERED"]
        /\ Channels[old.job[1][2]] = "PUSH"
        /\ runner' = [runner EXCEPT ![r] = IdleRunner] /\ jobs' = jobs /\ sent' = sent
    BY <1>11 DEF NoDevice, old
  <2> QED BY <2>1, <1>7, <1>8, <1>9
<1>12. CASE DeliveryThrows(r)
  <2>1. /\ old.pc \in {"deliver", "sent"} /\ jobs' = RunAgain(old.job[1], old.job[2])
        /\ \/ notification' = [notification EXCEPT ![old.job[1]] = "FAILED"]
           \/ notification' = notification
        /\ runner' = [runner EXCEPT ![r] = IdleRunner] /\ sent' = sent
    BY <1>12 DEF DeliveryThrows, old
  <2> QED BY <2>1, <1>7, <1>8, <1>9
<1>13. CASE PushRefused(r)
  <2>1. /\ old.pc = "deliver" /\ notification' = [notification EXCEPT ![old.job[1]] = "FAILED"]
        /\ jobs' = jobs \/ jobs' = RunAgain(old.job[1], old.job[2])
        /\ runner' = [runner EXCEPT ![r] = IdleRunner] /\ sent' = sent
    BY <1>13 DEF PushRefused, old
  <2> QED BY <2>1, <1>7, <1>8, <1>9
<1> QED BY <1>3, <1>5, <1>6, <1>10, <1>11, <1>12, <1>13 DEF RunnerStep

LEMMA RowsPreserve ==
  ASSUME DeliveryInv, NEW e \in Events, Enqueue(e) \/ Age(e)
  PROVE  DeliveryInv'
<1>1. UNCHANGED <<notification, jobs, queued, skipped, worker, runner, sent>>
  BY DEF Enqueue, Age
<1>2. WorkersInv' /\ QueueInv' /\ RunnersInv' /\ DeliveredWasSent'
  <2>1. WorkersInv'
    BY <1>1 DEF DeliveryInv, WorkersInv
  <2> QED BY <2>1, <1>1 DEF DeliveryInv, QueueInv, RunnersInv, GoodRunner, DeliveredWasSent
<1>3. StoreInv' /\ \A d \in Events : outbox'[d].status = "PROCESSED" => outbox[d].status = "PROCESSED"
  BY <1>1 DEF Enqueue, Age, DeliveryInv, StoreInv, EventStatus
<1>4. ProcessedMeansQueued'
  BY <1>1, <1>3 DEF DeliveryInv, ProcessedMeansQueued
<1> QED BY <1>2, <1>3, <1>4 DEF DeliveryInv

LEMMA InitDelivery == Init => DeliveryInv
<1> SUFFICES ASSUME Init PROVE DeliveryInv
  OBVIOUS
<1>1. StoreInv
  BY DEF Init, StoreInv, EventStatus, Deliveries
<1>2. WorkersInv
  <2>1. IdleWorker \in WorkerStates /\ IdleWorker.pc = "idle" /\ IdleWorker.channel = 1
    BY OutboxAssumption DEF WorkerStates, IdleWorker, Batches
  <2> QED BY <2>1 DEF Init, WorkersInv, GoodWorker, Handling
<1>3. RunnersInv
  <2>1. IdleRunner \in RunnerStates /\ IdleRunner.pc = "idle"
    BY DEF RunnerStates, IdleRunner
  <2> QED BY <2>1 DEF Init, RunnersInv, GoodRunner
<1>4. QueueInv
  BY DEF Init, QueueInv, Deliveries
<1>5. ProcessedMeansQueued /\ DeliveredWasSent
  BY DEF Init, ProcessedMeansQueued, DeliveredWasSent
<1> QED BY <1>1, <1>2, <1>3, <1>4, <1>5 DEF DeliveryInv

LEMMA NextDelivery == DeliveryInv /\ [Next]_vars => DeliveryInv'
<1> SUFFICES ASSUME DeliveryInv, [Next]_vars PROVE DeliveryInv'
  OBVIOUS
<1>1. CASE \E e \in Events : Enqueue(e) \/ Age(e)
  BY <1>1, RowsPreserve
<1>2. ASSUME NEW w \in Workers, WorkerStep(w) PROVE DeliveryInv'
  BY <1>2, BatchStepsPreserve, RowStepsPreserve, ChannelStepsPreserve DEF WorkerStep
<1>3. ASSUME NEW r \in Runners, RunnerStep(r) PROVE DeliveryInv'
  BY <1>3, RunnerStepPreserves
<1>4. CASE UNCHANGED vars
  <2>1. UNCHANGED <<outbox, stale, notification, jobs, queued, skipped, worker, runner, sent>>
    BY <1>4 DEF vars
  <2> QED BY <2>1 DEF DeliveryInv, StoreInv, WorkersInv, QueueInv, RunnersInv, GoodRunner,
         ProcessedMeansQueued, DeliveredWasSent
<1> QED BY <1>1, <1>2, <1>3, <1>4 DEF Next

\* Every event that is PROCESSED has had its jobs, whatever number of workers
\* read the same rows and whatever crashed (outbox.processor.ts).
THEOREM ProcessedWasQueued == Spec => []ProcessedMeansQueued
<1>1. DeliveryInv => ProcessedMeansQueued
  BY DEF DeliveryInv
<1> QED BY <1>1, InitDelivery, NextDelivery, PTL DEF Spec

\* What is DELIVERED went to the provider, and what went there was queued and
\* stored (delivery processors).
THEOREM DeliveredIsSent == Spec => []DeliveredWasSent
<1>1. DeliveryInv => DeliveredWasSent
  BY DEF DeliveryInv
<1> QED BY <1>1, InitDelivery, NextDelivery, PTL DEF Spec

-----------------------------------------------------------------------------
(* What a finished event may still come to *)

Final == {"PROCESSED", "DEAD_LETTER"}
Forward == \A e \in Events :
  /\ outbox[e].status \in Final =>
       /\ Holders(e)' \subseteq Holders(e)
       /\ outbox'[e] # outbox[e] => \E w \in Holders(e) : worker'[w] # worker[w]
  /\ outbox'[e].attempts < outbox[e].attempts =>
       \E w \in Workers : \E row \in worker[w].batch : row[1] = e /\ row[2] < outbox[e].attempts

\* The worker takes no row of a finished event, and writes only what it holds:
\* the status, or the attempts it read and one more.
WritesHeld(w) ==
  \/ outbox' = outbox
  \/ /\ worker'[w] # worker[w]
     /\ \A e \in Events : outbox'[e] # outbox[e] =>
          \E row \in worker[w].batch :
            row[1] = e /\ outbox'[e].attempts \in {outbox[e].attempts, row[2] + 1}
TakesOpen(w) ==
  \A row \in worker'[w].batch : row \in worker[w].batch \/ outbox[row[1]].status \notin Final

LEMMA HeldGoesForward ==
  ASSUME DeliveryInv, NEW w \in Workers, NEW state, worker' = [worker EXCEPT ![w] = state],
         WritesHeld(w), TakesOpen(w)
  PROVE  Forward
<1>1. worker'[w] = state /\ \A v \in Workers : v # w => worker'[v] = worker[v]
  BY DEF DeliveryInv, WorkersInv
<1>2. SUFFICES ASSUME NEW e \in Events
               PROVE  /\ outbox[e].status \in Final =>
                           /\ Holders(e)' \subseteq Holders(e)
                           /\ outbox'[e] # outbox[e] => \E v \in Holders(e) : worker'[v] # worker[v]
                      /\ outbox'[e].attempts < outbox[e].attempts =>
                           \E v \in Workers : \E row \in worker[v].batch :
                             row[1] = e /\ row[2] < outbox[e].attempts
  BY DEF Forward
<1>3. ASSUME outbox[e].status \in Final, NEW v \in Holders(e)' PROVE v \in Holders(e)
  <2>1. v \in Workers /\ \E row \in worker'[v].batch : row[1] = e
    BY DEF Holders
  <2>2. CASE v = w
    BY <2>1, <2>2, <1>3 DEF Holders, TakesOpen
  <2>3. CASE v # w
    BY <2>1, <2>3, <1>1 DEF Holders
  <2> QED BY <2>2, <2>3
<1>4. ASSUME outbox'[e] # outbox[e] PROVE \E v \in Holders(e) : worker'[v] # worker[v]
  BY <1>4 DEF WritesHeld, Holders
<1>5. ASSUME outbox'[e].attempts < outbox[e].attempts
      PROVE  \E v \in Workers : \E row \in worker[v].batch : row[1] = e /\ row[2] < outbox[e].attempts
  <2>1. outbox[e].attempts \in Nat
    BY DEF DeliveryInv, StoreInv
  <2>2. outbox'[e] # outbox[e] /\ outbox'[e].attempts # outbox[e].attempts
    BY <2>1, <1>5
  <2>3. PICK row \in worker[w].batch : row[1] = e /\ outbox'[e].attempts = row[2] + 1
    BY <2>2 DEF WritesHeld
  <2>4. row[2] \in Nat
    BY RowInProgress DEF WorkerStates, Batches
  <2> QED BY <2>1, <2>3, <2>4, <1>5
<1> QED BY <1>3, <1>4, <1>5

\* A retry and the write of PROCESSED are of the row the worker is at.
LEMMA RowWritten ==
  ASSUME DeliveryInv, NEW w \in Workers, worker[w].batch # {}, worker'[w] # worker[w], NEW new,
         outbox' = [outbox EXCEPT ![Current(w)[1]] = new],
         new.attempts \in {outbox[Current(w)[1]].attempts, Current(w)[2] + 1}
  PROVE  WritesHeld(w)
<1>1. Current(w) \in worker[w].batch /\ Current(w)[1] \in Events
  BY RowInProgress
<1>2. /\ outbox'[Current(w)[1]] = new
      /\ \A e \in Events : e # Current(w)[1] => outbox'[e] = outbox[e]
  BY <1>1 DEF DeliveryInv, StoreInv
<1> QED BY <1>1, <1>2 DEF WritesHeld

LEMMA BatchForward ==
  ASSUME DeliveryInv, NEW w \in Workers,
         \/ ListStale(w) \/ Recover(w) \/ RecoverFails(w) \/ Select(w) \/ Claim(w) \/ Crash(w)
  PROVE  Forward
<1> DEFINE old == worker[w]
<1>1. old \in WorkerStates /\ old.batch \in Batches /\ worker \in [Workers -> WorkerStates]
  BY RowInProgress DEF WorkerStates, DeliveryInv, WorkersInv
<1>2. \A status \in EventStatus : \A row \in Rows(status) : outbox[row[1]].status = status
  <2> SUFFICES ASSUME NEW status \in EventStatus, NEW row \in Rows(status)
               PROVE  outbox[row[1]].status = status
    OBVIOUS
  <2>1. PICK e \in Events : outbox[e].status = status /\ row = <<e, outbox[e].attempts>>
    BY DEF Rows
  <2>2. row[1] = e
    BY <2>1
  <2> QED BY <2>1, <2>2
<1>3. \A row \in Rows("PENDING") \cup Rows("PROCESSING") : outbox[row[1]].status \notin Final
  BY <1>2 DEF EventStatus, Final
<1>4. ASSUME NEW state, worker' = [worker EXCEPT ![w] = state], outbox' = outbox,
             state.batch \subseteq old.batch \cup Rows("PENDING") \cup Rows("PROCESSING")
      PROVE  Forward
  <2>1. worker'[w] = state
    BY <1>1, <1>4
  <2> QED BY <2>1, <1>3, <1>4, HeldGoesForward DEF WritesHeld, TakesOpen
<1> HIDE DEF old
<1>5. CASE ListStale(w)
  <2> DEFINE found == {row \in Rows("PROCESSING") : row[1] \in stale}
             state == [old EXCEPT !.pc = "recover", !.batch = found]
  <2>1. worker' = [worker EXCEPT ![w] = state] /\ outbox' = outbox
    BY <1>5 DEF ListStale, old
  <2>2. found \subseteq Rows("PROCESSING")
    OBVIOUS
  <2> HIDE DEF found
  <2>3. state = [pc |-> "recover", batch |-> found, channel |-> old.channel]
    BY <1>1, NewBatch
  <2>4. state.batch = found
    BY <2>3
  <2> HIDE DEF state
  <2> QED BY <2>1, <2>2, <2>4, <1>4
<1>6. CASE RecoverFails(w)
  <2> DEFINE state == [old EXCEPT !.batch = {}]
  <2>1. worker' = [worker EXCEPT ![w] = state] /\ outbox' = outbox
    BY <1>6 DEF RecoverFails, old
  <2>2. state.batch = {}
    BY <1>1 DEF WorkerStates
  <2> HIDE DEF state
  <2> QED BY <2>1, <2>2, <1>4
<1>7. CASE Crash(w)
  <2>1. worker' = [worker EXCEPT ![w] = IdleWorker] /\ outbox' = outbox /\ IdleWorker.batch = {}
    BY <1>7 DEF Crash, IdleWorker
  <2> QED BY <2>1, <1>4
<1>8. CASE Select(w)
  <2> DEFINE rows == Rows("PENDING")
             state == IF rows = {} THEN IdleWorker ELSE [old EXCEPT !.pc = "claim", !.batch = rows]
  <2>1. worker' = [worker EXCEPT ![w] = state] /\ outbox' = outbox
    BY <1>8 DEF Select, old
  <2> HIDE DEF rows
  <2>2. [old EXCEPT !.pc = "claim", !.batch = rows].batch = rows
    <3>1. [old EXCEPT !.pc = "claim", !.batch = rows]
            = [pc |-> "claim", batch |-> rows, channel |-> old.channel]
      BY <1>1, NewBatch
    <3> QED BY <3>1
  <2>3. state.batch \subseteq rows
    BY <2>2 DEF IdleWorker
  <2> HIDE DEF state
  <2> QED BY <2>1, <2>3, <1>4 DEF rows
<1>9. CASE Recover(w)
  <2> DEFINE row == Current(w)
             state == [old EXCEPT !.batch = old.batch \ {row}]
             new == [status |-> IF row[2] + 1 >= MaxAttempts THEN "DEAD_LETTER" ELSE "PENDING",
                     attempts |-> row[2] + 1]
  <2>1. /\ old.batch # {} /\ worker' = [worker EXCEPT ![w] = state]
        /\ outbox' = [outbox EXCEPT ![row[1]] = new]
    BY <1>9 DEF Recover, Retry, old
  <2>2. new.attempts = row[2] + 1
    OBVIOUS
  <2> HIDE DEF new
  <2>3. row \in old.batch
    BY <2>1, RowInProgress DEF old
  <2> HIDE DEF row
  <2>4. state.batch = old.batch \ {row}
    BY <1>1 DEF WorkerStates
  <2> HIDE DEF state
  <2>5. worker'[w] = state /\ worker'[w] # old
    BY <2>1, <2>3, <2>4, <1>1
  <2>6. WritesHeld(w)
    BY <2>1, <2>2, <2>5, RowWritten DEF old, row
  <2>7. TakesOpen(w)
    BY <2>4, <2>5 DEF TakesOpen, old
  <2> QED BY <2>1, <2>6, <2>7, HeldGoesForward
<1>10. CASE Claim(w)
  <2> DEFINE state == [old EXCEPT !.pc = "upsert"]
             claimed == {row[1] : row \in old.batch}
  <2>1. /\ old.pc = "claim" /\ worker' = [worker EXCEPT ![w] = state]
        /\ outbox' = [e \in Events |-> IF e \in claimed THEN [outbox[e] EXCEPT !.status = "PROCESSING"]
                                       ELSE outbox[e]]
    BY <1>10 DEF Claim, old
  <2>2. state.batch = old.batch /\ state.pc = "upsert"
    BY <1>1 DEF WorkerStates
  <2> HIDE DEF state
  <2>3. worker'[w] = state /\ worker'[w] # old
    BY <2>1, <2>2, <1>1
  <2>4. \A e \in Events : outbox'[e].attempts = outbox[e].attempts /\ (outbox'[e] # outbox[e] => e \in claimed)
    <3>1. \A e \in Events : outbox[e] \in [status : EventStatus, attempts : Nat]
      BY DEF DeliveryInv, StoreInv
    <3> QED BY <3>1, <2>1
  <2>5. WritesHeld(w)
    BY <2>3, <2>4 DEF WritesHeld, old
  <2>6. TakesOpen(w)
    BY <2>2, <2>3 DEF TakesOpen, old
  <2> QED BY <2>1, <2>5, <2>6, HeldGoesForward
<1> QED BY <1>5, <1>6, <1>7, <1>8, <1>9, <1>10

LEMMA RowForward ==
  ASSUME DeliveryInv, NEW w \in Workers, Finish(w) \/ Fail(w)
  PROVE  Forward
<1> DEFINE row == Current(w)
           rest == worker[w].batch \ {row}
           state == IF rest = {} THEN IdleWorker ELSE [pc |-> "upsert", batch |-> rest, channel |-> 1]
<1>1. worker[w].pc \in {"finish", "fail"} /\ worker' = [worker EXCEPT ![w] = state]
  BY DEF Finish, Fail, NextEvent
<1>2. worker[w].batch # {} /\ worker \in [Workers -> WorkerStates]
  BY <1>1, RowInProgress DEF GoodWorker, Handling, DeliveryInv, WorkersInv
<1>3. row \in worker[w].batch /\ row[1] \in Events
  BY <1>2, RowInProgress
<1> HIDE DEF row
<1>4. state.batch = rest
  BY DEF IdleWorker
<1> HIDE DEF state
<1>5. worker'[w] = state /\ worker'[w] # worker[w]
  BY <1>1, <1>2, <1>3, <1>4
<1>6. TakesOpen(w)
  BY <1>4, <1>5 DEF TakesOpen
<1>7. WritesHeld(w)
  <2>1. CASE Finish(w)
    <3> DEFINE new == [outbox[row[1]] EXCEPT !.status = "PROCESSED"]
    <3>1. outbox' = [outbox EXCEPT ![row[1]] = new]
      BY <2>1 DEF Finish, row
    <3>2. new.attempts = outbox[row[1]].attempts
      BY <1>3 DEF DeliveryInv, StoreInv
    <3> HIDE DEF new
    <3> QED BY <3>1, <3>2, <1>2, <1>5, RowWritten DEF row
  <2>2. CASE Fail(w)
    <3> DEFINE new == [status |-> IF row[2] + 1 >= MaxAttempts THEN "DEAD_LETTER" ELSE "PENDING",
                       attempts |-> row[2] + 1]
    <3>1. outbox' = [outbox EXCEPT ![row[1]] = new]
      BY <2>2 DEF Fail, Retry, row
    <3>2. new.attempts = row[2] + 1
      OBVIOUS
    <3> HIDE DEF new
    <3> QED BY <3>1, <3>2, <1>2, <1>5, RowWritten DEF row
  <2> QED BY <2>1, <2>2
<1> QED BY <1>1, <1>6, <1>7, HeldGoesForward

LEMMA ChannelForward ==
  ASSUME DeliveryInv, NEW w \in Workers,
         Upsert(w) \/ UpsertFails(w) \/ AddJob(w) \/ DropJob(w) \/ Throws(w)
  PROVE  Forward
<1> DEFINE old == worker[w]
<1>1. old \in WorkerStates /\ outbox' = outbox /\ worker \in [Workers -> WorkerStates]
  BY RowInProgress DEF Upsert, UpsertFails, AddJob, DropJob, Throws, DeliveryInv, WorkersInv
<1> HIDE DEF old
<1>2. ASSUME NEW state, worker' = [worker EXCEPT ![w] = state], state.batch = old.batch
      PROVE  Forward
  <2>1. worker'[w] = state
    BY <1>1, <1>2
  <2> QED BY <2>1, <1>1, <1>2, HeldGoesForward DEF WritesHeld, TakesOpen, old
<1>3. ASSUME NEW pc, worker' = [worker EXCEPT ![w] = [old EXCEPT !.pc = pc]]
      PROVE  Forward
  <2> DEFINE state == [old EXCEPT !.pc = pc]
  <2>1. state.batch = old.batch
    BY <1>1 DEF WorkerStates
  <2>2. worker' = [worker EXCEPT ![w] = state]
    BY <1>3
  <2> HIDE DEF state
  <2> QED BY <2>1, <2>2, <1>2
<1>4. ASSUME NextChannel(w) PROVE Forward
  <2>1. CASE old.channel < Len(Channels)
    <3> DEFINE state == [old EXCEPT !.pc = "upsert", !.channel = old.channel + 1]
    <3>1. worker' = [worker EXCEPT ![w] = state]
      BY <2>1, <1>4 DEF NextChannel, old
    <3>2. state = [pc |-> "upsert", batch |-> old.batch, channel |-> old.channel + 1]
      BY <1>1, NewChannel
    <3>3. state.batch = old.batch
      BY <3>2
    <3> HIDE DEF state
    <3> QED BY <3>1, <3>3, <1>2
  <2>2. CASE ~(old.channel < Len(Channels))
    <3>1. worker' = [worker EXCEPT ![w] = [old EXCEPT !.pc = "finish"]]
      BY <2>2, <1>4 DEF NextChannel, old
    <3> QED BY <3>1, <1>3
  <2> QED BY <2>1, <2>2
<1>5. CASE Upsert(w)
  <2>1. worker' = [worker EXCEPT ![w] = [old EXCEPT !.pc = "job"]]
    BY <1>5 DEF Upsert, old
  <2> QED BY <2>1, <1>3
<1>6. CASE UpsertFails(w) \/ AddJob(w) \/ DropJob(w)
  BY <1>4, <1>6 DEF UpsertFails, AddJob, DropJob
<1>7. CASE Throws(w)
  <2>1. worker' = [worker EXCEPT ![w] = [old EXCEPT !.pc =
          IF old.pc # "finish" /\ Current(w)[1] \in FanOut THEN "finish" ELSE "fail"]]
    BY <1>7 DEF Throws, old
  <2> QED BY <2>1, <1>3
<1> QED BY <1>5, <1>6, <1>7

\* A new event, the clock and the runners change no event that is finished.
LEMMA OthersForward ==
  ASSUME DeliveryInv,
         \/ \E e \in Events : Enqueue(e) \/ Age(e)
         \/ \E r \in Runners : RunnerStep(r)
         \/ UNCHANGED vars
  PROVE  Forward
<1>1. worker' = worker
  BY DEF Enqueue, Age, RunnerStep, TakeJob, Send, RecordDelivery, NoDevice, DeliveryThrows,
     PushRefused, vars
<1>2. \A d \in Events : Holders(d)' = Holders(d)
  BY <1>1 DEF Holders
<1>3. \A d \in Events : outbox[d] \in [status : EventStatus, attempts : Nat]
  BY DEF DeliveryInv, StoreInv
<1>4. \A d \in Events : /\ outbox[d].status \in Final => outbox'[d] = outbox[d]
                        /\ outbox'[d].attempts = outbox[d].attempts
  <2>1. CASE outbox' = outbox
    BY <2>1
  <2>2. ASSUME NEW e \in Events, Enqueue(e)
        PROVE  \A d \in Events : /\ outbox[d].status \in Final => outbox'[d] = outbox[d]
                                /\ outbox'[d].attempts = outbox[d].attempts
    BY <2>2, <1>3 DEF Enqueue, Final, DeliveryInv, StoreInv
  <2>3. outbox' = outbox \/ \E e \in Events : Enqueue(e)
    BY DEF Age, RunnerStep, TakeJob, Send, RecordDelivery, NoDevice, DeliveryThrows, PushRefused, vars
  <2> QED BY <2>1, <2>2, <2>3
<1> QED BY <1>2, <1>3, <1>4 DEF Forward

\* However many workers read the same rows: a finished event that no worker
\* holds is final, and one that is reopened is so by a worker that held it when
\* it finished (outbox.processor.ts).
THEOREM FinishedStaysWithHolders == Spec => ReopenedOnlyByHolder
<1>1. DeliveryInv /\ [Next]_vars => Forward
  <2> SUFFICES ASSUME DeliveryInv, [Next]_vars PROVE Forward
    OBVIOUS
  <2>1. ASSUME NEW w \in Workers, WorkerStep(w) PROVE Forward
    BY <2>1, BatchForward, RowForward, ChannelForward DEF WorkerStep
  <2> QED BY <2>1, OthersForward DEF Next
<1>2. Forward => \A e \in Events :
        /\ outbox[e].status \in {"PROCESSED", "DEAD_LETTER"} =>
             /\ Holders(e)' \subseteq Holders(e)
             /\ outbox'[e] # outbox[e] => \E w \in Holders(e) : worker'[w] # worker[w]
        /\ outbox'[e].attempts < outbox[e].attempts =>
             \E w \in Workers : \E row \in worker[w].batch :
               row[1] = e /\ row[2] < outbox[e].attempts
  BY DEF Forward, Final
<1> QED BY <1>1, <1>2, InitDelivery, NextDelivery, PTL DEF Spec, ReopenedOnlyByHolder
=============================================================================
