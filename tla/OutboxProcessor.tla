-------------------------- MODULE OutboxProcessor --------------------------
(***************************************************************************)
(* From the outbox to the user's device: workers that run processBatch on  *)
(* outbox_events, the orchestrator that turns an event into one            *)
(* notification and one BullMQ job per channel, and the runners of those   *)
(* jobs.  Events are numbered as they were created.  SELECT ... FOR UPDATE *)
(* SKIP LOCKED is a statement of its own, outside a transaction, so its    *)
(* locks are gone when the claim is written: selecting and claiming are    *)
(* two actions, and another worker may select the same rows in between.    *)
(***************************************************************************)
EXTENDS Naturals, Sequences

CONSTANTS NumEvents,
          Channels,     \* the channels the user's preferences allow, in the code's order
          FanOut,       \* the events handled by fanoutToUsers
          Workers, Runners,
          Queueless,    \* the workers whose process failed to set up its queue when it
                        \* started (a process that is started anew is another worker)
          MaxAttempts,  \* notifications.maxDeliveryAttempts
          MaxCrashes,   \* bound: processes lost
          MaxErrors,    \* bound: failed calls to the database, the queue or a provider
          None

Events == 1..NumEvents
Notifications == Events \X (1..Len(Channels))   \* the idempotency keys
JobAttempts == 3

ASSUME OutboxAssumption ==
  /\ NumEvents \in Nat /\ FanOut \subseteq Events /\ Queueless \subseteq Workers
  /\ Len(Channels) \in Nat \ {0}   \* a user who allows none gets no notification
  /\ MaxAttempts \in Nat \ {0} /\ MaxCrashes \in Nat /\ MaxErrors \in Nat

VARIABLES outbox,        \* outbox_events: status and attempts
          stale,         \* events whose processingStartedAt is over five minutes old
          notification,  \* notifications: status by idempotency key
          jobs,          \* BullMQ: waiting jobs, by notification and attempt
          queued,        \* history: the notifications for which a job was ever added
          skipped,       \* history: those given up without a job, after an error nobody
                         \* reports or for want of a queue
          worker, runner,
          sent,          \* the notifications a provider accepted, once or more often
          crashes, errors

vars == <<outbox, stale, notification, jobs, queued, skipped,
          worker, runner, sent, crashes, errors>>
faults == <<crashes, errors>>

IdleWorker == [pc |-> "idle", batch |-> {}, channel |-> 1]
IdleRunner == [pc |-> "idle", job |-> <<None, 0>>]

Init ==
  /\ outbox = [e \in Events |-> [status |-> "absent", attempts |-> 0]]
  /\ stale = {}
  /\ notification = [n \in Notifications |-> "none"]
  /\ jobs = [j \in Notifications \X (1..JobAttempts) |-> 0]
  /\ queued = {} /\ skipped = {}
  /\ worker = [w \in Workers |-> IdleWorker]
  /\ runner = [r \in Runners |-> IdleRunner]
  /\ sent = {}
  /\ crashes = 0 /\ errors = 0

\* The rows with a status, as a worker reads them: id and attempts.
Rows(status) == {<<e, outbox[e].attempts>> : e \in {d \in Events : outbox[d].status = status}}
\* A batch is handled oldest first; the row of the event in progress.
Current(w) == CHOOSE row \in worker[w].batch : \A other \in worker[w].batch : row[1] <= other[1]
Key(w) == <<Current(w)[1], worker[w].channel>>

\* A row's retry: attempts counts from the value the worker read.
Retry(row) ==
  LET next == row[2] + 1 IN
  /\ outbox' = [outbox EXCEPT ![row[1]] =
                  [status |-> IF next >= MaxAttempts THEN "DEAD_LETTER" ELSE "PENDING",
                   attempts |-> next]]
  /\ stale' = stale \ {row[1]}

-----------------------------------------------------------------------------
\* A domain transaction enqueues the next event.
Enqueue(e) ==
  /\ outbox[e].status = "absent"
  /\ \A d \in 1..(e - 1) : outbox[d].status # "absent"
  /\ outbox' = [outbox EXCEPT ![e].status = "PENDING"]
  /\ UNCHANGED <<stale, notification, jobs, queued, skipped, worker, runner, sent, faults>>

\* Five minutes have passed since the event was claimed.
Age(e) ==
  /\ outbox[e].status = "PROCESSING" /\ e \notin stale
  /\ stale' = stale \cup {e}
  /\ UNCHANGED <<outbox, notification, jobs, queued, skipped, worker, runner, sent, faults>>

-----------------------------------------------------------------------------
(* processBatch *)

\* recoverStaleProcessing lists the stale rows, then updates each by its id.
ListStale(w) ==
  /\ worker[w].pc = "idle"
  /\ \E e \in Events : outbox[e].status = "PENDING" \/ e \in stale
  /\ worker' = [worker EXCEPT ![w] =
       [@ EXCEPT !.pc = "recover", !.batch = {row \in Rows("PROCESSING") : row[1] \in stale}]]
  /\ UNCHANGED <<outbox, stale, notification, jobs, queued, skipped, runner, sent, faults>>

Recover(w) ==
  /\ worker[w].pc = "recover" /\ worker[w].batch # {}
  /\ Retry(Current(w))
  /\ worker' = [worker EXCEPT ![w].batch = @ \ {Current(w)}]
  /\ UNCHANGED <<notification, jobs, queued, skipped, runner, sent, faults>>

\* A failed update ends the recovery, and processBatch goes on.
RecoverFails(w) ==
  /\ worker[w].pc = "recover" /\ worker[w].batch # {} /\ errors < MaxErrors
  /\ errors' = errors + 1
  /\ worker' = [worker EXCEPT ![w].batch = {}]
  /\ UNCHANGED <<outbox, stale, notification, jobs, queued, skipped, runner, sent, crashes>>

\* Mutant of Select: the status is not part of the condition.
SelectFinished(w) ==
  LET found == Rows("PENDING") \cup Rows("PROCESSED") IN
  /\ worker[w].pc = "recover" /\ worker[w].batch = {}
  /\ worker' = [worker EXCEPT ![w] =
       IF found = {} THEN IdleWorker ELSE [@ EXCEPT !.pc = "claim", !.batch = found]]
  /\ UNCHANGED <<outbox, stale, notification, jobs, queued, skipped, runner, sent, faults>>

Select(w) ==
  /\ worker[w].pc = "recover" /\ worker[w].batch = {}
  /\ worker' = [worker EXCEPT ![w] =
       IF Rows("PENDING") = {} THEN IdleWorker
       ELSE [@ EXCEPT !.pc = "claim", !.batch = Rows("PENDING")]]
  /\ UNCHANGED <<outbox, stale, notification, jobs, queued, skipped, runner, sent, faults>>

Claim(w) ==
  LET claimed == {row[1] : row \in worker[w].batch} IN
  /\ worker[w].pc = "claim"
  /\ outbox' = [e \in Events |-> IF e \in claimed THEN [outbox[e] EXCEPT !.status = "PROCESSING"]
                                ELSE outbox[e]]
  /\ stale' = stale \ claimed
  /\ worker' = [worker EXCEPT ![w].pc = "upsert"]
  /\ UNCHANGED <<notification, jobs, queued, skipped, runner, sent, faults>>

\* The next event of the batch; after the last one the call returns.
NextEvent(w) ==
  LET rest == worker[w].batch \ {Current(w)} IN
  worker' = [worker EXCEPT ![w] =
    IF rest = {} THEN IdleWorker ELSE [pc |-> "upsert", batch |-> rest, channel |-> 1]]

Finish(w) ==
  /\ worker[w].pc = "finish"
  /\ outbox' = [outbox EXCEPT ![Current(w)[1]].status = "PROCESSED"]
  /\ stale' = stale \ {Current(w)[1]}
  /\ NextEvent(w)
  /\ UNCHANGED <<notification, jobs, queued, skipped, runner, sent, faults>>

\* The catch block.
Fail(w) ==
  /\ worker[w].pc = "fail"
  /\ Retry(Current(w))
  /\ NextEvent(w)
  /\ UNCHANGED <<notification, jobs, queued, skipped, runner, sent, faults>>

-----------------------------------------------------------------------------
(* orchestrate: for each channel an upsert by key, then a job *)

NextChannel(w) ==
  LET last == worker[w].channel IN
  worker' = [worker EXCEPT ![w] =
    IF last < Len(Channels) THEN [worker[w] EXCEPT !.pc = "upsert", !.channel = last + 1]
    ELSE [worker[w] EXCEPT !.pc = "finish"]]

\* Mutant of Upsert: no job for a notification that exists already.
UpsertSkipsDuplicate(w) ==
  /\ worker[w].pc = "upsert"
  /\ IF notification[Key(w)] = "none"
     THEN /\ notification' = [notification EXCEPT ![Key(w)] = "PENDING"]
          /\ worker' = [worker EXCEPT ![w].pc = "job"]
     ELSE NextChannel(w) /\ UNCHANGED notification
  /\ UNCHANGED <<outbox, stale, jobs, queued, skipped, runner, sent, faults>>

Upsert(w) ==
  /\ worker[w].pc = "upsert"
  /\ notification' = IF notification[Key(w)] = "none"
                     THEN [notification EXCEPT ![Key(w)] = "PENDING"] ELSE notification
  /\ worker' = [worker EXCEPT ![w].pc = "job"]
  /\ UNCHANGED <<outbox, stale, jobs, queued, skipped, runner, sent, faults>>

\* Any error of the upsert is taken for a duplicate and the channel skipped.
UpsertFails(w) ==
  /\ worker[w].pc = "upsert" /\ errors < MaxErrors
  /\ errors' = errors + 1
  /\ skipped' = skipped \cup {Key(w)}
  /\ NextChannel(w)
  /\ UNCHANGED <<outbox, stale, notification, jobs, queued, runner, sent, crashes>>

AddJob(w) ==
  /\ worker[w].pc = "job" /\ w \notin Queueless
  /\ jobs' = [jobs EXCEPT ![<<Key(w), 1>>] = @ + 1]
  /\ queued' = queued \cup {Key(w)}
  /\ NextChannel(w)
  /\ UNCHANGED <<outbox, stale, notification, skipped, runner, sent, faults>>

\* addJob of a process without the queue: a warning, and the job is dropped.
DropJob(w) ==
  /\ worker[w].pc = "job" /\ w \in Queueless
  /\ skipped' = skipped \cup {Key(w)}
  /\ NextChannel(w)
  /\ UNCHANGED <<outbox, stale, notification, jobs, queued, runner, sent, faults>>

\* A read of the preferences, the queue, or the write of PROCESSED fails;
\* fanoutToUsers swallows a user's error, and with it the remaining channels.
Throws(w) ==
  /\ worker[w].pc \in {"upsert", "job", "finish"} /\ errors < MaxErrors
  /\ errors' = errors + 1
  /\ worker' = [worker EXCEPT ![w].pc =
       IF @ # "finish" /\ Current(w)[1] \in FanOut THEN "finish" ELSE "fail"]
  /\ skipped' = IF worker'[w].pc = "fail" THEN skipped
                ELSE skipped \cup {Current(w)[1]} \X (worker[w].channel..Len(Channels))
  /\ UNCHANGED <<outbox, stale, notification, jobs, queued, runner, sent, crashes>>

\* The process is lost, or a database call outside the try fails.
Crash(w) ==
  /\ worker[w].pc # "idle" /\ crashes < MaxCrashes
  /\ crashes' = crashes + 1
  /\ worker' = [worker EXCEPT ![w] = IdleWorker]
  /\ UNCHANGED <<outbox, stale, notification, jobs, queued, skipped, runner, sent, errors>>

-----------------------------------------------------------------------------
(* The delivery job: processJob does not look at the notification's status *)

TakeJob(r, j) ==
  /\ runner[r].pc = "idle" /\ jobs[j] > 0
  /\ jobs' = [jobs EXCEPT ![j] = @ - 1]
  /\ runner' = [runner EXCEPT ![r] = [pc |-> "deliver", job |-> j]]
  /\ UNCHANGED <<outbox, stale, notification, queued, skipped, worker, sent, faults>>

\* The provider accepts; the attempt and the status are written afterwards.
Send(r) ==
  /\ runner[r].pc = "deliver"
  /\ sent' = sent \cup {runner[r].job[1]}
  /\ runner' = [runner EXCEPT ![r].pc = "sent"]
  /\ UNCHANGED <<outbox, stale, notification, jobs, queued, skipped, worker, faults>>

\* Mutant of RecordDelivery: recorded before the provider has accepted.
RecordBeforeSend(r) ==
  /\ runner[r].pc \in {"deliver", "sent"}
  /\ notification' = [notification EXCEPT ![runner[r].job[1]] = "DELIVERED"]
  /\ runner' = [runner EXCEPT ![r] = IdleRunner]
  /\ UNCHANGED <<outbox, stale, jobs, queued, skipped, worker, sent, faults>>

RecordDelivery(r) ==
  /\ runner[r].pc = "sent"
  /\ notification' = [notification EXCEPT ![runner[r].job[1]] = "DELIVERED"]
  /\ runner' = [runner EXCEPT ![r] = IdleRunner]
  /\ UNCHANGED <<outbox, stale, jobs, queued, skipped, worker, sent, faults>>

\* A user without an active device: the PUSH is DELIVERED with nothing sent.
NoDevice(r) ==
  LET n == runner[r].job[1] IN
  /\ runner[r].pc = "deliver" /\ Channels[n[2]] = "PUSH"
  /\ notification' = [notification EXCEPT ![n] = "DELIVERED"]
  /\ runner' = [runner EXCEPT ![r] = IdleRunner]
  /\ UNCHANGED <<outbox, stale, jobs, queued, skipped, worker, sent, faults>>

\* A transient failure throws, and BullMQ runs the job again, up to its limit.
RunAgain(n, attempt) ==
  IF attempt < JobAttempts THEN [jobs EXCEPT ![<<n, attempt + 1>>] = @ + 1] ELSE jobs

\* An exception, before or after the send: only EMAIL is marked FAILED.
DeliveryThrows(r) ==
  LET n == runner[r].job[1] IN
  /\ runner[r].pc \in {"deliver", "sent"} /\ errors < MaxErrors
  /\ errors' = errors + 1
  /\ notification' = IF Channels[n[2]] = "EMAIL" THEN [notification EXCEPT ![n] = "FAILED"]
                     ELSE notification
  /\ jobs' = RunAgain(n, runner[r].job[2])
  /\ runner' = [runner EXCEPT ![r] = IdleRunner]
  /\ UNCHANGED <<outbox, stale, queued, skipped, worker, sent, crashes>>

\* The push provider refuses every device; the refusal may be transient.
PushRefused(r) ==
  LET n == runner[r].job[1] IN
  /\ runner[r].pc = "deliver" /\ Channels[n[2]] = "PUSH" /\ errors < MaxErrors
  /\ errors' = errors + 1
  /\ notification' = [notification EXCEPT ![n] = "FAILED"]
  /\ jobs' \in {jobs, RunAgain(n, runner[r].job[2])}
  /\ runner' = [runner EXCEPT ![r] = IdleRunner]
  /\ UNCHANGED <<outbox, stale, queued, skipped, worker, sent, crashes>>

-----------------------------------------------------------------------------
WorkerStep(w) ==
  \/ ListStale(w) \/ Recover(w) \/ RecoverFails(w) \/ Select(w) \/ Claim(w) \/ Finish(w) \/ Fail(w)
  \/ Upsert(w) \/ UpsertFails(w) \/ AddJob(w) \/ DropJob(w) \/ Throws(w) \/ Crash(w)
RunnerStep(r) == \/ \E j \in DOMAIN jobs : TakeJob(r, j)
                 \/ Send(r) \/ RecordDelivery(r) \/ NoDevice(r) \/ DeliveryThrows(r) \/ PushRefused(r)

Next == \/ \E e \in Events : Enqueue(e) \/ Age(e)
        \/ \E w \in Workers : WorkerStep(w)
        \/ \E r \in Runners : RunnerStep(r)

Spec == Init /\ [][Next]_vars

-----------------------------------------------------------------------------
(* Properties *)

\* An event is PROCESSED only after each of its channels got a job, in this try
\* or in an earlier one that was cut short; the only ones without are those whose
\* error orchestrate or fanoutToUsers swallowed, and those that addJob dropped in
\* a process without a queue.
ProcessedMeansQueued ==
  \A e \in Events : outbox[e].status = "PROCESSED" =>
    \A i \in 1..Len(Channels) : <<e, i>> \in queued \cup skipped

\* The workers that hold a row of the event, as they read it.
Holders(e) == {w \in Workers : \E row \in worker[w].batch : row[1] = e}

\* Once an event is PROCESSED or DEAD_LETTER no worker takes it again, and only a
\* step of one that held a row of it by then, selected or stale, can still change
\* it: a finished event that nobody holds is final.  (A slow worker whose claim
\* was taken for stale does take a finished event back: the row locks of
\* outbox.processor.ts end with the SELECT, and no write looks at the status.)
\* A try that was counted is forgotten only by one that read fewer before.
ReopenedOnlyByHolder ==
  [][\A e \in Events :
       /\ outbox[e].status \in {"PROCESSED", "DEAD_LETTER"} =>
            /\ Holders(e)' \subseteq Holders(e)
            /\ outbox'[e] # outbox[e] => \E w \in Holders(e) : worker'[w] # worker[w]
       /\ outbox'[e].attempts < outbox[e].attempts =>
            \E w \in Workers : \E row \in worker[w].batch :
              row[1] = e /\ row[2] < outbox[e].attempts]_vars

\* A notification is DELIVERED only if it was sent (a PUSH, also if the user has
\* no device), and sent only for a notification and a job that were stored.
DeliveredWasSent ==
  \A n \in Notifications : /\ notification[n] = "DELIVERED" => n \in sent \/ Channels[n[2]] = "PUSH"
                           /\ n \in sent => n \in queued /\ notification[n] # "none"
=============================================================================
