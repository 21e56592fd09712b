-------------------------- MODULE MCOutboxProcessor --------------------------
(* OutboxProcessor with two channels.  Two workers, and the runner with them,  *)
(* overlap on one event; two events are handled by one worker at a time, with  *)
(* the deliveries left waiting.                                                *)
EXTENDS OutboxProcessor

TwoChannels == <<"IN_APP", "PUSH">>

\* A bound: two events, two workers and the runner at once are too many states.
OverlapOnOneEvent ==
  \/ \E e \in Events : outbox[e].status = "absent"
  \/ /\ \A v, w \in Workers : v # w => worker[v] = IdleWorker \/ worker[w] = IdleWorker
     /\ sent = {} /\ \A r \in Runners : runner[r] = IdleRunner
=============================================================================
