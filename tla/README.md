# Innovents: a TLA+ development

This directory models the parts of Innovents (a NestJS backend over PostgreSQL,
Redis/BullMQ and Stripe) whose correctness depends on the order in which several
requests, jobs and external services act. It states what those parts promise,
model-checks the promises with TLC on small instances, and proves with TLAPS
those that are not about liveness for every instance.

    tlc -workers 2 -config Communities.cfg MCCommunities.tla     # one run
    tlapm CommunitiesProofs.tla                                  # one proof module

`PROJECT.json` lists the runs, maps every definition to the lines it models,
and lists the hazards of the code with the properties that watch them.

## 1. Inventory of the system

The backend is a modular monolith: every module of `src/src/modules` is a set of
NestJS services over one Prisma client. There is no in-process state worth
modelling: all state is rows of PostgreSQL (`src/prisma/schema.prisma`), BullMQ
jobs, and the state of Stripe. The modules interact in three ways: rows they
share, rows of `outbox_events` written in the transaction of the change, and
events Stripe delivers to the webhook.

| Component | State | Operations | What is hard | What must hold |
|---|---|---|---|---|
| Sponsorship payments | payments, community_sponsorships, communities; Stripe sessions and charges | checkout, webhook, refund, reconciliation, expiration sweep | every `await` is an interleaving point; Stripe is called outside transactions | nothing settled that was not paid; the ledger never exceeds what was returned; what was paid is settled; an ended sponsorship stays ended; only the reconciliation undoes a refund |
| Stripe webhook | stripe_webhook_events | deliver, record, dispatch, mark | duplicated, concurrent, reordered deliveries; crash between effect and mark | PROCESSED implies committed; everything emitted is handled in the end |
| Subscriptions | subscriptions, payments | checkout, cancel, six kinds of event | order of deliveries; local write after the remote cancellation | local status is what the handler makes of Stripe's; CANCELLED only if Stripe cancelled; a paying customer has a row |
| Outbox and notifications | outbox_events, notifications, attempts, BullMQ jobs | enqueue, recover, claim, handle, retry, deliver | competing workers, crash before the mark, retries after a send | a finished row is reopened only by a worker that held it; a PROCESSED event was queued or given up; DELIVERED was sent |
| Tokens | refresh_tokens, Redis blacklist | login, rotate, logout, revoke all | two requests with one token, stolen token, logout during a rotation | one usable token per family; revocation reaches the access tokens it saw |
| Community membership | communities, community_members | join, leave, ban, unban, role, archive | reads before the transaction, counter kept by increments | capacity while the counter is right; the counter drifts only where two requests overlap on one member; nobody joins what is archived |
| Community meetups | community_meetups and participants | create, join, leave, update, cancel | the last place; counter kept by increments | counter exact; limit respected by joins |
| Event registration | events, event_registrations | register, cancel, update, publish, cancel event, delete, moderate | the last place; capacity and status changed from stale reads | no registration beyond the capacity |
| Agenda | sessions, venues, events | create, reschedule, delete, delete venue, move the event | overlap check and its lock, window and venue read earlier | no overlap, sessions inside the event and venues not lost, but for writes that others overtook |
| C2B marketplace | c2b_services, c2b_bookings, coupons, coupon_redemptions | offer, edit, delete, book, change, cancel, redeem, sweep, moderate | counters kept by conditional updates, given back by stale reads; limits that change | no place is lost; limits hold when a place is taken; coupons count their redemptions |
| B2B marketplace | rfqs, quotations | create, send, view, clarify, quote, accept, decline, reject, cancel, expire | sponsor, vendor and sweep write one status by id, from earlier reads | one offer at a time; an end clears the table; one deal, on the newest offer, and a final end, but for requests that others overtook |
| Accounts | users, roles, OAuth links, otp_challenges, whether a session is live | register, codes, verify, log in, refresh, Google, accept an invitation, reset, delete; approve, reject, suspend, reactivate, deactivate | the status is read, a new one computed and written by id; attempts are compared before they are counted | a business is active by decision only, and signed in by decision or invitation; guesses are bounded; an ended account lets nobody new in, but a rejected one by invitation |
| Posts, replies, likes | community posts, replies, likes, two counters | create, reply, like, pin, delete, moderate | counters kept by increments; moderation by id; replies that outlive their parents | likeCount exact, replyCount never too high; what is deleted stays unseen, what is left stays seen |
| Chat and its gateway | messages, rooms of the socket server | join the room, send, history; membership changes | membership is asked before what it allows; save and emit are two steps | who was never a member hears and says nothing |
| Reports | reports | create, resolve, dismiss | look-up, then insert; check, then write by id | duplicates bounded by the overlap; a decision stays |
| Organizers, invitations | organizer_invitations, event_organizers, users | invite, accept, revoke, expire, assign, remove | a transaction that calls a service on another connection | organising implies the role |
| Sponsor ads | sponsor_ads | create, edit, submit, review, pause, moderate, delete | every status is computed from an earlier read | nothing is shown undecided |
| Attendee schedule, reminders | schedule items, reminder jobs | add, remove, remind | jobs outlive the row | not modelled: nothing in the code keeps the two together (section 8) |
| Admin dashboard, exports, revenue, audit, profiles, inbox, health, infrastructure adapters | - | queries, single-row edits, I/O | - | not modelled: nothing to interleave |

## 2. How the code becomes actions

* A request is a record with a program counter `pc` and the values it has read.
  Each `await` that reads or writes shared state ends an action.
* A Prisma transaction without row locks runs at READ COMMITTED: the read that
  decides is one action, the commit of all writes a later one. A commit is
  atomic and is all or nothing. A read whose row is locked (`SELECT ... FOR
  UPDATE`, or the row lock an `updateMany` takes) keeps the lock until the
  commit: the module has a lock variable and the action waits for it.
* A unique constraint is a guard of the commit; the failing branch is an action.
* Faults are actions with a budget (`MaxFaults`, `MaxErrors`, `MaxCrashes`, or a
  request that is lost at any time): a failed call takes the code's catch
  branch, a lost process drops the request where it stands.
* Stripe, the customer, the administrator and the clock are external actions.
* A look-up by one statement and a write by id in another, with nothing between
  them that holds the row, are two actions in the newer modules too: the call
  carries what it computed (`call[c].status`, `campaigning[c].status`), and
  the write takes it, whatever the row has become.
* Where the code writes by id what it read before an `await`, a write that others
  overtook may break what it checked. The modules record that as history (`missed`
  and `late` of `VenueSchedule`, `overtaken` of `RfqLifecycle`, `wrote` of the
  reconciliation, the standing a request has `read` in `CommunityMembership`, the
  rows a worker holds), and the properties say exactly what such a write may do and
  that nothing else does. History variables guard no action.
* Left out everywhere: audit logs, outbox rows that no property reads, DTO
  mapping, the lookups that reject callers without the role. Amounts, dates and
  texts are small numbers or model values.

## 3. Modules

| Module | Models | Notes |
|---|---|---|
| `StripeWebhook` | `handleWebhook` around the dispatch | the delivery protocol; instantiated (`W == INSTANCE`) by the next two, which own the steps between "dispatch" and "mark"; no specification of its own |
| `SponsorshipPayments` | `payments.service`, the two one-off handlers, reconciliation, sweep | a payment identifies its checkout, its session, its charge and its sponsorship; `recon[r].wrote` is history. A refund always has its payment intent: Stripe gives one to every paid one-off session and both writers of SUCCEEDED store it, so the branch of `payments.service.ts:347` that refunds without Stripe is never taken |
| `Subscriptions` | `subscriptions.service` and the subscription handlers | `log` is Stripe's list of events; `inOrder` says whether the deliveries of a behaviour keep its order; PAUSED stands for the statuses of Stripe that `statusMap` does not list, which `RowStatus` turns into ACTIVE as the code does |
| `OutboxProcessor` | outbox processor, orchestrator, delivery, BullMQ retries | `Workers` are calls of `processBatch`, `Runners` are delivery workers; `Queueless` are the workers of a process whose queue was not set up: their jobs are dropped (`DropJob`) |
| `TokenRotation` | `token.service` | a token stands for its refresh row and its access token |
| `CommunityMembership` | join, leave, ban, unban, role, archive | `Others` are the requests that are not joins; `Creator` is a member like the others, at first the OWNER, whose role an administrator (`Admin`, no member) may change |
| `CommunityMeetup` | one meetup | the creator, who never leaves, is left out of the set |
| `EventRegistration` | one event and its registrations | `Managers` are the organiser's requests |
| `VenueSchedule` | sessions, venues and the window of one event | times are `0..Horizon`; every operation races with every other; updates and moves of the event name one date, both or none |
| `C2bMarketplace` | services, bookings, coupons, redemptions, the sweep | one service and one coupon; `MaxOffers` bounds how many of the two exist |
| `RfqLifecycle` | `rfq.service`, `quotation.service`, `rfq-expiration.service` | one RFQ and the versions of its quotation; every operation races with every other; `overtaken` is history: the requests under way since before another one's commit moved the negotiation |
| `Negotiation` | no code: what sponsor and vendor are promised | the abstract specification; `RfqLifecycle` implements it (`Negotiates`). Offers, deals and closes follow the rules; a move that another one overtook may break them, in the five ways listed there and no other |
| `Accounts` | `auth.service`, `otp.service`, `oauth.service`, `admin-approvals.service`, `admin-users.service`, `softDelete`, the session of `acceptInvitation` | one address; `session` abstracts the families of `TokenRotation` to whether one is live; `decided` and `invited` are history bits: an administrator once wrote ACTIVE, the account once accepted an invitation |
| `CommunityContent` | posts, replies, likes, moderation of both | item 0 is the post; the thread is a recursive function over depths |
| `CommunityChat` | `community-chat.service`, the gateway | one socket for each user; `heard` is what reached it |
| `ContentReports` | `reports.service` | the reports of one user on one resource |
| `EventOrganizers` | `organizer-invitations.service`, assign and remove of `events.service` | one address and one event; an acceptance issues its session (`IssueSession`) before it commits |
| `SponsorAds` | `sponsor-ads.service` | edits are numbered; `reviewed` is the edit an administrator saw last |
| `MCCommunities`, `MCEvents`, `MCMarketplaces`, `MCSessions` | the components of one community, of one event, of the two marketplaces and of signing in (`TokenRotation`, `Accounts`) side by side | see section 4 |
| `SponsorshipPaymentsProofs`, `SubscriptionsProofs`, `OutboxProofs`, `TokenRotationProofs`, `AccountsProofs`, `CommunitiesProofs`, `EventsProofs`, `MarketplacesProofs` | | inductive invariants and theorems (section 7) |

The `MC*` modules add the definitions the configurations need: an operator for a
function constant, a symmetry set. Operators introduced by a comment that begins
with "Mutant of" are not part of any specification: they are slips of the code
that `PROJECT.json` substitutes, to see that the property named there notices.

## 4. Runs

| Run | Shows | Bounds |
|---|---|---|
| `PaymentsLedger` | settled implies paid; the ledger never exceeds the returned amount; an event answered with success has settled its payment; only a payment that the reconciliation wrote goes from REFUNDED to SUCCEEDED | 1 payment of 2 units, 2 webhook requests, 2 administrators, 1 reconciliation |
| `PaymentsSponsorship` | a paid session is in the end activated; an ended sponsorship is not revived | 1 payment, 2 webhook requests, 1 refund, the sweep, 1 fault, no reconciliation (section 5 says why) |
| `SubscriptionSync` | the row shows what the status map makes of Stripe's status when the events come in order, pauses included; CANCELLED only if Stripe cancelled; a completed session gets its row | 6 events in order, or 4 out of order; 1 webhook request, 1 cancellation, 1 fault |
| `OutboxDelivery` | PROCESSED implies queued on each channel that was not given up; DELIVERED implies sent; a finished event is changed only by a worker that held it when it finished, and a try is forgotten only by one that read fewer | 2 events (one a fan-out), 2 channels, 2 workers (one without its queue), 1 runner, 1 crash, 1 error, 2 attempts; `OverlapOnOneEvent`: with both events there, one worker at a time and no delivery |
| `Sessions` | one usable token per family; a revocation reaches every token it saw; a business account is active by decision only, and signed in by decision or invitation only; the wrong codes counted at a challenge exceed the limit by the overlap at most; an ended account lets in no call that had not passed its checks, but a rejected one that accepts an invitation | 3 tokens, 2 families, 2 requests, 1 token that expires; 2 calls of any kind, 2 challenges, 1 attempt |
| `Communities` | the counters and limits of membership and meetups; likes exact, replies not overcounted, the deleted unseen and the rest seen; the chat inside; duplicates of a report bounded | 3 users; meetup: 3 requests, limits 2 and 3; membership: 2 joins and 2 other requests, capacity 2 or 3, until the counter differs from the members (`MembersBound`); post: 1 member who likes, 2 requests, 2 replies; chat: 2 users, 2 sends, 2 messages; 2 requests on reports, 4 reports |
| `Events` | capacity and status at the registration; no venue is shared, sessions stay inside the event and venues are kept, but for writes that others overtook; organisers hold the role; no ad is shown undecided | 3 users, 2 registrations, 1 cancellation, 2 organiser requests; 2 sessions, 1 venue, 2 requests of any kind, times 0..2 (`AgendaBound`); 2 calls and 2 invitations; 2 calls and 2 edits of an ad |
| `Marketplaces` | no place is lost; limits hold when a place is taken; the coupon counts its redemptions; only the newest quotation is on the table; a deal or a cancellation clears it; the services implement `Negotiation` | 2 bookings, 2 creations, 2 changes, 1 request of the provider, or 3 attendees and 2 redemptions; limit 1 or none; `MaxOffers` = 1; 2 requests of any kind on 3 versions, of which one outlives its validity (`OneLapse`) |
| `VReconcile` | ends with a violation of `PaidIsActivated` (section 5) | 1 payment, 1 webhook request, 1 reconciliation |
| `VReports` | ends with a violation of `ClosedStaysClosed` (section 5) | 2 requests, 2 reports |
| `VAd` | ends with a violation of `VisibleWasReviewed` (section 5) | 2 calls, 2 edits |
| `VQuotations` | ends with a violation of `OneDeal` (section 5) | 2 requests, 2 versions |

**Components side by side.** `Communities`, `Events`, `Marketplaces` and `Sessions` each run
several components. They share no variable, and every property reads the variables of
one component only. A behaviour of the product projects to a behaviour of each
component, so an invariant or an action property of a component holds in the product
if it holds of the component. The `MC` module therefore lets a component move only
while the others are in one of their initial states: the reachable states add up and
do not multiply, and no behaviour of a component is lost. That such a behaviour is
one of each component is proved (`CommunitiesAreComponents`, `EventsAreComponents`,
`MarketplacesAreComponents`; for `Sessions` it is read off `SessionsNext`); what is
proved of a component is stated for its own specification, where it runs without regard to the others. Nothing is claimed there
about components acting on each other; the interactions the code has (a webhook
on payments and subscriptions, moderation on services, posts and events, a
sponsorship on the capacity of a community) are inside the modules. An invitation
and the account under it are in two: `EventOrganizers` has the acceptance step by step
over an account that may open, end or be deleted meanwhile, and `Accounts` has what the
acceptance asks of the account and the session it gives it (`AcceptInvitation`).

The bounds are chosen so that the interesting case happens at least once: two
actors of each kind that can race, one more user than places, an amount of two
units where a partial refund matters, a fault at every step. Amounts of one unit
serve the runs about activation, where only a full refund matters. A larger
instance adds repetitions, not new kinds of step: the properties are about one
payment, subscription, event, family or community each, and the actors that
touch it are all there.

Besides the reconciliation, which `PaymentsSponsorship` leaves to `VReconcile` and to
`PaymentsLedger`, no operation is kept from racing with another: where a race breaks what a reader
would expect, the property names the overtaken write that may do it. Some instances are
cut by a constraint of the `MC` module, and what is beyond it is left to the proofs,
which have none of these bounds:

* `OverlapOnOneEvent`: two workers and the runner overlap while one event is there; once
  there are two, one worker works at a time. Workers meet on one event only, whose row
  and notifications they share.
* `MembersBound`: a counter that differs from the members, which two overlapping
  requests bring about, is checked at the step that makes it differ and followed no further;
  one member has another role than at first; a change of role races with joins only.
* `AgendaBound`: likewise for a late write. Two requests race in the widest window with
  no session cancelled or deleted, and two updates where both name both times.
* `OnePurpose`, `UsedInOrder`, `OneExpires`: several codes at a time are codes of the
  verification; tokens are used in their order, by symmetry; one of them expires.
* `OneLapse`: one quotation outlives its validity. Only one is ever on the table
  (`PendingIsNewest`), so a second one would only be one more that cannot be accepted.

`CHECK_DEADLOCK FALSE` appears where every request of the instance can end and
nothing more is offered (bounded event lists, used-up faults and sessions).

## 5. Where the code and its documents part

Four runs end with a violation; `findings` of `PROJECT.json` quotes the document and
the run shows the behaviour:

* `VReconcile`: the reconciliation writes SUCCEEDED alone; the webhook that comes
  later finds the payment settled and returns, so the sponsorship that was paid
  for is never created.
* `VReports`: `reports.service.ts` checks the status in a look-up and updates by id.
  Of two resolutions that read one open report the second overwrites the first, and
  one to IN_REVIEW opens it again (sprint 10 final report line 50).
* `VAd`: an ad that is PAUSED keeps its status when its content is edited and is
  then resumed without a review; an edit also loses its PENDING_REVIEW to a write
  that read the ad before it (the comment at `sponsor-ads.service.ts:154`).
* `VQuotations`: a quotation that was checked before an accept commits after it and
  writes QUOTED over ACCEPTED (`quotation.service.ts:199`); the sponsor accepts the
  new version too, and two quotations of one RFQ are accepted (sprint 7 final report
  line 36 says that double-acceptance races are prevented).

Seven more entries of `findings` have no run, because what contradicts the document is
how an action of a module is written, not a property of its behaviours:

* `DELETE /users/me` writes `deletedAt` alone; `docs/SECURITY.md:97` says that the
  status and the refresh tokens end too (`SoftDelete` of `Accounts`).
* The acceptance of an invitation by a new user issues its session through
  another connection, inside the transaction that creates the user: the foreign key
  of the refresh token fails and the acceptance rolls back, always (`AcceptNew` of
  `EventOrganizers`; the tests mock both services).
* An expired invitation is marked EXPIRED in a transaction that then throws, so the
  mark never stays (`ReadForAccept`).
* The gateway catches the failure of the token check and keeps the socket, where
  `docs/SECURITY.md:157` says that it is disconnected; the messages of the
  socket are guarded, which is why `ChatStaysInside` holds.
* `acceptInvitation` turns away only accounts that are SUSPENDED or DEACTIVATED and
  issues a session to every other, so a business that awaits its approval, or was
  refused it, is signed in; `docs/SECURITY.md:95` says that such an account gets a 403
  (`AcceptInvitation` of `Accounts`). This is why `BusinessNeedsDecision` and
  `EndedStaysOut` name the invitation. The account does not become active by it.
* A subscription whose status at Stripe is not in `statusMap` (paused,
  incomplete_expired) is written as ACTIVE (`RowStatus` of `Subscriptions`); the sprint
  9 final report line 49 says that statuses are synchronised.
* Outbox workers: `FOR UPDATE SKIP LOCKED` is not in a transaction with the update
  that marks the rows, so two workers select and handle the same event
  (`Select` and `Claim` of `OutboxProcessor`; `docs/ARCHITECTURE.md:126` says that
  collisions are prevented).

The models have further behaviours that contradict a document or a message of the
code. Each was seen as a TLC trace of the property that denies it and is
described here so that no reader takes the passing runs for more than they say:

* Sponsorship: two checkouts of one community pass the conflict check before
  either is paid, and both are activated (`payments.service.ts:106`; sprint 9 report
  line 26 promises rejection). Subscriptions have the same gap
  (`subscriptions.service.ts:114`; line 40).
* Refund: `handleChargeRefunded` writes REFUNDED whatever amount was returned and
  leaves the sponsorship ACTIVE. If it runs before the transaction of
  `refundPayment`, or that transaction never runs, the payment is REFUNDED, the
  sponsorship active, and the rest can no longer be refunded
  (`stripe-webhook.service.ts:571`; lines 53 and 57).
* Sweep: it reads that a community has no other active sponsorship, one is
  activated, and the commit takes its benefits away
  (`community-sponsorship-expiration.service.ts:38`; line 32).
* Invoices: when the mark PROCESSED fails after the handler committed, the event is
  delivered again and a second payment row is inserted for one invoice
  (`stripe-webhook.service.ts:476`; line 46).
* Order of events: the handlers write what the event says, so an older event that
  is delivered last wins. This is why `FollowsStripe` speaks of `inOrder`
  behaviours.
* Outbox workers: two that handle one event queue its jobs twice. The notification
  rows are unique, but `orchestrate` gives its jobs no id, so the notification may be sent twice.
  A slow worker whose claim was taken for stale writes a finished event back to
  PENDING or counts a try from an old read (`outbox.processor.ts:60`);
  `ReopenedOnlyByHolder` says that only one that held the event when it finished can.
* Outbox without a queue: `addJob` in a process whose queue was not set up warns and
  returns, so the event becomes PROCESSED without a job (`queue.service.ts:69-73`);
  `ProcessedMeansQueued` counts those channels among the `skipped`.
* Outbox: the catch of the orchestrator takes every error of the upsert for a
  duplicate and skips the channel, so an event becomes PROCESSED with a channel
  that was never queued (`notification-orchestrator.service.ts:101`); this is why
  `ProcessedMeansQueued` excepts the `skipped` channels. A crash before the mark
  makes the event run again: a second job is queued and the notification is sent twice.
* Tokens: a rotation that has claimed its token commits the successor after a
  logout revoked the family, and the new token stays usable
  (`token.service.ts:332`). `EndsWhatItSaw` speaks of the tokens the logout saw.
* Membership: `leave` and `ban` decide from a membership read before their
  transaction. Two of them for one member decrement the counter twice, after which
  joins exceed the capacity: `CountFollowsMembers` says that the counter departs from
  the members only so, and `NoOversubscription` that a join keeps the capacity while it
  has not. A leave that read ACTIVE overwrites a later ban
  (`community-members.service.ts:438` and `:222`).
* Events: `update` counts the registrations outside the transaction that lowers the
  capacity (`events.service.ts:265`), and a `publish` that read DRAFT overwrites a
  cancellation (`:355`).
* Bookings: the counter of a service may fall below its active bookings, and the
  service is then overbooked, because a rejected booking that is cancelled gives
  its place back twice, two requests that read one booking do so too, and a
  rejected booking that is confirmed again takes none
  (`c2b-bookings.service.ts:184`, `:281`; sprint 8 final report line 113 calls such
  races eliminated). The opposite never happens (`NoPlaceLost`). A request that read
  the service before it had a limit takes its place unconditionally, also of a
  service deleted or hidden since (`:89`); `PlacesWithinLimit` excepts it.
* Quotations: an accept that read PENDING accepts a version that has since been
  declined, replaced or cancelled (`quotation.service.ts:278`, `:307`); a decline turns down what was
  accepted; a view, a quotation or a clarification decided before a cancellation
  reopens the RFQ (`rfq.service.ts:472`, `:555`). These are the "overtaken moves" of
  `Negotiation`: whatever else the services do follows its rules, and the deal is
  never struck beside another that stands in the RFQ's status.
* Quotations, without any race: an accept looks only for ACCEPTED, where
  sprint 7 plan line 117 says that it verifies QUOTED, so the sponsor can accept the
  quotation of an RFQ that the vendor has rejected; `Agree` of `Negotiation` allows it. The expiration skips QUOTED (`rfq-expiration.service.ts:28`), where the sprint 7
  final report line 30 lists QUOTED -> EXPIRED, and nothing under `src` handles the
  `expire-rfq` job or calls the sweep.
* Agenda: `update` of a session looks for an overlap without locking the venue row, so
  two requests book one venue for overlapping times (`sessions.service.ts:307`; the
  sprint 3 report, line 139, says that rescheduling locks it). A session is created
  against the window, or in the venue, that a concurrent request has narrowed or
  deleted since (`sessions.service.ts:56`, `venues.service.ts:170`). The properties of
  the agenda except exactly the writes that others overtook (`late`, `missed`).
* Refunds: a reconciliation that listed a payment before it was settled and refunded
  writes SUCCEEDED over REFUNDED (`payment-reconciliation.service.ts:55`); one that
  settled it earlier leaves it without a sponsorship, so that a webhook that comes after
  the refund activates it. `RefundIsFinal` names the reconciliation as the one exception.

## 6. Fairness

Stripe repeats a delivery until it is answered with success, and a request that
is not lost runs on. Hence weak fairness of the steps of a running webhook
request, and strong fairness of the delivery of each emitted event: the model
bounds the number of concurrent requests, so that a delivery may be disabled
for a while by others, which in reality it is not. Faults are bounded, since an
event whose every attempt fails is not handled by any code. Nothing is assumed
of users, administrators, reconciliation or sweeps, which nothing in the
repository schedules. The outbox has no liveness run for the same reason: no code
under `src` calls `processBatch`.

## 7. What is proved

Eight modules hold theorems. They follow one plan: an inductive invariant made of named
parts, one lemma per action or kind of request, a lemma for `Next`, and one short
theorem per property. The invariants are no properties of a run. The theorems hold for every
value of the constants that satisfies the named assumptions of the module, however
large. Every invariant and every action property of a passing run is the statement of a
theorem, and none has a hypothesis besides the specification.

**`SponsorshipPaymentsProofs`** (`TypeCorrect`, `OnlyPaidIsSettled`, `LedgerSound`,
`AcknowledgedSettled`, `SponsorshipsStayEnded`, `RefundsAreFinal`;
assumptions: `CommunityOf` is a function, `Amount` is positive, `MaxFaults` is a
number, `None` is no payment). `SettledOnlyIfPaid` and `LedgerWithinReturned` are not
inductive, because every write uses values read before an `await`. The
strengthening says, for each kind of request, what is still true of Stripe when it
writes: a session exists only from the request that opened it (`SessionInv`), what
Stripe announced stays so (`EmittedInv`, and `HookInv`: a webhook request holds an
announced event), a payment with an intent was paid (`IntentInv`), the refund a
request computed was returned and fits (`RefundInv`), the verdict of the
reconciliation is still Stripe's (`ReconInv`), and the sweep lists only paid
sponsorships (`SweepInv`). A paid or expired session stays so and the amount
returned only grows; hence stale values are safe. On it rest three more: a settled
payment stays settled, so a request that is about to mark a completed session
has settled it (`MarkInv`); a sweep holds only what has lapsed (`LapsedInv`); and, but
for what a reconciliation has written, SUCCEEDED comes with the sponsorship alone, so that
whatever is refunded or being refunded has a sponsorship, which stops every later
activation (`GrantedInv`).

**`SubscriptionsProofs`** (`SubscriptionTypeCorrect`, `CancelledIsCancelled`,
`RowFollowsStripe`; assumption: the bounds are numbers). `StripeInv` relates the log of a
subscription to Stripe: it begins with the session, ends with Stripe's state, and what an
entry says of an end is never taken back. `LocalInv` and `CancelInv`: neither the row nor a
cancellation under way says more than Stripe has. That gives `CancelledAtStripe`.
`FollowsStripe` needs the order of the events as well: in order, an event that was started
leaves no earlier one open (`OrderInv`), a handled session has left its row
(`ActiveInv`), and from the commit of the newest event on the row shows what
`RowStatus` makes of Stripe's status (`ShowsInv`); a new entry makes another one the newest (`Grows`).

**`OutboxProofs`** (`ProcessedWasQueued`, `DeliveredIsSent`, `FinishedStaysWithHolders`;
assumptions: at least one channel and one attempt, the bounds are numbers, the workers
without a queue are workers). The row a worker is at is the
oldest of its batch, which exists because the numbers of its events have a least one.
`GoodWorker` says that the worker leaves no channel of that row behind, and has
stored the notification it adds a job for; nothing stored, queued or skipped is taken back
(`Keeps`), so no other worker, crash or recovery can spoil it. `QueueInv` and `RunnersInv`
carry that to the delivery. Two workers may do the work twice but never less. For
`FinishedStaysWithHolders`, every step of a worker writes only rows it holds (`WritesHeld`) and
takes only rows of events that are not finished (`TakesOpen`), with the attempts it
read; that is enough (`HeldGoesForward`), whatever the rows have become.

**`TokenRotationProofs`** (`TypeCorrect`, `OneSession`, `RevocationWorks`; assumption:
`None` is neither token nor family). A rotation that has claimed its row holds its
lock and the row is live (`LockInv`), no two rotations hold one row (`LockAlone`), so
the commit replaces the one live row of a family by another. For the revocations,
`Knows` says what a request knows at each of its steps: the ids it listed are rows of
its family, then in the snapshot or already revoked, then revoked, then blacklisted.
`KnowsKept` shows that others cannot undo it, since rows never lose their family nor
come back from revoked (`RowsGrow`).

**`AccountsProofs`** (`AccountTypeCorrect`, `BusinessDecided`, `GuessesAreBounded`,
`EndedAccountsStayOut`; assumptions: finitely many calls and at least one, attempts
are a number). `DecisionInv` says that what a call remembers between its steps (an
ACTIVE status to write, a session to open) was decided when it was read
(`Remembers`), and that Google links attendees only; `decided` never goes back. `invited` is set before the
session of an acceptance is issued and stays, so a call that holds one is told apart. For
the guesses, the failures that are counted and those of the calls about to count them
stay together within the bound (`GuessInv`): a call joins only below the limit.
`EndedAccountsStayOut` needs the types, and one look at each step.

**`CommunitiesProofs`**, in the order of the module:

* Meetups (`CountExact`, `JoinsRespectLimit`; finitely many users, limits are numbers,
  `None` is no request and no limit). The lock belongs to the one join in progress
  (`LockInv`) whose checks stay true (`JoinInv`); a leave that can still succeed is of a
  participant (`LeaveInv`). The count then moves by one exactly when the set does.
* Posts (`ContentTypeCorrect`, `LikesCounted`, `RepliesCounted`; finitely many members, the
  number of replies is a number). A request that will remove a like holds one that is
  there (`Sound`): whoever removes it makes all that found it fail. An item that was
  never made has no like (`Unmade`). A deletion takes at most one reply from those that
  are left and lowers the count by one, so the count may fall short but never exceeds
  them.
* The thread (`NoReplyIsLost`, `DeletedStaysAway`). `Tree` is a function on the depths; it is
  opened one level at a time (`TreeLevels`), and what holds of each level is shown by
  taking the least level, or the least reply, at which it fails (`LeastNat`), not by an
  induction theorem. Replies are made in order and after their parents (`MadeInOrder`,
  `ParentsFirst`), so `MaxReplies` levels reach all of them.
* Membership (`ArchivedStaysClosed`, `CounterFollows`, `JoinsWithinCapacity`; finitely many
  users, the capacities are numbers, `None` is no join and no kind of request, the creator is a user).
  The join that holds the row is of a user who is not a member (`JoinChecked`) and
  counted less than the capacity (`CapacityChecked`). The cardinality of the members moves by
  one or not at all with each commit, and the counter by what the request read; the two
  part only if what it read is no longer so.
* Chat (`ChatIsOfMembers`). The checks come before what they allow, and a standing may
  change in between; it never goes back to none, and that is all a seat in the room or
  a message being sent relies on (`SeatsOfMembers`, `SendersAreMembers`).
* Reports (`DuplicatesAreBounded`; finitely many requests). Every request accounts for at most
  one report: those under way, those a resolution is about to put under way, and the
  creations stay together within the number of requests (`ReportInv`).

**`EventsProofs`**:

* Registrations (`RegistrationTypeCorrect`, `GrantsWithinCapacity`; finitely many users,
  positive capacities, `None` is no request). `HolderInv`: what the holder of the event's
  row checked is still so, since the writes to the event wait for the lock and the
  cancellations, which do not, only make room (`RoomKept`).
* Agenda (`VenuesNeverOverlap`, `SessionsStayInside`, `VenueDeleteIsSafe`; `None` is no
  session, venue or request). `HoldOf`: a creation that is about to write holds the
  venue's row, and the venue is clear for it while it has missed nothing; creations miss
  no creations, since only a holder of the row adds a session there by creating it.
  `CreateOf`, `UpdateOf`, `VenueOf` and `WindowOf` say what each kind of request has checked
  and is still so unless it missed a write (`Agrees`).
* Organisers (`OrganizersAreAccounts`): an acceptance or an assignment under way has an
  account to give the role to (`AccountRead`), and accounts are not taken away.
* Advertisements (`ShownAdsAreDecided`): a status that is shown, or leads back to one,
  was decided on, both in the row and in what a call is to write (`WritesDecided`).

**`MarketplacesProofs`**:

* Bookings (`ServiceTypeCorrect`, `PlacesAreGivenBack`, `PlacesTakenWithinLimit`,
  `RedemptionsWithinLimit`, `RedemptionsCounted`; finitely many bookings and attendees,
  limits are positive numbers or `NoLimit`, `None` is no booking and no attendee).
  `NoPlaceLost` is not inductive: a change may end a booking without giving its place
  back, if it read it as ended and another request has reopened it since. Reopening
  takes no place, so the count is bounded already by the active bookings that no such
  change is about to end (`Sure`, `CountInv`).
* Quotations (`RfqTypeCorrect`, `OneOfferOnTable`, `EndsClearTheTable`, `KeepsNegotiation`;
  at least one version). `OneOfferOnTable` holds whatever races with what: an accept or a
  decline in flight names a version that exists (`VersionKnown`), so that no commit but a
  new quotation puts one on the table; `EndsClearTheTable` since that commit also writes
  QUOTED, and both ends take all off. For the refinement, `InFlight` says what a request
  that nobody overtook still finds: the negotiation is open if it works on the RFQ, and the
  quotation it answers is PENDING. Whatever moves the negotiation overtakes all that are
  under way, so this is kept trivially by moves and by what stands still otherwise
  (`StillOnTable`). Each commit then maps to a move of `Negotiation`, to an overtaken
  move, or to a request that drops.

Not proved, and left to TLC: the two liveness properties, `PaidIsActivated` and
`PaidHasSubscription`, since the prover reasons neither about fairness nor about
ENABLED.

## 8. What is not modelled

* The attendee schedule and the reminders: a reminder job carries the start time of
  the moment it was queued and nothing in the code takes it back, so there is no
  promise to state; the schedule itself is one row under a unique key. Speakers,
  vendor services, profiles, the inbox, preferences and devices are single rows that
  one user edits. Dashboards, exports, revenue and the audit log only read or append.
  Infrastructure adapters, guards and DTOs are I/O; where their answers matter they are
  external actions. `components` lists each with its reason.
* Of `Accounts`: passwords, the hash and the expiry clock of a code, the cooldown
  between codes, the exchange of the OAuth state, roles besides attendee and business.
  A call that fails on any of these stops (`GiveUp`). Several sessions are one bit;
  the families are in `TokenRotation`.
* Of the content: texts, attachments, pages of a list, mentions and their
  notifications. Of the ads: pictures, targets, the counters of views and clicks.
* In the modelled parts: audit records, outbox rows of the domain modules (their
  insertion is atomic with the change by the transaction; the processor is
  modelled from the row on), the batch size of the outbox, preferences (a
  constant), private communities, the expiry of blacklist entries, dates of
  meetups, the second and later currencies and prices.
* PostgreSQL deadlocks between transactions that lock in different orders: the
  modelled handlers lock one row each before they write. The quotations are the
  exception: an accept and a new quotation lock the RFQ and its versions in
  opposite orders, and the one that loses ends without effect (`Fail`).
* Of the RFQs: messages, line items and amounts, and clarifications of the sponsor or
  after the first, which change no status.

## 9. Plan

Done: the webhook protocol, sponsorship payments, subscriptions, outbox and
delivery, tokens, accounts with codes and approvals, membership, meetups, posts with
replies and likes, chat, reports, registration, organisers and invitations, agenda,
advertisements, the C2B marketplace and the B2B requests for quotation, with
proofs for all of them.

Next: the schedule of an attendee composed with the agenda once the code keeps the two
together; `Accounts` and `TokenRotation` joined by a refinement of `session` to the
families; the edition of communities and private communities.

Abstract specifications worth stating: a counter with a limit that membership,
meetups and registrations implement; a once-only effect that the webhook protocol
implements.

Theorems worth proving, in this order: the implementations above; that the invoices of a subscription
are recorded once while every mark succeeds.
