--------------------------- MODULE C2bMarketplace ---------------------------
(***************************************************************************)
(* One service offered for one event with its bookings, and one coupon     *)
(* with its redemptions.                                                   *)
(*                                                                         *)
(* The service counts its bookings and the coupon its redemptions.  A      *)
(* booking and a redemption are created in the transaction that counts     *)
(* them by a conditional UPDATE; a change of a booking reads the booking   *)
(* before its transaction and decides by that read whether a place is      *)
(* given back.                                                             *)
(***************************************************************************)
EXTENDS Integers, FiniteSets

CONSTANTS Bookings,   \* the rows that may be created
          Creates,    \* createBooking requests that may run at the same time
          Changes,    \* updateBookingStatus and cancelBooking requests
          Attendees,  \* who may redeem the coupon
          Redeems,    \* redeemCoupon requests
          Edits,      \* requests of the provider on the service and the coupon
          Limits,     \* the limits a service or a coupon may be given
          NoLimit,    \* null
          None,
          MaxOffers   \* bound: how many of the service and the coupon are created

ASSUME BookingsAssumption == IsFiniteSet(Bookings)
ASSUME AttendeesAssumption == IsFiniteSet(Attendees)
ASSUME LimitsAssumption == Limits \subseteq (Nat \ {0}) \cup {NoLimit} /\ NoLimit \notin Nat
ASSUME NoneAssumption == None \notin Bookings \cup Attendees

\* CONFIRMED is told apart from PENDING by no condition of the code: PENDING
\* stands for both.
Released == {"REJECTED", "CANCELLED"}
Statuses == {"PENDING", "COMPLETED"} \cup Released

VARIABLES over,      \* event.endsAt <= now
          service,   \* c2b_services
          booking,   \* c2b_bookings: status of each row
          create,    \* whether each createBooking request read a limit
          change,    \* the write each change of a booking is about to make
          coupon,    \* coupons
          redeemed,  \* coupon_redemptions: the attendees that have a row
          redeem,    \* the attendee of each redeemCoupon request
          edit       \* the write each request of the provider is about to make

bookingVars == <<service, booking, create, change>>
couponVars == <<coupon, redeemed, redeem>>
vars == <<over, bookingVars, couponVars, edit>>

NoChange == [booking |-> None, to |-> "PENDING", back |-> FALSE]
NoEdit == [kind |-> "none", over |-> FALSE]

Init ==
  /\ over \in BOOLEAN
  /\ service = [exists |-> FALSE, deleted |-> FALSE, available |-> FALSE, expired |-> FALSE,
                max |-> NoLimit, count |-> 0]
  /\ booking = [b \in Bookings |-> "none"]
  /\ create = [c \in Creates |-> "none"]
  /\ change = [u \in Changes |-> NoChange]
  /\ coupon = [exists |-> FALSE, active |-> FALSE, window |-> "past", max |-> NoLimit,
               count |-> 0]
  /\ redeemed = {}
  /\ redeem = [r \in Redeems |-> None]
  /\ edit = [e \in Edits |-> NoEdit]

Offers == {o \in {service, coupon} : o.exists}

Fits(count, max) == max # NoLimit => count < max
Active == {b \in Bookings : booking[b] \in Statuses \ Released}

-----------------------------------------------------------------------------
(* The provider's services *)

CreateService ==
  /\ ~service.exists /\ Cardinality(Offers) < MaxOffers /\ ~over
  /\ \E max \in Limits, available \in BOOLEAN :
       service' = [service EXCEPT !.exists = TRUE, !.available = available, !.max = max]
  /\ UNCHANGED <<over, booking, create, change, couponVars, edit>>

\* updateService and deleteService read the row, and the end of the event,
\* before they write.
EditServiceRead(e, kind) ==
  /\ edit[e] = NoEdit /\ service.exists /\ ~service.deleted
  /\ edit' = [edit EXCEPT ![e] = [kind |-> kind, over |-> over]]
  /\ UNCHANGED <<over, bookingVars, couponVars>>

\* By id alone: a service deleted meanwhile is made available again.  A new
\* expiry is clamped to the end of the event that was read.
UpdateService(e) ==
  /\ edit[e].kind = "updateService"
  /\ \E max \in Limits, available, expired \in BOOLEAN :
       /\ expired \/ ~edit[e].over \/ ~service.expired
       /\ service' = [service EXCEPT !.max = max, !.available = available, !.expired = expired]
  /\ edit' = [edit EXCEPT ![e] = NoEdit]
  /\ UNCHANGED <<over, booking, create, change, couponVars>>

DeleteService(e) ==
  /\ edit[e].kind = "deleteService"
  /\ service' = [service EXCEPT !.deleted = TRUE, !.available = FALSE]
  /\ edit' = [edit EXCEPT ![e] = NoEdit]
  /\ UNCHANGED <<over, booking, create, change, couponVars>>

\* An administrator hides or restores the service, deleted or not.
ModerateService ==
  /\ service.exists
  /\ service' = [service EXCEPT !.available = ~@]
  /\ UNCHANGED <<over, booking, create, change, couponVars, edit>>

-----------------------------------------------------------------------------
(* Bookings *)

CreateRead(c) ==
  /\ create[c] = "none"
  /\ service.exists /\ ~service.deleted /\ service.available /\ ~service.expired /\ ~over
  /\ create' = [create EXCEPT ![c] = IF service.max = NoLimit THEN "unlimited" ELSE "limited"]
  /\ UNCHANGED <<over, service, booking, change, couponVars, edit>>

\* Mutant of HasPlace: the limit is not part of the UPDATE.
HasPlaceUnchecked == service.available /\ ~service.expired /\ ~service.deleted

\* The condition of the UPDATE that takes a place of a limited service.
HasPlace ==
  /\ service.available /\ ~service.expired /\ ~service.deleted
  /\ Fits(service.count, service.max)

\* The UPDATE and the INSERT, in one transaction.  A request that read no
\* limit takes its place unconditionally.
CreateCommit(c, b) ==
  /\ create[c] # "none" /\ booking[b] = "none"
  /\ create[c] = "limited" => HasPlace
  /\ service' = [service EXCEPT !.count = @ + 1]
  /\ booking' = [booking EXCEPT ![b] = "PENDING"]
  /\ create' = [create EXCEPT ![c] = "none"]
  /\ UNCHANGED <<over, change, couponVars, edit>>

\* Mutant of GivesBack: only a rejection gives the place back.
GivesBackRejected(from, to) == to = "REJECTED" /\ from \notin Released

\* Whether a change from one status to another gives the place back.
GivesBack(from, to) == to \in Released /\ from \notin Released

\* updateBookingStatus, by the provider: any status from any status.
UpdateRead(u, b, to) ==
  /\ change[u] = NoChange /\ booking[b] # "none"
  /\ change' = [change EXCEPT ![u] =
                  [booking |-> b, to |-> to, back |-> GivesBack(booking[b], to)]]
  /\ UNCHANGED <<over, service, booking, create, couponVars, edit>>

\* cancelBooking, by the attendee: the place is given back, also of a booking
\* that was rejected.
CancelRead(u, b) ==
  /\ change[u] = NoChange /\ booking[b] \notin {"none", "CANCELLED", "COMPLETED"}
  /\ change' = [change EXCEPT ![u] = [booking |-> b, to |-> "CANCELLED", back |-> TRUE]]
  /\ UNCHANGED <<over, service, booking, create, couponVars, edit>>

\* GREATEST(0, booking_count - 1).
LessOne(count) == IF count > 0 THEN count - 1 ELSE 0

\* The counter and, by id, the status.
ChangeCommit(u) ==
  /\ change[u] # NoChange
  /\ service' = [service EXCEPT !.count = IF change[u].back THEN LessOne(@) ELSE @]
  /\ booking' = [booking EXCEPT ![change[u].booking] = change[u].to]
  /\ change' = [change EXCEPT ![u] = NoChange]
  /\ UNCHANGED <<over, create, couponVars, edit>>

-----------------------------------------------------------------------------
(* Coupons *)

CreateCoupon ==
  /\ ~coupon.exists /\ Cardinality(Offers) < MaxOffers /\ ~over
  /\ coupon' \in [exists : {TRUE}, active : BOOLEAN, window : {"before", "open", "past"},
                  max : Limits, count : {0}]
  /\ UNCHANGED <<over, bookingVars, redeemed, redeem, edit>>

EditCouponRead(e) ==
  /\ edit[e] = NoEdit /\ coupon.exists
  /\ edit' = [edit EXCEPT ![e] = [kind |-> "updateCoupon", over |-> over]]
  /\ UNCHANGED <<over, bookingVars, couponVars>>

\* The new limit is not compared with the redemptions there are.
UpdateCoupon(e) ==
  /\ edit[e].kind = "updateCoupon"
  /\ \E max \in Limits, active \in BOOLEAN, window \in {"before", "open", "past"} :
       /\ window = "past" \/ ~edit[e].over \/ coupon.window # "past"
       /\ coupon' = [coupon EXCEPT !.max = max, !.active = active, !.window = window]
  /\ edit' = [edit EXCEPT ![e] = NoEdit]
  /\ UNCHANGED <<over, bookingVars, redeemed, redeem>>

Redeemable ==
  /\ coupon.exists /\ coupon.active /\ coupon.window = "open"
  /\ Fits(coupon.count, coupon.max)

\* validateCoupon.  A repeated request, by attendee or by idempotency key,
\* changes nothing.
RedeemRead(r, a) ==
  /\ redeem[r] = None /\ Redeemable /\ ~over /\ a \notin redeemed
  /\ redeem' = [redeem EXCEPT ![r] = a]
  /\ UNCHANGED <<over, bookingVars, coupon, redeemed, edit>>

\* Mutant of RedeemCommit: the count is committed although the row is there.
RedeemCommitTwice(r) ==
  /\ redeem[r] # None /\ Redeemable
  /\ coupon' = [coupon EXCEPT !.count = @ + 1]
  /\ redeemed' = redeemed \cup {redeem[r]}
  /\ redeem' = [redeem EXCEPT ![r] = None]
  /\ UNCHANGED <<over, bookingVars, edit>>

\* The conditional UPDATE and the INSERT, in one transaction: the unique pair
\* of coupon and attendee undoes the UPDATE of a second redemption.
RedeemCommit(r) ==
  /\ redeem[r] # None /\ redeem[r] \notin redeemed /\ Redeemable
  /\ coupon' = [coupon EXCEPT !.count = @ + 1]
  /\ redeemed' = redeemed \cup {redeem[r]}
  /\ redeem' = [redeem EXCEPT ![r] = None]
  /\ UNCHANGED <<over, bookingVars, edit>>

-----------------------------------------------------------------------------
(* The sweep, time, the event's dates, and requests that come to nothing *)

\* sweepExpiredResources: two statements, of which either may be the last.
SweepServices ==
  /\ service.exists /\ service.available /\ ~service.deleted /\ (service.expired \/ over)
  /\ service' = [service EXCEPT !.available = FALSE]
  /\ UNCHANGED <<over, booking, create, change, couponVars, edit>>

SweepCoupons ==
  /\ coupon.exists /\ coupon.active /\ (coupon.window = "past" \/ over)
  /\ coupon' = [coupon EXCEPT !.active = FALSE]
  /\ UNCHANGED <<over, bookingVars, redeemed, redeem, edit>>

ServiceExpires ==
  /\ service.exists /\ ~service.expired
  /\ service' = [service EXCEPT !.expired = TRUE]
  /\ UNCHANGED <<over, booking, create, change, couponVars, edit>>

CouponTime ==
  /\ coupon.exists /\ coupon.window # "past"
  /\ coupon' = [coupon EXCEPT !.window = IF @ = "before" THEN "open" ELSE "past"]
  /\ UNCHANGED <<over, bookingVars, redeemed, redeem, edit>>

\* The event ends, or is given a later end.
EventEnds ==
  /\ over' = ~over
  /\ UNCHANGED <<bookingVars, couponVars, edit>>

\* The request is refused in its transaction, or its process is lost.
RequestLost ==
  /\ \/ \E c \in Creates : /\ create[c] # "none"
                           /\ create' = [create EXCEPT ![c] = "none"]
                           /\ UNCHANGED <<change, redeem, edit>>
     \/ \E u \in Changes : /\ change[u] # NoChange
                           /\ change' = [change EXCEPT ![u] = NoChange]
                           /\ UNCHANGED <<create, redeem, edit>>
     \/ \E r \in Redeems : /\ redeem[r] # None
                           /\ redeem' = [redeem EXCEPT ![r] = None]
                           /\ UNCHANGED <<create, change, edit>>
     \/ \E e \in Edits : /\ edit[e] # NoEdit
                         /\ edit' = [edit EXCEPT ![e] = NoEdit]
                         /\ UNCHANGED <<create, change, redeem>>
  /\ UNCHANGED <<over, service, booking, coupon, redeemed>>

-----------------------------------------------------------------------------
Next ==
  \/ CreateService \/ ModerateService \/ CreateCoupon
  \/ SweepServices \/ SweepCoupons \/ ServiceExpires \/ CouponTime \/ EventEnds \/ RequestLost
  \/ \E e \in Edits : \/ \E kind \in {"updateService", "deleteService"} : EditServiceRead(e, kind)
                      \/ UpdateService(e) \/ DeleteService(e)
                      \/ EditCouponRead(e) \/ UpdateCoupon(e)
  \/ \E c \in Creates : CreateRead(c) \/ \E b \in Bookings : CreateCommit(c, b)
  \/ \E u \in Changes : \/ ChangeCommit(u)
                        \/ \E b \in Bookings : \/ CancelRead(u, b)
                                               \/ \E to \in Statuses : UpdateRead(u, b, to)
  \/ \E r \in Redeems : RedeemCommit(r) \/ \E a \in Attendees : RedeemRead(r, a)

Spec == Init /\ [][Next]_vars

-----------------------------------------------------------------------------
(* Properties *)

\* Type invariant.
TypeOK ==
  /\ over \in BOOLEAN
  /\ service \in [exists : BOOLEAN, deleted : BOOLEAN, available : BOOLEAN, expired : BOOLEAN,
                  max : Limits \cup {NoLimit}, count : Nat]
  /\ booking \in [Bookings -> Statuses \cup {"none"}]
  /\ create \in [Creates -> {"none", "limited", "unlimited"}]
  /\ change \in [Changes -> [booking : Bookings \cup {None}, to : Statuses, back : BOOLEAN]]
  /\ coupon \in [exists : BOOLEAN, active : BOOLEAN, window : {"before", "open", "past"},
                 max : Limits \cup {NoLimit}, count : Nat]
  /\ redeemed \subseteq Attendees
  /\ redeem \in [Redeems -> Attendees \cup {None}]
  /\ edit \in [Edits -> [kind : {"none", "updateService", "deleteService", "updateCoupon"},
                         over : BOOLEAN]]

\* However the changes of a booking race, the service never counts more places
\* than it has bookings that are neither rejected nor cancelled: a place that
\* is given back can be booked again.  (It may count fewer.)
NoPlaceLost == service.count <= Cardinality(Active)

\* While no request is under way that read the service without a limit, a place
\* is only taken of a service on offer, and within the limit it then has.
PlacesWithinLimit ==
  [][(service'.count > service.count /\ \A c \in Creates : create[c] # "unlimited") =>
        /\ service.available /\ ~service.deleted /\ ~service.expired
        /\ service.max # NoLimit => service'.count <= service.max]_vars

\* The coupon counts exactly the redemptions there are, however often one
\* attendee's requests race.
CountIsRedemptions == coupon.count = Cardinality(redeemed)

\* A redemption is final, is granted only by an active coupon in its period, and
\* leaves no more redemptions than the limit the coupon then has.
RedeemedWithinLimit ==
  [][redeemed' # redeemed =>
        /\ redeemed \subseteq redeemed' /\ coupon.active /\ coupon.window = "open"
        /\ coupon.max # NoLimit => Cardinality(redeemed') <= coupon.max]_vars
=============================================================================
