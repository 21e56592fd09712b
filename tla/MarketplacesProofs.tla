------------------------- MODULE MarketplacesProofs -------------------------
(***************************************************************************)
(* What is proved of the marketplaces: the places of a service and the     *)
(* redemptions of a coupon, for any number of bookings, attendees and      *)
(* requests; and of a request for quotation: one offer on the table, and   *)
(* the negotiation it implements, for any number of requests and versions. *)
(***************************************************************************)
EXTENDS MCMarketplaces, FiniteSetTheorems, SequenceTheorems, TLAPS

\* A behaviour in which the two are side by side is one of each of them.
THEOREM MarketplacesAreComponents == MarketplacesSpec => Spec /\ RfqSpec
<1>1. MarketplacesInit => Init /\ RfqInit
  BY DEF MarketplacesInit
<1>2. [MarketplacesNext]_<<vars, rfqVars>> => [Next]_vars /\ [RfqNext]_rfqVars
  BY DEF MarketplacesNext
<1> QED BY <1>1, <1>2, PTL DEF MarketplacesSpec, Spec, RfqSpec

-----------------------------------------------------------------------------
(* Services and coupons.  A change gives no place back although it ends a  *)
(* booking only if it read the booking as ended.  If the booking is active *)
(* again when it commits, another request has reopened it, and a reopened  *)
(* booking took no place.  Hence the count never exceeds the active        *)
(* bookings that no such change is about to end.                           *)

\* A change under way is of a row that exists.
ChangeInv ==
  \A u \in Changes : change[u] # NoChange =>
    change[u].booking \in Bookings /\ booking[change[u].booking] # "none"

\* Some request is about to end this booking without giving a place back.
EndsQuietly(b) ==
  \E u \in Changes : change[u].booking = b /\ change[u].to \in Released /\ ~change[u].back

Sure == {b \in Active : ~EndsQuietly(b)}

CountInv == service.count <= Cardinality(Sure)

\* A coupon that is yet to be created has no redemptions.
CouponInv == ~coupon.exists => coupon.count = 0

ServiceInv == TypeOK /\ ChangeInv /\ CountInv /\ CouponInv /\ CountIsRedemptions

EditTypes ==
  [Edits -> [kind : {"none", "updateService", "deleteService", "updateCoupon"}, over : BOOLEAN]]

-----------------------------------------------------------------------------
\* Sets of bookings are finite, and a part of one is no larger.
LEMMA BookingsCounted ==
  ASSUME NEW S \in SUBSET Bookings, NEW T \in SUBSET S
  PROVE  Cardinality(S) \in Nat /\ Cardinality(T) \in Nat /\ Cardinality(T) <= Cardinality(S)
<1>1. IsFiniteSet(S)
  BY BookingsAssumption, FS_Subset
<1> QED BY <1>1, FS_Subset, FS_CardinalityType

\* A set of bookings that loses nothing but b, if it has it, loses one at most.
LEMMA BookingLost ==
  ASSUME NEW S \in SUBSET Bookings, NEW T \in SUBSET Bookings, NEW b, S \ {b} \subseteq T
  PROVE  /\ Cardinality(S) \in Nat /\ Cardinality(T) \in Nat
         /\ Cardinality(T) >= Cardinality(S) - 1
<1>1. IsFiniteSet(S) /\ IsFiniteSet(T)
  BY BookingsAssumption, FS_Subset
<1>2. Cardinality(S \ {b}) <= Cardinality(T) /\ Cardinality(S \ {b}) \in Nat
  BY <1>1, FS_Subset, FS_CardinalityType
<1>3. Cardinality(S \ {b}) = IF b \in S THEN Cardinality(S) - 1 ELSE Cardinality(S)
  BY <1>1, FS_RemoveElement
<1> QED BY <1>1, <1>2, <1>3, FS_CardinalityType

\* The set of the bookings the count is sure of never loses the count its bound
\* while it only grows.
LEMMA CountKept ==
  ASSUME ServiceInv, Sure \subseteq Sure', Sure' \subseteq Bookings, service'.count = service.count
  PROVE  CountInv'
<1>1. Cardinality(Sure) <= Cardinality(Sure')
      /\ Cardinality(Sure) \in Nat /\ Cardinality(Sure') \in Nat
  BY BookingsCounted
<1> QED BY <1>1 DEF ServiceInv, TypeOK, CountInv

\* The end of a request of the provider.
LEMMA EditEnds ==
  ASSUME edit \in EditTypes, NEW e \in Edits
  PROVE  [edit EXCEPT ![e] = NoEdit] \in EditTypes
  BY DEF EditTypes, NoEdit

\* The initial state satisfies the inductive invariant.
LEMMA ServiceInit == Init => ServiceInv
<1> SUFFICES ASSUME Init PROVE ServiceInv
  OBVIOUS
<1>1. TypeOK
  BY DEF Init, TypeOK, NoChange, NoEdit, Statuses, Released
<1>2. ChangeInv
  BY DEF Init, ChangeInv
<1>3. CountInv
  <2>1. Sure \subseteq Bookings
    BY DEF Sure, Active
  <2> QED BY <2>1, BookingsCounted DEF Init, CountInv
<1>4. CountIsRedemptions /\ CouponInv
  BY FS_EmptySet DEF Init, CountIsRedemptions, CouponInv
<1> QED BY <1>1, <1>2, <1>3, <1>4 DEF ServiceInv

-----------------------------------------------------------------------------
\* The requests of the provider and of the administrator, the sweep and the
\* clock write the service, but neither its count nor its bookings.
LEMMA ServiceKeeps ==
  ASSUME ServiceInv,
         \/ CreateService \/ ModerateService \/ SweepServices \/ ServiceExpires
         \/ \E e \in Edits : UpdateService(e) \/ DeleteService(e)
  PROVE  ServiceInv'
<1>1. service' \in [exists : BOOLEAN, deleted : BOOLEAN, available : BOOLEAN, expired : BOOLEAN,
                    max : Limits \cup {NoLimit}, count : Nat]
      /\ service'.count = service.count
  <2>1. CASE CreateService
    BY <2>1 DEF ServiceInv, TypeOK, CreateService
  <2>2. CASE ModerateService \/ SweepServices \/ ServiceExpires
    BY <2>2 DEF ServiceInv, TypeOK, ModerateService, SweepServices, ServiceExpires
  <2>3. CASE \E e \in Edits : UpdateService(e)
    <3>1. PICK max \in Limits, available, expired \in BOOLEAN :
            service' = [service EXCEPT !.max = max, !.available = available, !.expired = expired]
      BY <2>3 DEF UpdateService
    <3> QED BY <3>1 DEF ServiceInv, TypeOK
  <2>4. CASE \E e \in Edits : DeleteService(e)
    BY <2>4 DEF ServiceInv, TypeOK, DeleteService
  <2> QED BY <2>1, <2>2, <2>3, <2>4
<1>2. UNCHANGED <<over, booking, create, change, couponVars>>
  BY DEF CreateService, ModerateService, SweepServices, ServiceExpires, UpdateService, DeleteService
<1>3. edit' \in EditTypes
  <2>1. edit' = edit \/ \E e \in Edits : edit' = [edit EXCEPT ![e] = NoEdit]
    BY DEF CreateService, ModerateService, SweepServices, ServiceExpires, UpdateService,
           DeleteService
  <2> QED BY <2>1, EditEnds DEF ServiceInv, TypeOK, EditTypes
<1>4. TypeOK'
  BY <1>1, <1>2, <1>3 DEF ServiceInv, TypeOK, EditTypes, couponVars
<1>5. CountInv'
  BY <1>1, <1>2, CountKept DEF Sure, Active, EndsQuietly
<1>6. ChangeInv' /\ CountIsRedemptions' /\ CouponInv'
  BY <1>2 DEF ServiceInv, ChangeInv, CountIsRedemptions, CouponInv, couponVars
<1> QED BY <1>4, <1>5, <1>6 DEF ServiceInv

\* The coupon's provider, its sweep and its time change neither its count nor
\* its redemptions.
LEMMA CouponKeeps ==
  ASSUME ServiceInv,
         \/ CreateCoupon \/ SweepCoupons \/ CouponTime
         \/ \E e \in Edits : UpdateCoupon(e)
  PROVE  ServiceInv'
<1>1. coupon' \in [exists : BOOLEAN, active : BOOLEAN, window : {"before", "open", "past"},
                   max : Limits \cup {NoLimit}, count : Nat]
  <2>1. CASE CreateCoupon
    <3>1. PICK active \in BOOLEAN, window \in {"before", "open", "past"}, max \in Limits :
            coupon' = [exists |-> TRUE, active |-> active, window |-> window, max |-> max,
                       count |-> 0]
      BY <2>1 DEF CreateCoupon
    <3> QED BY <3>1
  <2>2. CASE SweepCoupons \/ CouponTime
    BY <2>2 DEF ServiceInv, TypeOK, SweepCoupons, CouponTime
  <2>3. CASE \E e \in Edits : UpdateCoupon(e)
    <3>1. PICK max \in Limits, active \in BOOLEAN, window \in {"before", "open", "past"} :
            coupon' = [coupon EXCEPT !.max = max, !.active = active, !.window = window]
      BY <2>3 DEF UpdateCoupon
    <3> QED BY <3>1 DEF ServiceInv, TypeOK
  <2> QED BY <2>1, <2>2, <2>3
<1>2. UNCHANGED <<over, service, booking, create, change, redeemed, redeem>>
  BY DEF CreateCoupon, SweepCoupons, CouponTime, UpdateCoupon, bookingVars
<1>3. edit' \in EditTypes
  <2>1. edit' = edit \/ \E e \in Edits : edit' = [edit EXCEPT ![e] = NoEdit]
    BY DEF CreateCoupon, SweepCoupons, CouponTime, UpdateCoupon
  <2> QED BY <2>1, EditEnds DEF ServiceInv, TypeOK, EditTypes
<1>4. TypeOK' /\ ChangeInv'
  BY <1>1, <1>2, <1>3 DEF ServiceInv, TypeOK, EditTypes, ChangeInv
<1>5. CountInv'
  BY <1>2, CountKept DEF Sure, Active, EndsQuietly
<1>6. coupon'.count = coupon.count /\ (coupon.exists => coupon'.exists)
  <2>1. CASE CreateCoupon
    BY <2>1 DEF ServiceInv, TypeOK, CouponInv, CreateCoupon
  <2>2. CASE SweepCoupons \/ CouponTime
    BY <2>2 DEF ServiceInv, TypeOK, SweepCoupons, CouponTime
  <2>3. CASE \E e \in Edits : UpdateCoupon(e)
    <3>1. PICK max, active, window :
            coupon' = [coupon EXCEPT !.max = max, !.active = active, !.window = window]
      BY <2>3 DEF UpdateCoupon
    <3>2. coupon \in [exists : BOOLEAN, active : BOOLEAN, window : {"before", "open", "past"},
                     max : Limits \cup {NoLimit}, count : Nat]
      BY DEF ServiceInv, TypeOK
    <3> QED BY <3>1, <3>2
  <2> QED BY <2>1, <2>2, <2>3
<1>7. CountIsRedemptions' /\ CouponInv'
  BY <1>2, <1>6 DEF ServiceInv, CountIsRedemptions, CouponInv
<1> QED BY <1>4, <1>5, <1>7 DEF ServiceInv

\* The reads of the provider, and the end of the event.
LEMMA EditReadKeeps ==
  ASSUME ServiceInv,
         \/ EventEnds
         \/ \E e \in Edits : \/ EditCouponRead(e)
                             \/ \E kind \in {"updateService", "deleteService"} :
                                  EditServiceRead(e, kind)
  PROVE  ServiceInv'
<1>1. UNCHANGED <<bookingVars, couponVars>> /\ over' \in BOOLEAN
  BY DEF ServiceInv, TypeOK, EventEnds, EditCouponRead, EditServiceRead
<1>2. edit' \in EditTypes
  BY DEF ServiceInv, TypeOK, EditTypes, EventEnds, EditCouponRead, EditServiceRead
<1>3. TypeOK' /\ ChangeInv' /\ CouponInv' /\ CountIsRedemptions'
  BY <1>1, <1>2 DEF ServiceInv, TypeOK, EditTypes, ChangeInv, CouponInv, CountIsRedemptions,
                    bookingVars, couponVars
<1>4. CountInv'
  BY <1>1, CountKept DEF bookingVars, Sure, Active, EndsQuietly
<1> QED BY <1>3, <1>4 DEF ServiceInv

-----------------------------------------------------------------------------
LEMMA CreateReadKeeps ==
  ASSUME ServiceInv, NEW c \in Creates, CreateRead(c)
  PROVE  ServiceInv'
<1>1. TypeOK' /\ ChangeInv' /\ CouponInv' /\ CountIsRedemptions'
  BY DEF ServiceInv, TypeOK, ChangeInv, CouponInv, CountIsRedemptions, CreateRead, couponVars
<1>2. CountInv'
  BY CountKept DEF CreateRead, Sure, Active, EndsQuietly
<1> QED BY <1>1, <1>2 DEF ServiceInv

\* A new booking is active, and no request can have read it.
LEMMA CreateCommitKeeps ==
  ASSUME ServiceInv, NEW c \in Creates, NEW b \in Bookings, CreateCommit(c, b)
  PROVE  ServiceInv'
<1>1. TypeOK' /\ CouponInv' /\ CountIsRedemptions'
  <2>1. /\ UNCHANGED <<over, change, coupon, redeemed, redeem, edit>>
        /\ service' = [service EXCEPT !.count = service.count + 1]
        /\ booking' = [booking EXCEPT ![b] = "PENDING"]
        /\ create' = [create EXCEPT ![c] = "none"]
    BY DEF CreateCommit, couponVars
  <2>2. /\ service' \in [exists : BOOLEAN, deleted : BOOLEAN, available : BOOLEAN,
                        expired : BOOLEAN, max : Limits \cup {NoLimit}, count : Nat]
        /\ booking' \in [Bookings -> Statuses \cup {"none"}]
        /\ create' \in [Creates -> {"none", "limited", "unlimited"}]
    BY <2>1 DEF ServiceInv, TypeOK, Statuses
  <2>3. TypeOK'
    BY <2>1, <2>2 DEF ServiceInv, TypeOK
  <2>4. CouponInv' /\ CountIsRedemptions'
    BY <2>1 DEF ServiceInv, CouponInv, CountIsRedemptions
  <2> QED BY <2>3, <2>4
<1>2. ChangeInv'
  BY DEF ServiceInv, TypeOK, ChangeInv, CreateCommit
<1>3. CountInv'
  <2>1. ~EndsQuietly(b) /\ b \notin Sure
    BY NoneAssumption DEF ServiceInv, TypeOK, ChangeInv, EndsQuietly, CreateCommit, NoChange, Sure,
                          Active, Statuses
  <2>2. Sure' = Sure \cup {b}
    BY <2>1 DEF ServiceInv, TypeOK, CreateCommit, Sure, Active, EndsQuietly, Statuses, Released
  <2>3. IsFiniteSet(Sure)
    BY BookingsAssumption, FS_Subset DEF Sure, Active
  <2>4. Cardinality(Sure') = Cardinality(Sure) + 1 /\ Cardinality(Sure) \in Nat
    BY <2>1, <2>2, <2>3, FS_AddElement, FS_CardinalityType
  <2>5. service'.count = service.count + 1
    BY DEF ServiceInv, TypeOK, CreateCommit
  <2> QED BY <2>4, <2>5 DEF ServiceInv, TypeOK, CountInv
<1> QED BY <1>1, <1>2, <1>3 DEF ServiceInv

\* A request that will give nothing back read its booking as ended: the count
\* was not sure of it.
LEMMA ChangeReadKeeps ==
  ASSUME ServiceInv, NEW u \in Changes, NEW b \in Bookings,
         CancelRead(u, b) \/ \E to \in Statuses : UpdateRead(u, b, to)
  PROVE  ServiceInv'
<1>1. PICK to \in Statuses, back \in BOOLEAN :
        /\ change' = [change EXCEPT ![u] = [booking |-> b, to |-> to, back |-> back]]
        /\ to \in Released /\ ~back => booking[b] \in Released
        /\ change[u] = NoChange /\ booking[b] # "none"
        /\ UNCHANGED <<over, service, booking, create, couponVars, edit>>
  BY DEF ServiceInv, TypeOK, CancelRead, UpdateRead, GivesBack, Released, Statuses
<1>2. TypeOK' /\ ChangeInv' /\ CouponInv' /\ CountIsRedemptions'
  BY <1>1 DEF ServiceInv, TypeOK, ChangeInv, CouponInv, CountIsRedemptions, couponVars
<1>3. Sure \subseteq Sure'
  <2> SUFFICES ASSUME NEW s \in Sure PROVE s \in Sure'
    OBVIOUS
  <2>1. s \in Active' /\ s \in Bookings /\ booking[s] \notin Released
    BY <1>1 DEF Sure, Active
  <2>2. ASSUME NEW w \in Changes, change'[w].booking = s, change'[w].to \in Released,
               ~change'[w].back
        PROVE  FALSE
    <3>1. CASE w = u
      BY <1>1, <2>1, <2>2, <3>1 DEF ServiceInv, TypeOK
    <3>2. CASE w # u
      BY <1>1, <2>2, <3>2 DEF ServiceInv, TypeOK, Sure, EndsQuietly
    <3> QED BY <3>1, <3>2
  <2> QED BY <2>1, <2>2 DEF Sure, EndsQuietly
<1>4. CountInv'
  BY <1>1, <1>3, CountKept DEF Sure, Active
<1> QED BY <1>2, <1>4 DEF ServiceInv

\* A change that gives a place back ends at most one booking; a change that
\* does not ends none the count is sure of.
LEMMA ChangeCommitKeeps ==
  ASSUME ServiceInv, NEW u \in Changes, ChangeCommit(u)
  PROVE  ServiceInv'
<1> DEFINE b == change[u].booking
<1>1. b \in Bookings /\ booking[b] # "none" /\ change[u].to \in Statuses
      /\ change[u].back \in BOOLEAN
  BY DEF ServiceInv, TypeOK, ChangeInv, ChangeCommit
<1>2. /\ service' = [service EXCEPT !.count = IF change[u].back THEN LessOne(service.count)
                                              ELSE service.count]
      /\ booking' = [booking EXCEPT ![b] = change[u].to]
      /\ change' = [change EXCEPT ![u] = NoChange]
      /\ UNCHANGED <<over, create, couponVars, edit>>
  BY DEF ChangeCommit
<1>3. service'.count \in Nat /\ service'.count <= service.count
      /\ (change[u].back => service'.count = 0 \/ service'.count = service.count - 1)
  BY <1>2 DEF ServiceInv, TypeOK, LessOne
<1>4. TypeOK'
  <2>1. NoChange \in [booking : Bookings \cup {None}, to : Statuses, back : BOOLEAN]
    BY DEF NoChange, Statuses
  <2>2. service' \in [exists : BOOLEAN, deleted : BOOLEAN, available : BOOLEAN,
                      expired : BOOLEAN, max : Limits \cup {NoLimit}, count : Nat]
    BY <1>2, <1>3 DEF ServiceInv, TypeOK
  <2> QED BY <1>1, <1>2, <2>1, <2>2 DEF ServiceInv, TypeOK, couponVars
<1>5. ChangeInv'
  <2> SUFFICES ASSUME NEW w \in Changes, change'[w] # NoChange
               PROVE  change'[w].booking \in Bookings /\ booking'[change'[w].booking] # "none"
    BY DEF ChangeInv
  <2>1. w # u /\ change'[w] = change[w]
    BY <1>2 DEF ServiceInv, TypeOK
  <2>2. change[w].booking \in Bookings /\ booking[change[w].booking] # "none"
    BY <2>1 DEF ServiceInv, ChangeInv
  <2>3. change[u].to # "none"
    BY <1>1 DEF Statuses, Released
  <2> QED BY <1>1, <1>2, <2>1, <2>2, <2>3 DEF ServiceInv, TypeOK
<1>6. Sure \in SUBSET Bookings /\ Sure' \in SUBSET Bookings
  BY DEF Sure, Active
<1>7. Sure \ {b} \subseteq Sure'
  <2> SUFFICES ASSUME NEW s \in Sure \ {b} PROVE s \in Sure'
    OBVIOUS
  <2>1. s \in Active'
    BY <1>1, <1>2 DEF ServiceInv, TypeOK, Sure, Active
  <2>2. ASSUME NEW w \in Changes, change'[w].booking = s, change'[w].to \in Released,
               ~change'[w].back
        PROVE  FALSE
    BY <1>2, <2>2 DEF ServiceInv, TypeOK, NoChange, Released, Sure, EndsQuietly
  <2> QED BY <2>1, <2>2 DEF Sure, EndsQuietly
<1>8. CountInv'
  <2>1. CASE change[u].back
    <3>1. /\ Cardinality(Sure) \in Nat /\ Cardinality(Sure') \in Nat
          /\ Cardinality(Sure') >= Cardinality(Sure) - 1
      BY <1>6, <1>7, BookingLost
    <3>2. service.count \in Nat /\ service.count <= Cardinality(Sure)
      BY DEF ServiceInv, TypeOK, CountInv
    <3> QED BY <1>3, <2>1, <3>1, <3>2 DEF CountInv
  <2>2. CASE ~change[u].back
    <3>1. Sure \subseteq Sure'
      <4>1. CASE change[u].to \in Released
        BY <1>7, <2>2, <4>1 DEF Sure, EndsQuietly
      <4>2. CASE change[u].to \notin Released
        <5>1. ASSUME b \in Sure PROVE b \in Sure'
          <6>1. b \in Active'
            BY <1>1, <1>2, <4>2 DEF ServiceInv, TypeOK, Active
          <6>2. ~EndsQuietly(b)
            BY <5>1 DEF Sure
          <6>3. ASSUME NEW w \in Changes, change'[w].booking = b, change'[w].to \in Released,
                       ~change'[w].back
                PROVE  FALSE
            BY <1>2, <6>2, <6>3 DEF ServiceInv, TypeOK, NoChange, Released, EndsQuietly
          <6> QED BY <6>1, <6>3 DEF Sure, EndsQuietly
        <5> QED BY <1>7, <5>1
      <4> QED BY <4>1, <4>2
    <3>2. service'.count = service.count
      BY <1>2, <2>2 DEF ServiceInv, TypeOK
    <3> QED BY <1>6, <3>1, <3>2, CountKept
  <2> QED BY <1>1, <2>1, <2>2
<1>9. CouponInv' /\ CountIsRedemptions'
  BY <1>2 DEF ServiceInv, CouponInv, CountIsRedemptions, couponVars
<1> QED BY <1>4, <1>5, <1>8, <1>9 DEF ServiceInv

-----------------------------------------------------------------------------
\* Redemptions are counted one by one, each with its row.
LEMMA RedeemKeeps ==
  ASSUME ServiceInv, NEW r \in Redeems,
         RedeemCommit(r) \/ \E a \in Attendees : RedeemRead(r, a)
  PROVE  ServiceInv'
<1>1. TypeOK' /\ ChangeInv' /\ UNCHANGED bookingVars
  <2>1. CASE RedeemCommit(r)
    BY <2>1 DEF ServiceInv, TypeOK, ChangeInv, RedeemCommit, bookingVars
  <2>2. CASE \E a \in Attendees : RedeemRead(r, a)
    BY <2>2 DEF ServiceInv, TypeOK, ChangeInv, RedeemRead, bookingVars
  <2> QED BY <2>1, <2>2
<1>2. CountInv'
  BY <1>1, CountKept DEF bookingVars, Sure, Active, EndsQuietly
<1>3. CouponInv' /\ CountIsRedemptions'
  <2>1. CASE RedeemCommit(r)
    <3>1. IsFiniteSet(redeemed)
      BY AttendeesAssumption, FS_Subset DEF ServiceInv, TypeOK
    <3>2. Cardinality(redeemed') = Cardinality(redeemed) + 1
      BY <2>1, <3>1, FS_AddElement DEF RedeemCommit
    <3> QED BY <2>1, <3>2 DEF ServiceInv, TypeOK, CouponInv, CountIsRedemptions, RedeemCommit,
                              Redeemable
  <2>2. CASE \E a \in Attendees : RedeemRead(r, a)
    BY <2>2 DEF ServiceInv, CouponInv, CountIsRedemptions, RedeemRead
  <2> QED BY <2>1, <2>2
<1> QED BY <1>1, <1>2, <1>3 DEF ServiceInv

\* A request that comes to nothing ends no booking.
LEMMA RequestLostKeeps ==
  ASSUME ServiceInv, RequestLost
  PROVE  ServiceInv'
<1>1. /\ create' = create \/ \E c \in Creates : create' = [create EXCEPT ![c] = "none"]
      /\ change' = change \/ \E u \in Changes : change' = [change EXCEPT ![u] = NoChange]
      /\ redeem' = redeem \/ \E r \in Redeems : redeem' = [redeem EXCEPT ![r] = None]
      /\ edit' = edit \/ \E e \in Edits : edit' = [edit EXCEPT ![e] = NoEdit]
      /\ UNCHANGED <<over, service, booking, coupon, redeemed>>
  BY DEF RequestLost
<1>2. edit' \in EditTypes
  BY <1>1, EditEnds DEF ServiceInv, TypeOK, EditTypes
<1>3. change' \in [Changes -> [booking : Bookings \cup {None}, to : Statuses, back : BOOLEAN]]
  <2>1. NoChange \in [booking : Bookings \cup {None}, to : Statuses, back : BOOLEAN]
    BY DEF NoChange, Statuses
  <2> QED BY <1>1, <2>1 DEF ServiceInv, TypeOK
<1>4. TypeOK'
  BY <1>1, <1>2, <1>3 DEF ServiceInv, TypeOK, EditTypes
<1>5. ChangeInv' /\ CouponInv' /\ CountIsRedemptions'
  BY <1>1 DEF ServiceInv, TypeOK, ChangeInv, CouponInv, CountIsRedemptions
<1>6. Sure \subseteq Sure'
  <2> SUFFICES ASSUME NEW s \in Sure PROVE s \in Sure'
    OBVIOUS
  <2>1. ASSUME NEW w \in Changes, change'[w].booking = s, change'[w].to \in Released,
               ~change'[w].back
        PROVE  FALSE
    <3>1. change'[w] = change[w]
      BY <1>1, <2>1 DEF ServiceInv, TypeOK, NoChange, Released
    <3> QED BY <2>1, <3>1 DEF Sure, EndsQuietly
  <2> QED BY <1>1, <2>1 DEF Sure, Active, EndsQuietly
<1>7. CountInv'
  BY <1>1, <1>6, CountKept DEF Sure, Active
<1> QED BY <1>4, <1>5, <1>7 DEF ServiceInv

LEMMA ServiceNextKeeps == ServiceInv /\ [Next]_vars => ServiceInv'
<1> SUFFICES ASSUME ServiceInv, [Next]_vars PROVE ServiceInv'
  OBVIOUS
<1>1. CASE UNCHANGED vars
  BY <1>1 DEF vars, bookingVars, couponVars, ServiceInv, TypeOK, ChangeInv, CountInv, CouponInv,
              CountIsRedemptions, Sure, Active, EndsQuietly
<1>2. CASE CreateService \/ ModerateService \/ SweepServices \/ ServiceExpires
  BY <1>2, ServiceKeeps
<1>3. CASE CreateCoupon \/ SweepCoupons \/ CouponTime
  BY <1>3, CouponKeeps
<1>4. CASE EventEnds
  BY <1>4, EditReadKeeps
<1>5. CASE RequestLost
  BY <1>5, RequestLostKeeps
<1>6. ASSUME NEW e \in Edits,
             \/ \E kind \in {"updateService", "deleteService"} : EditServiceRead(e, kind)
             \/ UpdateService(e) \/ DeleteService(e) \/ EditCouponRead(e) \/ UpdateCoupon(e)
      PROVE  ServiceInv'
  BY <1>6, EditReadKeeps, ServiceKeeps, CouponKeeps
<1>7. ASSUME NEW c \in Creates, CreateRead(c) \/ \E b \in Bookings : CreateCommit(c, b)
      PROVE  ServiceInv'
  BY <1>7, CreateReadKeeps, CreateCommitKeeps
<1>8. ASSUME NEW u \in Changes,
             \/ ChangeCommit(u)
             \/ \E b \in Bookings : CancelRead(u, b) \/ \E to \in Statuses : UpdateRead(u, b, to)
      PROVE  ServiceInv'
  BY <1>8, ChangeCommitKeeps, ChangeReadKeeps
<1>9. ASSUME NEW r \in Redeems, RedeemCommit(r) \/ \E a \in Attendees : RedeemRead(r, a)
      PROVE  ServiceInv'
  BY <1>9, RedeemKeeps
<1> QED BY <1>1, <1>2, <1>3, <1>4, <1>5, <1>6, <1>7, <1>8, <1>9 DEF Next

LEMMA ServiceInvariance == Spec => []ServiceInv
  BY ServiceInit, ServiceNextKeeps, PTL DEF Spec

-----------------------------------------------------------------------------
\* The service, the coupon, their rows and the requests stay of their types.
THEOREM ServiceTypeCorrect == Spec => []TypeOK
<1>1. ServiceInv => TypeOK
  BY DEF ServiceInv
<1> QED BY <1>1, ServiceInvariance, PTL

\* Rejections, cancellations and reopenings may race as they like: the service
\* never counts a place that no active booking has.
THEOREM PlacesAreGivenBack == Spec => []NoPlaceLost
<1>1. ServiceInv => NoPlaceLost
  <2> SUFFICES ASSUME ServiceInv PROVE NoPlaceLost
    OBVIOUS
  <2>1. Active \in SUBSET Bookings /\ Sure \in SUBSET Active
    BY DEF Sure, Active
  <2>2. Cardinality(Sure) <= Cardinality(Active)
        /\ Cardinality(Sure) \in Nat /\ Cardinality(Active) \in Nat
    BY <2>1, BookingsCounted
  <2> QED BY <2>2 DEF ServiceInv, TypeOK, CountInv, NoPlaceLost
<1> QED BY <1>1, ServiceInvariance, PTL

\* Whoever redeems the coupon and however often, it counts its redemptions.
THEOREM RedemptionsCounted == Spec => []CountIsRedemptions
<1>1. ServiceInv => CountIsRedemptions
  BY DEF ServiceInv
<1> QED BY <1>1, ServiceInvariance, PTL

\* A redemption is added by a commit, whose UPDATE is conditional.
LEMMA RedeemStep ==
  ASSUME ServiceInv, [Next]_vars, redeemed' # redeemed
  PROVE  /\ redeemed \subseteq redeemed' /\ coupon.active /\ coupon.window = "open"
         /\ coupon.max # NoLimit => Cardinality(redeemed') <= coupon.max
<1>1. PICK r \in Redeems : RedeemCommit(r)
  BY DEF Next, vars, bookingVars, couponVars, CreateService, ModerateService, CreateCoupon,
         SweepServices, SweepCoupons, ServiceExpires, CouponTime, EventEnds, RequestLost,
         EditServiceRead, UpdateService, DeleteService, EditCouponRead, UpdateCoupon, CreateRead,
         CreateCommit, ChangeCommit, CancelRead, UpdateRead, RedeemRead
<1>2. Cardinality(redeemed') = coupon.count + 1
  <2>1. IsFiniteSet(redeemed)
    BY AttendeesAssumption, FS_Subset DEF ServiceInv, TypeOK
  <2> QED BY <1>1, <2>1, FS_AddElement DEF ServiceInv, CountIsRedemptions, RedeemCommit
<1>3. coupon.count \in Nat /\ (coupon.max # NoLimit => coupon.max \in Nat)
  BY LimitsAssumption DEF ServiceInv, TypeOK
<1> QED BY <1>1, <1>2, <1>3 DEF RedeemCommit, Redeemable, Fits

\* The limit in force bounds the redemptions at each redemption.
THEOREM RedemptionsWithinLimit == Spec => RedeemedWithinLimit
  BY RedeemStep, ServiceInvariance, PTL DEF Spec, RedeemedWithinLimit

\* A place is taken by the commit of a booking, whose UPDATE is conditional if
\* the request read a limit.
LEMMA PlaceStep ==
  ASSUME ServiceInv, [Next]_vars, service'.count > service.count,
         \A c \in Creates : create[c] # "unlimited"
  PROVE  /\ service.available /\ ~service.deleted /\ ~service.expired
         /\ service.max # NoLimit => service'.count <= service.max
<1>1. service.count \in Nat /\ (service.max # NoLimit => service.max \in Nat)
  BY LimitsAssumption DEF ServiceInv, TypeOK
<1>2. PICK c \in Creates : \E b \in Bookings : CreateCommit(c, b)
  <2>1. service'.count # service.count /\ service' # service
    BY <1>1
  <2>2. ASSUME NEW u \in Changes, ChangeCommit(u) PROVE FALSE
    <3>1. service'.count = service.count \/ service'.count = LessOne(service.count)
      BY <2>2 DEF ServiceInv, TypeOK, ChangeCommit
    <3> QED BY <1>1, <3>1 DEF LessOne
  <2>3. ~CreateService /\ ~ModerateService /\ ~SweepServices /\ ~ServiceExpires
    BY <2>1 DEF ServiceInv, TypeOK, CreateService, ModerateService, SweepServices, ServiceExpires
  <2>4. ASSUME NEW e \in Edits, UpdateService(e) \/ DeleteService(e) PROVE FALSE
    BY <2>1, <2>4 DEF ServiceInv, TypeOK, UpdateService, DeleteService
  <2> QED BY <2>1, <2>2, <2>3, <2>4
          DEF Next, vars, bookingVars, CreateCoupon, SweepCoupons, CouponTime, EventEnds,
              RequestLost, EditServiceRead, EditCouponRead, UpdateCoupon, CreateRead, CancelRead,
              UpdateRead, RedeemRead, RedeemCommit
<1>3. create[c] = "limited"
  BY <1>2 DEF ServiceInv, TypeOK, CreateCommit
<1>4. HasPlace /\ service'.count = service.count + 1
  BY <1>2, <1>3 DEF ServiceInv, TypeOK, CreateCommit
<1> QED BY <1>1, <1>4 DEF HasPlace, Fits

\* A limited service is not booked beyond its limit, but for a request that read
\* it before it had one.
THEOREM PlacesTakenWithinLimit == Spec => PlacesWithinLimit
  BY PlaceStep, ServiceInvariance, PTL DEF Spec, PlacesWithinLimit

-----------------------------------------------------------------------------
(* The request for quotation.  Whatever races with what, only the newest   *)
(* quotation is on the table: a commit that adds a version takes the       *)
(* others off, and no other commit puts one on.                            *)

\* A request that accepts or declines knows a quotation that exists.
VersionKnown ==
  \A r \in Requests : request[r].kind \in {"accept", "decline"} => request[r].version \in Versions

TableInv == RfqTypeOK /\ VersionKnown /\ PendingIsNewest

\* What every commit makes of the rows.
SoundWrite ==
  /\ rfq' \in RfqStatuses \cup {"absent"}
  /\ quotations' \in Seq(OfferStatuses)
  /\ Len(quotations) <= Len(quotations') /\ Len(quotations') <= MaxVersions
  /\ PendingIsNewest'

-----------------------------------------------------------------------------
\* A function on the versions of quotations, with statuses as values, is a
\* sequence of the same length.
LEMMA SameVersions ==
  ASSUME quotations \in Seq(OfferStatuses), NEW f \in [Versions -> OfferStatuses]
  PROVE  f \in Seq(OfferStatuses) /\ Len(f) = Len(quotations)
  BY SeqDef, LenProperties, ElementOfSeq DEF Versions

\* What taking the quotations off the table does to them.
LEMMA TakenOff ==
  ASSUME quotations \in Seq(OfferStatuses), NEW s \in OfferStatuses
  PROVE  /\ PendingTo(s) \in Seq(OfferStatuses) /\ Len(PendingTo(s)) = Len(quotations)
         /\ PendingTo(s) \in [Versions -> OfferStatuses]
         /\ \A v \in Versions :
              PendingTo(s)[v] = IF quotations[v] = "PENDING" THEN s ELSE quotations[v]
<1>1. \A v \in Versions : quotations[v] \in OfferStatuses
  BY ElementOfSeq DEF Versions
<1>2. PendingTo(s) \in [Versions -> OfferStatuses]
  BY <1>1 DEF PendingTo
<1> QED BY <1>2, SameVersions DEF PendingTo

\* A write of the RFQ alone.
LEMMA StatusWrite ==
  ASSUME TableInv, rfq' \in RfqStatuses, UNCHANGED quotations
  PROVE  SoundWrite
  BY LenProperties DEF TableInv, RfqTypeOK, SoundWrite, PendingIsNewest, Versions

\* A write that changes one quotation, after taking the others off or not.
LEMMA OneWrite ==
  ASSUME TableInv, rfq' \in RfqStatuses \cup {"absent"}, NEW f \in [Versions -> OfferStatuses],
         \A v \in Versions : f[v] = "PENDING" => quotations[v] = "PENDING",
         NEW v \in Versions, NEW s \in OfferStatuses \ {"PENDING"},
         quotations' = [f EXCEPT ![v] = s]
  PROVE  SoundWrite
<1>1. quotations' \in [Versions -> OfferStatuses]
  OBVIOUS
<1>2. quotations' \in Seq(OfferStatuses) /\ Len(quotations') = Len(quotations)
  BY <1>1, SameVersions DEF TableInv, RfqTypeOK
<1>3. \A w \in Versions : quotations'[w] = "PENDING" => quotations[w] = "PENDING"
  OBVIOUS
<1>4. Len(quotations) \in Nat /\ Len(quotations) <= MaxVersions
  BY LenProperties DEF TableInv, RfqTypeOK
<1>5. PendingIsNewest'
  BY <1>2, <1>3 DEF TableInv, PendingIsNewest, Versions
<1> QED BY <1>2, <1>4, <1>5 DEF SoundWrite

\* A write that takes every quotation off the table.
LEMMA AllOffWrite ==
  ASSUME TableInv, rfq' \in RfqStatuses, NEW s \in OfferStatuses \ {"PENDING"},
         quotations' = PendingTo(s)
  PROVE  SoundWrite
<1>1. /\ quotations' \in Seq(OfferStatuses) /\ Len(quotations') = Len(quotations)
      /\ \A v \in Versions : quotations'[v] # "PENDING"
  BY TakenOff DEF TableInv, RfqTypeOK
<1> QED BY <1>1, LenProperties DEF TableInv, RfqTypeOK, SoundWrite, PendingIsNewest, Versions

\* A new version takes the older ones off the table.
LEMMA QuoteWrite ==
  ASSUME TableInv, NEW r \in Requests, QuoteCommit(r)
  PROVE  /\ SoundWrite
         /\ Len(quotations') = Len(quotations) + 1
         /\ quotations'[Len(quotations')] = "PENDING"
         /\ \A v \in Versions : quotations'[v] = PendingTo("SUPERSEDED")[v]
<1>1. /\ Superseded \in Seq(OfferStatuses) /\ Len(Superseded) = Len(quotations)
      /\ \A v \in Versions : Superseded[v] # "PENDING"
  BY TakenOff DEF TableInv, RfqTypeOK, Superseded, OfferStatuses
<1>2. quotations' = Append(Superseded, "PENDING") /\ rfq' = "QUOTED"
      /\ Len(quotations) < MaxVersions
  BY DEF QuoteCommit, Commit
<1>3. /\ quotations' \in Seq(OfferStatuses) /\ Len(quotations') = Len(quotations) + 1
      /\ quotations'[Len(quotations')] = "PENDING"
      /\ \A v \in Versions : quotations'[v] = Superseded[v]
  BY <1>1, <1>2, AppendProperties, LenProperties DEF OfferStatuses, Versions
<1> QED
  BY <1>1, <1>2, <1>3, LenProperties, MaxVersionsAssumption
  DEF TableInv, RfqTypeOK, SoundWrite, PendingIsNewest, Versions, RfqStatuses, Superseded

-----------------------------------------------------------------------------
\* The initial state satisfies the invariant.
LEMMA TableInit == RfqInit => TableInv
<1> SUFFICES ASSUME RfqInit PROVE TableInv
  OBVIOUS
<1>1. quotations = <<>> /\ quotations \in Seq(OfferStatuses) /\ Len(quotations) = 0
  BY DEF RfqInit
<1>2. Idle \in [kind : RfqKinds \cup AnswerKinds \cup {"none"}, version : 0..MaxVersions]
  BY MaxVersionsAssumption DEF Idle
<1>3. rfq \in RfqStatuses \cup {"absent"} /\ past \in BOOLEAN /\ lapsed \subseteq Versions
  BY DEF RfqInit
<1>4. request \in [Requests -> [kind : RfqKinds \cup AnswerKinds \cup {"none"},
                                version : 0..MaxVersions]]
  BY <1>2 DEF RfqInit
<1>5. RfqTypeOK
  BY <1>1, <1>3, <1>4, MaxVersionsAssumption DEF RfqTypeOK, RfqInit
<1> QED
  BY <1>1, <1>5 DEF RfqInit, TableInv, VersionKnown, PendingIsNewest, Versions, Idle

\* A request that starts changes no row.
LEMMA StartKeeps ==
  ASSUME TableInv, NEW r \in Requests, NEW kind \in RfqKinds \cup AnswerKinds,
         NEW v \in 0..MaxVersions,
         kind \in AnswerKinds => v \in Versions, Start(r, kind, v)
  PROVE  TableInv'
<1>1. request' = [request EXCEPT ![r] = [kind |-> kind, version |-> v]]
      /\ r \notin Busy /\ UNCHANGED <<rfq, quotations, past, lapsed, overtaken>>
  BY DEF Start
<1>2. request' \in [Requests -> [kind : RfqKinds \cup AnswerKinds \cup {"none"},
                                 version : 0..MaxVersions]]
  BY <1>1 DEF TableInv, RfqTypeOK
<1>3. Busy \subseteq Busy'
  BY <1>1 DEF Busy, TableInv, RfqTypeOK
<1>4. VersionKnown'
  BY <1>1 DEF TableInv, RfqTypeOK, VersionKnown, Versions, AnswerKinds
<1> QED
  BY <1>1, <1>2, <1>3, <1>4 DEF TableInv, RfqTypeOK, PendingIsNewest, Versions

\* The requests that stay under way when one of them ends.
LEMMA EndsOne ==
  ASSUME TableInv, NEW r \in Requests, request' = [request EXCEPT ![r] = Idle]
  PROVE  /\ request' \in [Requests -> [kind : RfqKinds \cup AnswerKinds \cup {"none"},
                                       version : 0..MaxVersions]]
         /\ Busy' = Busy \ {r}
         /\ \A q \in Requests \ {r} : request'[q] = request[q]
         /\ request'[r].kind = "none"
<1>1. /\ request' \in [Requests -> [kind : RfqKinds \cup AnswerKinds \cup {"none"},
                                    version : 0..MaxVersions]]
      /\ \A q \in Requests \ {r} : request'[q] = request[q]
      /\ request'[r].kind = "none"
  BY MaxVersionsAssumption DEF TableInv, RfqTypeOK, Idle
<1>2. Busy' = Busy \ {r}
  BY <1>1 DEF Busy
<1> QED BY <1>1, <1>2

\* A commit that writes soundly.
LEMMA CommitKeeps ==
  ASSUME TableInv, NEW r \in Requests, NEW kind, NEW status, NEW versions,
         Commit(r, kind, status, versions), SoundWrite
  PROVE  TableInv'
<1>1. Versions \subseteq Versions'
  BY LenProperties DEF TableInv, RfqTypeOK, SoundWrite, Versions
<1>2. /\ request' \in [Requests -> [kind : RfqKinds \cup AnswerKinds \cup {"none"},
                                    version : 0..MaxVersions]]
      /\ Busy' = Busy \ {r} /\ request'[r].kind = "none"
      /\ \A q \in Requests \ {r} : request'[q] = request[q]
  BY EndsOne DEF Commit
<1>3. overtaken' \subseteq Busy' /\ UNCHANGED <<past, lapsed>>
  BY <1>2 DEF Commit, TableInv, RfqTypeOK
<1>4. VersionKnown'
  BY <1>1, <1>2 DEF TableInv, VersionKnown
<1> QED
  BY <1>1, <1>2, <1>3, <1>4 DEF TableInv, RfqTypeOK, SoundWrite

\* Every step preserves the invariant, whatever races with what.
LEMMA TableStep == TableInv /\ [RfqNext]_rfqVars => TableInv'
<1> SUFFICES ASSUME TableInv, [RfqNext]_rfqVars PROVE TableInv'
  OBVIOUS
<1> USE DEF RfqStatuses, OfferStatuses
<1>1. CASE \E status \in {"DRAFT", "SENT"} : Create(status)
  BY <1>1 DEF Create, TableInv, RfqTypeOK, VersionKnown, PendingIsNewest, Versions, Busy
<1>2. ASSUME NEW r \in Requests, \/ SendRead(r) \/ ViewRead(r) \/ LapseRead(r) \/ ClarifyRead(r)
                                 \/ CancelRfqRead(r) \/ RejectRead(r) \/ ExpireRead(r) \/ QuoteRead(r)
      PROVE TableInv'
  <2>1. PICK kind \in RfqKinds : Start(r, kind, 0) /\ kind \notin AnswerKinds
    BY <1>2 DEF SendRead, ViewRead, LapseRead, ClarifyRead, CancelRfqRead, RejectRead, ExpireRead,
                QuoteRead, RfqKinds, AnswerKinds
  <2> QED BY <2>1, StartKeeps, MaxVersionsAssumption
<1>3. ASSUME NEW r \in Requests, NEW v \in Versions, AcceptRead(r, v) \/ DeclineRead(r, v)
      PROVE TableInv'
  <2>1. v \in 0..MaxVersions
    BY LenProperties, MaxVersionsAssumption DEF TableInv, RfqTypeOK, Versions
  <2> QED BY <1>3, <2>1, StartKeeps DEF AcceptRead, DeclineRead, AnswerKinds
<1>4. ASSUME NEW r \in Requests, \/ SendCommit(r) \/ ViewCommit(r) \/ LapseCommit(r)
                                 \/ ClarifyCommit(r) \/ RejectCommit(r)
      PROVE TableInv'
  <2>1. PICK kind \in RfqKinds, status \in RfqStatuses : Commit(r, kind, status, quotations)
    BY <1>4 DEF SendCommit, ViewCommit, LapseCommit, ClarifyCommit, RejectCommit, RfqKinds
  <2>2. SoundWrite
    BY <2>1, StatusWrite DEF Commit
  <2> QED BY <2>1, <2>2, CommitKeeps
<1>5. ASSUME NEW r \in Requests, CancelCommit(r) \/ ExpireCommit(r)
      PROVE TableInv'
  <2>1. PICK kind \in RfqKinds, status \in RfqStatuses, s \in OfferStatuses \ {"PENDING"} :
          Commit(r, kind, status, PendingTo(s))
    BY <1>5 DEF CancelCommit, ExpireCommit, RfqKinds
  <2>2. SoundWrite
    BY <2>1, AllOffWrite DEF Commit
  <2> QED BY <2>1, <2>2, CommitKeeps
<1>6. ASSUME NEW r \in Requests, QuoteCommit(r) PROVE TableInv'
  BY <1>6, QuoteWrite, CommitKeeps DEF QuoteCommit
<1>7. ASSUME NEW r \in Requests, AcceptCommit(r) PROVE TableInv'
  <2>1. request[r].version \in Versions
    BY <1>7 DEF AcceptCommit, Commit, TableInv, VersionKnown
  <2>2. SoundWrite
    BY <1>7, <2>1, OneWrite, TakenOff DEF AcceptCommit, Commit, TableInv, RfqTypeOK
  <2> QED BY <1>7, <2>2, CommitKeeps DEF AcceptCommit
<1>8. ASSUME NEW r \in Requests, DeclineCommit(r) PROVE TableInv'
  <2>1. request[r].version \in Versions /\ rfq' = rfq
    BY <1>8 DEF DeclineCommit, Commit, TableInv, VersionKnown
  <2>2. quotations \in [Versions -> OfferStatuses]
    BY LenProperties, ElementOfSeq DEF TableInv, RfqTypeOK, Versions
  <2>3. SoundWrite
    BY <1>8, <2>1, <2>2, OneWrite DEF DeclineCommit, Commit, TableInv, RfqTypeOK
  <2> QED BY <1>8, <2>3, CommitKeeps DEF DeclineCommit
<1>9. ASSUME NEW r \in Requests, Fail(r) PROVE TableInv'
  <2>1. /\ request' \in [Requests -> [kind : RfqKinds \cup AnswerKinds \cup {"none"},
                                      version : 0..MaxVersions]]
        /\ Busy' = Busy \ {r} /\ request'[r].kind = "none"
        /\ \A q \in Requests \ {r} : request'[q] = request[q]
    BY <1>9, EndsOne DEF Fail
  <2> QED
    BY <1>9, <2>1 DEF Fail, TableInv, RfqTypeOK, VersionKnown, PendingIsNewest, Versions
<1>10. CASE Pass \/ \E v \in Versions : Lapse(v)
  BY <1>10 DEF Pass, Lapse, TableInv, RfqTypeOK, VersionKnown, PendingIsNewest, Versions, Busy
<1>11. CASE UNCHANGED rfqVars
  BY <1>11 DEF rfqVars, TableInv, RfqTypeOK, VersionKnown, PendingIsNewest, Versions, Busy
<1> QED
  BY <1>1, <1>2, <1>3, <1>4, <1>5, <1>6, <1>7, <1>8, <1>9, <1>10, <1>11 DEF RfqNext

\* The rows and the requests keep their types, for any races
\* (rfq.service.ts, quotation.service.ts, rfq-expiration.service.ts).
THEOREM RfqTypeCorrect == RfqSpec => []RfqTypeOK
<1>1. TableInv => RfqTypeOK
  BY DEF TableInv
<1> QED BY <1>1, TableInit, TableStep, PTL DEF RfqSpec

\* However quotes, accepts, rejections and expirations race, only the newest
\* quotation is on the table (quotation.service.ts:165-175).
THEOREM OneOfferOnTable == RfqSpec => []PendingIsNewest
<1>1. TableInv => PendingIsNewest
  BY DEF TableInv
<1> QED BY <1>1, TableInit, TableStep, PTL DEF RfqSpec

-----------------------------------------------------------------------------
(***************************************************************************)
(* What an end leaves on the table.  Only an accept and a cancellation     *)
(* write those statuses, and both take every quotation off; only a new     *)
(* version puts one on, and it writes QUOTED.                              *)
(***************************************************************************)

\* What an accept makes of the quotations: the one accepted, and none on the table.
LEMMA AcceptWrite ==
  ASSUME TableInv, NEW r \in Requests, AcceptCommit(r)
  PROVE  /\ request[r].kind = "accept" /\ request[r].version \in Versions
         /\ Len(quotations') = Len(quotations) /\ Versions' = Versions
         /\ quotations'[request[r].version] = "ACCEPTED"
         /\ \A v \in Versions \ {request[r].version} :
              quotations'[v] = PendingTo("SUPERSEDED")[v]
         /\ \A v \in Versions : quotations'[v] # "PENDING"
<1> USE DEF OfferStatuses
<1>1. request[r].kind = "accept" /\ request[r].version \in Versions
  BY DEF AcceptCommit, Commit, TableInv, VersionKnown
<1>2. quotations' = [PendingTo("SUPERSEDED") EXCEPT ![request[r].version] = "ACCEPTED"]
  BY DEF AcceptCommit, Commit
<1>3. /\ PendingTo("SUPERSEDED") \in [Versions -> OfferStatuses]
      /\ \A v \in Versions : PendingTo("SUPERSEDED")[v] # "PENDING"
  BY TakenOff DEF TableInv, RfqTypeOK
<1>4. quotations' \in [Versions -> OfferStatuses]
  BY <1>2, <1>3
<1>5. Len(quotations') = Len(quotations)
  BY <1>4, SameVersions DEF TableInv, RfqTypeOK
<1> QED BY <1>1, <1>2, <1>3, <1>5 DEF Versions

\* What a decline makes of them.
LEMMA DeclineWrite ==
  ASSUME TableInv, NEW r \in Requests, DeclineCommit(r)
  PROVE  /\ request[r].kind = "decline" /\ request[r].version \in Versions
         /\ Len(quotations') = Len(quotations) /\ Versions' = Versions /\ rfq' = rfq
         /\ quotations'[request[r].version] = "REJECTED"
         /\ \A v \in Versions \ {request[r].version} : quotations'[v] = quotations[v]
<1>1. request[r].kind = "decline" /\ request[r].version \in Versions /\ rfq' = rfq
  BY DEF DeclineCommit, Commit, TableInv, VersionKnown
<1>2. quotations \in [Versions -> OfferStatuses]
  BY LenProperties, ElementOfSeq DEF TableInv, RfqTypeOK, Versions
<1>3. quotations' = [quotations EXCEPT ![request[r].version] = "REJECTED"]
  BY DEF DeclineCommit, Commit
<1>4. quotations' \in [Versions -> OfferStatuses]
  BY <1>2, <1>3 DEF OfferStatuses
<1>5. Len(quotations') = Len(quotations)
  BY <1>4, SameVersions DEF TableInv, RfqTypeOK
<1> QED BY <1>1, <1>2, <1>3, <1>5 DEF Versions

\* A cancellation or an expiration takes every quotation off the table.
LEMMA ClearWrite ==
  ASSUME TableInv, NEW r \in Requests, CancelCommit(r) \/ ExpireCommit(r)
  PROVE  /\ request[r].kind \in RfqKinds \ {"quote"} /\ Phase' = "closed"
         /\ Len(quotations') = Len(quotations) /\ ~OnTable' /\ Accepted' = Accepted
<1> USE DEF OfferStatuses
<1>1. request[r].kind \in RfqKinds \ {"quote"} /\ rfq' \in {"CANCELLED", "EXPIRED"}
  BY DEF CancelCommit, ExpireCommit, Commit, RfqKinds
<1>2. PICK s \in {"REJECTED", "EXPIRED"} : quotations' = PendingTo(s)
  BY DEF CancelCommit, ExpireCommit, Commit
<1>3. /\ Len(quotations') = Len(quotations)
      /\ \A v \in Versions :
           quotations'[v] = IF quotations[v] = "PENDING" THEN s ELSE quotations[v]
  BY <1>2, TakenOff DEF TableInv, RfqTypeOK
<1> QED BY <1>1, <1>3 DEF OnTable, Accepted, Versions, Phase, Terminal

LEMMA EndInit == RfqInit => EndClearsTable
  BY DEF RfqInit, EndClearsTable

LEMMA EndStep == TableInv /\ EndClearsTable /\ [RfqNext]_rfqVars => EndClearsTable'
<1> SUFFICES ASSUME TableInv, EndClearsTable, [RfqNext]_rfqVars PROVE EndClearsTable'
  OBVIOUS
<1>1. ASSUME UNCHANGED <<rfq, quotations>> PROVE EndClearsTable'
  BY <1>1 DEF EndClearsTable, OnTable, Versions
<1>2. CASE \E status \in {"DRAFT", "SENT"} : Create(status)
  BY <1>2 DEF Create, EndClearsTable
<1>3. ASSUME NEW r \in Requests,
             \/ SendRead(r) \/ ViewRead(r) \/ ClarifyRead(r) \/ QuoteRead(r)
             \/ LapseRead(r) \/ CancelRfqRead(r) \/ RejectRead(r) \/ ExpireRead(r) \/ Fail(r)
             \/ \E v \in Versions : AcceptRead(r, v) \/ DeclineRead(r, v)
      PROVE  EndClearsTable'
  <2>1. UNCHANGED <<rfq, quotations>>
    BY <1>3 DEF SendRead, ViewRead, ClarifyRead, QuoteRead, LapseRead, CancelRfqRead, RejectRead,
       ExpireRead, AcceptRead, DeclineRead, Start, Fail
  <2> QED BY <1>1, <2>1
<1>4. ASSUME NEW r \in Requests, \/ SendCommit(r) \/ ViewCommit(r) \/ LapseCommit(r)
                                 \/ ClarifyCommit(r) \/ RejectCommit(r) \/ QuoteCommit(r)
      PROVE  EndClearsTable'
  BY <1>4 DEF SendCommit, ViewCommit, LapseCommit, ClarifyCommit, RejectCommit, QuoteCommit, Commit,
     EndClearsTable
<1>5. ASSUME NEW r \in Requests, CancelCommit(r) \/ ExpireCommit(r) PROVE EndClearsTable'
  BY <1>5, ClearWrite DEF EndClearsTable
<1>6. ASSUME NEW r \in Requests, AcceptCommit(r) PROVE EndClearsTable'
  BY <1>6, AcceptWrite DEF EndClearsTable, OnTable
<1>7. ASSUME NEW r \in Requests, DeclineCommit(r) PROVE EndClearsTable'
  BY <1>7, DeclineWrite DEF EndClearsTable, OnTable
<1>8. CASE Pass \/ (\E v \in Versions : Lapse(v)) \/ UNCHANGED rfqVars
  BY <1>1, <1>8 DEF Pass, Lapse, rfqVars
<1> QED BY <1>2, <1>3, <1>4, <1>5, <1>6, <1>7, <1>8 DEF RfqNext

\* A deal or a cancellation leaves no quotation on the table, whatever races with it
\* (quotation.service.ts:318-326, rfq.service.ts cancelRfq).
THEOREM EndsClearTheTable == RfqSpec => []EndClearsTable
  BY TableInit, TableStep, EndInit, EndStep, PTL DEF RfqSpec

-----------------------------------------------------------------------------
(***************************************************************************)
(* The refinement.  A request that nobody overtook still finds what it     *)
(* read: whatever moves the negotiation overtakes all that are under way.  *)
(***************************************************************************)

InFlight ==
  \A r \in Busy \ overtaken :
    /\ request[r].kind \in RfqKinds => Phase = "open"
    /\ request[r].kind \in AnswerKinds => quotations[request[r].version] = "PENDING"

NegotiationInv == TableInv /\ InFlight

\* While the negotiation does not move, what is on the table stays there.
LEMMA StillOnTable ==
  ASSUME TableInv, TableInv', Standing' = Standing,
         NEW v \in Versions, quotations[v] = "PENDING"
  PROVE  quotations'[v] = "PENDING"
<1>1. Len(quotations') = Len(quotations) /\ OnTable' = OnTable
  BY DEF Standing
<1>2. PICK w \in Versions' : quotations'[w] = "PENDING"
  BY <1>1 DEF OnTable
<1> QED BY <1>1, <1>2 DEF TableInv, PendingIsNewest

\* A request that starts has just read.
LEMMA StartInFlight ==
  ASSUME NegotiationInv, NEW r \in Requests, NEW kind \in RfqKinds \cup AnswerKinds,
         NEW v \in 0..MaxVersions, Start(r, kind, v),
         kind \in RfqKinds => Phase = "open",
         kind \in AnswerKinds => quotations[v] = "PENDING"
  PROVE  InFlight'
<1>1. /\ request' = [request EXCEPT ![r] = [kind |-> kind, version |-> v]]
      /\ r \notin Busy /\ UNCHANGED <<rfq, quotations, overtaken>>
  BY DEF Start
<1>2. /\ request'[r] = [kind |-> kind, version |-> v]
      /\ \A q \in Requests \ {r} : request'[q] = request[q]
  BY <1>1 DEF NegotiationInv, TableInv, RfqTypeOK
<1>3. Busy' \subseteq Busy \cup {r} /\ Phase' = Phase
  BY <1>1, <1>2 DEF Busy, Phase
<1> QED BY <1>1, <1>2, <1>3 DEF NegotiationInv, InFlight, Busy

\* One that ends leaves the others as they read, or overtaken.
LEMMA CommitInFlight ==
  ASSUME NegotiationInv, TableInv', NEW r \in Requests, NEW kind, NEW status, NEW versions,
         Commit(r, kind, status, versions)
  PROVE  InFlight'
<1>1. /\ Busy' = Busy \ {r} /\ \A q \in Requests \ {r} : request'[q] = request[q]
  BY EndsOne DEF Commit, NegotiationInv
<1>2. CASE Standing' # Standing
  BY <1>1, <1>2 DEF Commit, InFlight
<1>3. CASE Standing' = Standing
  <2>1. Phase' = Phase /\ Busy' \ overtaken' \subseteq (Busy \ overtaken) \ {r}
    BY <1>1, <1>3 DEF Commit, Standing
  <2>2. \A q \in Busy' \ overtaken' :
          /\ q \in Busy \ overtaken /\ request'[q] = request[q]
          /\ request[q].kind \in AnswerKinds => request[q].version \in Versions
    BY <1>1, <2>1 DEF Busy, NegotiationInv, TableInv, VersionKnown, AnswerKinds
  <2> QED BY <1>3, <2>1, <2>2, StillOnTable DEF NegotiationInv, InFlight
<1> QED BY <1>2, <1>3

\* The initial state satisfies the invariant of the negotiation.
LEMMA InFlightInit == RfqInit => NegotiationInv
<1>1. RfqInit => InFlight
  BY DEF RfqInit, InFlight, Busy, Idle
<1> QED BY <1>1, TableInit DEF NegotiationInv

\* Every step preserves it, whatever races with what.
LEMMA InFlightStep == NegotiationInv /\ [RfqNext]_rfqVars => NegotiationInv'
<1> SUFFICES ASSUME NegotiationInv, [RfqNext]_rfqVars PROVE InFlight'
  BY TableStep DEF NegotiationInv
<1>0. TableInv /\ TableInv'
  BY TableStep DEF NegotiationInv
<1>1. CASE \E status \in {"DRAFT", "SENT"} : Create(status)
  <2>1. Phase' = "open" /\ UNCHANGED <<quotations, request, overtaken>>
    BY <1>1 DEF Create, Phase, Terminal
  <2> QED BY <2>1 DEF NegotiationInv, InFlight, Busy
<1>2. ASSUME NEW r \in Requests, \/ SendRead(r) \/ ViewRead(r) \/ ClarifyRead(r) \/ QuoteRead(r)
                                 \/ LapseRead(r) \/ CancelRfqRead(r) \/ RejectRead(r) \/ ExpireRead(r)
      PROVE InFlight'
  <2>1. Phase = "open"
    BY <1>2 DEF Phase, SendRead, ViewRead, ClarifyRead, QuoteRead, LapseRead, CancelRfqRead,
       RejectRead, ExpireRead, Quotable, Expirable, Terminal
  <2>2. PICK kind \in RfqKinds : Start(r, kind, 0)
    BY <1>2 DEF SendRead, ViewRead, ClarifyRead, QuoteRead, LapseRead, CancelRfqRead, RejectRead,
       ExpireRead, RfqKinds
  <2>3. kind \notin AnswerKinds /\ 0 \in 0..MaxVersions
    BY MaxVersionsAssumption DEF RfqKinds, AnswerKinds
  <2> QED BY <2>1, <2>2, <2>3, StartInFlight
<1>3. ASSUME NEW r \in Requests, NEW v \in Versions, AcceptRead(r, v) \/ DeclineRead(r, v)
      PROVE InFlight'
  <2>1. v \in 0..MaxVersions
    BY <1>0, LenProperties, MaxVersionsAssumption DEF TableInv, RfqTypeOK, Versions
  <2>2. PICK kind \in AnswerKinds : Start(r, kind, v) /\ quotations[v] = "PENDING"
    BY <1>3 DEF AcceptRead, DeclineRead, AnswerKinds
  <2>3. kind \notin RfqKinds
    BY DEF RfqKinds, AnswerKinds
  <2> QED BY <2>1, <2>2, <2>3, StartInFlight
<1>4. ASSUME NEW r \in Requests, \/ SendCommit(r) \/ ViewCommit(r) \/ LapseCommit(r)
                                 \/ ClarifyCommit(r) \/ RejectCommit(r)
      PROVE InFlight'
  BY <1>0, <1>4, CommitInFlight DEF SendCommit, ViewCommit, LapseCommit, ClarifyCommit, RejectCommit
<1>5. ASSUME NEW r \in Requests, \/ CancelCommit(r) \/ ExpireCommit(r) \/ QuoteCommit(r)
                                 \/ AcceptCommit(r) \/ DeclineCommit(r)
      PROVE InFlight'
  BY <1>0, <1>5, CommitInFlight DEF CancelCommit, ExpireCommit, QuoteCommit, AcceptCommit,
     DeclineCommit
<1>6. ASSUME NEW r \in Requests, Fail(r) PROVE InFlight'
  <2>1. /\ Busy' = Busy \ {r} /\ \A q \in Requests \ {r} : request'[q] = request[q]
    BY <1>0, <1>6, EndsOne DEF Fail
  <2>2. UNCHANGED <<rfq, quotations>> /\ overtaken' = overtaken \ {r}
    BY <1>6 DEF Fail
  <2> QED BY <2>1, <2>2 DEF NegotiationInv, InFlight, Phase, Busy
<1>7. CASE Pass \/ (\E v \in Versions : Lapse(v)) \/ UNCHANGED rfqVars
  <2>1. UNCHANGED <<rfq, quotations, request, overtaken>>
    BY <1>7 DEF Pass, Lapse, rfqVars
  <2> QED BY <2>1 DEF NegotiationInv, InFlight, Phase, Busy
<1> QED BY <1>1, <1>2, <1>3, <1>4, <1>5, <1>6, <1>7 DEF RfqNext

-----------------------------------------------------------------------------
\* What a commit does to the moves under way: it lands, or passes unnoticed.
LEMMA CommitLands ==
  ASSUME TableInv, NEW r \in Requests, NEW kind \in RfqKinds \cup AnswerKinds, NEW status,
         NEW versions, Commit(r, kind, status, versions)
  PROVE  /\ request[r].kind = kind /\ r \in Busy
         /\ Standing' # Standing => Negotiated!Land(r)
         /\ Standing' = Standing => Negotiated!Drop(r)
<1>1. Busy' = Busy \ {r} /\ request[r].kind = kind
  BY EndsOne DEF Commit
<1>2. r \in Busy
  BY <1>1 DEF Busy, RfqKinds, AnswerKinds
<1>3. overtaken' = (IF Standing' = Standing THEN overtaken ELSE Busy) \ {r}
  BY DEF Commit
<1>4. CASE Standing' # Standing
  BY <1>1, <1>2, <1>3, <1>4 DEF Negotiated!Land
<1>5. CASE Standing' = Standing
  BY <1>1, <1>2, <1>3, <1>5 DEF Negotiated!Drop, Standing
<1> QED BY <1>1, <1>2, <1>4, <1>5

\* A request that starts begins a move.
LEMMA StartBegins ==
  ASSUME TableInv, NEW r \in Requests, NEW kind \in RfqKinds \cup AnswerKinds, NEW v,
         Start(r, kind, v)
  PROVE  Negotiated!Begin(r)
<1>1. /\ request' = [request EXCEPT ![r] = [kind |-> kind, version |-> v]]
      /\ r \notin Busy /\ UNCHANGED <<rfq, quotations, overtaken>>
  BY DEF Start
<1>2. Busy' = Busy \cup {r}
  BY <1>1 DEF Busy, TableInv, RfqTypeOK, RfqKinds, AnswerKinds
<1> QED
  BY <1>1, <1>2 DEF Negotiated!Begin, OnTable, Accepted, Phase, Versions

\* A step changes the negotiation as one of its steps does, or not at all.
LEMMA NegotiationStep ==
  NegotiationInv /\ NegotiationInv' /\ [RfqNext]_rfqVars => [Negotiated!Next]_(Negotiated!vars)
<1> SUFFICES ASSUME NegotiationInv, NegotiationInv', [RfqNext]_rfqVars
    PROVE  [Negotiated!Next]_(Negotiated!vars)
  OBVIOUS
<1>0. TableInv /\ TableInv' /\ Len(quotations) \in Nat
  BY LenProperties DEF NegotiationInv, TableInv, RfqTypeOK
<1>1. CASE \E status \in {"DRAFT", "SENT"} : Create(status)
  <2>1. UNCHANGED <<quotations, request, overtaken>> /\ Phase' = "open" /\ Phase = "open"
    BY <1>1 DEF Create, Exists, Phase, Terminal
  <2> QED BY <2>1 DEF Negotiated!vars, OnTable, Accepted, Versions, Busy
<1>2. ASSUME NEW r \in Requests, \/ SendRead(r) \/ ViewRead(r) \/ ClarifyRead(r) \/ QuoteRead(r)
                                 \/ LapseRead(r) \/ CancelRfqRead(r) \/ RejectRead(r) \/ ExpireRead(r)
                                 \/ \E v \in Versions : AcceptRead(r, v) \/ DeclineRead(r, v)
      PROVE  Negotiated!Next
  <2>1. \E kind \in RfqKinds \cup AnswerKinds, v \in Versions \cup {0} : Start(r, kind, v)
    BY <1>2 DEF SendRead, ViewRead, ClarifyRead, QuoteRead, LapseRead, CancelRfqRead, RejectRead,
       ExpireRead, AcceptRead, DeclineRead, RfqKinds, AnswerKinds
  <2> QED BY <1>0, <2>1, StartBegins DEF Negotiated!Next
<1>3. ASSUME NEW r \in Requests, SendCommit(r) \/ ViewCommit(r) \/ ClarifyCommit(r)
      PROVE  Negotiated!Next
  <2>1. PICK kind \in RfqKinds, status \in RfqStatuses \ Terminal :
          Commit(r, kind, status, quotations)
    BY <1>3 DEF SendCommit, ViewCommit, ClarifyCommit, RfqKinds, RfqStatuses, Terminal
  <2>2. Phase' = "open" /\ UNCHANGED quotations
    BY <2>1 DEF Commit, Phase, Terminal
  <2>3. Len(quotations') = Len(quotations) /\ OnTable' = OnTable /\ Accepted' = Accepted
    BY <2>2 DEF OnTable, Accepted, Versions
  <2>4. r \in Busy /\ request[r].kind \in RfqKinds
    BY <1>0, <2>1, CommitLands
  <2>5. CASE Standing' = Standing
    BY <1>0, <2>1, <2>5, CommitLands DEF Negotiated!Next
  <2>6. CASE Standing' # Standing
    <3>1. Negotiated!Land(r) /\ r \in overtaken
      BY <1>0, <2>1, <2>2, <2>3, <2>4, <2>6, CommitLands DEF NegotiationInv, InFlight, Standing
    <3> QED BY <2>2, <2>3, <3>1 DEF Negotiated!Next, Negotiated!ReopenLate
  <2> QED BY <2>5, <2>6
<1>4. ASSUME NEW r \in Requests, NEW kind \in RfqKinds, NEW status, NEW versions,
             Commit(r, kind, status, versions), Phase' = "closed",
             Len(quotations') = Len(quotations), Accepted' = Accepted,
             OnTable' \in {OnTable, FALSE}
      PROVE  Negotiated!Next
  <2>1. r \in Busy /\ request[r].kind \in RfqKinds
    BY <1>0, <1>4, CommitLands
  <2>2. CASE Standing' = Standing
    BY <1>0, <1>4, <2>2, CommitLands DEF Negotiated!Next
  <2>3. CASE Standing' # Standing
    <3>1. Negotiated!Land(r) /\ (r \in overtaken \/ Phase = "open")
      BY <1>0, <1>4, <2>1, <2>3, CommitLands DEF NegotiationInv, InFlight
    <3> QED BY <1>4, <3>1 DEF Negotiated!Next, Negotiated!Close, Negotiated!CloseLate
  <2> QED BY <2>2, <2>3
<1>5. ASSUME NEW r \in Requests, LapseCommit(r) \/ RejectCommit(r)
      PROVE  Negotiated!Next
  <2>1. PICK kind \in RfqKinds, status \in {"EXPIRED", "REJECTED"} :
          Commit(r, kind, status, quotations)
    BY <1>5 DEF LapseCommit, RejectCommit, RfqKinds
  <2>2. Phase' = "closed" /\ UNCHANGED quotations
    BY <2>1 DEF Commit, Phase, Terminal
  <2>3. Len(quotations') = Len(quotations) /\ OnTable' = OnTable /\ Accepted' = Accepted
    BY <2>2 DEF OnTable, Accepted, Versions
  <2> QED BY <1>4, <2>1, <2>2, <2>3
<1>6. ASSUME NEW r \in Requests, CancelCommit(r) \/ ExpireCommit(r)
      PROVE  Negotiated!Next
  <2>1. /\ Phase' = "closed"
        /\ Len(quotations') = Len(quotations) /\ ~OnTable' /\ Accepted' = Accepted
    BY <1>0, <1>6, ClearWrite
  <2>2. OnTable' = FALSE
    BY <2>1 DEF OnTable
  <2>3. "cancel" \in RfqKinds /\ "expire" \in RfqKinds
    BY DEF RfqKinds
  <2> QED BY <1>4, <1>6, <2>1, <2>2, <2>3 DEF CancelCommit, ExpireCommit
<1>7. ASSUME NEW r \in Requests, QuoteCommit(r)
      PROVE  Negotiated!Next
  <2>1. /\ Len(quotations') = Len(quotations) + 1
        /\ quotations'[Len(quotations')] = "PENDING"
        /\ \A v \in Versions : quotations'[v] = PendingTo("SUPERSEDED")[v]
    BY <1>0, <1>7, QuoteWrite
  <2>2. Phase' = "open" /\ Commit(r, "quote", "QUOTED", Append(Superseded, "PENDING"))
    BY <1>7 DEF QuoteCommit, Commit, Phase, Terminal
  <2>3. OnTable' = TRUE
    BY <1>0, <2>1 DEF OnTable, Versions
  <2>4. \A v \in Versions : (quotations'[v] = "ACCEPTED") = (quotations[v] = "ACCEPTED")
    <3>1. \A v \in Versions : PendingTo("SUPERSEDED")[v] =
            IF quotations[v] = "PENDING" THEN "SUPERSEDED" ELSE quotations[v]
      BY DEF PendingTo
    <3> QED BY <2>1, <3>1
  <2>5. Accepted' = Accepted
    BY <1>0, <2>1, <2>4 DEF Accepted, Versions
  <2>6. r \in Busy /\ request[r].kind = "quote" /\ Negotiated!Land(r)
    BY <1>0, <2>1, <2>2, CommitLands DEF RfqKinds, Standing
  <2>7. r \in overtaken \/ Phase = "open"
    BY <2>6 DEF NegotiationInv, InFlight, RfqKinds
  <2> QED
    BY <2>1, <2>2, <2>3, <2>5, <2>6, <2>7
    DEF Negotiated!Next, Negotiated!MakeOffer, Negotiated!OfferLate
<1>8. ASSUME NEW r \in Requests, AcceptCommit(r)
      PROVE  Negotiated!Next
  <2> DEFINE w == request[r].version
  <2>1. /\ request[r].kind = "accept" /\ w \in Versions
        /\ Len(quotations') = Len(quotations) /\ Versions' = Versions
        /\ quotations'[w] = "ACCEPTED"
        /\ \A v \in Versions \ {w} : quotations'[v] = PendingTo("SUPERSEDED")[v]
        /\ \A v \in Versions : quotations'[v] # "PENDING"
    BY <1>0, <1>8, AcceptWrite
  <2>2. OnTable' = FALSE
    BY <2>1 DEF OnTable
  <2>3. \A v \in Versions \ {w} : (quotations'[v] = "ACCEPTED") = (quotations[v] = "ACCEPTED")
    <3>1. \A v \in Versions : PendingTo("SUPERSEDED")[v] =
            IF quotations[v] = "PENDING" THEN "SUPERSEDED" ELSE quotations[v]
      BY DEF PendingTo
    <3> QED BY <2>1, <3>1
  <2>4. Accepted' = Accepted \cup {w}
    BY <2>1, <2>3 DEF Accepted
  <2>5. Phase # "agreed" /\ Phase' = "agreed"
    BY <1>8 DEF AcceptCommit, Commit, Phase
  <2>6. r \in Busy /\ Negotiated!Land(r)
    BY <1>0, <1>8, <2>5, CommitLands DEF AcceptCommit, AnswerKinds, Standing
  <2>7. CASE r \in overtaken
    BY <2>1, <2>2, <2>4, <2>5, <2>6, <2>7 DEF Negotiated!Next, Negotiated!AgreeLate, Versions
  <2>8. CASE r \notin overtaken
    <3>1. quotations[w] = "PENDING"
      BY <2>1, <2>6, <2>8 DEF NegotiationInv, InFlight, AnswerKinds
    <3>2. OnTable /\ w = Len(quotations)
      BY <1>0, <2>1, <3>1 DEF OnTable, TableInv, PendingIsNewest
    <3> QED
      BY <2>1, <2>2, <2>4, <2>5, <2>6, <3>2 DEF Negotiated!Next, Negotiated!Agree
  <2> QED BY <2>7, <2>8
<1>9. ASSUME NEW r \in Requests, DeclineCommit(r)
      PROVE  Negotiated!Next
  <2> DEFINE w == request[r].version
  <2>1. /\ request[r].kind = "decline" /\ w \in Versions
        /\ Len(quotations') = Len(quotations) /\ Versions' = Versions /\ rfq' = rfq
        /\ quotations'[w] = "REJECTED"
        /\ \A v \in Versions \ {w} : quotations'[v] = quotations[v]
    BY <1>0, <1>9, DeclineWrite
  <2>2. Phase' = Phase /\ Accepted' = Accepted \ {w}
    BY <2>1 DEF Phase, Accepted
  <2>3. CASE Standing' = Standing
    BY <1>0, <1>9, <2>3, CommitLands DEF DeclineCommit, AnswerKinds, Negotiated!Next
  <2>4. CASE Standing' # Standing
    <3>1. Negotiated!Land(r) /\ r \in Busy
      BY <1>0, <1>9, <2>4, CommitLands DEF DeclineCommit, AnswerKinds
    <3>2. CASE quotations[w] = "PENDING"
      <4>1. OnTable /\ OnTable' = FALSE
        BY <1>0, <2>1, <3>2 DEF OnTable, TableInv, PendingIsNewest
      <4>2. Accepted' = Accepted
        BY <2>2, <3>2 DEF Accepted
      <4> QED BY <2>1, <2>2, <3>1, <4>1, <4>2 DEF Negotiated!Next, Negotiated!TurnDown
    <3>3. CASE quotations[w] # "PENDING"
      <4>1. OnTable' = OnTable
        BY <2>1, <3>3 DEF OnTable
      <4>2. w \in Accepted
        BY <2>1, <2>2, <2>4, <4>1 DEF Standing
      <4>3. r \in overtaken
        BY <2>1, <3>1, <3>3 DEF NegotiationInv, InFlight, AnswerKinds
      <4> QED
        BY <2>1, <2>2, <3>1, <4>1, <4>2, <4>3 DEF Negotiated!Next, Negotiated!TurnDownLate
    <3> QED BY <3>2, <3>3
  <2> QED BY <2>3, <2>4
<1>10. ASSUME NEW r \in Requests, Fail(r) PROVE Negotiated!Next
  <2>1. Busy' = Busy \ {r} /\ r \in Busy
    BY <1>0, <1>10, EndsOne DEF Fail
  <2> QED
    BY <1>10, <2>1
    DEF Fail, Negotiated!Next, Negotiated!Drop, OnTable, Accepted, Phase, Versions
<1>11. CASE Pass \/ (\E v \in Versions : Lapse(v)) \/ UNCHANGED rfqVars
  <2>1. UNCHANGED <<rfq, quotations, request, overtaken>>
    BY <1>11 DEF Pass, Lapse, rfqVars
  <2> QED BY <2>1 DEF Negotiated!vars, OnTable, Accepted, Phase, Versions, Busy
<1> QED
  BY <1>1, <1>2, <1>3, <1>5, <1>6, <1>7, <1>8, <1>9, <1>10, <1>11 DEF RfqNext

\* The negotiation begins with no offer.
LEMMA NegotiationInit == RfqInit => Negotiated!Init
  BY DEF RfqInit, Negotiated!Init, OnTable, Accepted, Phase, Terminal, Versions, Busy, Idle

\* The services carry out the negotiation they promise, but for the requests that
\* another overtook, for any number of requests and versions and whatever races
\* (rfq.service.ts, quotation.service.ts, rfq-expiration.service.ts).
THEOREM KeepsNegotiation == RfqSpec => Negotiates
  BY InFlightInit, InFlightStep, NegotiationInit, NegotiationStep, PTL
  DEF RfqSpec, Negotiates, Negotiated!Spec
=============================================================================
