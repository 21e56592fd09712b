--------------------------- MODULE MCMarketplaces ---------------------------
(***************************************************************************)
(* The marketplaces: services, bookings and coupons for attendees, and a   *)
(* request for quotation between a sponsor and a vendor.  The two share no *)
(* variable and every property reads one of them, so it is enough to see   *)
(* each beside the other at rest: a step of one is taken only where the    *)
(* other is in a first state, and the states add up.                       *)
(***************************************************************************)
EXTENDS C2bMarketplace, RfqLifecycle, TLC

Interchangeable == UNION {Permutations(S) : S \in {Bookings, Creates, Changes, Requests}}

\* Bound: one quotation outlives its validity; only one on the table could be accepted.
OneLapse == \A v, w \in lapsed : v = w

ServiceRests == Init /\ ~over

MarketplacesInit == Init /\ RfqInit

MarketplacesNext ==
  \/ RfqInit /\ Next /\ UNCHANGED rfqVars
  \/ ServiceRests /\ RfqNext /\ UNCHANGED vars

MarketplacesSpec == MarketplacesInit /\ [][MarketplacesNext]_<<vars, rfqVars>>
=============================================================================
