---------------------------- MODULE Negotiation ----------------------------
(***************************************************************************)
(* What the sponsor and the vendor of a request for quotation are promised.*)
(* The vendor's newest offer is the only one on the table, a deal is       *)
(* struck on it, and after a deal or a close nothing moves any more.  A    *)
(* move takes time, and another can overtake it: one that was overtaken is *)
(* held only to the rules under "Overtaken moves".                         *)
(***************************************************************************)
EXTENDS Naturals

CONSTANT Requests    \* who may make a move

VARIABLES offers,    \* how many offers the vendor has made
          open,      \* the newest of them is on the table
          deals,     \* the offers agreed on
          phase,     \* "open", "agreed" or "closed"
          moving,    \* the moves under way
          overtaken  \* those of them that began before the last one that landed

vars == <<offers, open, deals, phase, moving, overtaken>>

Init ==
  /\ offers = 0 /\ open = FALSE /\ deals = {} /\ phase = "open"
  /\ moving = {} /\ overtaken = {}

Begin(r) ==
  /\ r \notin moving
  /\ moving' = moving \cup {r}
  /\ UNCHANGED <<offers, open, deals, phase, overtaken>>

\* The move comes to nothing.
Drop(r) ==
  /\ r \in moving
  /\ moving' = moving \ {r} /\ overtaken' = overtaken \ {r}
  /\ UNCHANGED <<offers, open, deals, phase>>

\* The move lands, and overtakes the others.
Land(r) ==
  /\ r \in moving
  /\ moving' = moving \ {r} /\ overtaken' = moving \ {r}

-----------------------------------------------------------------------------
(* What any move may do *)

MakeOffer(r) ==
  /\ Land(r) /\ phase = "open"
  /\ offers' = offers + 1 /\ open' = TRUE
  /\ UNCHANGED <<deals, phase>>

\* The sponsor turns the offer down; the vendor may make another.
TurnDown(r) ==
  /\ Land(r) /\ open
  /\ open' = FALSE
  /\ UNCHANGED <<offers, deals, phase>>

\* Also on an offer that was left on the table by a close.
Agree(r) ==
  /\ Land(r) /\ phase # "agreed" /\ open
  /\ deals' = deals \cup {offers} /\ open' = FALSE /\ phase' = "agreed"
  /\ UNCHANGED offers

Close(r) ==
  /\ Land(r) /\ phase = "open"
  /\ phase' = "closed" /\ open' \in {open, FALSE}
  /\ UNCHANGED <<offers, deals>>

-----------------------------------------------------------------------------
(* Overtaken moves *)

\* An offer, or a look, that comes after the end reopens the negotiation.
OfferLate(r) ==
  /\ Land(r) /\ r \in overtaken
  /\ offers' = offers + 1 /\ open' = TRUE /\ phase' = "open"
  /\ UNCHANGED deals

ReopenLate(r) ==
  /\ Land(r) /\ r \in overtaken
  /\ phase' = "open"
  /\ UNCHANGED <<offers, open, deals>>

\* On an offer that is no longer on the table; never beside a deal that stands.
AgreeLate(r) ==
  /\ Land(r) /\ r \in overtaken /\ phase # "agreed"
  /\ \E v \in 1..offers : deals' = deals \cup {v}
  /\ open' = FALSE /\ phase' = "agreed"
  /\ UNCHANGED offers

\* A close undoes the deal, or the offer that another close left.
CloseLate(r) ==
  /\ Land(r) /\ r \in overtaken
  /\ phase' = "closed" /\ open' \in {open, FALSE}
  /\ UNCHANGED <<offers, deals>>

\* The offer that was agreed on is turned down.
TurnDownLate(r) ==
  /\ Land(r) /\ r \in overtaken
  /\ \E v \in deals : deals' = deals \ {v}
  /\ UNCHANGED <<offers, open, phase>>

-----------------------------------------------------------------------------
Next ==
  \E r \in Requests :
    \/ Begin(r) \/ Drop(r)
    \/ MakeOffer(r) \/ TurnDown(r) \/ Agree(r) \/ Close(r)
    \/ OfferLate(r) \/ ReopenLate(r) \/ AgreeLate(r) \/ CloseLate(r) \/ TurnDownLate(r)

Spec == Init /\ [][Next]_vars
=============================================================================
