----------------------- MODULE MCSponsorshipPayments -----------------------
(* SponsorshipPayments on small sets; every checkout names the one community. *)
EXTENDS SponsorshipPayments, TLC

CONSTANTS c1
SameCommunity == [p \in Payments |-> c1]

\* Webhook slots are interchangeable, and so are refund requests.
Interchangeable == Permutations(Hooks) \cup Permutations(Refunders)
=============================================================================
