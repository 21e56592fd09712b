----------------------------- MODULE MCSessions -----------------------------
(***************************************************************************)
(* How a user is let in: the account of one address, and the refresh       *)
(* tokens of one user.  The two share no variable and every property reads *)
(* one of them, so it is enough to see each beside the other at rest: a    *)
(* step of one is taken only where the other is in its first state, and    *)
(* the states add up.                                                      *)
(***************************************************************************)
EXTENDS TokenRotation, Accounts, TLC

SessionsInit == Init /\ AccountInit

SessionsNext ==
  \/ AccountInit /\ Next /\ UNCHANGED accountVars
  \/ Init /\ AccountNext /\ UNCHANGED vars

SessionsSpec == SessionsInit /\ [][SessionsNext]_<<vars, accountVars>>

Interchangeable == Permutations(Requests)

\* Tokens and families are numbers here: a row is never removed, so it is enough
\* to see each number used before the next.
UsedInOrder ==
  /\ \A t \in Present : 1..(t - 1) \subseteq Present
  /\ \A t \in Present : \A f \in Families : f < row[t].family => \E u \in Present : row[u].family = f

\* Bound: tokens whose time passes.
OneExpires == Cardinality(expired) <= 1

\* The challenges of two purposes never meet: where there is more than one it is
\* enough to see those that verify the e-mail.
OnePurpose ==
  \A i \in Challenges \ {1} :
    challenge[i].purpose # "none" => challenge[1].purpose = Email /\ challenge[i].purpose = Email
=============================================================================
