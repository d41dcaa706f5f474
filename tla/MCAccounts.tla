----------------------------- MODULE MCAccounts -----------------------------
(***************************************************************************)
(* Instances of Accounts for TLC: two users with a session each, one of    *)
(* them with two passkeys.                                                 *)
(***************************************************************************)
EXTENDS Accounts, TLC

TwoOfAnn == <<"ann", "ann">>
OneEach == <<"ann", "bob">>

\* Requests differ in nothing but their name, and no property is about liveness.
SwapHandlers == Permutations(Handlers)
-----------------------------------------------------------------------------
(* What is presented: printed tokens of every kind, with one character     *)
(* changed, added or lost.                                                 *)
FourDraws == {<<id, secret>> : id, secret \in {0, 175}}
Characters == {"mps_", ".", " ", "0", "a", "A"}
NearlyPrinted ==
    {InsertAt(s, i, c) : s \in Printed, i \in 1..7, c \in Characters}
    \cup {ReplaceAt(s, i, c) : s \in Printed, i \in 1..6, c \in Characters}
    \cup {RemoveAt(s, i) : s \in Printed, i \in 1..6}
=============================================================================
