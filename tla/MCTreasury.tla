----------------------------- MODULE MCTreasury -----------------------------
(***************************************************************************)
(* Instances of Treasury for TLC.                                          *)
(***************************************************************************)
EXTENDS Treasury, TLC

ConfirmationOrGap == [e1 |-> "conforming", e2 |-> "amount"]
OneConfirmation == [n \in {"e1"} |-> "conforming"]

Symmetry == Permutations(Requests) \union Permutations(Operators) \union Permutations(Sweepers)
=============================================================================
