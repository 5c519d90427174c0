------------------------- MODULE MCPaymentLifecycle -------------------------
(***************************************************************************)
(* Instances of PaymentLifecycle for TLC.                                  *)
(***************************************************************************)
EXTENDS PaymentLifecycle, TLC

OneConfirmation == [n \in {"e1"} |-> "conforming"]

Symmetry == Permutations(Requests) \union Permutations(Operators)
=============================================================================
