--------------------------- MODULE MCMobileMoney ----------------------------
(***************************************************************************)
(* Instances of MobileMoney for TLC: what the aggregator sends in each run *)
(* and the symmetry of interchangeable processes.                          *)
(***************************************************************************)
EXTENDS MobileMoney, TLC

(* Values of KindOf; the eventIds are the domain.                          *)
OneConfirmation  == [n \in {"e1"} |-> "conforming"]
ConfirmationRefusal == [e1 |-> "conforming", e2 |-> "failed"]
AllKinds == [e1 |-> "conforming", e2 |-> "amount", e3 |-> "failed"]

Symmetry == Permutations(Handlers) \union Permutations(Workers)
=============================================================================
