------------------------- MODULE MCClassicTransfer --------------------------
(***************************************************************************)
(* Instances of ClassicTransfer for TLC: two requests with one key, on two *)
(* processes, and a third without a key beside the first.                  *)
(***************************************************************************)
EXTENDS ClassicTransfer, TLC

CONSTANTS q1, q2, q3, g1, g2

HomeOfThree == (q1 :> g1) @@ (q2 :> g2) @@ (q3 :> g1)
KeyOfThree  == (q1 :> "k1") @@ (q2 :> "k1") @@ (q3 :> NoKey)

HomeOfOne == (q1 :> g1)
KeyOfOne  == (q1 :> "k1")
=============================================================================
