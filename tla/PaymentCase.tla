---------------------------- MODULE PaymentCase -----------------------------
(***************************************************************************)
(* What the gateway promises about one Mobile Money payment, without its   *)
(* handlers, queue, copies and retries: the money of the payer has exactly *)
(* one fate, a refusal closes the case in the same step, a collection      *)
(* without counterpart opens a review in the same step, and a delivered    *)
(* payment is closed afterwards and never reopened.                        *)
(***************************************************************************)

VARIABLES
  fate,  \* of the payment: "awaited", "collected", "refused", "owed", "delivered"
  file   \* of the case: "none", "open", "review", "closed"

caseVars == <<fate, file>>

Init == fate = "awaited" /\ file = "none"

Moves(from, to, fileFrom, fileTo) ==
  /\ fate = from /\ fate' = to
  /\ file = fileFrom /\ file' = fileTo

Request  == Moves("awaited", "awaited", "none", "open")
Refuse   == Moves("awaited", "refused", "open", "closed")
Collect  == Moves("awaited", "collected", "open", "open")
Withhold == Moves("awaited", "owed", "open", "review")
Deliver  == Moves("collected", "delivered", "open", "open")
Fail     == Moves("collected", "owed", "open", "review")
Close    == Moves("delivered", "delivered", "open", "closed")

Next == Request \/ Refuse \/ Collect \/ Withhold \/ Deliver \/ Fail \/ Close

Spec == Init /\ [][Next]_caseVars
=============================================================================
