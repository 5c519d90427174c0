----------------------------- MODULE MCRegistry -----------------------------
(***************************************************************************)
(* Instance of EventRegistry for TLC: an agent that asks for a refund      *)
(* again and two that complete it.                                         *)
(***************************************************************************)
EXTENDS EventRegistry

Completion == <<"REFUND_COMPLETED", "CASE_CLOSED">>
RefundPlans == [w1 |-> <<"REFUND_REQUESTED">>, w2 |-> Completion, w3 |-> Completion]
=============================================================================
