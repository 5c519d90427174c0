------------------------------ MODULE MCRestore -----------------------------
(***************************************************************************)
(* Instance of RegistryRestore for TLC: one agent completes the refund.    *)
(***************************************************************************)
EXTENDS RegistryRestore

OneCompletion == [w1 |-> <<"REFUND_COMPLETED", "CASE_CLOSED">>]
=============================================================================
