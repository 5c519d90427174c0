------------------------- MODULE ChainVerification --------------------------
(***************************************************************************)
(* The facts of a case in order of their ranks: how a case is closed, and  *)
(* what EventChainVerificationService.verify concludes from the line of a  *)
(* transaction and the chain of its facts.  The gateway writes             *)
(* fingerprints, links and ranks as it verifies them, so on lines nobody   *)
(* altered the verdict depends on the closure alone: a closure seals the   *)
(* number of facts at the time it is recorded.  Pure operators.            *)
(***************************************************************************)
EXTENDS Integers, Sequences

(* Some fact has this type.                                                *)
Holds(facts, type) == \E i \in DOMAIN facts : facts[i] = type

(* TransactionEventsService.closeCase as seen by the transaction that      *)
(* calls it: an empty chain is not closed, a closed case never again.      *)
CloseCase(facts) ==
  IF facts = << >> \/ Holds(facts, "CASE_CLOSED")
  THEN facts
  ELSE Append(facts, "CASE_CLOSED")

(* isClosureExpected: the line or a remaining fact shows a final outcome.  *)
ClosureExpected(state, facts) ==
  \/ /\ state.paymentChannel = "LEGACY_TRANSFER"
     /\ state.status \in {"COMPLETED", "FAILED"}
  \/ state.providerStatus = "FAILED" /\ state.reconciliationStatus = "NOT_APPLICABLE"
  \/ state.reconciliationStatus = "MATCHED"
  \/ state.refundStatus = "COMPLETED"
  \/ \E i \in DOMAIN facts :
       facts[i] \in {"TRANSFER_COMPLETED", "TRANSFER_FAILED", "PROVIDER_FAILED",
                     "RECONCILIATION_MATCHED", "REFUND_COMPLETED"}

(* The ranks of the closure, at most one by the partial unique index.      *)
ClosureRanks(facts) == {i \in DOMAIN facts : facts[i] = "CASE_CLOSED"}

(* The closure declares as many facts as its own rank: it must be last.    *)
(* Without a closure, none may be expected.                                *)
Tampered(state, facts) ==
  IF ClosureRanks(facts) # {}
  THEN \E i \in ClosureRanks(facts) : i # Len(facts)
  ELSE ClosureExpected(state, facts)
=============================================================================
