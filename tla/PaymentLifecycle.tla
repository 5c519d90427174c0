-------------------------- MODULE PaymentLifecycle --------------------------
(***************************************************************************)
(* A payment from its request to its refund: the Mobile Money flow opens   *)
(* the debts that the refunds extinguish, on the same line and chain.      *)
(***************************************************************************)
EXTENDS MobileMoney, Refunds

lifeVars == <<vars, refundVars>>

LifeInit == Init /\ RefundInit

LifeNext ==
  \/ Next /\ UNCHANGED refundVars
  \/ RefundNext /\ UNCHANGED <<webhookVars, bankVars>>

LifeSpec == LifeInit /\ [][LifeNext]_lifeVars

(* The retry worker of each instance passes periodically (setInterval) and *)
(* a request that was received runs to its end; the rest is as fair as in  *)
(* MobileMoney.  Nobody is obliged to request a refund or to reopen one.   *)
RefundFairness ==
  \A p \in Agents : WF_lifeVars(AgentStep(p) /\ UNCHANGED <<webhookVars, bankVars>>)

FairLifeSpec == LifeSpec /\ Fairness /\ RefundFairness

-----------------------------------------------------------------------------
(***************************************************************************)
(* The provider pays the payer back at most once: every attempt of every   *)
(* agent carries the key of the one line (README: "deux reprises ne        *)
(* peuvent pas produire deux remboursements").                             *)
(***************************************************************************)
RepaidAtMostOnce == \A k, l \in payouts : k = l

(***************************************************************************)
(* A case is resolved only once the provider paid, on a debt that a lost   *)
(* bank leg opened.                                                        *)
(***************************************************************************)
ResolvedOnlyWhenRepaid ==
  row.caseStatus = "RESOLVED" =>
    /\ refund.status = "COMPLETED"
    /\ refund.key \in payouts
    /\ row.bankStatus \in {"FAILED", "BLOCKED"}

(***************************************************************************)
(* The line of the refund and the view of it on the transaction agree,     *)
(* whichever agent wrote last (syncTransaction).                           *)
(***************************************************************************)
RefundViewsAgree ==
  row.refundStatus = IF refund.status # "NONE"                 THEN refund.status
                     ELSE IF row.bankStatus \in {"FAILED", "BLOCKED"} THEN "REQUIRED"
                     ELSE "NOT_REQUIRED"

(***************************************************************************)
(* A debt that was extinguished is never reborn: neither an agent that was *)
(* waiting for the provider nor one with an older copy writes over it.     *)
(***************************************************************************)
ExtinctDebtIsFinal ==
  [][refund.status = "COMPLETED" =>
       /\ refund'.status = "COMPLETED"
       /\ row'.refundStatus = "COMPLETED"
       /\ row'.caseStatus = "RESOLVED"]_<<refund, row>>

(***************************************************************************)
(* A refund that was asked of the provider is settled: completed, or       *)
(* rejected and left to an approver, in spite of cut exchanges and agents  *)
(* that stop (retryPending).                                               *)
(***************************************************************************)
AskedRefundSettles ==
  refund.status = "REQUESTED" ~>
    refund.status = "COMPLETED" \/ (refund.status = "FAILED" /\ ~refund.retryable)
=============================================================================
