---------------------------- MODULE MobileMoney -----------------------------
(***************************************************************************)
(* The Mobile Money flow from the payment request to the closed case or    *)
(* the open debt: the notification handlers (Webhooks) and the workers of  *)
(* the bank queue (BankQueue) over the tables they share (PaymentStore).   *)
(***************************************************************************)
EXTENDS Webhooks, BankQueue, ChainVerification

vars == <<storeVars, webhookVars, bankVars>>

Init == StoreInit /\ WebhookInit /\ BankInit

Next ==
  \/ Initiate /\ UNCHANGED <<webhookVars, bankVars>>
  \/ WebhookNext /\ UNCHANGED bankVars
  \/ BankNext /\ UNCHANGED webhookVars

Spec == Init /\ [][Next]_vars

(***************************************************************************)
(* Fairness.  The aggregator redelivers a notification until it is         *)
(* acknowledged, a request that was received runs to its end, each worker  *)
(* drains the queue periodically (setInterval) and time passes, so a claim *)
(* nobody holds any more expires.  Crashes and database faults are not     *)
(* fair, and neither is the reconciliation endpoint, which an operator     *)
(* calls when it pleases.                                                  *)
(***************************************************************************)
Fairness ==
  /\ WF_vars(Initiate /\ UNCHANGED <<webhookVars, bankVars>>)
  /\ \A n \in Notifications :
       /\ WF_vars(\E h \in Handlers : Register(h, n) /\ UNCHANGED bankVars)
       /\ WF_vars(ClaimExpires(n) /\ UNCHANGED bankVars)
  /\ \A h \in Handlers : WF_vars(HandlerStep(h) /\ UNCHANGED bankVars)
  /\ \A w \in Workers : WF_vars(WorkerStep(w) /\ UNCHANGED webhookVars)
  /\ WF_vars(LeaseExpires /\ UNCHANGED webhookVars)

FairSpec == Spec /\ Fairness

-----------------------------------------------------------------------------
TypeOK == StoreTypeOK /\ WebhookTypeOK /\ BankTypeOK

(* The bank leg was handed to the queue, and possibly settled by it.       *)
InstructedLeg == {"PROCESSING", "COMPLETED", "FAILED"}

(***************************************************************************)
(* An instruction is queued exactly when the line says the leg was taken:  *)
(* no leg waits for an instruction that does not exist, no instruction     *)
(* serves a leg that was blocked or never started                          *)
(* (confirmAndClaimBankProcessing: "doivent devenir visibles ensemble").   *)
(***************************************************************************)
InstructionBacksLeg ==
  instr.status # "NONE" <=> row.bankStatus \in InstructedLeg

(***************************************************************************)
(* The bank executes a transfer only on a collection that the aggregator   *)
(* confirmed for the ordered amount and currency, and never on a payment   *)
(* for which a divergence or a refusal was recorded, whatever order        *)
(* notifications, workers, crashes and retries come in.                    *)
(***************************************************************************)
PaidOnlyOnConformingCollection ==
  paid > 0 => /\ Recorded("PROVIDER_CONFIRMED")
              /\ ~Recorded("AMOUNT_MISMATCH_DETECTED")
              /\ ~Recorded("PROVIDER_FAILED")
              /\ row.observed = "conforming"

(***************************************************************************)
(* The state machine never refuses the answer of the bank nor the verdict  *)
(* of a reconciliation, however old the copy they are applied to: a        *)
(* refusal after the call would put an executed transfer back in the queue *)
(* (applyBankSuccess, handleBankFailure, reconcile: assertTransition).     *)
(***************************************************************************)
AnswerAlwaysApplies ==
  /\ \A w \in Workers :
       LET copy == worker[w].row
       IN /\ worker[w].pc = "executed"  => AssertTransition(copy, Executed(copy))
          /\ worker[w].pc = "refused"   => AssertTransition(copy, Indebted(copy))
          /\ worker[w].pc = "reconcile" => AssertTransition(copy, Verdict(copy))
  /\ \A r \in Reconcilers :
       reconciler[r].pc = "loaded" => AssertTransition(reconciler[r].row, Verdict(reconciler[r].row))

(***************************************************************************)
(* The chain never tells both that the bank executed and that it failed.   *)
(***************************************************************************)
OneBankVerdict ==
  ~(Recorded("BANK_PROCESSING_COMPLETED") /\ Recorded("BANK_PROCESSING_FAILED"))

(***************************************************************************)
(* A collection without its counterpart is a debt, and only that is: the   *)
(* line owes a refund and keeps a case under review exactly when the leg   *)
(* failed or was blocked, and the chain holds the facts that open it.      *)
(* An abandoned instruction (deadLetter) is such a debt.                   *)
(***************************************************************************)
DebtMatchesLostLeg ==
  /\ row.bankStatus \in {"FAILED", "BLOCKED"}
       <=> row.refundStatus = "REQUIRED" /\ row.caseStatus = "MANUAL_REVIEW"
  /\ row.refundStatus = "REQUIRED" <=> Recorded("CASE_OPENED")
  /\ instr.status = "DEAD_LETTER" => row.bankStatus = "FAILED"

(***************************************************************************)
(* verify never accuses a line and a chain that only the gateway wrote     *)
(* (README: "Un audit qui accuse a tort ...").  The program does not keep  *)
(* this promise; AccusedOnlyForRepetition says where the flow breaks it.   *)
(***************************************************************************)
NeverAccusedOfTampering == RowExists => ~Tampered(row, chain)

(* What markAmountMismatch records.                                        *)
GapFacts == {"AMOUNT_MISMATCH_DETECTED", "BANK_PROCESSING_BLOCKED", "CASE_OPENED"}

(***************************************************************************)
(* A fact may follow the closure of a case in two ways only, and nothing   *)
(* else makes verify accuse lines that only the gateway wrote: the outcome *)
(* that the closure sealed is recorded again, by a refusal handled twice   *)
(* or a replay of the reconciliation, or a diverging confirmation read the *)
(* line before it was refused (markProviderFailed, markAmountMismatch,     *)
(* reconcile).  No outcome is left without its closure.                    *)
(***************************************************************************)
AccusedOnlyForRepetition ==
  RowExists /\ Tampered(row, chain) =>
    \E i \in ClosureRanks(chain) : \A j \in DOMAIN chain : j > i =>
      \/ chain[j] = chain[i - 1]
      \/ chain[i - 1] = "PROVIDER_FAILED" /\ chain[j] \in GapFacts

(***************************************************************************)
(* A refund is owed only when the beneficiary received nothing             *)
(* (deadLetter: "Le fournisseur a encaisse, le beneficiaire n'a rien       *)
(* recu").                                                                 *)
(***************************************************************************)
OwedOnlyIfUnpaid == row.refundStatus = "REQUIRED" => paid = 0

-----------------------------------------------------------------------------
(* The facts of a match, the workers that executed a transfer and have yet *)
(* to reconcile it, and the replays that read a line still to reconcile.   *)
MatchRanks == {i \in DOMAIN chain : chain[i] = "RECONCILIATION_MATCHED"}
Reconciling == {w \in Workers : worker[w].pc = "reconcile"}
Replaying == {r \in Reconcilers : reconciler[r].pc = "loaded"}

(***************************************************************************)
(* Once a match is recorded, nobody comes to reconcile the payment again:  *)
(* not the worker that claims its instruction after a crash, nor a replay, *)
(* nor a late confirmation.  Another match is recorded only by a process   *)
(* that had read the line before the first, and each has one such copy     *)
(* (reconcile: "ne pas recreer RECONCILIATION_MATCHED"; runPending reads   *)
(* its lines in one statement and reconciles them in others).              *)
(***************************************************************************)
MatchedByEarlierReaders ==
  [][MatchRanks # {} =>
       /\ Reconciling' \subseteq Reconciling
       /\ Replaying' \subseteq Replaying
       /\ \/ MatchRanks' = MatchRanks
          \/ Reconciling' # Reconciling
          \/ Replaying' # Replaying]_vars

(* markAmountMismatch takes a payment that was refused after it read the   *)
(* line: its update does not test provider_status.                         *)
GapOverRefusal(before, after) ==
  before.providerStatus = "FAILED" /\ after.bankStatus = "BLOCKED"

(***************************************************************************)
(* Every committed change of the line is a move the state machine allows   *)
(* from the committed line, although each writer checks it from the copy   *)
(* it read earlier and saves without comparing versions.  A gap written    *)
(* over a refusal is the one exception, and it too leaves a line that      *)
(* keeps the invariants.                                                   *)
(***************************************************************************)
LegalRowMoves ==
  [][RowExists => /\ NoIllegalMoves(row, row') \/ GapOverRefusal(row, row')
                  /\ NoBrokenInvariants(row')]_row

(***************************************************************************)
(* An instruction that was acknowledged or abandoned is over: its line is  *)
(* never written again and the bank is never called for it again (README:  *)
(* "payer en plus paierait deux fois").                                    *)
(***************************************************************************)
SettledInstructionIsOver ==
  [][instr.status \in {"COMPLETED", "DEAD_LETTER"} => UNCHANGED <<instr, paid>>]_<<instr, paid>>

-----------------------------------------------------------------------------
(***************************************************************************)
(* The fate of the payment and the state of its case, as the line and the  *)
(* chain tell them.                                                        *)
(***************************************************************************)
Fate ==
  CASE row.providerStatus = "FAILED"              -> "refused"
    [] row.bankStatus = "PROCESSING"              -> "collected"
    [] row.bankStatus = "COMPLETED"               -> "delivered"
    [] row.bankStatus \in {"FAILED", "BLOCKED"}   -> "owed"
    [] OTHER                                      -> "awaited"

File ==
  CASE ~RowExists                       -> "none"
    [] Recorded("CASE_CLOSED")          -> "closed"
    [] row.caseStatus = "MANUAL_REVIEW" -> "review"
    [] OTHER                            -> "open"

Case == INSTANCE PaymentCase WITH fate <- Fate, file <- File

(***************************************************************************)
(* The flow implements the promise of PaymentCase: every step of a         *)
(* handler, a worker or the reconciliation is one of its moves or none.    *)
(***************************************************************************)
KeepsPaymentCase == Case!Spec

-----------------------------------------------------------------------------
(***************************************************************************)
(* A leg that was taken is settled: executed, or failed with its debt      *)
(* open, in spite of crashes, lost answers and database incidents.         *)
(***************************************************************************)
TakenLegSettles ==
  row.bankStatus = "PROCESSING" ~> row.bankStatus \in {"COMPLETED", "FAILED"}

(***************************************************************************)
(* The queue empties: an instruction is acknowledged or abandoned.         *)
(***************************************************************************)
QueueDrains ==
  instr.status = "PENDING" ~> instr.status \in {"COMPLETED", "DEAD_LETTER"}

(***************************************************************************)
(* A notification delivered once is processed in the end: a crash or an    *)
(* incident leaves it claimable for the redelivery.                        *)
(***************************************************************************)
NotificationsProcessed ==
  \A n \in Notifications : inbox[n] # "NONE" ~> inbox[n] = "PROCESSED"

(***************************************************************************)
(* If an operator replays the pending reconciliations now and then, an     *)
(* executed transfer ends in a closed case, although the worker that       *)
(* executed it may stop before the reconciliation.                         *)
(***************************************************************************)
ExecutedCaseCloses ==
  (\A r \in Reconcilers : WF_vars(RunPending(r) /\ UNCHANGED webhookVars))
    => (row.bankStatus = "COMPLETED" ~> Recorded("CASE_CLOSED"))
=============================================================================
