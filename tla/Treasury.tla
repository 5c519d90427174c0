------------------------------ MODULE Treasury ------------------------------
(***************************************************************************)
(* The sweep of collected funds (TreasuryService.sweep) beside the whole   *)
(* life of a payment, and the books of its case.  A sweep reads the        *)
(* eligible lines, then takes each in a SQL transaction of its own.        *)
(***************************************************************************)
EXTENDS PaymentLifecycle, Ledger

CONSTANTS
  Sweepers,     \* executions of sweep; an operator may start one again
  Ordered,      \* amount of the order
  Collected,    \* amount collected when it differs from the order
  FeeAmount     \* fee frozen at the confirmation, on what was collected

ASSUME Amounts ==
  /\ Ordered \in Nat \ {0} /\ Collected \in Nat \ {0}
  /\ FeeAmount \in 0..Ordered

VARIABLE sweeping   \* the sweeps that selected the line and hold it in memory

treasuryVars == <<lifeVars, sweeping>>

TreasuryInit == LifeInit /\ sweeping = {}

(* The line says that both legs are done and nothing is owed to the payer. *)
Matched ==
  /\ row.paymentChannel = "MOBILE_MONEY"
  /\ row.providerStatus = "CONFIRMED"
  /\ row.reconciliationStatus = "MATCHED"
  /\ row.refundStatus = "NOT_REQUIRED"
  /\ row.observed # "none"

(* sweep selects the eligible lines that no sweep has taken ...            *)
SelectEligible(s) ==
  /\ s \notin sweeping
  /\ RowExists /\ Matched /\ ~Recorded("SETTLEMENT_SWEPT")
  /\ sweeping' = sweeping \union {s}
  /\ UNCHANGED lifeVars

\* Mutant: the register is not read again under the lock.
SweepWithoutReread(s) ==
  /\ s \in sweeping
  /\ chain' = IF Matched THEN Append(chain, "SETTLEMENT_SWEPT") ELSE chain
  /\ sweeping' = sweeping \ {s}
  /\ UNCHANGED <<row, instr, leaseExpired, crashes, dbFaults, webhookVars, bankVars, refundVars>>

(* ... and takes each under a lock, after reading line and register again. *)
SweepOne(s) ==
  /\ s \in sweeping
  /\ chain' = IF Matched /\ ~Recorded("SETTLEMENT_SWEPT")
              THEN Append(chain, "SETTLEMENT_SWEPT")
              ELSE chain
  /\ sweeping' = sweeping \ {s}
  /\ UNCHANGED <<row, instr, leaseExpired, crashes, dbFaults, webhookVars, bankVars, refundVars>>

(* The process stops or the transaction is rolled back: the sweep ends.    *)
SweepStops(s) ==
  /\ s \in sweeping
  /\ sweeping' = sweeping \ {s}
  /\ UNCHANGED lifeVars

TreasuryNext ==
  \/ LifeNext /\ UNCHANGED sweeping
  \/ \E s \in Sweepers : SelectEligible(s) \/ SweepOne(s) \/ SweepStops(s)

TreasurySpec == TreasuryInit /\ [][TreasuryNext]_treasuryVars

-----------------------------------------------------------------------------
(* The amounts of the case: an observation that conforms is the order.     *)
Books ==
  [ordered |-> Ordered, fee |-> FeeAmount,
   observed |-> IF row.observed \in {"amount", "currency"} THEN Collected ELSE Ordered]

BalanceOf(account) == Balance(chain, Books, account)

(***************************************************************************)
(* Concurrent sweeps bring the funds of a case home once (sweep: "un seul  *)
(* fait comptable plutot qu'en deux rapatriements"), and only of a case    *)
(* whose beneficiary was paid.                                             *)
(***************************************************************************)
SweptOnceWhenPaid ==
  /\ CountOf(chain, "SETTLEMENT_SWEPT") <= 1
  /\ Recorded("SETTLEMENT_SWEPT") => Recorded("BANK_PROCESSING_COMPLETED") /\ Matched

(***************************************************************************)
(* The journal puts a figure on the debt that the status of the line only  *)
(* names (LedgerPostingService: "Un statut dit qu'une dette existe ; il ne *)
(* dit pas combien"): while the payer is owed, what was collected, and     *)
(* never a positive amount otherwise.                                      *)
(***************************************************************************)
OpenDebtIsBooked ==
  IF row.refundStatus \in {"REQUIRED", "REQUESTED", "FAILED"}
  THEN BalanceOf("PAYER_PAYABLE") = Books.observed
  ELSE BalanceOf("PAYER_PAYABLE") <= 0

(***************************************************************************)
(* The books of a payment that came to its end hold nothing of the others: *)
(* a matched case owes its beneficiary nothing and leaves the fee, in the  *)
(* settlement account once it is swept; a lost leg leaves no fee.          *)
(***************************************************************************)
BooksOfEndedCase ==
  /\ Matched => /\ BalanceOf("CREDITOR_PAYABLE") = 0
                /\ BalanceOf("FEE_REVENUE") = FeeAmount
                /\ Recorded("SETTLEMENT_SWEPT") =>
                     BalanceOf("PROVIDER_FLOAT") = 0 /\ BalanceOf("SETTLEMENT") = FeeAmount
  /\ row.bankStatus \in {"FAILED", "BLOCKED"} =>
       BalanceOf("CREDITOR_PAYABLE") = 0 /\ BalanceOf("FEE_REVENUE") = 0

(***************************************************************************)
(* The payer is never paid back more than was owed (PAYER_PAYABLE: "Du au  *)
(* payeur").                                                               *)
(***************************************************************************)
PayerNeverOverpaid == BalanceOf("PAYER_PAYABLE") >= 0
=============================================================================
