---------------------------- MODULE PaymentStore ----------------------------
(***************************************************************************)
(* The PostgreSQL tables that the services of the gateway share, for one   *)
(* Mobile Money payment: its line of "transactions", the chain of its      *)
(* facts in "transaction_events" and its line of "bank_instructions".      *)
(* Payments share no line, so one reference shows every interleaving.      *)
(*                                                                         *)
(* A SQL transaction of the code is one step.  What happens outside a SQL  *)
(* transaction (the call to the bank, the time between a read and a later  *)
(* write) is a separate step, and entities read earlier stay in the memory *)
(* of the process that read them.                                          *)
(***************************************************************************)
EXTENDS Integers, Sequences, TransactionState, ChainVerification

CONSTANTS
  MaxCrashes,    \* processes that may stop abruptly in a behaviour
  MaxDbFaults    \* SQL statements that may fail in a behaviour

ASSUME FaultBounds == MaxCrashes \in Nat /\ MaxDbFaults \in Nat

VARIABLES
  row,           \* the line of transactions, meaningful once RowExists
  chain,         \* event types of transaction_events, in order of sequence
  instr,         \* the line of bank_instructions; status "NONE": no line
  leaseExpired,  \* the claim of an IN_FLIGHT instruction outlived its lease
  crashes,       \* abrupt stops so far, at most MaxCrashes
  dbFaults       \* failed SQL statements so far, at most MaxDbFaults

storeVars == <<row, chain, instr, leaseExpired, crashes, dbFaults>>

(* What the aggregator reported and the line stores as aggregator_amount   *)
(* and aggregator_currency, compared with what was ordered.                *)
Observed == {"none", "conforming", "amount", "currency"}

TransactionRow ==
  [status: TransactionStatus, providerStatus: ProviderStatus,
   bankStatus: BankProcessingStatus, reconciliationStatus: ReconciliationStatus,
   refundStatus: RefundStatus, caseStatus: CaseStatus,
   paymentChannel: PaymentChannel, observed: Observed]

TransactionEventType ==
  {"PAYMENT_INITIATED", "PROVIDER_CONFIRMED", "PROVIDER_FAILED",
   "AMOUNT_MISMATCH_DETECTED", "BANK_PROCESSING_BLOCKED",
   "BANK_PROCESSING_COMPLETED", "BANK_PROCESSING_FAILED",
   "RECONCILIATION_MATCHED", "RECONCILIATION_MISMATCH",
   "REFUND_REQUESTED", "REFUND_COMPLETED", "REFUND_FAILED", "REFUND_REOPENED",
   "SETTLEMENT_SWEPT", "CASE_OPENED", "CASE_CLOSED"}

BankInstructionStatus == {"NONE", "PENDING", "IN_FLIGHT", "COMPLETED", "DEAD_LETTER"}
BankInstruction == [status: BankInstructionStatus, attempts: Nat]

StoreTypeOK ==
  /\ row \in TransactionRow
  /\ chain \in Seq(TransactionEventType)
  /\ instr \in BankInstruction
  /\ leaseExpired \in BOOLEAN
  /\ crashes \in 0..MaxCrashes
  /\ dbFaults \in 0..MaxDbFaults

(* The opening fact is written by the transaction that inserts the line.   *)
RowExists == chain # << >>

(* Some fact has this type.                                                *)
Recorded(type) == Holds(chain, type)

(* MobileMoneyService.initiate: the line it inserts, with the defaults of  *)
(* the columns it does not set.                                            *)
InitialRow ==
  [status |-> "PENDING", providerStatus |-> "PENDING", bankStatus |-> "NOT_STARTED",
   reconciliationStatus |-> "PENDING", refundStatus |-> "NOT_REQUIRED",
   caseStatus |-> "NONE", paymentChannel |-> "MOBILE_MONEY", observed |-> "none"]

StoreInit ==
  /\ row = InitialRow
  /\ chain = << >>
  /\ instr = [status |-> "NONE", attempts |-> 0]
  /\ leaseExpired = FALSE
  /\ crashes = 0
  /\ dbFaults = 0

(* Mutants of Enqueued: the instruction is forgotten, and it starts with   *)
(* an attempt too few.                                                     *)
EnqueueForgotten == [status |-> "NONE", attempts |-> 0]
EnqueuedBackdated == [status |-> "PENDING", attempts |-> -1]

(* BankInstructionWorker.enqueue, in the transaction of the caller.        *)
Enqueued == [status |-> "PENDING", attempts |-> 0]

(* MobileMoneyService.initiate: the line and its opening fact together.    *)
(* There is one payment, so the search by idempotency key, the race for it *)
(* and the attempts at a free reference are left out (ClassicTransfer has  *)
(* their like).                                                            *)
Initiate ==
  /\ ~RowExists
  /\ AssertInitialState(InitialRow)
  /\ row' = InitialRow
  /\ chain' = <<"PAYMENT_INITIATED">>
  /\ UNCHANGED <<instr, leaseExpired, crashes, dbFaults>>

(* A process stops: what it held in memory is lost, the tables are not.    *)
Crash ==
  /\ crashes < MaxCrashes
  /\ crashes' = crashes + 1

(* A SQL transaction fails: it is rolled back and its error is thrown.     *)
DbFault ==
  /\ dbFaults < MaxDbFaults
  /\ dbFaults' = dbFaults + 1
=============================================================================
