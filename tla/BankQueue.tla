------------------------------ MODULE BankQueue -----------------------------
(***************************************************************************)
(* The queue of bank instructions (BankInstructionWorker), what the worker *)
(* executes (MobileMoneyWebhookService.executeBankInstruction) and the     *)
(* reconciliation that follows (ReconciliationService).                    *)
(*                                                                         *)
(* A worker claims the instruction, calls the bank outside any SQL         *)
(* transaction, applies the answer to the copy of the transaction it read  *)
(* when it claimed, and saves that copy whole: the save of TypeORM writes  *)
(* every column that differs from the line and does not compare the        *)
(* version column.  A claim that outlives its lease may be taken again.    *)
(***************************************************************************)
EXTENDS PaymentStore

CONSTANTS
  Workers,      \* gateway instances draining the queue
  Reconcilers,  \* requests to replay the pending reconciliations
  MaxAttempts,  \* bankWorkerMaxAttempts
  SlowWorkers,  \* may a live worker outlast IN_FLIGHT_LEASE_MS?
  MaxPaid       \* bound: no transfer is executed with its answer lost beyond it

ASSUME BankConstants ==
  /\ MaxAttempts \in Nat \ {0}
  /\ SlowWorkers \in BOOLEAN
  /\ MaxPaid \in Nat

VARIABLES
  worker,       \* what each worker has in memory, see WorkerMemory
  reconciler,   \* what each replay of reconciliations has in memory
  paid          \* external: transfers the bank really executed

bankVars == <<worker, reconciler, paid>>

WorkerSteps == {"idle", "claimed", "executed", "refused", "reconcile", "done", "error"}

(* Where a worker stands, its copy of the transaction and the number of    *)
(* attempts of its copy of the instruction.                                *)
WorkerMemory == [pc: WorkerSteps, row: TransactionRow, attempts: Nat]

IdleWorker == [pc |-> "idle", row |-> InitialRow, attempts |-> 0]

ReconcilerMemory == [pc: {"idle", "loaded"}, row: TransactionRow]

IdleReconciler == [pc |-> "idle", row |-> InitialRow]

BankTypeOK ==
  /\ worker \in [Workers -> WorkerMemory]
  /\ reconciler \in [Reconcilers -> ReconcilerMemory]
  /\ paid \in Nat

BankInit ==
  /\ worker = [w \in Workers |-> IdleWorker]
  /\ reconciler = [r \in Reconcilers |-> IdleReconciler]
  /\ paid = 0

Step(w, step) == worker' = [worker EXCEPT ![w].pc = step]
StepWith(w, step, entity) == worker' = [worker EXCEPT ![w] = [@ EXCEPT !.pc = step, !.row = entity]]
Release(w) == worker' = [worker EXCEPT ![w] = IdleWorker]

(* instructions.save: the worker's copy of the instruction, whole.         *)
SaveInstruction(w, status) ==
  /\ instr' = [status |-> status, attempts |-> worker[w].attempts]
  /\ leaseExpired' = FALSE

-----------------------------------------------------------------------------
(***************************************************************************)
(* BankInstructionWorker.drain                                             *)
(***************************************************************************)

(* Mutants: an interrupted claim is never taken over; an abandoned         *)
(* instruction is replayed.                                                *)
ClaimablePendingOnly == instr.status = "PENDING"
ClaimableAbandoned == instr.status \in {"PENDING", "DEAD_LETTER"}

(* Due, or in flight with an expired lease.  The delay before a retry is   *)
(* the time that passes before the step is taken.                          *)
InstructionClaimable ==
  instr.status = "PENDING" \/ (instr.status = "IN_FLIGHT" /\ leaseExpired)

(* claimNext: instruction and transaction are read under the row lock.  A  *)
(* line that is not found would abandon the instruction; it is inserted    *)
(* before any instruction is, and never removed.                           *)
ClaimNext(w) ==
  /\ worker[w].pc = "idle"
  /\ InstructionClaimable
  /\ instr' = [status |-> "IN_FLIGHT", attempts |-> instr.attempts + 1]
  /\ leaseExpired' = FALSE
  /\ worker' = [worker EXCEPT ![w] =
                  [pc |-> "claimed", row |-> row, attempts |-> instr.attempts + 1]]
  /\ UNCHANGED <<row, chain, crashes, dbFaults, reconciler, paid>>

\* Mutant: an executed leg is executed again.
BankLegLost(state) == state.bankStatus \in {"FAILED", "BLOCKED"}

BankLegSettled(state) == state.bankStatus \in {"COMPLETED", "FAILED", "BLOCKED"}

(* attempt: the answer was already applied, only the instruction was not   *)
(* acknowledged.                                                           *)
SkipSettled(w) ==
  /\ worker[w].pc = "claimed"
  /\ BankLegSettled(worker[w].row)
  /\ SaveInstruction(w, "COMPLETED")
  /\ Release(w)
  /\ UNCHANGED <<row, chain, crashes, dbFaults, reconciler, paid>>

(* The bank executes and answers, refuses with a SOAP fault, or the        *)
(* transport fails, which says nothing of what the bank did.               *)
CallBank(w) ==
  /\ worker[w].pc = "claimed"
  /\ ~BankLegSettled(worker[w].row)
  /\ \/ Step(w, "executed") /\ paid' = paid + 1
     \/ Step(w, "refused") /\ UNCHANGED paid
     \/ Step(w, "error") /\ UNCHANGED paid
     \/ Step(w, "error") /\ paid < MaxPaid /\ paid' = paid + 1
  /\ UNCHANGED <<storeVars, reconciler>>

(* attempt: the instruction is acknowledged.                               *)
Complete(w) ==
  /\ worker[w].pc = "done"
  /\ SaveInstruction(w, "COMPLETED")
  /\ Release(w)
  /\ UNCHANGED <<row, chain, crashes, dbFaults, reconciler, paid>>

Exhausted(w) == worker[w].attempts >= MaxAttempts

(* attempt, in the catch: back to the queue while attempts are left.       *)
Retry(w) ==
  /\ worker[w].pc = "error"
  /\ ~Exhausted(w)
  /\ SaveInstruction(w, "PENDING")
  /\ Release(w)
  /\ UNCHANGED <<row, chain, crashes, dbFaults, reconciler, paid>>

(* Mutant: the failure is written without the debt it opens.               *)
FailedWithoutDebt(entity) ==
  [entity EXCEPT !.status = "FAILED", !.bankStatus = "FAILED",
                 !.reconciliationStatus = "MANUAL_REVIEW"]

(* The transaction as a failed bank leg leaves it, with the debt it opens. *)
Indebted(entity) ==
  [entity EXCEPT !.status = "FAILED", !.bankStatus = "FAILED",
                 !.reconciliationStatus = "MANUAL_REVIEW",
                 !.refundStatus = "REQUIRED", !.caseStatus = "MANUAL_REVIEW"]

(* deadLetter: instruction, transaction and facts in one SQL transaction.  *)
(* If the state machine refuses, everything is rolled back, the error      *)
(* leaves drain and the instruction stays IN_FLIGHT.                       *)
DeadLetter(w) ==
  LET before == worker[w].row
      after  == Indebted(before)
  IN /\ worker[w].pc = "error"
     /\ Exhausted(w)
     /\ \/ /\ AssertTransition(before, after)
           /\ SaveInstruction(w, "DEAD_LETTER")
           /\ row' = after
           /\ chain' = chain \o <<"BANK_PROCESSING_FAILED", "CASE_OPENED">>
        \/ /\ ~AssertTransition(before, after)
           /\ UNCHANGED <<instr, leaseExpired, row, chain>>
     /\ Release(w)
     /\ UNCHANGED <<crashes, dbFaults, reconciler, paid>>

-----------------------------------------------------------------------------
(***************************************************************************)
(* MobileMoneyWebhookService.executeBankInstruction.  The state machine    *)
(* accepts every answer of the bank (AnswerAlwaysApplies in MobileMoney),  *)
(* so its refusal of one is a guard here and not a branch.                 *)
(***************************************************************************)

Executed(entity) == [entity EXCEPT !.status = "COMPLETED", !.bankStatus = "COMPLETED"]

(* applyBankSuccess, up to the reconciliation that it calls.               *)
ApplyBankSuccess(w) ==
  LET before == worker[w].row
      after  == Executed(before)
  IN /\ worker[w].pc = "executed"
     /\ AssertTransition(before, after)
     /\ row' = after
     /\ chain' = Append(chain, "BANK_PROCESSING_COMPLETED")
     /\ StepWith(w, "reconcile", after)
     /\ UNCHANGED <<instr, leaseExpired, crashes, dbFaults, reconciler, paid>>

(* handleBankFailure                                                       *)
HandleBankFailure(w) ==
  LET before == worker[w].row
      after  == Indebted(before)
  IN /\ worker[w].pc = "refused"
     /\ AssertTransition(before, after)
     /\ row' = after
     /\ chain' = chain \o <<"BANK_PROCESSING_FAILED", "CASE_OPENED">>
     /\ StepWith(w, "done", after)
     /\ UNCHANGED <<instr, leaseExpired, crashes, dbFaults, reconciler, paid>>

-----------------------------------------------------------------------------
(***************************************************************************)
(* ReconciliationService                                                   *)
(***************************************************************************)

(* reconcile, both legs done: the verdict on the entity in memory.         *)
Verdict(entity) ==
  [entity EXCEPT !.reconciliationStatus =
     IF entity.observed = "conforming" THEN "MATCHED" ELSE "MISMATCH"]

(* Mutant: the closure is left to the replay.                              *)
VerdictFactsUnclosed(after) ==
  Append(chain, IF after.reconciliationStatus = "MATCHED"
                THEN "RECONCILIATION_MATCHED" ELSE "RECONCILIATION_MISMATCH")

(* The facts of that verdict; a match closes the case.                     *)
VerdictFacts(after) ==
  IF after.reconciliationStatus = "MATCHED"
  THEN CloseCase(Append(chain, "RECONCILIATION_MATCHED"))
  ELSE Append(chain, "RECONCILIATION_MISMATCH")

(* The SQL transaction of reconcile on an entity with both legs done.      *)
ReconcileEntity(entity) ==
  /\ AssertTransition(entity, Verdict(entity))
  /\ row' = Verdict(entity)
  /\ chain' = VerdictFacts(Verdict(entity))

(* The reconciliation that the worker runs after a successful call.        *)
Reconcile(w) ==
  /\ worker[w].pc = "reconcile"
  /\ ReconcileEntity(worker[w].row)
  /\ StepWith(w, "done", Verdict(worker[w].row))
  /\ UNCHANGED <<instr, leaseExpired, crashes, dbFaults, reconciler, paid>>

(* runPending: reads the eligible line ...                                 *)
RunPendingLoad(r) ==
  /\ reconciler[r].pc = "idle"
  /\ RowExists
  /\ row.reconciliationStatus = "PENDING"
  /\ row.providerStatus = "CONFIRMED"
  /\ row.bankStatus = "COMPLETED"
  /\ reconciler' = [reconciler EXCEPT ![r] = [pc |-> "loaded", row |-> row]]
  /\ UNCHANGED <<storeVars, worker, paid>>

(* ... and reconciles what it read.                                        *)
RunPendingReconcile(r) ==
  /\ reconciler[r].pc = "loaded"
  /\ ReconcileEntity(reconciler[r].row)
  /\ reconciler' = [reconciler EXCEPT ![r] = IdleReconciler]
  /\ UNCHANGED <<instr, leaseExpired, crashes, dbFaults, worker, paid>>

-----------------------------------------------------------------------------
(***************************************************************************)
(* Faults and time                                                         *)
(***************************************************************************)

(* What the failing step had already done to the entity in memory.         *)
Mutated(w) ==
  CASE worker[w].pc = "executed"  -> Executed(worker[w].row)
    [] worker[w].pc = "refused"   -> Indebted(worker[w].row)
    [] worker[w].pc = "reconcile" -> Verdict(worker[w].row)
    [] OTHER                      -> worker[w].row

(* A statement of the attempt fails and the catch takes over; a statement  *)
(* of the catch itself fails and the error leaves drain.                   *)
WorkerDbFault(w) ==
  /\ DbFault
  /\ \/ /\ \/ worker[w].pc \in {"executed", "refused", "reconcile", "done"}
           \/ worker[w].pc = "claimed" /\ BankLegSettled(worker[w].row)
        /\ StepWith(w, "error", Mutated(w))
     \/ /\ worker[w].pc = "error"
        /\ Release(w)
  /\ UNCHANGED <<row, chain, instr, leaseExpired, crashes, reconciler, paid>>

WorkerCrash(w) ==
  /\ worker[w].pc # "idle"
  /\ Crash
  /\ Release(w)
  /\ UNCHANGED <<row, chain, instr, leaseExpired, dbFaults, reconciler, paid>>

(* The request stops between its read and its write; nothing was written.  *)
RunPendingAborts(r) ==
  /\ reconciler[r].pc = "loaded"
  /\ DbFault
  /\ reconciler' = [reconciler EXCEPT ![r] = IdleReconciler]
  /\ UNCHANGED <<row, chain, instr, leaseExpired, crashes, worker, paid>>

(* IN_FLIGHT_LEASE_MS elapses since the claim.                             *)
LeaseExpires ==
  /\ instr.status = "IN_FLIGHT"
  /\ ~leaseExpired
  /\ SlowWorkers \/ \A w \in Workers : worker[w].pc = "idle"
  /\ leaseExpired' = TRUE
  /\ UNCHANGED <<row, chain, instr, crashes, dbFaults, bankVars>>

(* The steps a worker takes by itself once it is started.                  *)
WorkerStep(w) ==
  \/ ClaimNext(w)
  \/ SkipSettled(w)
  \/ CallBank(w)
  \/ ApplyBankSuccess(w)
  \/ HandleBankFailure(w)
  \/ Reconcile(w)
  \/ Complete(w)
  \/ Retry(w)
  \/ DeadLetter(w)

RunPending(r) == RunPendingLoad(r) \/ RunPendingReconcile(r)

BankNext ==
  \/ \E w \in Workers : WorkerStep(w)
  \/ \E w \in Workers : WorkerDbFault(w)
  \/ \E w \in Workers : WorkerCrash(w)
  \/ \E r \in Reconcilers : RunPending(r)
  \/ \E r \in Reconcilers : RunPendingAborts(r)
  \/ LeaseExpires
=============================================================================
