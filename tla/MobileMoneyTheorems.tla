------------------------ MODULE MobileMoneyTheorems -------------------------
(***************************************************************************)
(* Proofs about MobileMoney, for any number of handlers, notifications,    *)
(* workers and replays, any bound on attempts, crashes and faults, and     *)
(* whether or not handlers and workers outlast their claims.               *)
(***************************************************************************)
EXTENDS MobileMoney, SequenceTheorems, TLAPS

-----------------------------------------------------------------------------
(***************************************************************************)
(* The inductive invariant.  Although several processes save whole copies  *)
(* of the line, the line only ever takes these values.                     *)
(***************************************************************************)
RefusedRow ==
  [InitialRow EXCEPT !.providerStatus = "FAILED", !.status = "FAILED",
                     !.observed = "conforming", !.reconciliationStatus = "NOT_APPLICABLE",
                     !.refundStatus = "NOT_REQUIRED", !.caseStatus = "NONE"]

BlockedRow(kind) ==
  [InitialRow EXCEPT !.providerStatus = "CONFIRMED", !.observed = kind,
                     !.bankStatus = "BLOCKED", !.status = "FAILED",
                     !.reconciliationStatus = IF kind = "currency" THEN "CURRENCY_MISMATCH"
                                                                   ELSE "AMOUNT_MISMATCH",
                     !.refundStatus = "REQUIRED", !.caseStatus = "MANUAL_REVIEW"]

TakenRow ==
  [InitialRow EXCEPT !.providerStatus = "CONFIRMED", !.observed = "conforming",
                     !.bankStatus = "PROCESSING", !.status = "PROCESSING"]

BlockedRows    == {BlockedRow("amount"), BlockedRow("currency")}
InstructedRows == {TakenRow, Executed(TakenRow), Verdict(Executed(TakenRow)), Indebted(TakenRow)}

(* An instruction exists exactly for an instructed line, and only after    *)
(* the fact that allows it.                                                *)
LineShape ==
  /\ row \in {InitialRow, RefusedRow} \union BlockedRows \union InstructedRows
  /\ instr.status # "NONE" <=> row \in InstructedRows
  /\ instr.status # "NONE" => Recorded("PROVIDER_CONFIRMED")

(* The refusal and the gap exclude an instructed line for ever.            *)
FactsShape ==
  /\ Recorded("AMOUNT_MISMATCH_DETECTED") => row \in BlockedRows
  /\ Recorded("PROVIDER_FAILED") => row \in {RefusedRow} \union BlockedRows

(* What the processes of the bank leg hold in memory when they hold it.    *)
WorkerShape ==
  \A w \in Workers :
    /\ worker[w].pc # "idle" => instr.status # "NONE" /\ worker[w].row \in InstructedRows
    /\ worker[w].pc \in {"executed", "refused"} => worker[w].row = TakenRow
    /\ worker[w].pc = "reconcile" => worker[w].row = Executed(TakenRow)

ReconcilerShape ==
  \A r \in Reconcilers :
    reconciler[r].pc = "loaded" => instr.status # "NONE" /\ reconciler[r].row = Executed(TakenRow)

Shape ==
  /\ LineShape
  /\ FactsShape
  /\ WorkerShape
  /\ ReconcilerShape
  /\ paid > 0 => instr.status # "NONE"

IInv == TypeOK /\ Shape

-----------------------------------------------------------------------------
(***************************************************************************)
(* Facts of a chain                                                        *)
(***************************************************************************)

(* record: an appended fact is the only one that was not there before.     *)
LEMMA AppendHolds ==
  ASSUME NEW S, NEW s \in Seq(S), NEW e \in S, NEW t
  PROVE  /\ Append(s, e) \in Seq(S)
         /\ Holds(Append(s, e), t) <=> Holds(s, t) \/ e = t
<1>1. Append(s, e) \in Seq(S) /\ Len(Append(s, e)) = Len(s) + 1
  BY AppendProperties
<1>2. DOMAIN s = 1..Len(s) /\ DOMAIN Append(s, e) = 1..(Len(s) + 1) /\ Len(s) \in Nat
  BY <1>1
<1>3. /\ \A i \in 1..Len(s) : Append(s, e)[i] = s[i]
      /\ Append(s, e)[Len(s) + 1] = e
  BY AppendProperties, <1>2
<1>4. QED
  BY <1>1, <1>2, <1>3 DEF Holds

(* Facts recorded together: the same, for the facts of a list.             *)
LEMMA ConcatHolds ==
  ASSUME NEW S, NEW s \in Seq(S), NEW u \in Seq(S), NEW t
  PROVE  /\ s \o u \in Seq(S)
         /\ Holds(s \o u, t) <=> Holds(s, t) \/ Holds(u, t)
<1>1. /\ s \o u \in Seq(S)
      /\ Len(s \o u) = Len(s) + Len(u)
      /\ \A i \in 1..(Len(s) + Len(u)) :
           (s \o u)[i] = IF i <= Len(s) THEN s[i] ELSE u[i - Len(s)]
  BY ConcatProperties
<1>2. /\ DOMAIN s = 1..Len(s) /\ DOMAIN u = 1..Len(u) /\ DOMAIN (s \o u) = 1..(Len(s) + Len(u))
      /\ Len(s) \in Nat /\ Len(u) \in Nat
  BY <1>1
<1>3. ASSUME Holds(s \o u, t) PROVE Holds(s, t) \/ Holds(u, t)
  <2>1. PICK i \in 1..(Len(s) + Len(u)) : (s \o u)[i] = t
    BY <1>2, <1>3 DEF Holds
  <2>2. CASE i <= Len(s)
    BY <2>1, <2>2, <1>1, <1>2 DEF Holds
  <2>3. CASE ~(i <= Len(s))
    <3>1. i - Len(s) \in 1..Len(u) /\ u[i - Len(s)] = t
      BY <2>1, <2>3, <1>1, <1>2
    <3>2. QED
      BY <3>1, <1>2 DEF Holds
  <2>4. QED
    BY <2>2, <2>3
<1>4. ASSUME Holds(s, t) PROVE Holds(s \o u, t)
  <2>1. PICK i \in 1..Len(s) : s[i] = t
    BY <1>2, <1>4 DEF Holds
  <2>2. i \in 1..(Len(s) + Len(u)) /\ (s \o u)[i] = t
    BY <2>1, <1>1, <1>2
  <2>3. QED
    BY <2>2, <1>2 DEF Holds
<1>5. ASSUME Holds(u, t) PROVE Holds(s \o u, t)
  <2>1. PICK i \in 1..Len(u) : u[i] = t
    BY <1>2, <1>5 DEF Holds
  <2>2. Len(s) + i \in 1..(Len(s) + Len(u)) /\ (s \o u)[Len(s) + i] = t
    BY <2>1, <1>1, <1>2
  <2>3. QED
    BY <2>2, <1>2 DEF Holds
<1>6. QED
  BY <1>1, <1>3, <1>4, <1>5

(* closeCase records no fact but the closure.                              *)
LEMMA CloseCaseHolds ==
  ASSUME NEW s \in Seq(TransactionEventType)
  PROVE  /\ CloseCase(s) \in Seq(TransactionEventType)
         /\ \A t : t # "CASE_CLOSED" => (Holds(CloseCase(s), t) <=> Holds(s, t))
  BY AppendHolds DEF CloseCase, TransactionEventType

-----------------------------------------------------------------------------
(***************************************************************************)
(* Type correctness                                                        *)
(***************************************************************************)
USE FaultBounds, WebhookConstants, BankConstants

(* Before the payment is requested, everything has its type.              *)
LEMMA InitialTypes ==
  /\ InitialRow \in TransactionRow
  /\ IdleHandler \in HandlerMemory
  /\ IdleWorker \in WorkerMemory
  /\ IdleReconciler \in ReconcilerMemory
<1>1. InitialRow \in TransactionRow
  BY DEF InitialRow, TransactionRow, TransactionStatus, ProviderStatus, BankProcessingStatus,
         ReconciliationStatus, RefundStatus, CaseStatus, PaymentChannel, Observed
<1>2. (CHOOSE n \in Notifications : TRUE) \in Notifications
  OBVIOUS
<1>3. QED
  BY <1>1, <1>2 DEF IdleHandler, HandlerMemory, HandlerSteps, WebhookProcessingStatus, IdleWorker,
                    WorkerMemory, WorkerSteps, IdleReconciler, ReconcilerMemory

(* Every write of the line keeps it in the columns' domains.               *)
LEMMA RowTypes ==
  ASSUME NEW e \in TransactionRow, NEW kind \in Kinds \ {"failed"}
  PROVE  /\ Executed(e) \in TransactionRow
         /\ Indebted(e) \in TransactionRow
         /\ Verdict(e) \in TransactionRow
         /\ [e EXCEPT !.providerStatus = "FAILED", !.status = "FAILED",
                      !.observed = "conforming",
                      !.reconciliationStatus = "NOT_APPLICABLE",
                      !.refundStatus = "NOT_REQUIRED", !.caseStatus = "NONE"] \in TransactionRow
         /\ [e EXCEPT !.providerStatus = "CONFIRMED", !.observed = "conforming",
                      !.bankStatus = "PROCESSING", !.status = "PROCESSING"] \in TransactionRow
         /\ [e EXCEPT !.providerStatus = "CONFIRMED", !.observed = kind,
                      !.bankStatus = "BLOCKED", !.status = "FAILED",
                      !.reconciliationStatus = IF kind = "currency" THEN "CURRENCY_MISMATCH"
                                                                    ELSE "AMOUNT_MISMATCH",
                      !.refundStatus = "REQUIRED", !.caseStatus = "MANUAL_REVIEW"] \in TransactionRow
<1>1. /\ {"PROCESSING", "COMPLETED", "FAILED"} \subseteq TransactionStatus
      /\ {"CONFIRMED", "FAILED"} \subseteq ProviderStatus
      /\ {"PROCESSING", "COMPLETED", "FAILED", "BLOCKED"} \subseteq BankProcessingStatus
      /\ {"MATCHED", "MISMATCH", "AMOUNT_MISMATCH", "CURRENCY_MISMATCH", "NOT_APPLICABLE",
          "MANUAL_REVIEW"} \subseteq ReconciliationStatus
      /\ {"NOT_REQUIRED", "REQUIRED"} \subseteq RefundStatus
      /\ {"NONE", "MANUAL_REVIEW"} \subseteq CaseStatus
      /\ {"conforming", kind} \subseteq Observed
  BY DEF TransactionStatus, ProviderStatus, BankProcessingStatus, ReconciliationStatus,
         RefundStatus, CaseStatus, Observed, Kinds
<1>2. Executed(e) \in TransactionRow /\ Verdict(e) \in TransactionRow
  BY <1>1 DEF Executed, Verdict, TransactionRow
<1>3. Indebted(e) \in TransactionRow
  BY <1>1 DEF Indebted, TransactionRow
<1>4. [e EXCEPT !.providerStatus = "FAILED", !.status = "FAILED", !.observed = "conforming",
                !.reconciliationStatus = "NOT_APPLICABLE",
                !.refundStatus = "NOT_REQUIRED", !.caseStatus = "NONE"] \in TransactionRow
  BY <1>1 DEF TransactionRow
<1>5. [e EXCEPT !.providerStatus = "CONFIRMED", !.observed = "conforming",
                !.bankStatus = "PROCESSING", !.status = "PROCESSING"] \in TransactionRow
  BY <1>1 DEF TransactionRow
<1>6. \A gap \in {"AMOUNT_MISMATCH", "CURRENCY_MISMATCH"} :
        [e EXCEPT !.providerStatus = "CONFIRMED", !.observed = kind,
                  !.bankStatus = "BLOCKED", !.status = "FAILED", !.reconciliationStatus = gap,
                  !.refundStatus = "REQUIRED", !.caseStatus = "MANUAL_REVIEW"] \in TransactionRow
  BY <1>1 DEF TransactionRow
<1>7. QED
  BY ONLY <1>1, <1>2, <1>3, <1>4, <1>5, <1>6

(* Every list of facts that a transaction appends keeps the chain a chain. *)
LEMMA ChainTypes ==
  ASSUME NEW s \in Seq(TransactionEventType)
  PROVE  /\ <<"PAYMENT_INITIATED">> \in Seq(TransactionEventType)
         /\ CloseCase(s) \in Seq(TransactionEventType)
         /\ \A t \in TransactionEventType : /\ Append(s, t) \in Seq(TransactionEventType)
                                            /\ CloseCase(Append(s, t)) \in Seq(TransactionEventType)
         /\ s \o <<"AMOUNT_MISMATCH_DETECTED", "BANK_PROCESSING_BLOCKED", "CASE_OPENED">>
              \in Seq(TransactionEventType)
         /\ s \o <<"BANK_PROCESSING_FAILED", "CASE_OPENED">> \in Seq(TransactionEventType)
<1>1. \A u \in Seq(TransactionEventType) :
         CloseCase(u) \in Seq(TransactionEventType)
  BY CloseCaseHolds
<1>2. /\ <<"PAYMENT_INITIATED">> \in Seq(TransactionEventType)
      /\ <<"AMOUNT_MISMATCH_DETECTED", "BANK_PROCESSING_BLOCKED", "CASE_OPENED">>
            \in Seq(TransactionEventType)
      /\ <<"BANK_PROCESSING_FAILED", "CASE_OPENED">> \in Seq(TransactionEventType)
  BY DEF TransactionEventType
<1>3. \A t \in TransactionEventType : Append(s, t) \in Seq(TransactionEventType)
  BY AppendHolds
<1>4. \A u \in Seq(TransactionEventType) : s \o u \in Seq(TransactionEventType)
  BY ConcatHolds
<1>5. QED
  BY <1>1, <1>2, <1>3, <1>4

(* The ways a handler changes what it has in memory.                       *)
LEMMA HandlerTypes ==
  ASSUME NEW h \in Handlers, handler \in [Handlers -> HandlerMemory]
  PROVE  /\ handler[h].note \in Notifications
         /\ Return(h) => handler' \in [Handlers -> HandlerMemory]
         /\ \A step \in HandlerSteps : Goto(h, step) => handler' \in [Handlers -> HandlerMemory]
         /\ \A e \in TransactionRow :
              handler' = [handler EXCEPT ![h] = [@ EXCEPT !.pc = "loaded", !.row = e]]
                => handler' \in [Handlers -> HandlerMemory]
         /\ \A n \in Notifications, status \in WebhookProcessingStatus :
              handler' = [handler EXCEPT ![h] = [@ EXCEPT !.pc = "registered", !.note = n, !.seen = status]]
                => handler' \in [Handlers -> HandlerMemory]
<1>1. "loaded" \in HandlerSteps /\ "registered" \in HandlerSteps
  BY DEF HandlerSteps
<1>2. handler[h] \in HandlerMemory
  OBVIOUS
<1>3. handler[h].note \in Notifications /\ (Return(h) => handler' \in [Handlers -> HandlerMemory])
  BY <1>2, InitialTypes DEF Return, HandlerMemory
<1>4. \A step \in HandlerSteps : Goto(h, step) => handler' \in [Handlers -> HandlerMemory]
  BY <1>2 DEF Goto, HandlerMemory
<1>5. \A e \in TransactionRow :
        handler' = [handler EXCEPT ![h] = [@ EXCEPT !.pc = "loaded", !.row = e]]
          => handler' \in [Handlers -> HandlerMemory]
  <2>1. \A e \in TransactionRow : [handler[h] EXCEPT !.pc = "loaded", !.row = e] \in HandlerMemory
    BY <1>1, <1>2 DEF HandlerMemory
  <2>2. QED
    BY <2>1
<1>6. \A n \in Notifications, status \in WebhookProcessingStatus :
        handler' = [handler EXCEPT ![h] = [@ EXCEPT !.pc = "registered", !.note = n, !.seen = status]]
          => handler' \in [Handlers -> HandlerMemory]
  <2>1. \A n \in Notifications, status \in WebhookProcessingStatus :
          [handler[h] EXCEPT !.pc = "registered", !.note = n, !.seen = status] \in HandlerMemory
    BY <1>1, <1>2 DEF HandlerMemory
  <2>2. QED
    BY <2>1
<1>7. QED
  BY <1>3, <1>4, <1>5, <1>6

(* The ways a worker changes what it has in memory and its instruction.    *)
LEMMA WorkerTypes ==
  ASSUME NEW w \in Workers, worker \in [Workers -> WorkerMemory]
  PROVE  /\ worker[w].row \in TransactionRow
         /\ worker[w].attempts \in Nat
         /\ Release(w) => worker' \in [Workers -> WorkerMemory]
         /\ \A step \in WorkerSteps : Step(w, step) => worker' \in [Workers -> WorkerMemory]
         /\ \A step \in WorkerSteps, e \in TransactionRow :
              StepWith(w, step, e) => worker' \in [Workers -> WorkerMemory]
         /\ \A status \in BankInstructionStatus :
              SaveInstruction(w, status) => instr' \in BankInstruction /\ leaseExpired' \in BOOLEAN
<1>1. worker[w] \in WorkerMemory
  OBVIOUS
<1>2. /\ worker[w].row \in TransactionRow
      /\ worker[w].attempts \in Nat
      /\ Release(w) => worker' \in [Workers -> WorkerMemory]
  BY <1>1, InitialTypes DEF Release, WorkerMemory
<1>3. \A step \in WorkerSteps : Step(w, step) => worker' \in [Workers -> WorkerMemory]
  BY <1>1 DEF Step, WorkerMemory
<1>4. \A step \in WorkerSteps, e \in TransactionRow :
        StepWith(w, step, e) => worker' \in [Workers -> WorkerMemory]
  <2>1. \A step \in WorkerSteps, e \in TransactionRow :
          [worker[w] EXCEPT !.pc = step, !.row = e] \in WorkerMemory
    BY <1>1 DEF WorkerMemory
  <2>2. QED
    BY <2>1 DEF StepWith
<1>5. \A status \in BankInstructionStatus :
        SaveInstruction(w, status) => instr' \in BankInstruction /\ leaseExpired' \in BOOLEAN
  <2>1. ASSUME NEW status \in BankInstructionStatus, SaveInstruction(w, status)
        PROVE  instr' \in BankInstruction
    BY <2>1, <1>2 DEF SaveInstruction, BankInstruction
  <2>2. ASSUME NEW status, SaveInstruction(w, status) PROVE leaseExpired' \in BOOLEAN
    BY <2>2 DEF SaveInstruction
  <2>3. QED
    BY <2>1, <2>2
<1>6. QED
  BY <1>2, <1>3, <1>4, <1>5

(* Steps of the handlers.                                                  *)
LEMMA WebhookTypeStep == TypeOK /\ WebhookNext /\ UNCHANGED bankVars => TypeOK'
<1> SUFFICES ASSUME TypeOK, WebhookNext, UNCHANGED bankVars PROVE TypeOK'
  OBVIOUS
<1> USE DEF TypeOK, StoreTypeOK, WebhookTypeOK, BankTypeOK, storeVars, bankVars
<1>s. /\ {"idle", "claimed", "repair", "succeeded", "failed"} \subseteq HandlerSteps
      /\ {"RECEIVED", "PROCESSING", "PROCESSED", "FAILED"} \subseteq WebhookProcessingStatus
  BY DEF HandlerSteps, WebhookProcessingStatus
<1>1. ASSUME NEW h \in Handlers, NEW n \in Notifications, Register(h, n)
      PROVE  TypeOK'
  <2> DEFINE status == IF inbox[n] = "NONE" THEN "RECEIVED" ELSE inbox[n]
  <2>1. status \in WebhookProcessingStatus
    BY <1>s
  <2>2. /\ handler' = [handler EXCEPT ![h] = [@ EXCEPT !.pc = "registered", !.note = n, !.seen = status]]
        /\ inbox' = [inbox EXCEPT ![n] = status]
        /\ UNCHANGED <<storeVars, claimExpired>>
    BY <1>1 DEF Register
  <2>3. handler' \in [Handlers -> HandlerMemory]
    BY ONLY <2>1, <2>2, HandlerTypes, TypeOK, WebhookConstants DEF TypeOK, WebhookTypeOK
  <2>4. inbox' \in [Notifications -> WebhookProcessingStatus]
    BY <2>1, <2>2
  <2>5. QED
    BY <2>2, <2>3, <2>4
<1>2. ASSUME NEW h \in Handlers, ClaimEvent(h) PROVE TypeOK'
  BY <1>2, <1>s, HandlerTypes DEF ClaimEvent
<1>3. ASSUME NEW h \in Handlers, LoadTransaction(h) PROVE TypeOK'
  BY <1>3, <1>s, HandlerTypes DEF LoadTransaction
<1>4. ASSUME NEW h \in Handlers, NEW found, NEW after \in TransactionRow,
             NEW facts \in Seq(TransactionEventType), NEW instruction \in BankInstruction,
             ApplyTransition(h, found, after, facts, instruction),
             UNCHANGED <<inbox, claimExpired>>
      PROVE  TypeOK'
  <2>1. handler' \in [Handlers -> HandlerMemory]
    BY <1>4, <1>s, HandlerTypes DEF ApplyTransition, AlreadyTaken
  <2>2. QED
    BY <1>4, <2>1 DEF ApplyTransition
<1>5. ASSUME NEW h \in Handlers, MarkProviderFailed(h) PROVE TypeOK'
  BY <1>5, <1>4, RowTypes, ChainTypes DEF MarkProviderFailed, TransactionEventType, Kinds
<1>6. ASSUME NEW h \in Handlers, ConfirmAndClaimBankProcessing(h) PROVE TypeOK'
  <2>1. Enqueued \in BankInstruction /\ Append(chain, "PROVIDER_CONFIRMED") \in Seq(TransactionEventType)
    BY ChainTypes DEF Enqueued, BankInstruction, BankInstructionStatus, TransactionEventType
  <2>2. QED
    BY <1>6, <2>1, <1>4, RowTypes DEF ConfirmAndClaimBankProcessing, Kinds
<1>7. ASSUME NEW h \in Handlers, MarkAmountMismatch(h) PROVE TypeOK'
  <2>1. KindOf[handler[h].note] \in Kinds \ {"failed"}
    BY <1>7 DEF MarkAmountMismatch, Kinds
  <2>2. QED
    BY <1>7, <2>1, <1>4, RowTypes, ChainTypes DEF MarkAmountMismatch
<1>8. ASSUME NEW h \in Handlers, RepairClosure(h) PROVE TypeOK'
  BY <1>8, <1>s, HandlerTypes, ChainTypes DEF RepairClosure
<1>9. ASSUME NEW h \in Handlers, Settle(h) PROVE TypeOK'
  BY <1>9, <1>s, HandlerTypes DEF Settle
<1>10. ASSUME NEW h \in Handlers, HandlerDbFault(h) PROVE TypeOK'
  <2>1. handler' \in [Handlers -> HandlerMemory]
    BY <1>10, <1>s, HandlerTypes DEF HandlerDbFault
  <2>2. QED
    BY <1>10, <2>1 DEF HandlerDbFault, DbFault
<1>11. ASSUME NEW h \in Handlers, HandlerCrash(h) PROVE TypeOK'
  <2>1. handler' \in [Handlers -> HandlerMemory]
    BY <1>11, HandlerTypes DEF HandlerCrash
  <2>2. QED
    BY <1>11, <2>1 DEF HandlerCrash, Crash
<1>12. ASSUME NEW n \in Notifications, ClaimExpires(n) PROVE TypeOK'
  BY <1>12 DEF ClaimExpires
<1>13. QED
  BY <1>1, <1>2, <1>3, <1>5, <1>6, <1>7, <1>8, <1>9, <1>10, <1>11, <1>12
     DEF WebhookNext, HandlerStep

(* Steps of the workers and of the replays.                                *)
LEMMA BankTypeStep == TypeOK /\ BankNext /\ UNCHANGED webhookVars => TypeOK'
<1> SUFFICES ASSUME TypeOK, BankNext, UNCHANGED webhookVars PROVE TypeOK'
  OBVIOUS
<1> USE DEF TypeOK, StoreTypeOK, WebhookTypeOK, BankTypeOK, storeVars, webhookVars
<1>s. /\ {"idle", "claimed", "executed", "refused", "reconcile", "done", "error"} = WorkerSteps
      /\ {"PENDING", "IN_FLIGHT", "COMPLETED", "DEAD_LETTER"} \subseteq BankInstructionStatus
      /\ "conforming" \in Kinds \ {"failed"}
      /\ {"BANK_PROCESSING_COMPLETED", "RECONCILIATION_MATCHED", "RECONCILIATION_MISMATCH"}
           \subseteq TransactionEventType
  BY DEF WorkerSteps, BankInstructionStatus, Kinds, TransactionEventType
<1>0. \A e \in TransactionRow :
        Executed(e) \in TransactionRow /\ Indebted(e) \in TransactionRow /\ Verdict(e) \in TransactionRow
  BY <1>s, RowTypes
<1>1. ASSUME NEW w \in Workers, ClaimNext(w) PROVE TypeOK'
  <2>1. instr.attempts + 1 \in Nat
    BY DEF BankInstruction
  <2>2. instr' \in BankInstruction
    BY <1>1, <1>s, <2>1 DEF ClaimNext, BankInstruction
  <2>3. worker' \in [Workers -> WorkerMemory]
    BY <1>1, <1>s, <2>1 DEF ClaimNext, WorkerMemory
  <2>4. QED
    BY <1>1, <2>2, <2>3 DEF ClaimNext
<1>2. ASSUME NEW w \in Workers, SkipSettled(w) PROVE TypeOK'
  BY <1>2, <1>s, WorkerTypes DEF SkipSettled
<1>3. ASSUME NEW w \in Workers, CallBank(w) PROVE TypeOK'
  <2>1. worker' \in [Workers -> WorkerMemory]
    BY <1>3, <1>s, WorkerTypes DEF CallBank
  <2>2. QED
    BY <1>3, <2>1 DEF CallBank
<1>4. ASSUME NEW w \in Workers, ApplyBankSuccess(w) PROVE TypeOK'
  BY <1>4, <1>0, <1>s, WorkerTypes, ChainTypes DEF ApplyBankSuccess
<1>5. ASSUME NEW w \in Workers, HandleBankFailure(w) PROVE TypeOK'
  BY <1>5, <1>0, <1>s, WorkerTypes, ChainTypes DEF HandleBankFailure
<1>6. ASSUME NEW e \in TransactionRow, ReconcileEntity(e)
      PROVE  row' \in TransactionRow /\ chain' \in Seq(TransactionEventType)
  BY <1>6, <1>0, <1>s, ChainTypes DEF ReconcileEntity, VerdictFacts
<1>7. ASSUME NEW w \in Workers, Reconcile(w) PROVE TypeOK'
  BY <1>7, <1>6, <1>0, <1>s, WorkerTypes DEF Reconcile
<1>8. ASSUME NEW w \in Workers, Complete(w) PROVE TypeOK'
  BY <1>8, <1>s, WorkerTypes DEF Complete
<1>9. ASSUME NEW w \in Workers, Retry(w) PROVE TypeOK'
  BY <1>9, <1>s, WorkerTypes DEF Retry
<1>10. ASSUME NEW w \in Workers, DeadLetter(w) PROVE TypeOK'
  <2>1. worker' \in [Workers -> WorkerMemory]
    BY <1>10, WorkerTypes DEF DeadLetter
  <2>2. row' \in TransactionRow /\ chain' \in Seq(TransactionEventType)
    BY <1>10, <1>0, WorkerTypes, ChainTypes DEF DeadLetter
  <2>3. instr' \in BankInstruction /\ leaseExpired' \in BOOLEAN
    BY <1>10, <1>s, WorkerTypes DEF DeadLetter
  <2>4. QED
    BY <1>10, <2>1, <2>2, <2>3 DEF DeadLetter
<1>11. ASSUME NEW w \in Workers, WorkerDbFault(w) PROVE TypeOK'
  <2>1. Mutated(w) \in TransactionRow
    BY <1>0, WorkerTypes DEF Mutated
  <2>2. worker' \in [Workers -> WorkerMemory]
    BY <1>11, <1>s, <2>1, WorkerTypes DEF WorkerDbFault
  <2>3. QED
    BY <1>11, <2>2 DEF WorkerDbFault, DbFault
<1>12. ASSUME NEW w \in Workers, WorkerCrash(w) PROVE TypeOK'
  BY <1>12, WorkerTypes DEF WorkerCrash, Crash
<1>13. ASSUME NEW r \in Reconcilers, RunPendingLoad(r) PROVE TypeOK'
  BY <1>13 DEF RunPendingLoad, ReconcilerMemory
<1>14. ASSUME NEW r \in Reconcilers, RunPendingReconcile(r) PROVE TypeOK'
  <2>1. reconciler[r].row \in TransactionRow
    BY DEF ReconcilerMemory
  <2>2. QED
    BY <1>14, <1>6, <2>1, InitialTypes DEF RunPendingReconcile
<1>15. ASSUME NEW r \in Reconcilers, RunPendingAborts(r) PROVE TypeOK'
  BY <1>15, InitialTypes DEF RunPendingAborts, DbFault
<1>16. CASE LeaseExpires
  BY <1>16 DEF LeaseExpires, bankVars
<1>17. QED
  BY <1>1, <1>2, <1>3, <1>4, <1>5, <1>7, <1>8, <1>9, <1>10, <1>11, <1>12, <1>13, <1>14,
     <1>15, <1>16 DEF BankNext, WorkerStep, RunPending

(* Every step of the flow keeps the types.                                *)
LEMMA TypeStep == TypeOK /\ [Next]_vars => TypeOK'
<1> SUFFICES ASSUME TypeOK, [Next]_vars PROVE TypeOK'
  OBVIOUS
<1> USE DEF TypeOK, StoreTypeOK, WebhookTypeOK, BankTypeOK, storeVars, webhookVars, bankVars
<1>1. CASE Initiate /\ UNCHANGED <<webhookVars, bankVars>>
  BY <1>1, InitialTypes, ChainTypes DEF Initiate
<1>2. CASE UNCHANGED vars
  BY <1>2 DEF vars
<1>3. QED
  BY <1>1, <1>2, WebhookTypeStep, BankTypeStep DEF Next

(* The initial state has its types.                                       *)
LEMMA TypeInit == Init => TypeOK
<1> SUFFICES ASSUME Init PROVE TypeOK
  OBVIOUS
<1>0. << >> \in Seq(TransactionEventType) /\ [status |-> "NONE", attempts |-> 0] \in BankInstruction
  BY DEF BankInstruction, BankInstructionStatus
<1>1. StoreTypeOK
  <2>1. leaseExpired \in BOOLEAN
    BY DEF Init, StoreInit
  <2>2. crashes \in 0..MaxCrashes /\ dbFaults \in 0..MaxDbFaults
    BY DEF Init, StoreInit
  <2>3. row \in TransactionRow /\ chain \in Seq(TransactionEventType) /\ instr \in BankInstruction
    BY <1>0, InitialTypes DEF Init, StoreInit
  <2>4. QED
    BY <2>1, <2>2, <2>3 DEF StoreTypeOK
<1>2. WebhookTypeOK
  BY InitialTypes DEF Init, WebhookInit, WebhookTypeOK, WebhookProcessingStatus
<1>3. BankTypeOK
  BY InitialTypes DEF Init, BankInit, BankTypeOK
<1>4. QED
  BY <1>1, <1>2, <1>3 DEF TypeOK

(* The tables and the memories of the processes keep their types.          *)
THEOREM TypeCorrect == Spec => []TypeOK
  BY TypeInit, TypeStep, PTL DEF Spec

-----------------------------------------------------------------------------
(***************************************************************************)
(* The values of the line                                                  *)
(***************************************************************************)

(* What tells the values apart.                                            *)
LEMMA RowShapes ==
  /\ \A e \in {InitialRow, RefusedRow} : e.bankStatus = "NOT_STARTED"
  /\ InitialRow.providerStatus = "PENDING" /\ RefusedRow.providerStatus = "FAILED"
  /\ \A e \in BlockedRows : e.bankStatus = "BLOCKED"
  /\ \A e \in InstructedRows : /\ e.bankStatus \in InstructedLeg
                               /\ e.observed = "conforming"
                               /\ ~BankLegSettled(e) => e = TakenRow
                               /\ e.bankStatus = "COMPLETED" /\ e.reconciliationStatus = "PENDING"
                                    => e = Executed(TakenRow)
<1> USE DEF InitialRow, RefusedRow, BlockedRow, BlockedRows, TakenRow, InstructedRows, Executed,
            Verdict, Indebted, InstructedLeg, BankLegSettled
<1>1. /\ \A e \in {InitialRow, RefusedRow} : e.bankStatus = "NOT_STARTED"
      /\ InitialRow.providerStatus = "PENDING" /\ RefusedRow.providerStatus = "FAILED"
  OBVIOUS
<1>2. \A e \in BlockedRows : e.bankStatus = "BLOCKED"
  OBVIOUS
<1>3. \A e \in InstructedRows : e.bankStatus \in InstructedLeg /\ e.observed = "conforming"
  OBVIOUS
<1>4. \A e \in InstructedRows : ~BankLegSettled(e) => e = TakenRow
  OBVIOUS
<1>5. \A e \in InstructedRows : e.bankStatus = "COMPLETED" /\ e.reconciliationStatus = "PENDING"
                                  => e = Executed(TakenRow)
  OBVIOUS
<1>6. QED
  BY ONLY <1>1, <1>2, <1>3, <1>4, <1>5

(* What the notifications make of a line whose bank leg was not started.   *)
LEMMA NotifiedRows ==
  /\ \A e \in {InitialRow, RefusedRow} :
       [e EXCEPT !.providerStatus = "FAILED", !.status = "FAILED", !.observed = "conforming",
                 !.reconciliationStatus = "NOT_APPLICABLE",
                 !.refundStatus = "NOT_REQUIRED", !.caseStatus = "NONE"] = RefusedRow
  /\ [InitialRow EXCEPT !.providerStatus = "CONFIRMED", !.observed = "conforming",
                        !.bankStatus = "PROCESSING", !.status = "PROCESSING"] = TakenRow
  /\ \A e \in {InitialRow, RefusedRow}, kind \in {"amount", "currency"} :
       [e EXCEPT !.providerStatus = "CONFIRMED", !.observed = kind,
                 !.bankStatus = "BLOCKED", !.status = "FAILED",
                 !.reconciliationStatus = IF kind = "currency" THEN "CURRENCY_MISMATCH"
                                                               ELSE "AMOUNT_MISMATCH",
                 !.refundStatus = "REQUIRED", !.caseStatus = "MANUAL_REVIEW"] \in BlockedRows
<1>1. [RefusedRow EXCEPT !.providerStatus = "FAILED", !.status = "FAILED",
                         !.observed = "conforming",
                         !.reconciliationStatus = "NOT_APPLICABLE",
                         !.refundStatus = "NOT_REQUIRED", !.caseStatus = "NONE"] = RefusedRow
  BY DEF InitialRow, RefusedRow
<1> USE DEF InitialRow, RefusedRow
<1>2. ASSUME NEW e \in {InitialRow, RefusedRow}, NEW kind \in {"amount", "currency"}
      PROVE  [e EXCEPT !.providerStatus = "CONFIRMED", !.observed = kind,
                       !.bankStatus = "BLOCKED", !.status = "FAILED",
                       !.reconciliationStatus = IF kind = "currency" THEN "CURRENCY_MISMATCH"
                                                                     ELSE "AMOUNT_MISMATCH",
                       !.refundStatus = "REQUIRED", !.caseStatus = "MANUAL_REVIEW"]
               = BlockedRow(kind)
  <2>1. CASE e = InitialRow
    BY <2>1 DEF BlockedRow
  <2>2. CASE e = RefusedRow
    BY <2>2 DEF BlockedRow
  <2>3. QED
    BY ONLY <1>2, <2>1, <2>2
<1> HIDE DEF InitialRow, RefusedRow
<1>3. \A kind \in {"amount", "currency"} : BlockedRow(kind) \in BlockedRows
  BY DEF BlockedRows
<1>4. QED
  BY <1>1, <1>2, <1>3 DEF RefusedRow, TakenRow

(* What the answers of the bank make of an instructed line: the state      *)
(* machine accepts the abandonment only before any other answer was        *)
(* applied, or a second time.                                              *)
LEMMA AnsweredRows ==
  /\ \A e \in InstructedRows : AssertTransition(e, Indebted(e)) => Indebted(e) = Indebted(TakenRow)
  /\ AssertTransition(TakenRow, Executed(TakenRow))
  /\ AssertTransition(TakenRow, Indebted(TakenRow))
  /\ AssertTransition(Executed(TakenRow), Verdict(Executed(TakenRow)))
<1> USE DEF InitialRow, TakenRow, Executed, Verdict, Indebted, AssertTransition
<1>1. ASSUME NEW e \in InstructedRows, AssertTransition(e, Indebted(e))
      PROVE  Indebted(e) = Indebted(TakenRow)
  <2>1. LegalMove(BankMoves, e.bankStatus, Indebted(e).bankStatus)
    BY <1>1 DEF NoIllegalMoves
  <2>2. e.bankStatus # "COMPLETED"
    BY <2>1 DEF LegalMove, BankMoves, Null, InstructedRows
  <2>3. e \in {TakenRow, Indebted(TakenRow)}
    BY <2>2 DEF InstructedRows
  <2>4. QED
    BY <2>3
<1> USE DEF NoBrokenInvariants, BankRequiresProviderConfirmation, RefundRequiresCollection,
            RefundEngaged, ResolvedCaseRequiresExtinctDebt, MatchedRequiresBothLegsDone,
            BlockedBankImpliesDeclaredGap, NoIllegalMoves, LegalMove, StatusMoves, BankMoves,
            ReconciliationMoves, ReconciliationStatus, RefundMoves, CaseMoves
<1>2. AssertTransition(TakenRow, Executed(TakenRow))
  OBVIOUS
<1>3. AssertTransition(TakenRow, Indebted(TakenRow))
  OBVIOUS
<1>4. AssertTransition(Executed(TakenRow), Verdict(Executed(TakenRow)))
  OBVIOUS
<1>5. QED
  BY ONLY <1>1, <1>2, <1>3, <1>4

-----------------------------------------------------------------------------
(***************************************************************************)
(* The inductive step                                                      *)
(***************************************************************************)

(* A step that writes nothing the shape is about.                          *)
LEMMA ShapeStutter ==
  Shape /\ UNCHANGED <<row, chain, instr, worker, reconciler, paid>> => Shape'
  BY DEF Shape, LineShape, FactsShape, WorkerShape, ReconcilerShape, Recorded, Holds

(* A leg that was not started has no instruction, hence nobody works on it *)
(* and the bank was not called.                                            *)
LEMMA NotStarted ==
  ASSUME Shape, row.bankStatus = "NOT_STARTED"
  PROVE  /\ row \in {InitialRow, RefusedRow}
         /\ instr.status = "NONE"
         /\ ~Recorded("AMOUNT_MISMATCH_DETECTED")
         /\ \A w \in Workers : worker[w].pc = "idle"
         /\ \A r \in Reconcilers : reconciler[r].pc # "loaded"
         /\ ~(paid > 0)
<1>1. row \in {InitialRow, RefusedRow} /\ row \notin InstructedRows /\ row \notin BlockedRows
  BY RowShapes DEF Shape, LineShape, InstructedLeg
<1>2. QED
  BY <1>1 DEF Shape, LineShape, FactsShape, WorkerShape, ReconcilerShape

(* Steps of the handlers.                                                  *)
LEMMA WebhookShapeStep == IInv /\ WebhookNext /\ UNCHANGED bankVars => Shape'
<1> SUFFICES ASSUME TypeOK, Shape, WebhookNext, UNCHANGED bankVars PROVE Shape'
  BY DEF IInv
<1>0. chain \in Seq(TransactionEventType) /\ UNCHANGED <<worker, reconciler, paid>>
  BY DEF TypeOK, StoreTypeOK, bankVars
<1>1. ASSUME NEW h \in Handlers, NEW n \in Notifications, Register(h, n) PROVE Shape'
  BY <1>0, <1>1, ShapeStutter DEF Register, storeVars
<1>2. ASSUME NEW h \in Handlers, ClaimEvent(h) \/ LoadTransaction(h) \/ Settle(h) PROVE Shape'
  BY <1>0, <1>2, ShapeStutter DEF ClaimEvent, LoadTransaction, Settle, storeVars
<1>3. ASSUME NEW h \in Handlers, HandlerDbFault(h) \/ HandlerCrash(h) PROVE Shape'
  BY <1>0, <1>3, ShapeStutter DEF HandlerDbFault, HandlerCrash
<1>4. ASSUME NEW n \in Notifications, ClaimExpires(n) PROVE Shape'
  BY <1>0, <1>4, ShapeStutter DEF ClaimExpires, storeVars
<1>5. ASSUME NEW h \in Handlers, RepairClosure(h) PROVE Shape'
  <2>1. UNCHANGED <<row, instr>> /\ chain' = CloseCase(chain)
    BY <1>5 DEF RepairClosure
  <2>2. \A t \in {"PROVIDER_CONFIRMED", "PROVIDER_FAILED", "AMOUNT_MISMATCH_DETECTED"} :
           Recorded(t)' <=> Recorded(t)
    BY <1>0, <2>1, CloseCaseHolds DEF Recorded
  <2>3. QED
    BY <1>0, <2>1, <2>2 DEF Shape, LineShape, FactsShape, WorkerShape, ReconcilerShape
<1>6. ASSUME NEW h \in Handlers, MarkProviderFailed(h) PROVE Shape'
  <2>1. CASE UNCHANGED <<row, chain, instr>>
    BY <1>0, <2>1, ShapeStutter
  <2>2. CASE /\ row.bankStatus = "NOT_STARTED"
             /\ row' = [row EXCEPT !.providerStatus = "FAILED", !.status = "FAILED",
                                   !.observed = "conforming",
                                   !.reconciliationStatus = "NOT_APPLICABLE",
                                   !.refundStatus = "NOT_REQUIRED", !.caseStatus = "NONE"]
             /\ chain' = CloseCase(Append(chain, "PROVIDER_FAILED"))
             /\ instr' = instr
    <3>1. row' = RefusedRow /\ row' \notin InstructedRows
      BY <2>2, NotStarted, NotifiedRows, RowShapes DEF InstructedLeg
    <3>2. ~Recorded("AMOUNT_MISMATCH_DETECTED")'
      <4>1. /\ Append(chain, "PROVIDER_FAILED") \in Seq(TransactionEventType)
            /\ ~Holds(Append(chain, "PROVIDER_FAILED"), "AMOUNT_MISMATCH_DETECTED")
        BY <1>0, <2>2, NotStarted, AppendHolds DEF Recorded, TransactionEventType
      <4>2. QED
        BY <2>2, <4>1, CloseCaseHolds DEF Recorded
    <3>3. QED
      BY <1>0, <2>2, <3>1, <3>2, NotStarted
         DEF Shape, LineShape, FactsShape, WorkerShape, ReconcilerShape
  <2>3. QED
    BY <1>6, <2>1, <2>2 DEF MarkProviderFailed, ApplyTransition, storeVars
<1>7. ASSUME NEW h \in Handlers, ConfirmAndClaimBankProcessing(h) PROVE Shape'
  <2>1. CASE UNCHANGED <<row, chain, instr>>
    BY <1>0, <2>1, ShapeStutter
  <2>2. CASE /\ row.bankStatus = "NOT_STARTED" /\ row.providerStatus \in {"INITIATED", "PENDING"}
             /\ row' = [row EXCEPT !.providerStatus = "CONFIRMED", !.observed = "conforming",
                                   !.bankStatus = "PROCESSING", !.status = "PROCESSING"]
             /\ chain' = Append(chain, "PROVIDER_CONFIRMED")
             /\ instr' = Enqueued
    <3>1. row = InitialRow
      BY <2>2, NotStarted, RowShapes
    <3>2. row' = TakenRow /\ row' \in InstructedRows
      BY <2>2, <3>1, NotifiedRows DEF InstructedRows
    <3>3. ~Recorded("PROVIDER_FAILED")
      BY <3>1, RowShapes DEF Shape, FactsShape
    <3>4. /\ Recorded("PROVIDER_CONFIRMED")'
          /\ ~Recorded("AMOUNT_MISMATCH_DETECTED")'
          /\ ~Recorded("PROVIDER_FAILED")'
      BY <1>0, <2>2, <3>3, NotStarted, AppendHolds DEF Recorded, TransactionEventType
    <3>5. instr'.status # "NONE"
      BY <2>2 DEF Enqueued
    <3>6. QED
      BY <1>0, <2>2, <3>2, <3>4, <3>5, NotStarted
         DEF Shape, LineShape, FactsShape, WorkerShape, ReconcilerShape
  <2>3. QED
    BY <1>7, <2>1, <2>2 DEF ConfirmAndClaimBankProcessing, ApplyTransition, storeVars
<1>8. ASSUME NEW h \in Handlers, MarkAmountMismatch(h) PROVE Shape'
  <2> DEFINE kind == KindOf[handler[h].note]
  <2>1. CASE UNCHANGED <<row, chain, instr>>
    BY <1>0, <2>1, ShapeStutter
  <2>2. CASE /\ kind \in {"amount", "currency"}
             /\ row.bankStatus = "NOT_STARTED"
             /\ row' = [row EXCEPT !.providerStatus = "CONFIRMED", !.observed = kind,
                             !.bankStatus = "BLOCKED", !.status = "FAILED",
                             !.reconciliationStatus = IF kind = "currency" THEN "CURRENCY_MISMATCH"
                                                                           ELSE "AMOUNT_MISMATCH",
                             !.refundStatus = "REQUIRED", !.caseStatus = "MANUAL_REVIEW"]
             /\ instr' = instr
    <3> HIDE DEF kind
    <3>1. row' \in BlockedRows /\ row' \notin InstructedRows
      BY <2>2, NotStarted, NotifiedRows, RowShapes DEF InstructedLeg
    <3>2. QED
      BY <1>0, <2>2, <3>1, NotStarted
         DEF Shape, LineShape, FactsShape, WorkerShape, ReconcilerShape
  <2>3. QED
    BY <1>8, <2>1, <2>2 DEF MarkAmountMismatch, ApplyTransition, storeVars
<1>9. QED
  BY <1>1, <1>2, <1>3, <1>4, <1>5, <1>6, <1>7, <1>8 DEF WebhookNext, HandlerStep

(* A worker's step, when what it leaves in its memory and on the line fits.*)
LEMMA WorkerShapeChange ==
  ASSUME TypeOK, Shape, NEW w \in Workers, NEW m \in WorkerMemory,
         worker' = [worker EXCEPT ![w] = m],
         UNCHANGED reconciler,
         m.pc # "idle" => m.row \in InstructedRows,
         m.pc \in {"executed", "refused"} => m.row = TakenRow,
         m.pc = "reconcile" => m.row = Executed(TakenRow),
         instr.status # "NONE", instr'.status # "NONE",
         row' \in InstructedRows,
         \A t \in {"PROVIDER_CONFIRMED", "PROVIDER_FAILED", "AMOUNT_MISMATCH_DETECTED"} :
           Recorded(t)' <=> Recorded(t)
  PROVE  Shape'
<1>1. ~Recorded("AMOUNT_MISMATCH_DETECTED") /\ ~Recorded("PROVIDER_FAILED")
  <2>1. row \in InstructedRows
    BY DEF Shape, LineShape
  <2>2. row \notin BlockedRows /\ row # RefusedRow
    BY <2>1, RowShapes DEF InstructedLeg
  <2>3. QED
    BY <2>2 DEF Shape, FactsShape
<1>2. LineShape' /\ FactsShape' /\ ReconcilerShape' /\ (paid > 0 => instr.status # "NONE")'
  BY <1>1 DEF Shape, LineShape, FactsShape, ReconcilerShape
<1>3. WorkerShape'
  <2>1. \A v \in Workers : worker'[v] = IF v = w THEN m ELSE worker[v]
    BY DEF TypeOK, BankTypeOK
  <2>2. QED
    BY <2>1 DEF Shape, WorkerShape
<1>4. QED
  BY <1>2, <1>3 DEF Shape

(* Facts of the bank leg leave those of the collection alone.              *)
LEMMA BankFacts ==
  ASSUME chain \in Seq(TransactionEventType),
         NEW t \in {"PROVIDER_CONFIRMED", "PROVIDER_FAILED", "AMOUNT_MISMATCH_DETECTED"}
  PROVE  /\ Holds(Append(chain, "BANK_PROCESSING_COMPLETED"), t) <=> Recorded(t)
         /\ Holds(chain \o <<"BANK_PROCESSING_FAILED", "CASE_OPENED">>, t) <=> Recorded(t)
         /\ \A e : Holds(VerdictFacts(e), t) <=> Recorded(t)
<1> USE DEF Recorded
<1>1. Holds(Append(chain, "BANK_PROCESSING_COMPLETED"), t) <=> Recorded(t)
  BY AppendHolds DEF TransactionEventType
<1>2. Holds(chain \o <<"BANK_PROCESSING_FAILED", "CASE_OPENED">>, t) <=> Recorded(t)
  <2>1. <<"BANK_PROCESSING_FAILED", "CASE_OPENED">> \in Seq(TransactionEventType)
    BY DEF TransactionEventType
  <2>2. ~Holds(<<"BANK_PROCESSING_FAILED", "CASE_OPENED">>, t)
    BY DEF Holds
  <2>3. QED
    BY <2>1, <2>2, ConcatHolds
<1>3. ASSUME NEW u \in {"RECONCILIATION_MATCHED", "RECONCILIATION_MISMATCH"}
      PROVE  Append(chain, u) \in Seq(TransactionEventType) /\ (Holds(Append(chain, u), t) <=> Recorded(t))
  BY AppendHolds DEF TransactionEventType
<1>4. \A e : Holds(VerdictFacts(e), t) <=> Recorded(t)
  BY <1>3, CloseCaseHolds DEF VerdictFacts
<1>5. QED
  BY <1>1, <1>2, <1>4

(* Steps of the workers and of the replays.                                *)
LEMMA BankShapeStep == IInv /\ BankNext /\ UNCHANGED webhookVars => Shape'
<1> SUFFICES ASSUME TypeOK, Shape, BankNext PROVE Shape'
  BY DEF IInv
<1>0. /\ chain \in Seq(TransactionEventType)
      /\ worker \in [Workers -> WorkerMemory]
      /\ reconciler \in [Reconcilers -> ReconcilerMemory]
      /\ instr.attempts + 1 \in Nat
  BY DEF TypeOK, StoreTypeOK, BankTypeOK, BankInstruction
<1>s. {"idle", "claimed", "executed", "refused", "reconcile", "done", "error"} = WorkerSteps
  BY DEF WorkerSteps
<1>l. instr.status # "NONE" <=> row \in InstructedRows
  BY DEF Shape, LineShape
<1>u. UNCHANGED chain =>
        \A t \in {"PROVIDER_CONFIRMED", "PROVIDER_FAILED", "AMOUNT_MISMATCH_DETECTED"} :
          Recorded(t)' <=> Recorded(t)
  BY DEF Recorded
<1>w. ASSUME NEW w \in Workers
      PROVE  /\ worker[w] \in WorkerMemory
             /\ worker[w].pc # "idle" => instr.status # "NONE" /\ worker[w].row \in InstructedRows
             /\ worker[w].pc \in {"executed", "refused"} => worker[w].row = TakenRow
             /\ worker[w].pc = "reconcile" => worker[w].row = Executed(TakenRow)
  BY <1>0 DEF Shape, WorkerShape
<1>i. IdleWorker \in WorkerMemory /\ IdleWorker.pc = "idle"
  BY InitialTypes DEF IdleWorker
<1>r. InstructedRows \subseteq TransactionRow
  <2>1. TakenRow \in TransactionRow
    BY DEF TakenRow, InitialRow, TransactionRow, TransactionStatus, ProviderStatus,
           BankProcessingStatus, ReconciliationStatus, RefundStatus, CaseStatus,
           PaymentChannel, Observed
  <2>2. "conforming" \in Kinds \ {"failed"}
    BY DEF Kinds
  <2>3. \A f \in TransactionRow :
          Executed(f) \in TransactionRow /\ Indebted(f) \in TransactionRow /\ Verdict(f) \in TransactionRow
    BY <2>2, RowTypes
  <2>4. QED
    BY <2>1, <2>3 DEF InstructedRows
<1>m. ASSUME NEW w \in Workers, NEW step \in WorkerSteps
      PROVE  /\ [worker[w] EXCEPT !.pc = step] \in WorkerMemory
             /\ [worker[w] EXCEPT !.pc = step].pc = step
             /\ [worker[w] EXCEPT !.pc = step].row = worker[w].row
  BY <1>w DEF WorkerMemory
<1>1. ASSUME NEW w \in Workers, ClaimNext(w) PROVE Shape'
  <2>1. instr.status # "NONE" /\ instr'.status # "NONE" /\ UNCHANGED <<row, chain, reconciler>>
    BY <1>1 DEF ClaimNext, InstructionClaimable
  <2> DEFINE m == [pc |-> "claimed", row |-> row, attempts |-> instr.attempts + 1]
  <2>2. m \in WorkerMemory /\ m.pc = "claimed" /\ m.row = row
    BY <1>0, <1>s DEF WorkerMemory, TypeOK, StoreTypeOK
  <2>3. worker' = [worker EXCEPT ![w] = m]
    BY <1>1 DEF ClaimNext
  <2> HIDE DEF m
  <2>4. QED
    BY <2>1, <2>2, <2>3, <1>l, <1>u, WorkerShapeChange
<1>2. ASSUME NEW w \in Workers, SkipSettled(w) \/ Complete(w) \/ Retry(w) PROVE Shape'
  <2>1. /\ worker[w].pc # "idle" /\ instr'.status # "NONE" /\ UNCHANGED <<row, chain, reconciler>>
        /\ worker' = [worker EXCEPT ![w] = IdleWorker]
    BY <1>2 DEF SkipSettled, Complete, Retry, SaveInstruction, Release
  <2>2. QED
    BY <2>1, <1>w, <1>i, <1>l, <1>u, WorkerShapeChange
<1>3. ASSUME NEW w \in Workers, CallBank(w) PROVE Shape'
  <2>1. /\ worker[w].pc = "claimed" /\ ~BankLegSettled(worker[w].row)
        /\ UNCHANGED <<row, chain, instr, reconciler>>
    BY <1>3 DEF CallBank, storeVars
  <2>2. worker[w].row = TakenRow /\ TakenRow \in InstructedRows
    BY <2>1, <1>w, RowShapes DEF InstructedRows
  <2>3. PICK step \in {"executed", "refused", "error"} : Step(w, step)
    BY <1>3 DEF CallBank
  <2> DEFINE m == [worker[w] EXCEPT !.pc = step]
  <2>4. worker' = [worker EXCEPT ![w] = m] /\ m \in WorkerMemory /\ m.pc = step /\ m.row = TakenRow
    <3>1. worker' = [worker EXCEPT ![w] = m]
      BY <2>3 DEF Step
    <3>2. step \in WorkerSteps
      BY <1>s
    <3>3. m \in WorkerMemory /\ m.pc = step /\ m.row = worker[w].row
      BY <2>2, <3>2, <1>m
    <3>4. QED
      BY <2>2, <3>1, <3>3
  <2> HIDE DEF m
  <2>5. QED
    BY <2>1, <2>2, <2>3, <2>4, <1>w, <1>l, <1>u, WorkerShapeChange
<1>4. ASSUME NEW w \in Workers, NEW step \in {"reconcile", "done", "error"}, NEW e \in InstructedRows,
             StepWith(w, step, e), worker[w].pc # "idle", step = "reconcile" => e = Executed(TakenRow),
             row' \in InstructedRows, UNCHANGED <<instr, reconciler>>,
             \A t \in {"PROVIDER_CONFIRMED", "PROVIDER_FAILED", "AMOUNT_MISMATCH_DETECTED"} :
               Recorded(t)' <=> Recorded(t)
      PROVE  Shape'
  <2> DEFINE m == [worker[w] EXCEPT !.pc = step, !.row = e]
  <2>1. worker' = [worker EXCEPT ![w] = m] /\ m \in WorkerMemory /\ m.pc = step /\ m.row = e
    <3>1. worker' = [worker EXCEPT ![w] = m]
      BY <1>4 DEF StepWith
    <3>2. step \in WorkerSteps
      BY <1>s
    <3>3. m \in WorkerMemory /\ m.pc = step /\ m.row = e
      <4>1. worker[w] \in WorkerMemory /\ e \in TransactionRow
        BY <1>w, <1>r
      <4>2. QED
        BY <3>2, <4>1 DEF WorkerMemory
    <3>4. QED
      BY <3>1, <3>3
  <2> HIDE DEF m
  <2>2. QED
    BY <2>1, <1>4, <1>w, WorkerShapeChange
<1>5. ASSUME NEW w \in Workers, ApplyBankSuccess(w) PROVE Shape'
  <2>1. worker[w].row = TakenRow /\ Executed(TakenRow) \in InstructedRows
    BY <1>5, <1>w DEF ApplyBankSuccess, InstructedRows
  <2>2. \A t \in {"PROVIDER_CONFIRMED", "PROVIDER_FAILED", "AMOUNT_MISMATCH_DETECTED"} :
          Recorded(t)' <=> Recorded(t)
    BY <1>5, <1>0, BankFacts DEF ApplyBankSuccess, Recorded
  <2>3. QED
    BY <1>5, <2>1, <2>2, <1>4 DEF ApplyBankSuccess
<1>6. ASSUME NEW w \in Workers, HandleBankFailure(w) PROVE Shape'
  <2>1. worker[w].row = TakenRow /\ Indebted(TakenRow) \in InstructedRows
    BY <1>6, <1>w DEF HandleBankFailure, InstructedRows
  <2>2. \A t \in {"PROVIDER_CONFIRMED", "PROVIDER_FAILED", "AMOUNT_MISMATCH_DETECTED"} :
          Recorded(t)' <=> Recorded(t)
    BY <1>6, <1>0, BankFacts DEF HandleBankFailure, Recorded
  <2>3. QED
    BY <1>6, <2>1, <2>2, <1>4 DEF HandleBankFailure
<1>7. ASSUME NEW e, e = Executed(TakenRow), ReconcileEntity(e)
      PROVE  /\ row' = Verdict(e) /\ Verdict(e) \in InstructedRows
             /\ \A t \in {"PROVIDER_CONFIRMED", "PROVIDER_FAILED", "AMOUNT_MISMATCH_DETECTED"} :
                  Recorded(t)' <=> Recorded(t)
  BY <1>7, <1>0, BankFacts DEF ReconcileEntity, InstructedRows, Recorded
<1>8. ASSUME NEW w \in Workers, Reconcile(w) PROVE Shape'
  BY <1>8, <1>w, <1>7, <1>4 DEF Reconcile
<1>9. ASSUME NEW w \in Workers, DeadLetter(w) PROVE Shape'
  <2>1. /\ worker[w].pc # "idle" /\ UNCHANGED reconciler
        /\ worker' = [worker EXCEPT ![w] = IdleWorker]
    BY <1>9 DEF DeadLetter, Release
  <2>2. CASE UNCHANGED <<row, chain, instr>>
    BY <2>1, <2>2, <1>w, <1>i, <1>l, <1>u, WorkerShapeChange
  <2>3. CASE /\ AssertTransition(worker[w].row, Indebted(worker[w].row))
             /\ SaveInstruction(w, "DEAD_LETTER")
             /\ row' = Indebted(worker[w].row)
             /\ chain' = chain \o <<"BANK_PROCESSING_FAILED", "CASE_OPENED">>
    <3>1. row' \in InstructedRows
      BY <2>1, <2>3, <1>w, AnsweredRows DEF InstructedRows
    <3>2. \A t \in {"PROVIDER_CONFIRMED", "PROVIDER_FAILED", "AMOUNT_MISMATCH_DETECTED"} :
            Recorded(t)' <=> Recorded(t)
      BY <2>3, <1>0, BankFacts DEF Recorded
    <3>3. instr'.status # "NONE"
      BY <2>3 DEF SaveInstruction
    <3>4. QED
      BY <2>1, <3>1, <3>2, <3>3, <1>w, <1>i, WorkerShapeChange
  <2>4. QED
    BY <1>9, <2>2, <2>3 DEF DeadLetter
<1>10. ASSUME NEW w \in Workers, WorkerDbFault(w) \/ WorkerCrash(w) PROVE Shape'
  <2>1. UNCHANGED <<row, chain, instr, reconciler>> /\ worker[w].pc # "idle"
    BY <1>10 DEF WorkerDbFault, WorkerCrash
  <2>2. CASE Release(w)
    BY <2>1, <2>2, <1>w, <1>i, <1>l, <1>u, WorkerShapeChange DEF Release
  <2>3. CASE StepWith(w, "error", Mutated(w))
    <3>1. Mutated(w) \in InstructedRows
      BY <2>1, <1>w DEF Mutated, InstructedRows
    <3>2. QED
      BY <2>1, <2>3, <3>1, <1>w, <1>l, <1>u, <1>4
  <2>4. QED
    BY <1>10, <2>2, <2>3 DEF WorkerDbFault, WorkerCrash
<1>11. ASSUME NEW r \in Reconcilers, RunPendingLoad(r) PROVE Shape'
  <2>1. /\ UNCHANGED <<row, chain, instr, worker, paid>>
        /\ reconciler' = [reconciler EXCEPT ![r] = [pc |-> "loaded", row |-> row]]
    BY <1>11 DEF RunPendingLoad, storeVars
  <2>2. row = Executed(TakenRow) /\ instr.status # "NONE"
    <3>1. row \in InstructedRows
      BY <1>11, RowShapes DEF RunPendingLoad, Shape, LineShape
    <3>2. QED
      BY <1>11, <3>1, <1>l, RowShapes DEF RunPendingLoad
  <2>3. ReconcilerShape'
    BY <2>1, <2>2, <1>0 DEF Shape, ReconcilerShape
  <2>4. QED
    BY <2>1, <2>3 DEF Shape, LineShape, FactsShape, WorkerShape, Recorded, Holds
<1>12. ASSUME NEW r \in Reconcilers, RunPendingReconcile(r) PROVE Shape'
  <2>1. /\ reconciler[r].row = Executed(TakenRow) /\ instr.status # "NONE"
        /\ UNCHANGED <<instr, worker, paid>>
        /\ reconciler' = [reconciler EXCEPT ![r] = IdleReconciler]
    BY <1>12 DEF RunPendingReconcile, Shape, ReconcilerShape
  <2>2. /\ row' \in InstructedRows
        /\ \A t \in {"PROVIDER_CONFIRMED", "PROVIDER_FAILED", "AMOUNT_MISMATCH_DETECTED"} :
             Recorded(t)' <=> Recorded(t)
    BY <1>12, <2>1, <1>7 DEF RunPendingReconcile
  <2>3. ReconcilerShape'
    BY <2>1, <1>0 DEF Shape, ReconcilerShape, IdleReconciler
  <2>4. ~Recorded("AMOUNT_MISMATCH_DETECTED") /\ ~Recorded("PROVIDER_FAILED")
    BY <2>1, <1>l, RowShapes DEF Shape, FactsShape, InstructedLeg
  <2>5. QED
    BY <2>1, <2>2, <2>3, <2>4 DEF Shape, LineShape, FactsShape, WorkerShape
<1>13. ASSUME NEW r \in Reconcilers, RunPendingAborts(r) PROVE Shape'
  <2>1. /\ UNCHANGED <<row, chain, instr, worker, paid>>
        /\ reconciler' = [reconciler EXCEPT ![r] = IdleReconciler]
    BY <1>13 DEF RunPendingAborts
  <2>2. ReconcilerShape'
    BY <2>1, <1>0 DEF Shape, ReconcilerShape, IdleReconciler
  <2>3. QED
    BY <2>1, <2>2 DEF Shape, LineShape, FactsShape, WorkerShape, Recorded, Holds
<1>14. CASE LeaseExpires
  BY <1>14, ShapeStutter DEF LeaseExpires, bankVars
<1>15. QED
  BY <1>1, <1>2, <1>3, <1>5, <1>6, <1>8, <1>9, <1>10, <1>11, <1>12, <1>13, <1>14
     DEF BankNext, WorkerStep, RunPending

(* At the start the line is the initial one and nobody holds a copy.       *)
LEMMA ShapeInit == Init => IInv
<1> SUFFICES ASSUME Init PROVE IInv
  OBVIOUS
<1>1. row = InitialRow /\ row \notin InstructedRows
  BY RowShapes DEF Init, StoreInit, InstructedLeg
<1>2. \A t : ~Recorded(t)
  BY DEF Init, StoreInit, Recorded, Holds
<1>3. Shape
  BY <1>1, <1>2 DEF Init, StoreInit, BankInit, Shape, LineShape, FactsShape, WorkerShape, ReconcilerShape,
                    IdleWorker, IdleReconciler
<1>4. QED
  BY <1>3, TypeInit DEF IInv

(* Every step of the flow keeps the shapes.                                *)
LEMMA ShapeStep == IInv /\ [Next]_vars => IInv'
<1> SUFFICES ASSUME IInv, [Next]_vars PROVE Shape'
  BY TypeStep DEF IInv
<1>1. CASE Initiate /\ UNCHANGED <<webhookVars, bankVars>>
  <2>1. ~Recorded("PROVIDER_CONFIRMED")
    BY <1>1 DEF Initiate, RowExists, Recorded, Holds
  <2>2. instr.status = "NONE" /\ UNCHANGED <<instr, worker, reconciler, paid>> /\ row' = InitialRow
    BY <1>1, <2>1 DEF IInv, Shape, LineShape, Initiate, bankVars
  <2>3. ~Recorded("AMOUNT_MISMATCH_DETECTED")' /\ ~Recorded("PROVIDER_FAILED")'
    BY <1>1 DEF Initiate, Recorded, Holds
  <2>4. InitialRow \notin InstructedRows
    BY RowShapes DEF InstructedLeg
  <2>5. QED
    BY <2>2, <2>3, <2>4 DEF IInv, Shape, LineShape, FactsShape, WorkerShape, ReconcilerShape
<1>2. CASE UNCHANGED vars
  BY <1>2, ShapeStutter DEF vars, storeVars, bankVars, IInv
<1>3. QED
  BY <1>1, <1>2, WebhookShapeStep, BankShapeStep DEF Next

(* The shape of the line, of the chain and of the copies is invariant.     *)
THEOREM Inductive == Spec => []IInv
  BY ShapeInit, ShapeStep, PTL DEF Spec

(* An instruction is queued exactly when the line says the leg was taken,  *)
(* whatever the handlers, the workers, the crashes and the stale saves do. *)
THEOREM InstructionBacksLegHolds == Spec => []InstructionBacksLeg
<1>1. IInv => InstructionBacksLeg
  BY RowShapes DEF IInv, Shape, LineShape, InstructionBacksLeg, InstructedLeg
<1>2. QED
  BY <1>1, Inductive, PTL

(* The bank executes nothing but a conforming, confirmed and never refused *)
(* nor contested collection.                                               *)
THEOREM PaidOnlyOnConformingCollectionHolds == Spec => []PaidOnlyOnConformingCollection
<1>1. IInv => PaidOnlyOnConformingCollection
  BY RowShapes
     DEF IInv, Shape, LineShape, FactsShape, PaidOnlyOnConformingCollection, InstructedLeg
<1>2. QED
  BY <1>1, Inductive, PTL

(* The state machine never refuses an answer of the bank nor the verdict   *)
(* of a reconciliation, even applied to an outdated copy.                  *)
THEOREM AnswerAlwaysAppliesHolds == Spec => []AnswerAlwaysApplies
<1>1. IInv => AnswerAlwaysApplies
  BY AnsweredRows DEF IInv, Shape, WorkerShape, ReconcilerShape, AnswerAlwaysApplies
<1>2. QED
  BY <1>1, Inductive, PTL
=============================================================================
