-------------------------- MODULE TreasuryTheorems --------------------------
(***************************************************************************)
(* The debt of a lost bank leg, its refund, the sweep and the books of the *)
(* case, for any number of handlers, notifications, workers, replays,      *)
(* refund requests, retry workers, operators, sweeps and crashes, if no    *)
(* live worker outlasts its lease; for what the books and both views of a  *)
(* refund say, if no SQL statement fails either.  Last, the posting rules. *)
(***************************************************************************)
EXTENDS Treasury, LeaseTheorems, PaymentLifecycleTheorems, FiniteSetTheorems

LostLeg == {"FAILED", "BLOCKED"}
InDebt  == row.bankStatus \in LostLeg

-----------------------------------------------------------------------------
(***************************************************************************)
(* The inductive invariant, beside LifeInv                                 *)
(***************************************************************************)

(* Until a leg is lost nobody can ask for a refund, so the flow is that of *)
(* MobileMoney alone.  A worker comes to its catch with the line it took.  *)
Caught == \A w \in Workers : worker[w].pc = "error" => worker[w].row = TakenRow

Idle ==
  /\ refund = NoRefund
  /\ \A p \in Agents : agent[p].pc \in {"idle", "over"}

Flowing == IInv /\ LeaseInv /\ Caught /\ Idle

(* Once it is lost, nobody of the flow is left with something to write.    *)
Quiet ==
  /\ RowExists
  /\ row.reconciliationStatus # "MATCHED"
  /\ \A w \in Workers : worker[w].pc \in {"idle", "done"}
                        \/ (worker[w].pc = "claimed" /\ BankLegSettled(worker[w].row))
  /\ \A r \in Reconcilers : reconciler[r].pc = "idle"
  /\ \A h \in Handlers : handler[h].pc # "repair"

(* The line tells the state of the refund, and the case is resolved when   *)
(* the refund is complete, on a key that was paid.                         *)
Owing ==
  /\ row.refundStatus = IF refund.status = "NONE" THEN "REQUIRED" ELSE refund.status
  /\ refund.status # "NOT_REQUIRED"
  /\ row.caseStatus = IF refund.status = "COMPLETED" THEN "RESOLVED" ELSE "MANUAL_REVIEW"
  /\ refund.status = "COMPLETED" => refund.key \in payouts
  /\ \A p \in Agents : agent[p].pc = "succeeded" => refund.key \in payouts

(* How often each fact that moves money was recorded, and on what amount.  *)
Recordings(type) == CountOf(chain, type)
If(condition) == IF condition THEN 1 ELSE 0

Tally ==
  /\ Recordings("PROVIDER_CONFIRMED") = If(row.bankStatus \in InstructedLeg)
  /\ Recordings("AMOUNT_MISMATCH_DETECTED") = If(row.bankStatus = "BLOCKED")
  /\ Recordings("BANK_PROCESSING_COMPLETED") = If(row.bankStatus = "COMPLETED")
  /\ Recordings("BANK_PROCESSING_FAILED") = If(row.bankStatus = "FAILED")
  /\ Recordings("SETTLEMENT_SWEPT") \in {0, 1}
  /\ Recordings("SETTLEMENT_SWEPT") = 1 => row = MatchedRow
  /\ Recordings("REFUND_COMPLETED") \in Nat
  /\ Recordings("REFUND_COMPLETED") # 0 <=> refund.status = "COMPLETED"

Amount ==
  /\ row.bankStatus \in InstructedLeg => row.observed = "conforming"
  /\ row.bankStatus = "BLOCKED" => row.observed \in {"amount", "currency"}

DebtInv ==
  /\ LifeInv
  /\ ~InDebt => Flowing
  /\ InDebt => Quiet /\ Owing
  /\ Tally
  /\ Amount
-----------------------------------------------------------------------------
(***************************************************************************)
(* Counting the facts of a chain                                           *)
(***************************************************************************)
(* One more fact counts for its type alone.                                *)
LEMMA CountAppended ==
  ASSUME NEW s \in Seq(TransactionEventType), NEW e \in TransactionEventType, NEW t
  PROVE  /\ Append(s, e) \in Seq(TransactionEventType)
         /\ CountOf(s, t) \in Nat
         /\ CountOf(Append(s, e), t) = IF e = t THEN CountOf(s, t) + 1 ELSE CountOf(s, t)
         /\ Holds(s, t) <=> CountOf(s, t) # 0
<1> DEFINE S == {i \in DOMAIN s : s[i] = t}
           T == {i \in DOMAIN Append(s, e) : Append(s, e)[i] = t}
           n == Len(s) + 1
<1>1. /\ Append(s, e) \in Seq(TransactionEventType)
      /\ Len(s) \in Nat /\ DOMAIN s = 1..Len(s) /\ DOMAIN Append(s, e) = 1..(Len(s) + 1)
      /\ \A i \in 1..Len(s) : Append(s, e)[i] = s[i]
      /\ Append(s, e)[Len(s) + 1] = e
  BY AppendProperties, LenProperties
<1>2. IsFiniteSet(S)
  <2>1. IsFiniteSet(1..Len(s))
    BY <1>1, FS_Interval
  <2>2. S \subseteq 1..Len(s)
    BY <1>1
  <2>3. QED
    BY <2>1, <2>2, FS_Subset
<1>3. T = IF e = t THEN S \union {n} ELSE S
  BY <1>1
<1>4. n \notin S
  BY <1>1
<1>5. /\ Cardinality(S) \in Nat
      /\ Cardinality(S \union {n}) = Cardinality(S) + 1
      /\ Cardinality(S) = 0 <=> S = {}
  BY <1>2, <1>4, FS_AddElement, FS_CardinalityType, FS_EmptySet
<1>6. Holds(s, t) <=> S # {}
  BY DEF Holds
<1>7. CountOf(s, t) = Cardinality(S) /\ CountOf(Append(s, e), t) = Cardinality(T)
  BY DEF CountOf
<1>8. QED
  BY <1>1, <1>3, <1>5, <1>6, <1>7

(* Facts recorded together are facts recorded one after the other.         *)
LEMMA OneByOne ==
  ASSUME NEW s \in Seq(TransactionEventType),
         NEW a \in TransactionEventType, NEW b \in TransactionEventType, NEW c \in TransactionEventType
  PROVE  /\ s \o <<a, b>> = Append(Append(s, a), b)
         /\ s \o <<a, b, c>> = Append(Append(Append(s, a), b), c)
<1>1. \A u \in Seq(TransactionEventType), e \in TransactionEventType :
        /\ Append(u, e) \in Seq(TransactionEventType) /\ Append(u, e) = u \o <<e>>
        /\ <<e>> \in Seq(TransactionEventType)
  BY AppendProperties, AppendIsConcat
<1>2. /\ <<a, b>> \in Seq(TransactionEventType)
      /\ <<a, b>> = Append(<<a>>, b) /\ <<a, b, c>> = Append(<<a, b>>, c)
  OBVIOUS
<1>3. \A u, v, w \in Seq(TransactionEventType) : (u \o v) \o w = u \o (v \o w)
  BY ConcatAssociative
<1>4. QED
  BY <1>1, <1>2, <1>3

(* The closure moves no money, nor do the facts that open a case.          *)
LEMMA CountFacts ==
  ASSUME NEW s \in Seq(TransactionEventType), NEW e \in TransactionEventType,
         NEW t, t \notin {"CASE_CLOSED", "CASE_OPENED", "BANK_PROCESSING_BLOCKED"}
  PROVE  /\ CountOf(s, t) \in Nat
         /\ CountOf(Append(s, e), t) = IF e = t THEN CountOf(s, t) + 1 ELSE CountOf(s, t)
         /\ CountOf(CloseCase(s), t) = CountOf(s, t)
         /\ CountOf(CloseCase(Append(s, e)), t) = IF e = t THEN CountOf(s, t) + 1 ELSE CountOf(s, t)
         /\ CountOf(s \o <<"BANK_PROCESSING_FAILED", "CASE_OPENED">>, t)
              = IF t = "BANK_PROCESSING_FAILED" THEN CountOf(s, t) + 1 ELSE CountOf(s, t)
         /\ CountOf(s \o <<"AMOUNT_MISMATCH_DETECTED", "BANK_PROCESSING_BLOCKED", "CASE_OPENED">>, t)
              = IF t = "AMOUNT_MISMATCH_DETECTED" THEN CountOf(s, t) + 1 ELSE CountOf(s, t)
<1>t. {"CASE_CLOSED", "CASE_OPENED", "BANK_PROCESSING_BLOCKED", "BANK_PROCESSING_FAILED",
       "AMOUNT_MISMATCH_DETECTED"} \subseteq TransactionEventType
  BY DEF TransactionEventType
<1>1. \A u \in Seq(TransactionEventType), f \in TransactionEventType :
        /\ Append(u, f) \in Seq(TransactionEventType) /\ CountOf(u, t) \in Nat
        /\ CountOf(Append(u, f), t) = IF f = t THEN CountOf(u, t) + 1 ELSE CountOf(u, t)
  BY CountAppended
<1>2. \A u \in Seq(TransactionEventType) : CountOf(CloseCase(u), t) = CountOf(u, t)
  BY <1>1, <1>t DEF CloseCase
<1>3. /\ s \o <<"BANK_PROCESSING_FAILED", "CASE_OPENED">>
           = Append(Append(s, "BANK_PROCESSING_FAILED"), "CASE_OPENED")
      /\ s \o <<"AMOUNT_MISMATCH_DETECTED", "BANK_PROCESSING_BLOCKED", "CASE_OPENED">>
           = Append(Append(Append(s, "AMOUNT_MISMATCH_DETECTED"), "BANK_PROCESSING_BLOCKED"), "CASE_OPENED")
  BY <1>t, OneByOne
<1>4. CountOf(Append(Append(s, "BANK_PROCESSING_FAILED"), "CASE_OPENED"), t)
        = IF t = "BANK_PROCESSING_FAILED" THEN CountOf(s, t) + 1 ELSE CountOf(s, t)
  BY <1>1, <1>t
<1>5. CountOf(Append(Append(Append(s, "AMOUNT_MISMATCH_DETECTED"), "BANK_PROCESSING_BLOCKED"), "CASE_OPENED"), t)
        = IF t = "AMOUNT_MISMATCH_DETECTED" THEN CountOf(s, t) + 1 ELSE CountOf(s, t)
  <2> DEFINE v == Append(s, "AMOUNT_MISMATCH_DETECTED")
             w == Append(v, "BANK_PROCESSING_BLOCKED")
  <2>1. /\ v \in Seq(TransactionEventType)
        /\ CountOf(v, t) = IF t = "AMOUNT_MISMATCH_DETECTED" THEN CountOf(s, t) + 1 ELSE CountOf(s, t)
    BY <1>1, <1>t
  <2> HIDE DEF v
  <2>2. w \in Seq(TransactionEventType) /\ CountOf(w, t) = CountOf(v, t)
    BY <1>1, <1>t, <2>1
  <2> HIDE DEF w
  <2>3. CountOf(Append(w, "CASE_OPENED"), t) = CountOf(w, t)
    BY <1>1, <1>t, <2>2
  <2>4. QED
    BY <2>1, <2>2, <2>3 DEF v, w
<1>6. /\ CountOf(CloseCase(s), t) = CountOf(s, t)
      /\ CountOf(CloseCase(Append(s, e)), t) = CountOf(Append(s, e), t)
  BY <1>1, <1>2
<1>7. CountOf(s, t) \in Nat /\ CountOf(Append(s, e), t) = IF e = t THEN CountOf(s, t) + 1 ELSE CountOf(s, t)
  BY <1>1
<1>8. QED
  BY ONLY <1>3, <1>4, <1>5, <1>6, <1>7
-----------------------------------------------------------------------------
(***************************************************************************)
(* The flow before and after the loss of a leg                             *)
(***************************************************************************)
USE FaultBounds, WebhookConstants, BankConstants, RefundBounds

(* The amount and the debt columns that each value of the line shows.      *)
LEMMA LineTells ==
  ASSUME IInv
  PROVE  /\ InDebt <=> row \in BlockedRows \union {OwedRow}
         /\ InDebt => row.refundStatus = "REQUIRED" /\ row.caseStatus = "MANUAL_REVIEW"
         /\ ~InDebt => row.refundStatus = "NOT_REQUIRED" /\ row.caseStatus = "NONE"
         /\ row.bankStatus = "NOT_STARTED" <=> row \in {InitialRow, RefusedRow}
         /\ row.bankStatus = "PROCESSING" <=> row = TakenRow
         /\ row.bankStatus = "COMPLETED" <=> row \in {ExecutedRow, MatchedRow}
         /\ row.bankStatus = "FAILED" <=> row = OwedRow
         /\ row.bankStatus = "BLOCKED" <=> row \in BlockedRows
         /\ Amount
<1>1. /\ TakenRow.observed = "conforming" /\ OwedRow.observed = "conforming"
      /\ ExecutedRow.observed = "conforming" /\ MatchedRow.observed = "conforming"
  BY DEF InitialRow, TakenRow, Executed, Verdict, Indebted, ExecutedRow, MatchedRow, OwedRow
<1>2. \A b \in BlockedRows : b.observed \in {"amount", "currency"}
  BY DEF InitialRow, BlockedRow, BlockedRows
<1>3. QED
  BY <1>1, <1>2, Lines, LineFields, DebtColumns DEF InDebt, LostLeg, Amount, InstructedLeg

(* When a leg is lost, the worker that lost it is the last to hold a copy, *)
(* and has nothing left to write but its instruction.                      *)
LEMMA QuietAtBirth == ASSUME IInv, LeaseInv, Caught, InDebt PROVE Quiet
<1>1. row \in BlockedRows \union {OwedRow}
  BY LineTells
<1>2. ASSUME NEW w \in Workers, worker[w].pc # "idle" PROVE row = OwedRow /\ worker[w].row = OwedRow
  BY <1>1, <1>2, Lines, LinesApart DEF LeaseInv, Exclusive, Fresh, FitsLine
<1>3. ASSUME NEW w \in Workers
      PROVE  worker[w].pc \in {"idle", "done"} \/ (worker[w].pc = "claimed" /\ BankLegSettled(worker[w].row))
  <2>1. worker[w].pc \in WorkerSteps
    BY Lines DEF WorkerMemory
  <2>2. BankLegSettled(OwedRow)
    BY LineFields DEF BankLegSettled
  <2>3. worker[w].pc \notin {"executed", "refused", "reconcile", "error"}
    BY <1>2, Lines, LinesApart DEF Caught
  <2>4. QED
    BY <1>2, <2>1, <2>2, <2>3 DEF WorkerSteps
<1>4. \A r \in Reconcilers : reconciler[r].pc = "idle"
  BY <1>1, LinesApart DEF LeaseInv, Fresh, IInv, TypeOK, BankTypeOK, ReconcilerMemory
<1>5. \A h \in Handlers : handler[h].pc # "repair"
  BY <1>1, LinesApart DEF LeaseInv, Fresh
<1>6. RowExists
  BY <1>1, LinesApart DEF LeaseInv, Told
<1>7. row.reconciliationStatus # "MATCHED"
  BY <1>1, MatchedLine, LinesApart
<1>8. QED
  BY <1>3, <1>4, <1>5, <1>6, <1>7 DEF Quiet

(* No SQL statement fails.                                                 *)
LEMMA NoFault == ASSUME MaxDbFaults = 0, TypeOK PROVE ~DbFault
  BY DEF TypeOK, StoreTypeOK, DbFault

(* How the memory of a worker changes.                                     *)
LEMMA WorkerChange ==
  ASSUME TypeOK, NEW w \in Workers
  PROVE  /\ worker[w] \in WorkerMemory
         /\ \A step \in WorkerSteps : Step(w, step) =>
              /\ worker'[w].pc = step /\ worker'[w].row = worker[w].row
              /\ \A v \in Workers \ {w} : worker'[v] = worker[v]
         /\ \A step \in WorkerSteps, e \in TransactionRow : StepWith(w, step, e) =>
              /\ worker'[w].pc = step /\ worker'[w].row = e
              /\ \A v \in Workers \ {w} : worker'[v] = worker[v]
         /\ Release(w) => worker'[w].pc = "idle" /\ \A v \in Workers \ {w} : worker'[v] = worker[v]
         /\ ClaimNext(w) => /\ worker'[w].pc = "claimed" /\ worker'[w].row = row
                            /\ \A v \in Workers \ {w} : worker'[v] = worker[v]
<1>1. worker \in [Workers -> WorkerMemory] /\ worker[w] \in WorkerMemory
  BY DEF TypeOK, BankTypeOK
<1>2. ASSUME NEW step \in WorkerSteps, Step(w, step)
      PROVE  /\ worker'[w].pc = step /\ worker'[w].row = worker[w].row
             /\ \A v \in Workers \ {w} : worker'[v] = worker[v]
  BY <1>1, <1>2 DEF Step, WorkerMemory
<1>3. ASSUME NEW step \in WorkerSteps, NEW e \in TransactionRow, StepWith(w, step, e)
      PROVE  /\ worker'[w].pc = step /\ worker'[w].row = e
             /\ \A v \in Workers \ {w} : worker'[v] = worker[v]
  BY <1>1, <1>3 DEF StepWith, WorkerMemory
<1>4. ASSUME Release(w) PROVE worker'[w].pc = "idle" /\ \A v \in Workers \ {w} : worker'[v] = worker[v]
  BY <1>1, <1>4 DEF Release, IdleWorker
<1>5. ASSUME ClaimNext(w)
      PROVE  /\ worker'[w].pc = "claimed" /\ worker'[w].row = row
             /\ \A v \in Workers \ {w} : worker'[v] = worker[v]
  BY <1>1, <1>5 DEF ClaimNext
<1>6. QED
  BY <1>1, <1>2, <1>3, <1>4, <1>5

(* A worker comes to its catch when the transport fails, with the leg it   *)
(* took still open in its copy.                                            *)
LEMMA CaughtStep ==
  ASSUME MaxDbFaults = 0, IInv, Caught, [Next]_vars PROVE Caught'
<1>0. TypeOK /\ ~DbFault
  BY NoFault DEF IInv
<1>1. CASE UNCHANGED worker
  BY <1>1 DEF Caught
<1>2. ASSUME NEW w \in Workers, WorkerStep(w) \/ WorkerCrash(w) PROVE Caught'
  <2>1. /\ \A v \in Workers \ {w} : worker'[v] = worker[v]
        /\ \/ worker'[w].pc # "error"
           \/ /\ worker[w].pc = "claimed" /\ ~BankLegSettled(worker[w].row)
              /\ worker'[w].row = worker[w].row
    <3>1. /\ Executed(worker[w].row) \in TransactionRow /\ Indebted(worker[w].row) \in TransactionRow
          /\ Verdict(worker[w].row) \in TransactionRow
      <4>1. worker[w].row \in TransactionRow /\ "amount" \in Kinds \ {"failed"}
        BY <1>0, WorkerChange DEF WorkerMemory, Kinds
      <4>2. QED
        BY <4>1, RowTypes
    <3>2. CASE WorkerCrash(w)
      BY <1>0, <3>2, WorkerChange DEF WorkerCrash
    <3>3. CASE ClaimNext(w)
      BY <1>0, <3>3, WorkerChange
    <3>4. CASE CallBank(w)
      BY <1>0, <3>4, WorkerChange DEF CallBank, WorkerSteps
    <3>5. CASE SkipSettled(w) \/ Complete(w) \/ Retry(w) \/ DeadLetter(w)
      BY <1>0, <3>5, WorkerChange DEF SkipSettled, Complete, Retry, DeadLetter
    <3>6. CASE ApplyBankSuccess(w) \/ HandleBankFailure(w) \/ Reconcile(w)
      BY <1>0, <3>1, <3>6, WorkerChange DEF ApplyBankSuccess, HandleBankFailure, Reconcile, WorkerSteps
    <3>7. QED
      BY <1>2, <3>2, <3>3, <3>4, <3>5, <3>6 DEF WorkerStep
  <2>2. worker[w].pc = "claimed" /\ ~BankLegSettled(worker[w].row) => worker[w].row = TakenRow
    BY Lines, LineFields DEF BankLegSettled
  <2>3. QED
    BY <2>1, <2>2 DEF Caught
<1>3. QED
  BY <1>0, <1>1, <1>2 DEF Next, BankNext, vars, bankVars, WorkerDbFault, RunPending, RunPendingLoad,
        RunPendingReconcile, RunPendingAborts, LeaseExpires

(* Once a leg is lost, a notification finds it taken: no handler touches   *)
(* the line or the chain, also if a statement of it fails.                 *)
LEMMA HandlersStandBy ==
  ASSUME TypeOK, InDebt, row.reconciliationStatus # "MATCHED",
         \A h \in Handlers : handler[h].pc # "repair", WebhookNext
  PROVE  UNCHANGED <<row, chain>> /\ \A h \in Handlers : handler'[h].pc # "repair"
<1>0. handler \in [Handlers -> HandlerMemory]
  BY DEF TypeOK, WebhookTypeOK
<1>c. ASSUME NEW h \in Handlers, NEW step \in HandlerSteps, Goto(h, step), step # "repair"
      PROVE  \A k \in Handlers : handler'[k].pc # "repair"
  BY <1>0, <1>c DEF Goto, HandlerMemory
<1>d. ASSUME NEW h \in Handlers, Return(h)
      PROVE  \A k \in Handlers : handler'[k].pc # "repair"
  BY <1>0, <1>d DEF Return, IdleHandler
<1>1. CASE \E h \in Handlers : ClaimEvent(h) \/ Settle(h) \/ HandlerCrash(h) \/ HandlerDbFault(h)
  <2>1. PICK h \in Handlers : ClaimEvent(h) \/ Settle(h) \/ HandlerCrash(h) \/ HandlerDbFault(h)
    BY <1>1
  <2>2. Goto(h, "claimed") \/ Goto(h, "failed") \/ Return(h)
    BY <2>1 DEF ClaimEvent, Settle, HandlerCrash, HandlerDbFault
  <2>3. UNCHANGED <<row, chain>>
    BY <2>1 DEF ClaimEvent, Settle, HandlerCrash, HandlerDbFault, storeVars
  <2>4. QED
    BY <1>c, <1>d, <2>2, <2>3 DEF HandlerSteps
<1>2. CASE \E h \in Handlers : LoadTransaction(h)
  <2>1. PICK h \in Handlers : LoadTransaction(h)
    BY <1>2
  <2>2. CASE RowExists
    BY <1>0, <2>1, <2>2 DEF LoadTransaction, HandlerMemory, storeVars
  <2>3. CASE ~RowExists
    BY <1>c, <2>1, <2>3 DEF LoadTransaction, HandlerSteps, storeVars
  <2>4. QED
    BY <2>2, <2>3
<1>3. CASE \E h \in Handlers : MarkProviderFailed(h) \/ ConfirmAndClaimBankProcessing(h) \/ MarkAmountMismatch(h)
  <2>1. PICK h \in Handlers : MarkProviderFailed(h) \/ ConfirmAndClaimBankProcessing(h) \/ MarkAmountMismatch(h)
    BY <1>3
  <2>2. AlreadyTaken(h) /\ UNCHANGED storeVars
    BY <2>1 DEF MarkProviderFailed, ConfirmAndClaimBankProcessing, MarkAmountMismatch, ApplyTransition,
                InDebt, LostLeg
  <2>3. Goto(h, "succeeded")
    BY <2>2 DEF AlreadyTaken
  <2>4. QED
    BY <1>c, <2>2, <2>3 DEF storeVars, HandlerSteps
<1>4. CASE \E h \in Handlers : RepairClosure(h)
  BY <1>4 DEF RepairClosure
<1>5. CASE \E h \in Handlers, n \in Notifications : Register(h, n)
  BY <1>0, <1>5 DEF Register, HandlerMemory, storeVars
<1>6. CASE \E n \in Notifications : ClaimExpires(n)
  BY <1>6 DEF ClaimExpires, storeVars
<1>7. QED
  BY <1>1, <1>2, <1>3, <1>4, <1>5, <1>6 DEF WebhookNext, HandlerStep

(* After the loss, no step of the flow touches the line or the chain.      *)
LEMMA QuietStep ==
  ASSUME MaxDbFaults = 0, TypeOK, InDebt, Quiet, [Next]_vars
  PROVE  Quiet' /\ UNCHANGED <<row, chain>>
<1>0. ~DbFault
  BY NoFault
<1>a. ASSUME UNCHANGED <<row, chain, worker, reconciler>>,
             \A h \in Handlers : handler'[h].pc = "repair" => handler[h].pc = "repair"
      PROVE  Quiet' /\ UNCHANGED <<row, chain>>
  BY <1>a DEF Quiet, RowExists
<1>b. ASSUME UNCHANGED <<row, chain, reconciler, handler>>, NEW w \in Workers,
             \A v \in Workers \ {w} : worker'[v] = worker[v],
             worker'[w].pc \in {"idle", "done"}
               \/ (worker'[w].pc = "claimed" /\ BankLegSettled(worker'[w].row))
      PROVE  Quiet' /\ UNCHANGED <<row, chain>>
  BY <1>b DEF Quiet, RowExists
<1>1. CASE UNCHANGED vars
  BY <1>1, <1>a DEF vars, storeVars, webhookVars, bankVars
<1>2. CASE WebhookNext /\ UNCHANGED bankVars
  <2>1. UNCHANGED <<row, chain>> /\ \A h \in Handlers : handler'[h].pc # "repair"
    BY <1>2, HandlersStandBy DEF Quiet
  <2>2. QED
    BY <1>2, <1>a, <2>1 DEF bankVars
<1>3. ASSUME NEW w \in Workers, WorkerStep(w) \/ WorkerCrash(w), UNCHANGED webhookVars
      PROVE  Quiet' /\ UNCHANGED <<row, chain>>
  <2>0. \/ worker[w].pc \in {"idle", "done"}
        \/ worker[w].pc = "claimed" /\ BankLegSettled(worker[w].row)
    BY DEF Quiet
  <2>1. CASE ClaimNext(w)
    <3>1. BankLegSettled(row)
      BY DEF InDebt, LostLeg, BankLegSettled
    <3>2. QED
      BY <1>3, <1>b, <2>1, <3>1, WorkerChange DEF ClaimNext, webhookVars
  <2>2. CASE SkipSettled(w) \/ Complete(w) \/ WorkerCrash(w)
    <3>1. Release(w) /\ UNCHANGED <<row, chain, reconciler>>
      BY <2>2 DEF SkipSettled, Complete, WorkerCrash
    <3>2. QED
      BY <1>3, <1>b, <3>1, WorkerChange DEF webhookVars
  <2>3. QED
    BY <1>3, <2>0, <2>1, <2>2 DEF WorkerStep, CallBank, ApplyBankSuccess, HandleBankFailure, Reconcile,
                                  Retry, DeadLetter
<1>4. CASE (\E r \in Reconcilers : RunPending(r)) /\ UNCHANGED webhookVars
  BY <1>4 DEF RunPending, RunPendingLoad, RunPendingReconcile, Quiet, InDebt, LostLeg
<1>5. CASE LeaseExpires /\ UNCHANGED webhookVars
  BY <1>5, <1>a DEF LeaseExpires, bankVars, webhookVars
<1>6. QED
  BY <1>0, <1>1, <1>2, <1>3, <1>4, <1>5 DEF Next, Initiate, BankNext, WorkerDbFault, RunPendingAborts, Quiet
-----------------------------------------------------------------------------
(***************************************************************************)
(* The refund of a debt                                                    *)
(***************************************************************************)

(* Nobody works on a refund before there is a debt.                        *)
LEMMA NothingToRefund == ASSUME IInv, ~InDebt, Idle PROVE ~RefundNext
<1>1. refund.status = "NONE" /\ row.refundStatus = "NOT_REQUIRED"
  BY LineTells DEF Idle, NoRefund
<1>2. \A p \in Agents : agent[p].pc \in {"idle", "over"}
  BY DEF Idle
<1>3. \A p \in Requests, o \in Operators : ~LoadRefundable(p, o)
  BY <1>1 DEF LoadRefundable
<1>4. \A o \in Operators : ~ReopenRefund(o)
  BY <1>1 DEF ReopenRefund
<1>5. \A p \in Agents : ~FindPending(p)
  BY <1>1 DEF FindPending, Pending
<1>6. \A p \in Agents : ~AgentDbFault(p) /\ ~AgentCrash(p)
  BY <1>2 DEF AgentDbFault, AgentCrash
<1>7. ASSUME NEW p \in Agents
      PROVE  /\ ~FindRefund(p) /\ ~CreateRefund(p) /\ ~RepairRefundClosure(p) /\ ~LoadForRetry(p)
             /\ ~SkipAttempt(p) /\ ~BeginAttempt(p) /\ ~AskProvider(p) /\ ~RecordSuccess(p)
             /\ ~RecordFailure(p)
  BY <1>2 DEF FindRefund, CreateRefund, RepairRefundClosure, LoadForRetry, SkipAttempt, BeginAttempt,
              AskProvider, RecordSuccess, RecordFailure
<1>8. QED
  BY <1>3, <1>4, <1>5, <1>6, <1>7 DEF RefundNext, AgentStep

(* What the steps of the agents do to line, chain and refund of a debt.    *)
ColumnsStay ==
  /\ row'.bankStatus = row.bankStatus /\ row'.observed = row.observed
  /\ row'.reconciliationStatus = row.reconciliationStatus

(* Facts of a refund that move no money.                                   *)
SilentFacts == {"REFUND_REQUESTED", "REFUND_FAILED", "REFUND_REOPENED"}

RefundMove ==
  /\ ColumnsStay
  /\ Owing'
  /\ \/ /\ chain' \in {chain, CloseCase(chain)} \/ \E e \in SilentFacts : chain' = Append(chain, e)
        /\ refund'.status = "COMPLETED" <=> refund.status = "COMPLETED"
     \/ chain' = CloseCase(Append(chain, "REFUND_COMPLETED")) /\ refund'.status = "COMPLETED"

(* The state machine lets nobody ask for, or fail, the refund of a case    *)
(* that is resolved, whatever the age of the copy that it compares with.   *)
LEMMA ResolvedRefuses ==
  ASSUME NEW e \in TransactionRow, e.caseStatus = "RESOLVED",
         NEW s \in {"REQUESTED", "FAILED"}, NEW before
  PROVE  ~AssertTransition(before, [e EXCEPT !.refundStatus = s])
<1> DEFINE after == [e EXCEPT !.refundStatus = s]
<1>1. after.caseStatus = "RESOLVED" /\ after.refundStatus = s
  BY DEF TransactionRow
<1> HIDE DEF after
<1>2. ~ResolvedCaseRequiresExtinctDebt(after)
  BY <1>1 DEF ResolvedCaseRequiresExtinctDebt, Null
<1>3. ~AssertTransition(before, after)
  BY <1>2 DEF AssertTransition, NoBrokenInvariants
<1>4. QED
  BY <1>3 DEF after

(* The columns that a stage of an attempt writes.                          *)
LEMMA StageColumns ==
  ASSUME NEW e \in TransactionRow, NEW s, NEW k
  PROVE  LET one == [e EXCEPT !.refundStatus = s]
             two == [e EXCEPT !.refundStatus = s, !.caseStatus = k]
         IN /\ one.refundStatus = s /\ one.caseStatus = e.caseStatus
            /\ one.bankStatus = e.bankStatus /\ one.observed = e.observed
            /\ one.reconciliationStatus = e.reconciliationStatus
            /\ two.refundStatus = s /\ two.caseStatus = k
            /\ two.bankStatus = e.bankStatus /\ two.observed = e.observed
            /\ two.reconciliationStatus = e.reconciliationStatus
  BY DEF TransactionRow

(* Columns and keys that agree make a debt that is told as it stands.      *)
LEMMA OwingKept ==
  ASSUME LifeInv, Owing, payouts \subseteq payouts',
         refund.status # "NONE" => refund'.key = refund.key,
         \A q \in Agents : agent'[q].pc = "succeeded" =>
            agent[q].pc = "succeeded" \/ (refund.status # "NONE" /\ refund.key \in payouts'),
         row'.refundStatus = IF refund'.status = "NONE" THEN "REQUIRED" ELSE refund'.status,
         refund'.status # "NOT_REQUIRED",
         row'.caseStatus = IF refund'.status = "COMPLETED" THEN "RESOLVED" ELSE "MANUAL_REVIEW",
         refund'.status = "COMPLETED" => refund.status = "COMPLETED" \/ refund'.key \in payouts
  PROVE  Owing'
<1>1. \A q \in Agents : agent[q].pc = "succeeded" => refund.status # "NONE"
  BY DEF LifeInv, OneKey, WithCopy
<1>2. \A q \in Agents : agent'[q].pc = "succeeded" => refund'.key \in payouts'
  BY <1>1 DEF Owing
<1>3. refund'.status = "COMPLETED" => refund'.key \in payouts'
  BY DEF Owing
<1>4. QED
  BY <1>2, <1>3 DEF Owing

(* The kinds of steps that agents and operators take: the memory of one    *)
(* changes, at most the closure is added; the line of the refund is        *)
(* drafted; the provider is asked; a rejection is lifted; a stage that     *)
(* leaves the debt open is written, which a resolved case refuses; and a   *)
(* success is.                                                             *)
NobodySucceeds == \A q \in Agents : agent'[q].pc = "succeeded" => agent[q].pc = "succeeded"

Passes ==
  /\ UNCHANGED <<row, refund, payouts>>
  /\ chain' \in {chain, CloseCase(chain)}
  /\ NobodySucceeds

Drafts ==
  /\ refund.status = "NONE" /\ refund'.status = "REQUIRED"
  /\ UNCHANGED <<row, chain, payouts>>
  /\ NobodySucceeds

Asks ==
  /\ UNCHANGED <<row, chain, refund>>
  /\ refund.status # "NONE"
  /\ payouts \subseteq payouts'
  /\ \A q \in Agents : agent'[q].pc = "succeeded" => agent[q].pc = "succeeded" \/ refund.key \in payouts'

Reopens ==
  /\ UNCHANGED <<row, agent, payouts>>
  /\ refund'.status = refund.status /\ refund'.key = refund.key
  /\ chain' = Append(chain, "REFUND_REOPENED")

Stages ==
  \E s \in {"REQUESTED", "FAILED"}, e \in SilentFacts :
    /\ row.caseStatus # "RESOLVED" /\ row' = [row EXCEPT !.refundStatus = s]
    /\ refund.status # "NONE" /\ refund'.status = s /\ refund'.key = refund.key
    /\ chain' = Append(chain, e)
    /\ payouts' = payouts
    /\ NobodySucceeds

Completes ==
  /\ \E p \in Agents : agent[p].pc = "succeeded"
  /\ row' = [row EXCEPT !.refundStatus = "COMPLETED", !.caseStatus = "RESOLVED"]
  /\ refund.status # "NONE" /\ refund'.status = "COMPLETED" /\ refund'.key = refund.key
  /\ chain' = CloseCase(Append(chain, "REFUND_COMPLETED"))
  /\ payouts' = payouts
  /\ NobodySucceeds

RefundKind == Passes \/ Drafts \/ Asks \/ Reopens \/ Stages \/ Completes

(* Every step of an agent or of an operator is of one of these kinds, also *)
(* if a statement of it fails.                                             *)
LEMMA RefundKinds == ASSUME LifeInv, RefundNext PROVE RefundKind
<1>0. /\ agent \in [Agents -> AgentMemory] /\ refund \in Refund /\ row \in TransactionRow
      /\ Requests \subseteq Agents
  BY DEF LifeInv, LifeTypeOK, RefundTypeOK, TypeOK, StoreTypeOK, Agents
<1>b. ASSUME NEW p \in Agents
      PROVE  /\ agent[p] \in AgentMemory /\ agent[p].refund \in Refund /\ agent[p].pc \in AgentSteps
             /\ agent[p].pc \in WithCopy => refund.status # "NONE" /\ agent[p].refund.key = refund.key
  BY <1>0 DEF LifeInv, OneKey, AgentMemory
<1>c. ASSUME NEW p \in Agents, NEW step, To(p, step)
      PROVE  (\A q \in Agents \ {p} : agent'[q] = agent[q]) /\ agent'[p].pc = step
  BY <1>0, <1>b, <1>c DEF To, AgentMemory
<1>d. ASSUME NEW p \in Agents, NEW step, NEW c, Hold(p, step, c)
      PROVE  (\A q \in Agents \ {p} : agent'[q] = agent[q]) /\ agent'[p].pc = step
  BY <1>0, <1>b, <1>d DEF Hold, AgentMemory
<1>e. ASSUME NEW p \in Agents, Leave(p)
      PROVE  (\A q \in Agents \ {p} : agent'[q] = agent[q]) /\ agent'[p].pc # "succeeded"
  BY <1>0, <1>e DEF Leave, IdleAgent
<1> DEFINE Others(p) == (\A q \in Agents \ {p} : agent'[q] = agent[q]) /\ agent'[p].pc # "succeeded"
<1>o. ASSUME NEW p \in Agents, Others(p) PROVE NobodySucceeds
  BY <1>o DEF NobodySucceeds
(* Nothing changes but the memory of an agent, or the closure is added.    *)
<1>s. ASSUME NEW p \in Agents, Others(p), UNCHANGED <<row, refund, payouts>>,
             chain' \in {chain, CloseCase(chain)}
      PROVE  RefundKind
  BY <1>o, <1>s DEF RefundKind, Passes
<1>1. ASSUME NEW p \in Requests, NEW o \in Operators, LoadRefundable(p, o) PROVE RefundKind
  <2>1. Others(p)
    BY <1>0, <1>1, <1>b DEF LoadRefundable, AgentMemory
  <2>2. QED
    BY <1>0, <1>1, <1>s, <2>1 DEF LoadRefundable, storeVars
<1>2. ASSUME NEW p \in Agents, FindRefund(p) \/ FindPending(p) \/ LoadForRetry(p) \/ SkipAttempt(p)
      PROVE  RefundKind
  <2>1. Others(p)
    <3>1. CASE FindRefund(p) \/ FindPending(p)
      BY <1>c, <1>d, <3>1 DEF FindRefund, FindPending
    <3>2. CASE LoadForRetry(p)
      BY <1>0, <1>b, <3>2 DEF LoadForRetry, AgentMemory
    <3>3. CASE SkipAttempt(p)
      BY <1>e, <3>3 DEF SkipAttempt
    <3>4. QED
      BY <1>2, <3>1, <3>2, <3>3
  <2>2. QED
    BY <1>2, <1>s, <2>1 DEF FindRefund, FindPending, LoadForRetry, SkipAttempt, storeVars
<1>3. ASSUME NEW p \in Agents, CreateRefund(p) PROVE RefundKind
  <2>1. Hold(p, "ready", Inserted(p)) /\ refund' = Inserted(p) /\ UNCHANGED <<row, chain, payouts>>
    BY <1>3 DEF CreateRefund, storeVars
  <2>2. Others(p)
    BY <1>d, <2>1
  <2>3. CASE refund.status # "NONE"
    BY <1>s, <2>1, <2>2, <2>3 DEF Inserted
  <2>4. CASE refund.status = "NONE"
    <3>1. refund'.status = "REQUIRED"
      BY <2>1, <2>4 DEF Inserted, Draft, NoRefund
    <3>2. QED
      BY <1>o, <2>1, <2>2, <2>4, <3>1 DEF RefundKind, Drafts
  <2>5. QED
    BY <2>3, <2>4
<1>4. ASSUME NEW p \in Agents, RepairRefundClosure(p) PROVE RefundKind
  BY <1>4, <1>e, <1>s DEF RepairRefundClosure
<1>5. ASSUME NEW p \in Agents, AgentCrash(p) \/ AgentDbFault(p) PROVE RefundKind
  <2>1. Leave(p) \/ To(p, "unavailable")
    BY <1>5 DEF AgentCrash, AgentDbFault
  <2>2. Others(p)
    BY <1>c, <1>e, <2>1
  <2>3. QED
    BY <1>5, <1>s, <2>2 DEF AgentCrash, AgentDbFault
<1>6. ASSUME NEW p \in Agents, AskProvider(p) PROVE RefundKind
  <2>1. /\ UNCHANGED <<row, chain, refund>> /\ agent[p].pc = "asking"
        /\ payouts' \in {payouts, payouts \union {agent[p].refund.key}}
        /\ \/ To(p, "succeeded") /\ payouts' = payouts \union {agent[p].refund.key}
           \/ To(p, "rejected") \/ To(p, "unavailable")
    BY <1>6 DEF AskProvider, storeVars
  <2>2. refund.status # "NONE" /\ agent[p].refund.key = refund.key
    BY <1>b, <2>1 DEF WithCopy
  <2>3. /\ \A q \in Agents \ {p} : agent'[q] = agent[q]
        /\ agent'[p].pc = "succeeded" => refund.key \in payouts'
    BY <1>c, <2>1, <2>2
  <2>4. QED
    BY <2>1, <2>2, <2>3 DEF RefundKind, Asks
<1>7. ASSUME NEW o \in Operators, ReopenRefund(o) PROVE RefundKind
  <2>1. /\ refund'.status = refund.status /\ refund'.key = refund.key
        /\ UNCHANGED <<row, agent, payouts>> /\ chain' = Append(chain, "REFUND_REOPENED")
    BY <1>0, <1>7 DEF ReopenRefund, Refund
  <2>2. QED
    BY <2>1 DEF RefundKind, Reopens
(* A stage that leaves the debt open is not written over a resolved case.  *)
<1>w. ASSUME NEW p \in Agents, Others(p), agent[p].pc \in WithCopy, payouts' = payouts,
             NEW s \in {"REQUESTED", "FAILED"}, NEW before, NEW e \in SilentFacts,
             AssertTransition(before, [row EXCEPT !.refundStatus = s]),
             row' = [row EXCEPT !.refundStatus = s],
             refund'.status = s, refund'.key = agent[p].refund.key, chain' = Append(chain, e)
      PROVE  RefundKind
  <2>1. row.caseStatus # "RESOLVED"
    BY <1>0, <1>w, ResolvedRefuses
  <2>2. refund'.key = refund.key /\ refund.status # "NONE"
    BY <1>b, <1>w
  <2>3. NobodySucceeds
    BY <1>o, <1>w
  <2>4. Stages
    BY <1>w, <2>1, <2>2, <2>3 DEF Stages
  <2>5. QED
    BY <2>4 DEF RefundKind
<1>8. ASSUME NEW p \in Agents, BeginAttempt(p) PROVE RefundKind
  <2> DEFINE after == [row EXCEPT !.refundStatus = "REQUESTED"]
             copy  == [agent[p].refund EXCEPT !.status = "REQUESTED",
                         !.lastRequestedBy = IF p \in Requests THEN agent[p].actor
                                             ELSE agent[p].refund.lastRequestedBy]
             seen  == [agent[p].row EXCEPT !.refundStatus = after.refundStatus,
                                           !.caseStatus = after.caseStatus]
  <2>1. copy.key = agent[p].refund.key /\ copy.status = "REQUESTED"
    BY <1>b DEF Refund
  <2>2. CASE AssertTransition(agent[p].row, after)
    <3>1. /\ Write(copy, after, Append(chain, "REFUND_REQUESTED"))
          /\ agent' = [agent EXCEPT ![p] = [agent[p] EXCEPT !.pc = "asking", !.refund = copy, !.row = seen]]
          /\ payouts' = payouts /\ agent[p].pc = "ready"
      BY <1>8, <2>2 DEF BeginAttempt
    <3>2. Others(p)
      BY <1>0, <1>b, <3>1 DEF AgentMemory
    <3>3. refund'.status = "REQUESTED" /\ refund'.key = agent[p].refund.key
          /\ row' = after /\ chain' = Append(chain, "REFUND_REQUESTED")
      BY <2>1, <3>1 DEF Write
    <3>4. QED
      BY <1>w, <2>2, <3>1, <3>2, <3>3 DEF SilentFacts, WithCopy
  <2>3. CASE ~AssertTransition(agent[p].row, after)
    <3>1. Leave(p) /\ UNCHANGED <<refund, row, chain, payouts>>
      BY <1>8, <2>3 DEF BeginAttempt
    <3>2. QED
      BY <1>e, <1>s, <3>1
  <2>4. QED
    BY <2>2, <2>3
<1>9. ASSUME NEW p \in Agents, RecordFailure(p) PROVE RefundKind
  <2> DEFINE after == [row EXCEPT !.refundStatus = "FAILED"]
             copy  == [agent[p].refund EXCEPT !.status = "FAILED",
                                              !.retryable = agent[p].pc = "unavailable"]
  <2>1. copy.key = agent[p].refund.key /\ copy.status = "FAILED"
    BY <1>b DEF Refund
  <2>2. Leave(p) /\ payouts' = payouts /\ agent[p].pc \in WithCopy
    BY <1>9 DEF RecordFailure, WithCopy
  <2>3. CASE AssertTransition(agent[p].row, after)
    <3>1. Write(copy, after, Append(chain, "REFUND_FAILED"))
      BY <1>9, <2>3 DEF RecordFailure
    <3>2. refund'.status = "FAILED" /\ refund'.key = agent[p].refund.key
          /\ row' = after /\ chain' = Append(chain, "REFUND_FAILED")
      BY <2>1, <3>1 DEF Write
    <3>3. QED
      BY <1>e, <1>w, <2>2, <2>3, <3>2 DEF SilentFacts
  <2>4. CASE ~AssertTransition(agent[p].row, after)
    <3>1. UNCHANGED <<refund, row, chain>>
      BY <1>9, <2>4 DEF RecordFailure
    <3>2. QED
      BY <1>e, <1>s, <2>2, <3>1
  <2>5. QED
    BY <2>3, <2>4
<1>10. ASSUME NEW p \in Agents, RecordSuccess(p) PROVE RefundKind
  <2> DEFINE after == [row EXCEPT !.refundStatus = "COMPLETED", !.caseStatus = "RESOLVED"]
             copy  == [agent[p].refund EXCEPT !.status = "COMPLETED", !.retryable = FALSE]
  <2>1. copy.key = agent[p].refund.key /\ copy.status = "COMPLETED"
    BY <1>b DEF Refund
  <2>2. payouts' = payouts /\ agent[p].pc = "succeeded"
    BY <1>10 DEF RecordSuccess
  <2>3. agent[p].refund.key = refund.key /\ refund.status # "NONE"
    BY <1>b, <2>2 DEF WithCopy
  <2>4. CASE AssertTransition(agent[p].row, after)
    <3>1. Write(copy, after, CloseCase(Append(chain, "REFUND_COMPLETED"))) /\ Leave(p)
      BY <1>10, <2>4 DEF RecordSuccess
    <3>2. refund'.status = "COMPLETED" /\ refund'.key = refund.key
          /\ row' = after /\ chain' = CloseCase(Append(chain, "REFUND_COMPLETED"))
      BY <2>1, <2>3, <3>1 DEF Write
    <3>3. NobodySucceeds
      BY <1>e, <1>o, <3>1
    <3>4. Completes
      BY <2>2, <2>3, <3>2, <3>3 DEF Completes
    <3>5. QED
      BY <3>4 DEF RefundKind
  <2>5. CASE ~AssertTransition(agent[p].row, after)
    <3>1. Hold(p, "unavailable", copy) /\ UNCHANGED <<refund, row, chain>>
      BY <1>10, <2>5 DEF RecordSuccess
    <3>2. QED
      BY <1>d, <1>s, <2>2, <3>1
  <2>6. QED
    BY <2>4, <2>5
<1>11. QED
  BY <1>1, <1>2, <1>3, <1>4, <1>5, <1>6, <1>7, <1>8, <1>9, <1>10
     DEF RefundNext, AgentStep

(* Every step of an agent or of an operator is such a move.                *)
LEMMA RefundSteps ==
  ASSUME LifeInv, Owing, RefundNext PROVE RefundMove
<1>0. RefundKind /\ row \in TransactionRow
  BY RefundKinds DEF LifeInv, LifeTypeOK, TypeOK, StoreTypeOK
<1>1. CASE Passes
  <2>1. Owing'
    BY <1>1 DEF Passes, NobodySucceeds, Owing
  <2>2. QED
    BY <1>1, <2>1 DEF Passes, RefundMove, ColumnsStay
<1>2. CASE Drafts
  <2>1. Owing'
    BY <1>2, OwingKept DEF Drafts, NobodySucceeds, Owing
  <2>2. QED
    BY <1>2, <2>1 DEF Drafts, RefundMove, ColumnsStay
<1>3. CASE Asks
  <2>1. Owing'
    BY <1>3 DEF Asks, Owing
  <2>2. QED
    BY <1>3, <2>1 DEF Asks, RefundMove, ColumnsStay
<1>4. CASE Reopens
  <2>1. Owing'
    BY <1>4 DEF Reopens, Owing
  <2>2. QED
    BY <1>4, <2>1 DEF Reopens, RefundMove, ColumnsStay, SilentFacts
<1>5. CASE Stages
  <2>1. PICK s \in {"REQUESTED", "FAILED"}, e \in SilentFacts :
          /\ row.caseStatus # "RESOLVED" /\ row' = [row EXCEPT !.refundStatus = s]
          /\ refund.status # "NONE" /\ refund'.status = s /\ refund'.key = refund.key
          /\ chain' = Append(chain, e)
          /\ payouts' = payouts
          /\ NobodySucceeds
    BY <1>5 DEF Stages
  <2>2. refund.status # "COMPLETED" /\ row.caseStatus = "MANUAL_REVIEW"
    BY <2>1 DEF Owing
  <2>3. ColumnsStay /\ row'.refundStatus = s /\ row'.caseStatus = "MANUAL_REVIEW"
    BY <1>0, <2>1, <2>2, StageColumns DEF ColumnsStay
  <2>4. Owing'
    BY <2>1, <2>2, <2>3, OwingKept DEF NobodySucceeds
  <2>5. QED
    BY <2>1, <2>2, <2>3, <2>4 DEF RefundMove
<1>6. CASE Completes
  <2>1. refund.key \in payouts
    BY <1>6 DEF Completes, Owing
  <2>2. ColumnsStay /\ row'.refundStatus = "COMPLETED" /\ row'.caseStatus = "RESOLVED"
    BY <1>0, <1>6, StageColumns DEF Completes, ColumnsStay
  <2>3. Owing'
    BY <1>6, <2>1, <2>2, OwingKept DEF Completes, NobodySucceeds
  <2>4. QED
    BY <1>6, <2>2, <2>3 DEF Completes, RefundMove
<1>7. QED
  BY <1>0, <1>1, <1>2, <1>3, <1>4, <1>5, <1>6 DEF RefundKind
-----------------------------------------------------------------------------
(***************************************************************************)
(* The facts that move money                                               *)
(***************************************************************************)
Money == {"PROVIDER_CONFIRMED", "AMOUNT_MISMATCH_DETECTED", "SETTLEMENT_SWEPT",
          "BANK_PROCESSING_COMPLETED", "BANK_PROCESSING_FAILED", "REFUND_COMPLETED"}

Counted(type) == \A t \in Money : Recordings(t)' = IF t = type THEN Recordings(t) + 1 ELSE Recordings(t)
Uncounted == \A t \in Money : Recordings(t)' = Recordings(t)

(* What a step adds to the counts.                                         *)
LEMMA CountMoves ==
  ASSUME chain \in Seq(TransactionEventType)
  PROVE  /\ \A t \in Money : Recordings(t) \in Nat /\ (Recorded(t) <=> Recordings(t) # 0)
         /\ \A e \in TransactionEventType :
              chain' = Append(chain, e) \/ chain' = CloseCase(Append(chain, e)) =>
                Counted(e) /\ (e \notin Money => Uncounted)
         /\ chain' \in {chain, CloseCase(chain)} => Uncounted
         /\ chain' = chain \o <<"BANK_PROCESSING_FAILED", "CASE_OPENED">> => Counted("BANK_PROCESSING_FAILED")
         /\ chain' = chain \o <<"AMOUNT_MISMATCH_DETECTED", "BANK_PROCESSING_BLOCKED", "CASE_OPENED">> =>
              Counted("AMOUNT_MISMATCH_DETECTED")
<1>0. "CASE_OPENED" \in TransactionEventType
  BY DEF TransactionEventType
<1>1. ASSUME NEW t \in Money
      PROVE  t \notin {"CASE_CLOSED", "CASE_OPENED", "BANK_PROCESSING_BLOCKED"}
  BY DEF Money
<1>2. ASSUME NEW t \in Money PROVE Recordings(t) \in Nat /\ (Recorded(t) <=> Recordings(t) # 0)
  BY <1>0, CountAppended DEF Recordings, Recorded
<1>3. ASSUME NEW e \in TransactionEventType,
             chain' = Append(chain, e) \/ chain' = CloseCase(Append(chain, e))
      PROVE  Counted(e) /\ (e \notin Money => Uncounted)
  <2>1. ASSUME NEW t \in Money
        PROVE  Recordings(t)' = IF t = e THEN Recordings(t) + 1 ELSE Recordings(t)
    <3>1. /\ CountOf(Append(chain, e), t) = IF e = t THEN CountOf(chain, t) + 1 ELSE CountOf(chain, t)
          /\ CountOf(CloseCase(Append(chain, e)), t)
               = IF e = t THEN CountOf(chain, t) + 1 ELSE CountOf(chain, t)
      BY <1>1, CountFacts
    <3>2. QED
      BY <1>3, <3>1 DEF Recordings
  <2> HIDE DEF Recordings
  <2>2. Counted(e)
    BY <2>1 DEF Counted
  <2>3. ASSUME e \notin Money, NEW t \in Money PROVE Recordings(t)' = Recordings(t)
    BY <2>1, <2>3
  <2>4. QED
    BY <2>2, <2>3 DEF Uncounted
<1>4. ASSUME chain' \in {chain, CloseCase(chain)} PROVE Uncounted
  <2>1. ASSUME NEW t \in Money PROVE Recordings(t)' = Recordings(t)
    BY <1>0, <1>1, <1>4, CountFacts DEF Recordings
  <2>2. QED
    BY <2>1 DEF Uncounted
<1>5. ASSUME chain' = chain \o <<"BANK_PROCESSING_FAILED", "CASE_OPENED">> PROVE Counted("BANK_PROCESSING_FAILED")
  <2>1. ASSUME NEW t \in Money
        PROVE  Recordings(t)' = IF t = "BANK_PROCESSING_FAILED" THEN Recordings(t) + 1 ELSE Recordings(t)
    BY <1>0, <1>1, <1>5, CountFacts DEF Recordings
  <2>2. QED
    BY <2>1 DEF Counted
<1>6. ASSUME chain' = chain \o <<"AMOUNT_MISMATCH_DETECTED", "BANK_PROCESSING_BLOCKED", "CASE_OPENED">>
      PROVE  Counted("AMOUNT_MISMATCH_DETECTED")
  <2>1. ASSUME NEW t \in Money
        PROVE  Recordings(t)' = IF t = "AMOUNT_MISMATCH_DETECTED" THEN Recordings(t) + 1 ELSE Recordings(t)
    BY <1>0, <1>1, <1>6, CountFacts DEF Recordings
  <2>2. QED
    BY <2>1 DEF Counted
<1>7. QED
  BY <1>2, <1>3, <1>4, <1>5, <1>6

(* A step that counts nothing and leaves the leg as it is.                 *)
LEMMA TallyStays ==
  ASSUME Tally, Uncounted, row'.bankStatus = row.bankStatus, row = MatchedRow => row' = MatchedRow,
         refund'.status = "COMPLETED" <=> refund.status = "COMPLETED"
  PROVE  Tally'
<1>1. /\ Recordings("PROVIDER_CONFIRMED")' = Recordings("PROVIDER_CONFIRMED")
      /\ Recordings("AMOUNT_MISMATCH_DETECTED")' = Recordings("AMOUNT_MISMATCH_DETECTED")
      /\ Recordings("BANK_PROCESSING_COMPLETED")' = Recordings("BANK_PROCESSING_COMPLETED")
      /\ Recordings("BANK_PROCESSING_FAILED")' = Recordings("BANK_PROCESSING_FAILED")
      /\ Recordings("SETTLEMENT_SWEPT")' = Recordings("SETTLEMENT_SWEPT")
      /\ Recordings("REFUND_COMPLETED")' = Recordings("REFUND_COMPLETED")
  BY DEF Uncounted, Money
<1> HIDE DEF Recordings
<1>2. QED
  BY <1>1 DEF Tally

(* The moves of the flow count what they record.                           *)
LEMMA TallyFlows ==
  ASSUME IInv, ~InDebt, Tally, StoreMove, refund' = refund PROVE Tally'
<1>0. chain \in Seq(TransactionEventType)
  BY Lines
<1>t. {"PROVIDER_FAILED", "PROVIDER_CONFIRMED", "BANK_PROCESSING_COMPLETED", "RECONCILIATION_MATCHED",
       "PAYMENT_INITIATED"} \subseteq TransactionEventType
  BY DEF TransactionEventType
<1>a. ASSUME NEW m \in Money, Counted(m)
      PROVE  \A t \in Money : Recordings(t)' = IF t = m THEN Recordings(t) + 1 ELSE Recordings(t)
  BY <1>a DEF Counted
<1>b. \A t \in Money : Recordings(t) \in Nat
  BY <1>0, CountMoves
<1> DEFINE PC == Recordings("PROVIDER_CONFIRMED")
           AM == Recordings("AMOUNT_MISMATCH_DETECTED")
           BC == Recordings("BANK_PROCESSING_COMPLETED")
           BF == Recordings("BANK_PROCESSING_FAILED")
           SS == Recordings("SETTLEMENT_SWEPT")
           RC == Recordings("REFUND_COMPLETED")
<1>1. CASE UNCHANGED <<row, chain>>
  BY <1>0, <1>1, CountMoves, TallyStays
<1>2. CASE Opens
  <2>1. chain = << >> /\ chain' = Append(chain, "PAYMENT_INITIATED") /\ row' = row
    BY <1>2 DEF Opens, RowExists
  <2>2. Uncounted
    BY <1>0, <1>t, <2>1, CountMoves DEF Money
  <2>3. QED
    BY <2>1, <2>2, TallyStays
<1>3. CASE Refuses
  <2>1. Uncounted
    BY <1>0, <1>3, <1>t, CountMoves DEF Money, Refuses
  <2>2. row'.bankStatus = row.bankStatus /\ row # MatchedRow
    BY <1>3, LineFields, LinesApart DEF Refuses
  <2>3. QED
    BY <2>1, <2>2, TallyStays
<1>4. CASE Collects
  <2>1. Counted("PROVIDER_CONFIRMED")
    BY <1>0, <1>4, <1>t, CountMoves DEF Collects
  <2>2. PC' = PC + 1 /\ AM' = AM /\ BC' = BC /\ BF' = BF /\ SS' = SS /\ RC' = RC
    BY <2>1 DEF Counted, Money
  <2>3. row.bankStatus = "NOT_STARTED" /\ row # MatchedRow /\ row'.bankStatus = "PROCESSING"
    BY <1>4, LineFields, LinesApart DEF Collects
  <2>4. QED
    BY <2>2, <2>3 DEF Tally, If, InstructedLeg
<1>5. CASE Withholds
  <2>1. Counted("AMOUNT_MISMATCH_DETECTED")
    BY <1>0, <1>5, CountMoves DEF Withholds
  <2>2. PC' = PC /\ AM' = AM + 1 /\ BC' = BC /\ BF' = BF /\ SS' = SS /\ RC' = RC
    BY <2>1 DEF Counted, Money
  <2>3. row.bankStatus = "NOT_STARTED" /\ row # MatchedRow /\ row'.bankStatus = "BLOCKED"
    BY <1>5, LineFields, LinesApart DEF Withholds
  <2>4. QED
    BY <2>2, <2>3 DEF Tally, If, InstructedLeg
<1>6. CASE Executes
  <2>1. Counted("BANK_PROCESSING_COMPLETED")
    BY <1>0, <1>6, <1>t, CountMoves DEF Executes
  <2>2. PC' = PC /\ AM' = AM /\ BC' = BC + 1 /\ BF' = BF /\ SS' = SS /\ RC' = RC
    BY <2>1 DEF Counted, Money
  <2>3. row.bankStatus = "PROCESSING" /\ row # MatchedRow /\ row'.bankStatus = "COMPLETED"
    BY <1>6, LineFields, LinesApart DEF Executes
  <2>4. QED
    BY <2>2, <2>3 DEF Tally, If, InstructedLeg
<1>7. CASE Fails
  <2>1. Counted("BANK_PROCESSING_FAILED")
    BY <1>0, <1>7, CountMoves DEF Fails
  <2>2. PC' = PC /\ AM' = AM /\ BC' = BC /\ BF' = BF + 1 /\ SS' = SS /\ RC' = RC
    BY <2>1 DEF Counted, Money
  <2>3. row.bankStatus = "PROCESSING" /\ row # MatchedRow /\ row'.bankStatus = "FAILED"
    BY <1>7, LineFields, LinesApart, LineTells DEF Fails
  <2>4. QED
    BY <2>2, <2>3 DEF Tally, If, InstructedLeg
<1>8. CASE Matches
  <2>1. Uncounted
    BY <1>0, <1>8, <1>t, CountMoves DEF Money, Matches
  <2>2. row'.bankStatus = row.bankStatus /\ row' = MatchedRow
    BY <1>8, LineFields DEF Matches
  <2>3. QED
    BY <2>1, <2>2, TallyStays
<1>9. CASE Repairs
  <2>1. Uncounted /\ row' = row
    BY <1>0, <1>9, CountMoves DEF Repairs
  <2>2. QED
    BY <2>1, TallyStays
<1>10. QED
  BY <1>1, <1>2, <1>3, <1>4, <1>5, <1>6, <1>7, <1>8, <1>9 DEF StoreMove

(* So do those of a refund.                                                *)
LEMMA TallyRefunds ==
  ASSUME LifeInv, InDebt, Quiet, Owing, Tally, RefundMove PROVE Tally'
<1>0. chain \in Seq(TransactionEventType) /\ refund.status # "NOT_REQUIRED"
  BY DEF LifeInv, LifeTypeOK, TypeOK, StoreTypeOK, Owing
<1>1. row # MatchedRow /\ row'.bankStatus = row.bankStatus
  BY LineFields DEF InDebt, LostLeg, RefundMove, ColumnsStay
<1>2. CASE chain' = CloseCase(Append(chain, "REFUND_COMPLETED")) /\ refund'.status = "COMPLETED"
  <2>1. Counted("REFUND_COMPLETED")
    BY <1>0, <1>2, CountMoves DEF TransactionEventType
  <2>2. /\ Recordings("PROVIDER_CONFIRMED")' = Recordings("PROVIDER_CONFIRMED")
        /\ Recordings("AMOUNT_MISMATCH_DETECTED")' = Recordings("AMOUNT_MISMATCH_DETECTED")
        /\ Recordings("BANK_PROCESSING_COMPLETED")' = Recordings("BANK_PROCESSING_COMPLETED")
        /\ Recordings("BANK_PROCESSING_FAILED")' = Recordings("BANK_PROCESSING_FAILED")
        /\ Recordings("SETTLEMENT_SWEPT")' = Recordings("SETTLEMENT_SWEPT")
        /\ Recordings("REFUND_COMPLETED")' = Recordings("REFUND_COMPLETED") + 1
    BY <2>1 DEF Counted, Money
  <2>3. QED
    BY <1>1, <1>2, <2>2 DEF Tally
<1>3. CASE /\ chain' \in {chain, CloseCase(chain)} \/ \E e \in SilentFacts : chain' = Append(chain, e)
           /\ refund'.status = "COMPLETED" <=> refund.status = "COMPLETED"
  <2>1. SilentFacts \subseteq TransactionEventType /\ \A e \in SilentFacts : e \notin Money
    BY DEF SilentFacts, TransactionEventType, Money
  <2>2. Uncounted
    BY <1>0, <1>3, <2>1, CountMoves
  <2>3. QED
    BY <1>1, <1>3, <2>2, TallyStays
<1>4. QED
  BY <1>2, <1>3 DEF RefundMove
-----------------------------------------------------------------------------
(***************************************************************************)
(* The sweep beside the flow                                               *)
(***************************************************************************)
Swept == /\ chain' = Append(chain, "SETTLEMENT_SWEPT")
         /\ UNCHANGED <<row, instr, leaseExpired, crashes, dbFaults, webhookVars, bankVars, refundVars>>

(* The fact of a sweep disturbs nothing that the flow rests on.            *)
LEMMA SweepKeepsFlow ==
  ASSUME IInv, LeaseInv, Swept PROVE IInv' /\ LeaseInv' /\ RowExists'
<1>1. chain \in Seq(TransactionEventType) /\ "SETTLEMENT_SWEPT" \in TransactionEventType
  BY Lines DEF TransactionEventType
<1>2. chain' \in Seq(TransactionEventType) /\ RowExists'
  BY <1>1, AppendHolds, NotEmpty DEF Swept, RowExists
<1>3. ASSUME NEW t, t # "CASE_CLOSED", t # "SETTLEMENT_SWEPT" PROVE Recorded(t)' <=> Recorded(t)
  BY <1>1, <1>3, AddedFacts DEF Swept, Recorded
<1>4. /\ Recorded("PROVIDER_CONFIRMED")' <=> Recorded("PROVIDER_CONFIRMED")
      /\ Recorded("AMOUNT_MISMATCH_DETECTED")' <=> Recorded("AMOUNT_MISMATCH_DETECTED")
      /\ Recorded("PROVIDER_FAILED")' <=> Recorded("PROVIDER_FAILED")
      /\ Recorded("BANK_PROCESSING_COMPLETED")' <=> Recorded("BANK_PROCESSING_COMPLETED")
      /\ Recorded("BANK_PROCESSING_FAILED")' <=> Recorded("BANK_PROCESSING_FAILED")
      /\ Recorded("CASE_OPENED")' <=> Recorded("CASE_OPENED")
      /\ Recorded("RECONCILIATION_MATCHED")' <=> Recorded("RECONCILIATION_MATCHED")
  BY <1>3
<1>5. /\ UNCHANGED <<row, instr, leaseExpired, crashes, dbFaults>>
      /\ UNCHANGED <<worker, reconciler, paid, handler>> /\ UNCHANGED <<refund, agent>>
      /\ UNCHANGED <<webhookVars, bankVars>>
  BY DEF Swept, webhookVars, bankVars, refundVars
<1>6. TypeOK'
  <2>1. /\ TypeOK /\ row' \in TransactionRow /\ crashes' \in 0..MaxCrashes
        /\ dbFaults' \in 0..MaxDbFaults
    BY <1>5 DEF IInv, TypeOK, StoreTypeOK
  <2>2. QED
    BY <1>2, <1>5, <2>1, StoreFrame
<1> HIDE DEF Recorded
<1>7. Shape'
  <2>1. LineShape' /\ FactsShape'
    BY <1>4, <1>5 DEF IInv, Shape, LineShape, FactsShape
  <2>2. WorkerShape' /\ ReconcilerShape' /\ (paid > 0 => instr.status # "NONE")'
    BY <1>5 DEF IInv, Shape, WorkerShape, ReconcilerShape
  <2>3. QED
    BY <2>1, <2>2 DEF Shape
<1>8. Exclusive' /\ Fresh' /\ Abandoned'
  BY <1>2, <1>5 DEF LeaseInv, Exclusive, Fresh, Abandoned
<1>9. Told'
  BY <1>2, <1>4, <1>5 DEF LeaseInv, Told
<1>10. QED
  BY <1>2, <1>6, <1>7, <1>8, <1>9 DEF IInv, LeaseInv

(* It is counted once, on the matched line.                                *)
LEMMA TallySweeps ==
  ASSUME IInv, Tally, Matched, ~Recorded("SETTLEMENT_SWEPT"), Swept PROVE Tally'
<1>0. chain \in Seq(TransactionEventType) /\ "SETTLEMENT_SWEPT" \in TransactionEventType
  BY Lines DEF TransactionEventType
<1>1. Counted("SETTLEMENT_SWEPT") /\ Recordings("SETTLEMENT_SWEPT") = 0
  BY <1>0, CountMoves DEF Swept, Money
<1>2. /\ Recordings("PROVIDER_CONFIRMED")' = Recordings("PROVIDER_CONFIRMED")
      /\ Recordings("AMOUNT_MISMATCH_DETECTED")' = Recordings("AMOUNT_MISMATCH_DETECTED")
      /\ Recordings("BANK_PROCESSING_COMPLETED")' = Recordings("BANK_PROCESSING_COMPLETED")
      /\ Recordings("BANK_PROCESSING_FAILED")' = Recordings("BANK_PROCESSING_FAILED")
      /\ Recordings("SETTLEMENT_SWEPT")' = Recordings("SETTLEMENT_SWEPT") + 1
      /\ Recordings("REFUND_COMPLETED")' = Recordings("REFUND_COMPLETED")
  BY <1>1 DEF Counted, Money
<1>3. row = MatchedRow
  BY MatchedLine DEF Matched
<1>4. row' = row /\ refund' = refund
  BY DEF Swept, refundVars
<1> HIDE DEF Recordings
<1>5. QED
  BY <1>1, <1>2, <1>3, <1>4 DEF Tally
-----------------------------------------------------------------------------
(***************************************************************************)
(* The invariant is inductive                                              *)
(***************************************************************************)

(* At the start there is no debt, and nothing was recorded.                *)
LEMMA DebtStart == TreasuryInit => DebtInv
<1> SUFFICES ASSUME TreasuryInit PROVE DebtInv
  OBVIOUS
<1>1. Init /\ RefundInit /\ row = InitialRow /\ chain = << >> /\ LifeInit
  BY DEF TreasuryInit, LifeInit, Init, StoreInit
<1>2. IInv /\ LeaseInv /\ LifeInv
  BY <1>1, ShapeInit, LeaseStart, LifeStart
<1>3. Caught /\ Idle
  BY <1>1 DEF Init, BankInit, IdleWorker, RefundInit, IdleAgent, Caught, Idle
<1>4. row.bankStatus = "NOT_STARTED" /\ refund.status = "NONE"
  BY <1>1, LineFields DEF RefundInit, NoRefund
<1>5. \A t : Recordings(t) = 0
  <2>1. ASSUME NEW t PROVE {i \in DOMAIN chain : chain[i] = t} = {}
    BY <1>1
  <2>2. QED
    BY <2>1, FS_EmptySet DEF Recordings, CountOf
<1>6. Tally
  BY <1>4, <1>5 DEF Tally, If, InstructedLeg
<1>7. QED
  BY <1>2, <1>3, <1>4, <1>6, LineTells DEF DebtInv, InDebt, LostLeg, Flowing

(* A debt is born with the columns that make it claimable.                 *)
Claimed == row.refundStatus = "REQUIRED" /\ row.caseStatus = "MANUAL_REVIEW"

(* The line of a leg that was just lost shows them.                        *)
LEMMA DebtIsClaimed == ASSUME IInv PROVE Amount /\ (InDebt => Claimed)
  BY LineTells DEF Claimed

(* A step of the flow before the loss, and the step that loses the leg.    *)
LEMMA FlowingStep ==
  ASSUME ~SlowWorkers, MaxDbFaults = 0, LifeInv, ~InDebt, Flowing, Tally, [Next]_vars, UNCHANGED refundVars
  PROVE  Flowing' /\ Tally' /\ Amount' /\ (InDebt' => Quiet' /\ Owing')
<1>0. IInv /\ LeaseInv /\ Caught /\ Idle /\ UNCHANGED <<refund, agent, payouts>>
  BY DEF Flowing, refundVars
<1>1. IInv' /\ LeaseInv' /\ StoreMove /\ Caught'
  BY <1>0, ShapeStep, LeaseStep, CaughtStep
<1>2. Idle'
  BY <1>0 DEF Idle
<1>3. Tally'
  BY <1>0, <1>1, TallyFlows
<1>4. IInv' => Amount' /\ (InDebt' => Claimed')
  BY DebtIsClaimed, PTL
<1>5. IInv' /\ LeaseInv' /\ Caught' /\ InDebt' => Quiet'
  BY QuietAtBirth, PTL
<1>6. InDebt' => Owing'
  BY <1>1, <1>2, <1>4 DEF Idle, NoRefund, Owing, Claimed
<1>7. QED
  BY <1>1, <1>2, <1>3, <1>4, <1>5, <1>6 DEF Flowing

(* A step of the flow, of an agent or of a sweep after the loss.           *)
LEMMA OwingStep ==
  ASSUME MaxDbFaults = 0, LifeInv, InDebt, Quiet, Owing, Tally, Amount,
         \/ [Next]_vars /\ UNCHANGED refundVars
         \/ RefundNext /\ UNCHANGED <<webhookVars, bankVars>>
  PROVE  InDebt' /\ Quiet' /\ Owing' /\ Tally' /\ Amount'
<1>0. chain \in Seq(TransactionEventType) /\ TypeOK
  BY DEF LifeInv, LifeTypeOK, TypeOK, StoreTypeOK
<1>1. CASE [Next]_vars /\ UNCHANGED refundVars
  <2>1. Quiet' /\ UNCHANGED <<row, chain>> /\ UNCHANGED <<refund, agent, payouts>>
    BY <1>0, <1>1, QuietStep DEF refundVars
  <2>2. Uncounted
    BY <1>0, <2>1, CountMoves
  <2>3. Tally'
    BY <2>1, <2>2, TallyStays
  <2>4. QED
    BY <2>1, <2>3 DEF InDebt, LostLeg, Owing, Amount
<1>2. CASE RefundNext /\ UNCHANGED <<webhookVars, bankVars>>
  <2>1. RefundMove
    BY <1>2, RefundSteps
  <2>2. Tally' /\ Owing'
    BY <2>1, TallyRefunds DEF RefundMove
  <2>3. InDebt' /\ Amount' /\ row'.reconciliationStatus = row.reconciliationStatus
    BY <2>1 DEF RefundMove, ColumnsStay, InDebt, LostLeg, Amount
  <2>4. RowExists'
    <3>1. SilentFacts \subseteq TransactionEventType /\ "REFUND_COMPLETED" \in TransactionEventType
      BY DEF SilentFacts, TransactionEventType
    <3>2. QED
      BY <1>0, <2>1, <3>1, NotEmpty DEF RefundMove, RowExists, Quiet
  <2>5. Quiet'
    BY <1>2, <2>3, <2>4 DEF Quiet, webhookVars, bankVars
  <2>6. QED
    BY <2>2, <2>3, <2>5
<1>3. QED
  BY <1>1, <1>2

(* A sweep that takes nothing, or takes the funds of a matched case.       *)
LEMMA SweepStep ==
  ASSUME DebtInv, NEW s \in Sweepers, SelectEligible(s) \/ SweepOne(s) \/ SweepStops(s) PROVE DebtInv'
<1>1. CASE UNCHANGED lifeVars
  <2>1. UNCHANGED <<row, chain, instr, leaseExpired>> /\ UNCHANGED <<crashes, dbFaults>>
        /\ UNCHANGED <<webhookVars, bankVars>> /\ UNCHANGED <<inbox, claimExpired, handler>>
        /\ UNCHANGED <<worker, reconciler, paid>>
        /\ UNCHANGED <<refund, agent, payouts>> /\ UNCHANGED <<failures, reopenings>>
    BY <1>1 DEF lifeVars, vars, storeVars, webhookVars, bankVars, refundVars
  <2>2. LifeInv'
    BY <1>1, LifeStep DEF DebtInv
  <2>3. Flowing => Flowing'
    <3>1. SUFFICES ASSUME Flowing PROVE Flowing'
      OBVIOUS
    <3>2. IInv'
      BY <1>1, <3>1, ShapeStep DEF Flowing, lifeVars
    <3>3. LeaseInv'
      BY <2>1, <3>1 DEF Flowing, LeaseInv, Exclusive, Fresh, Told, Abandoned, Recorded, RowExists
    <3>4. QED
      BY <2>1, <3>1, <3>2, <3>3 DEF Flowing, Caught, Idle
  <2>4. Tally' <=> Tally
    BY <2>1 DEF Tally, Recordings
  <2>5. (Quiet => Quiet') /\ (Owing => Owing') /\ (Amount => Amount') /\ (InDebt' <=> InDebt)
    BY <2>1 DEF Quiet, Owing, Amount, InDebt, LostLeg, RowExists
  <2>6. QED
    BY <2>2, <2>3, <2>4, <2>5 DEF DebtInv
<1>2. CASE Swept /\ Matched /\ ~Recorded("SETTLEMENT_SWEPT")
  <2>1. ~InDebt
    BY <1>2 DEF DebtInv, Quiet, Matched
  <2>2. Flowing /\ Tally /\ LifeInv /\ Amount
    BY <2>1 DEF DebtInv
  <2>3. Flowing' /\ Tally'
    <3>1. IInv' /\ LeaseInv' /\ Tally'
      BY <1>2, <2>2, SweepKeepsFlow, TallySweeps DEF Flowing
    <3>2. Caught' /\ Idle'
      BY <1>2, <2>2 DEF Swept, bankVars, refundVars, Flowing, Caught, Idle
    <3>3. QED
      BY <3>1, <3>2 DEF Flowing
  <2>4. UNCHANGED <<row, refund, agent>> /\ UNCHANGED <<payouts, failures, reopenings>>
    BY <1>2 DEF Swept, refundVars
  <2>5. LifeInv'
    BY <2>2, <2>3, <2>4 DEF LifeInv, LifeTypeOK, RefundTypeOK, OneKey, Flowing, IInv
  <2>6. ~InDebt' /\ Amount'
    BY <2>1, <2>2, <2>4 DEF InDebt, LostLeg, Amount
  <2>7. QED
    BY <2>3, <2>5, <2>6 DEF DebtInv
<1>3. QED
  BY <1>1, <1>2 DEF SelectEligible, SweepOne, SweepStops, Swept, lifeVars, vars, storeVars

(* Every step keeps the invariant, and once the debt is there it moves by  *)
(* the steps of its refund alone.                                          *)
LEMMA DebtStep ==
  ASSUME ~SlowWorkers, MaxDbFaults = 0, DebtInv, [TreasuryNext]_treasuryVars PROVE DebtInv'
<1>1. CASE [LifeNext]_lifeVars
  <2>1. LifeInv'
    BY <1>1, LifeStep DEF DebtInv
  <2>2. \/ [Next]_vars /\ UNCHANGED refundVars
        \/ RefundNext /\ UNCHANGED <<webhookVars, bankVars>>
    BY <1>1 DEF LifeNext, lifeVars
  <2>3. CASE InDebt
    BY <2>1, <2>2, <2>3, OwingStep DEF DebtInv
  <2>4. CASE ~InDebt
    <3>1. ~RefundNext
      BY <2>4, NothingToRefund DEF DebtInv, Flowing
    <3>2. QED
      BY <2>1, <2>2, <2>4, <3>1, FlowingStep DEF DebtInv
  <2>5. QED
    BY <2>3, <2>4
<1>2. CASE \E s \in Sweepers : SelectEligible(s) \/ SweepOne(s) \/ SweepStops(s)
  BY <1>2, SweepStep
<1>3. QED
  BY <1>1, <1>2 DEF TreasuryNext, treasuryVars

(* The invariant holds in every behaviour.                                 *)
LEMMA DebtInductive == ASSUME ~SlowWorkers, MaxDbFaults = 0 PROVE TreasurySpec => []DebtInv
<1>1. DebtInv /\ [TreasuryNext]_treasuryVars => DebtInv'
  BY DebtStep
<1>2. QED
  BY <1>1, DebtStart, PTL DEF TreasurySpec
-----------------------------------------------------------------------------
(***************************************************************************)
(* When SQL statements fail                                                *)
(*                                                                         *)
(* A worker whose acknowledgement fails keeps its copy of a lost leg and   *)
(* writes it again when its attempts are exhausted.  The debt is then      *)
(* booked twice and its refund forgotten on the line, but the leg stays    *)
(* lost: a weaker invariant than DebtInv holds of resolutions and sweeps.  *)
(***************************************************************************)

(* Once a leg is lost, whoever of the flow has a copy has that of a lost   *)
(* leg.                                                                    *)
Lost ==
  /\ RowExists
  /\ row.reconciliationStatus # "MATCHED"
  /\ \A w \in Workers :
       \/ worker[w].pc = "idle"
       \/ worker[w].pc \in {"claimed", "done", "error"} /\ worker[w].row.bankStatus \in LostLeg
  /\ \A r \in Reconcilers : reconciler[r].pc = "idle"
  /\ \A h \in Handlers : handler[h].pc # "repair"

(* A resolved case, or a success that is about to resolve it, was paid.    *)
Repaid ==
  /\ row.caseStatus = "RESOLVED" => refund.status = "COMPLETED" /\ refund.key \in payouts
  /\ \A p \in Agents : agent[p].pc = "succeeded" => refund.key \in payouts

SweptMatched ==
  /\ Recordings("SETTLEMENT_SWEPT") \in {0, 1}
  /\ Recordings("SETTLEMENT_SWEPT") = 1 => row = MatchedRow

LossInv ==
  /\ LifeInv
  /\ ~InDebt => IInv /\ LeaseInv /\ Idle
  /\ InDebt => Lost
  /\ Repaid
  /\ SweptMatched

(* The worker that lost the leg is the only one with a copy.               *)
LEMMA LostAtBirth == ASSUME IInv, LeaseInv, InDebt PROVE Lost
<1>1. row \in BlockedRows \union {OwedRow}
  BY LineTells
<1>2. ASSUME NEW w \in Workers, worker[w].pc # "idle" PROVE worker[w].row = OwedRow
  BY <1>1, <1>2, Lines, LinesApart DEF LeaseInv, Exclusive, Fresh, FitsLine
<1>3. ASSUME NEW w \in Workers, worker[w].pc # "idle"
      PROVE  worker[w].pc \in {"claimed", "done", "error"} /\ worker[w].row.bankStatus \in LostLeg
  <2>1. worker[w].pc \in WorkerSteps
    BY Lines DEF WorkerMemory
  <2>2. worker[w].pc \notin {"executed", "refused", "reconcile"}
    BY <1>2, <1>3, Lines, LinesApart
  <2>3. OwedRow.bankStatus \in LostLeg
    BY LineFields DEF LostLeg
  <2>4. QED
    BY <1>2, <1>3, <2>1, <2>2, <2>3 DEF WorkerSteps
<1>4. \A r \in Reconcilers : reconciler[r].pc = "idle"
  BY <1>1, LinesApart DEF LeaseInv, Fresh, IInv, TypeOK, BankTypeOK, ReconcilerMemory
<1>5. \A h \in Handlers : handler[h].pc # "repair"
  BY <1>1, LinesApart DEF LeaseInv, Fresh
<1>6. RowExists
  BY <1>1, LinesApart DEF LeaseInv, Told
<1>7. row.reconciliationStatus # "MATCHED"
  BY <1>1, MatchedLine, LinesApart
<1>8. QED
  BY <1>3, <1>4, <1>5, <1>6, <1>7 DEF Lost

(* What a step of the flow does to a lost leg: nothing, or it is lost once *)
(* more.                                                                   *)
LostAgain ==
  /\ row'.bankStatus = "FAILED" /\ row'.reconciliationStatus = "MANUAL_REVIEW"
  /\ row'.caseStatus = "MANUAL_REVIEW"
  /\ chain' = chain \o <<"BANK_PROCESSING_FAILED", "CASE_OPENED">>

(* A worker with the copy of a lost leg skips the call and acknowledges    *)
(* its instruction, or comes to its catch with that copy.                  *)
LEMMA LostStep ==
  ASSUME TypeOK, InDebt, Lost, [Next]_vars
  PROVE  Lost' /\ (UNCHANGED <<row, chain>> \/ LostAgain)
<1> DEFINE At(w) == \/ worker'[w].pc = "idle"
                    \/ worker'[w].pc \in {"claimed", "done", "error"} /\ worker'[w].row.bankStatus \in LostLeg
           Others(w) == \A v \in Workers \ {w} : worker'[v] = worker[v]
<1>0. chain \in Seq(TransactionEventType) /\ "CASE_OPENED" \in TransactionEventType
  BY DEF TypeOK, StoreTypeOK, TransactionEventType
<1>a. ASSUME UNCHANGED <<row, chain, worker, reconciler>>, \A h \in Handlers : handler'[h].pc # "repair"
      PROVE  Lost'
  BY <1>a DEF Lost, RowExists
<1>b. ASSUME UNCHANGED <<row, chain, reconciler, handler>>, NEW w \in Workers, Others(w), At(w)
      PROVE  Lost'
  BY <1>b DEF Lost, RowExists
<1>1. CASE UNCHANGED vars
  BY <1>1, <1>a DEF Lost, vars, storeVars, webhookVars, bankVars
<1>2. CASE WebhookNext /\ UNCHANGED bankVars
  <2>1. UNCHANGED <<row, chain>> /\ \A h \in Handlers : handler'[h].pc # "repair"
    BY <1>2, HandlersStandBy DEF Lost
  <2>2. QED
    BY <1>2, <1>a, <2>1 DEF bankVars
<1>3. ASSUME NEW w \in Workers, WorkerStep(w) \/ WorkerCrash(w) \/ WorkerDbFault(w), UNCHANGED webhookVars
      PROVE  Lost' /\ (UNCHANGED <<row, chain>> \/ LostAgain)
  <2>0. /\ \/ worker[w].pc = "idle"
           \/ worker[w].pc \in {"claimed", "done", "error"} /\ worker[w].row.bankStatus \in LostLeg
        /\ worker[w].row \in TransactionRow
    BY WorkerChange DEF Lost, WorkerMemory
  <2>1. CASE ClaimNext(w)
    <3>1. Others(w) /\ At(w)
      BY <2>1, WorkerChange DEF InDebt
    <3>2. QED
      BY <1>3, <1>b, <2>1, <3>1 DEF ClaimNext, webhookVars
  <2>2. CASE Release(w) /\ UNCHANGED <<row, chain, reconciler>>
    BY <1>3, <1>b, <2>2, WorkerChange DEF webhookVars
  <2>3. CASE WorkerDbFault(w)
    <3>1. UNCHANGED <<row, chain, reconciler>>
      BY <2>3 DEF WorkerDbFault
    <3>2. CASE Release(w)
      BY <2>2, <3>1, <3>2
    <3>3. CASE StepWith(w, "error", Mutated(w)) /\ worker[w].pc # "idle"
      <4>1. Mutated(w) = worker[w].row
        BY <2>0, <3>3 DEF Mutated
      <4>2. worker'[w].pc = "error" /\ worker'[w].row = worker[w].row /\ Others(w)
        BY <2>0, <3>3, <4>1, WorkerChange DEF WorkerSteps
      <4>3. At(w)
        BY <2>0, <3>3, <4>2
      <4>4. QED
        BY <1>3, <1>b, <3>1, <4>2, <4>3 DEF webhookVars
    <3>4. QED
      BY <2>3, <3>2, <3>3 DEF WorkerDbFault
  <2>4. CASE DeadLetter(w)
    <3>1. CASE UNCHANGED <<row, chain>>
      BY <2>2, <2>4, <3>1 DEF DeadLetter
    <3>2. CASE /\ row' = Indebted(worker[w].row)
               /\ chain' = chain \o <<"BANK_PROCESSING_FAILED", "CASE_OPENED">>
      <4>1. LostAgain
        BY <2>0, <3>2 DEF LostAgain, Indebted, TransactionRow
      <4>2. RowExists'
        BY <1>0, <3>2, NotEmpty DEF RowExists
      <4>3. Others(w) /\ worker'[w].pc = "idle" /\ UNCHANGED reconciler
        BY <2>4, WorkerChange DEF DeadLetter
      <4>4. Lost'
        BY <1>3, <4>1, <4>2, <4>3 DEF Lost, LostAgain, webhookVars
      <4>5. QED
        BY <4>1, <4>4
    <3>3. QED
      BY <2>4, <3>1, <3>2 DEF DeadLetter
  <2>5. CASE SkipSettled(w) \/ Complete(w) \/ Retry(w) \/ WorkerCrash(w)
    BY <2>2, <2>5 DEF SkipSettled, Complete, Retry, WorkerCrash
  <2>6. ~CallBank(w) /\ ~ApplyBankSuccess(w) /\ ~HandleBankFailure(w) /\ ~Reconcile(w)
    BY <2>0 DEF CallBank, ApplyBankSuccess, HandleBankFailure, Reconcile, BankLegSettled, LostLeg
  <2>7. QED
    BY <1>3, <2>1, <2>3, <2>4, <2>5, <2>6 DEF WorkerStep
<1>4. CASE \E r \in Reconcilers : RunPending(r) \/ RunPendingAborts(r)
  BY <1>4 DEF RunPending, RunPendingLoad, RunPendingReconcile, RunPendingAborts, Lost, InDebt, LostLeg
<1>5. CASE LeaseExpires /\ UNCHANGED webhookVars
  BY <1>5, <1>a DEF LeaseExpires, bankVars, webhookVars, Lost
<1>6. QED
  BY <1>1, <1>2, <1>3, <1>4, <1>5 DEF Next, Initiate, BankNext, Lost

(* No move of the flow records a sweep or leaves the matched line.         *)
LEMMA SweptFlows ==
  ASSUME IInv, StoreMove, SweptMatched PROVE SweptMatched'
<1>0. chain \in Seq(TransactionEventType)
  BY Lines
<1>1. {"PROVIDER_FAILED", "PROVIDER_CONFIRMED", "BANK_PROCESSING_COMPLETED", "RECONCILIATION_MATCHED",
       "PAYMENT_INITIATED"} \subseteq TransactionEventType
  BY DEF TransactionEventType
<1>2. row = MatchedRow => row' = MatchedRow
  BY LinesApart DEF StoreMove, Opens, Refuses, Collects, Withholds, Executes, Fails, Matches, Repairs
<1> DEFINE SS == Recordings("SETTLEMENT_SWEPT")
<1>3. \A e \in TransactionEventType \ {"SETTLEMENT_SWEPT"} : Counted(e) => SS' = SS
  BY DEF Counted, Money
<1>4. Uncounted => SS' = SS
  BY DEF Uncounted, Money
<1>5. Opens => chain' = Append(chain, "PAYMENT_INITIATED")
  BY DEF Opens, RowExists
<1>6. \/ chain' \in {chain, CloseCase(chain)}
      \/ \E e \in TransactionEventType \ {"SETTLEMENT_SWEPT"} :
           chain' = Append(chain, e) \/ chain' = CloseCase(Append(chain, e))
      \/ chain' = chain \o <<"BANK_PROCESSING_FAILED", "CASE_OPENED">>
      \/ chain' = chain \o <<"AMOUNT_MISMATCH_DETECTED", "BANK_PROCESSING_BLOCKED", "CASE_OPENED">>
  BY <1>1, <1>5 DEF StoreMove, Refuses, Collects, Withholds, Executes, Fails, Matches, Repairs
<1>7. {"BANK_PROCESSING_FAILED", "AMOUNT_MISMATCH_DETECTED"}
        \subseteq TransactionEventType \ {"SETTLEMENT_SWEPT"}
  BY DEF TransactionEventType
<1>8. Uncounted \/ \E e \in TransactionEventType \ {"SETTLEMENT_SWEPT"} : Counted(e)
  BY <1>0, <1>6, <1>7, CountMoves
<1>9. SS' = SS
  BY <1>3, <1>4, <1>8
<1> HIDE DEF SS
<1>10. QED
  BY <1>2, <1>9 DEF SweptMatched, SS

Unresolved == row.caseStatus # "RESOLVED"

(* The flow alone resolves no case.                                        *)
LEMMA FlowUnresolved == ASSUME IInv PROVE Unresolved
  BY LineTells DEF Unresolved

(* A step of the flow before the loss, and the step that loses the leg.    *)
LEMMA LossFlows ==
  ASSUME ~SlowWorkers, LossInv, ~InDebt, [Next]_vars, UNCHANGED refundVars, LifeInv' PROVE LossInv'
<1>0. IInv /\ LeaseInv /\ Idle /\ Repaid /\ SweptMatched /\ UNCHANGED <<refund, agent, payouts>>
  BY DEF LossInv, refundVars
<1>1. IInv' /\ LeaseInv' /\ StoreMove
  BY <1>0, ShapeStep, LeaseStep
<1>2. Idle'
  BY <1>0 DEF Idle
<1>3. IInv' /\ LeaseInv' /\ InDebt' => Lost'
  BY LostAtBirth, PTL
<1>4. IInv' => Unresolved'
  BY FlowUnresolved, PTL
<1>5. Repaid'
  BY <1>1, <1>2, <1>4 DEF Repaid, Idle, Unresolved
<1>6. SweptMatched'
  BY <1>0, <1>1, SweptFlows
<1>7. QED
  BY <1>1, <1>2, <1>3, <1>5, <1>6 DEF LossInv

(* A success is written on a case that was paid, and a resolved case stays *)
(* so: whichever agent writes last, its copy has the key that was paid.    *)
LEMMA RepaidStep ==
  ASSUME LifeInv, Repaid, RefundNext
  PROVE  /\ Repaid' /\ ColumnsStay
         /\ chain' \in {chain, CloseCase(chain)} \/
            \E e \in SilentFacts \union {"REFUND_COMPLETED"} :
              chain' = Append(chain, e) \/ chain' = CloseCase(Append(chain, e))
<1>0. RefundKind /\ row \in TransactionRow
  BY RefundKinds DEF LifeInv, LifeTypeOK, TypeOK, StoreTypeOK
<1>1. \A q \in Agents : agent[q].pc = "succeeded" => refund.status # "NONE"
  BY DEF LifeInv, OneKey, WithCopy
<1>2. CASE Passes
  <2>1. Repaid'
    BY <1>2 DEF Passes, NobodySucceeds, Repaid
  <2>2. QED
    BY <1>2, <2>1 DEF Passes, ColumnsStay
<1>3. CASE Drafts
  <2>1. Repaid'
    BY <1>1, <1>3 DEF Drafts, NobodySucceeds, Repaid
  <2>2. QED
    BY <1>3, <2>1 DEF Drafts, ColumnsStay
<1>4. CASE Asks
  <2>1. Repaid'
    BY <1>4 DEF Asks, Repaid
  <2>2. QED
    BY <1>4, <2>1 DEF Asks, ColumnsStay
<1>5. CASE Reopens
  <2>1. Repaid'
    BY <1>5 DEF Reopens, Repaid
  <2>2. QED
    BY <1>5, <2>1 DEF Reopens, ColumnsStay, SilentFacts
<1>6. CASE Stages
  <2>1. PICK s \in {"REQUESTED", "FAILED"}, e \in SilentFacts :
          /\ row.caseStatus # "RESOLVED" /\ row' = [row EXCEPT !.refundStatus = s]
          /\ refund'.key = refund.key
          /\ chain' = Append(chain, e)
          /\ payouts' = payouts
          /\ NobodySucceeds
    BY <1>6 DEF Stages
  <2>2. ColumnsStay /\ row'.caseStatus # "RESOLVED"
    BY <1>0, <2>1, StageColumns DEF ColumnsStay
  <2>3. Repaid'
    BY <2>1, <2>2 DEF NobodySucceeds, Repaid
  <2>4. QED
    BY <2>1, <2>2, <2>3
<1>7. CASE Completes
  <2>1. ColumnsStay
    BY <1>0, <1>7, StageColumns DEF Completes, ColumnsStay
  <2>2. Repaid'
    BY <1>7 DEF Completes, NobodySucceeds, Repaid
  <2>3. QED
    BY <1>7, <2>1, <2>2 DEF Completes
<1>8. QED
  BY <1>0, <1>2, <1>3, <1>4, <1>5, <1>6, <1>7 DEF RefundKind

(* A step of the flow or of an agent after the loss.                       *)
LEMMA LossStays ==
  ASSUME LossInv, InDebt, LifeInv',
         \/ [Next]_vars /\ UNCHANGED refundVars
         \/ RefundNext /\ UNCHANGED <<webhookVars, bankVars>>
  PROVE  LossInv'
<1>0. /\ chain \in Seq(TransactionEventType) /\ TypeOK /\ LifeInv /\ Lost /\ Repaid /\ SweptMatched
      /\ SilentFacts \union {"REFUND_COMPLETED", "BANK_PROCESSING_FAILED"} \subseteq TransactionEventType
  BY DEF LossInv, LifeInv, LifeTypeOK, TypeOK, StoreTypeOK, SilentFacts, TransactionEventType
<1> DEFINE SS == Recordings("SETTLEMENT_SWEPT")
<1>1. SS = 0
  BY <1>0, LineFields DEF InDebt, LostLeg, SweptMatched
<1>2. ASSUME SS' = SS, InDebt', Lost', Repaid' PROVE LossInv'
  <2>1. SweptMatched'
    BY <1>1, <1>2 DEF SweptMatched
  <2>2. QED
    BY <1>2, <2>1 DEF LossInv
<1>3. /\ Uncounted => SS' = SS
      /\ \A e \in SilentFacts \union {"REFUND_COMPLETED", "BANK_PROCESSING_FAILED"} : Counted(e) => SS' = SS
  BY DEF Uncounted, Counted, Money, SilentFacts
<1>4. CASE [Next]_vars /\ UNCHANGED refundVars
  <2>1. Lost' /\ (UNCHANGED <<row, chain>> \/ LostAgain) /\ UNCHANGED <<refund, agent, payouts>>
    BY <1>0, <1>4, LostStep DEF refundVars
  <2>2. SS' = SS
    <3>1. Uncounted \/ Counted("BANK_PROCESSING_FAILED")
      BY <1>0, <2>1, CountMoves DEF LostAgain
    <3>2. QED
      BY <1>3, <3>1
  <2>3. InDebt' /\ Repaid'
    BY <1>0, <2>1 DEF InDebt, LostLeg, LostAgain, Repaid
  <2>4. QED
    BY <1>2, <2>1, <2>2, <2>3
<1>5. CASE RefundNext /\ UNCHANGED <<webhookVars, bankVars>>
  <2>1. /\ Repaid' /\ ColumnsStay
        /\ chain' \in {chain, CloseCase(chain)} \/
           \E e \in SilentFacts \union {"REFUND_COMPLETED"} :
             chain' = Append(chain, e) \/ chain' = CloseCase(Append(chain, e))
    BY <1>0, <1>5, RepaidStep
  <2>2. Uncounted \/ \E e \in SilentFacts \union {"REFUND_COMPLETED"} : Counted(e)
    BY <1>0, <2>1, CountMoves
  <2>3. SS' = SS
    BY <1>3, <2>2
  <2>4. InDebt' /\ row'.reconciliationStatus # "MATCHED"
    BY <1>0, <2>1 DEF ColumnsStay, InDebt, LostLeg, Lost
  <2>5. RowExists'
    BY <1>0, <2>1, NotEmpty DEF RowExists, Lost
  <2>6. Lost'
    BY <1>0, <1>5, <2>4, <2>5 DEF Lost, webhookVars, bankVars
  <2>7. QED
    BY <1>2, <2>1, <2>3, <2>4, <2>6
<1>6. QED
  BY <1>4, <1>5

(* A sweep that takes nothing, or takes the funds of a matched case.       *)
LEMMA LossSweeps ==
  ASSUME LossInv, NEW s \in Sweepers, SelectEligible(s) \/ SweepOne(s) \/ SweepStops(s) PROVE LossInv'
<1>0. LifeInv /\ Repaid /\ SweptMatched
  BY DEF LossInv
<1>1. CASE UNCHANGED lifeVars
  <2>1. UNCHANGED <<row, chain, instr, leaseExpired>> /\ UNCHANGED <<crashes, dbFaults>>
        /\ UNCHANGED <<inbox, claimExpired, handler>> /\ UNCHANGED <<worker, reconciler, paid>>
        /\ UNCHANGED <<refund, agent, payouts>> /\ UNCHANGED <<failures, reopenings>>
    BY <1>1 DEF lifeVars, vars, storeVars, webhookVars, bankVars, refundVars
  <2>2. LifeInv'
    BY <1>0, <1>1, LifeStep
  <2>3. IInv => IInv'
    BY <1>1, ShapeStep DEF lifeVars
  <2>4. (LeaseInv => LeaseInv') /\ (Idle => Idle') /\ (Lost => Lost') /\ Repaid' /\ (InDebt' <=> InDebt)
    BY <1>0, <2>1 DEF LeaseInv, Exclusive, Fresh, Told, Abandoned, Recorded, RowExists, Idle, Lost, Repaid,
                      InDebt, LostLeg
  <2>5. SweptMatched'
    BY <1>0, <2>1 DEF SweptMatched, Recordings
  <2>6. QED
    BY <2>2, <2>3, <2>4, <2>5 DEF LossInv
<1>2. CASE Swept /\ Matched /\ ~Recorded("SETTLEMENT_SWEPT")
  <2>1. ~InDebt
    BY <1>2 DEF LossInv, Lost, Matched
  <2>2. IInv /\ LeaseInv /\ Idle
    BY <2>1 DEF LossInv
  <2>3. IInv' /\ LeaseInv'
    BY <1>2, <2>2, SweepKeepsFlow
  <2>4. UNCHANGED <<row, refund, agent>> /\ UNCHANGED <<payouts, failures, reopenings>>
    BY <1>2 DEF Swept, refundVars
  <2>5. LifeInv'
    BY <1>0, <2>3, <2>4 DEF LifeInv, LifeTypeOK, RefundTypeOK, OneKey, IInv
  <2>6. ~InDebt' /\ Idle' /\ Repaid'
    BY <1>0, <2>1, <2>2, <2>4 DEF InDebt, LostLeg, Idle, Repaid
  <2>7. SweptMatched'
    <3>0. chain \in Seq(TransactionEventType) /\ "SETTLEMENT_SWEPT" \in TransactionEventType
      BY <2>2, Lines DEF TransactionEventType
    <3>1. Counted("SETTLEMENT_SWEPT") /\ Recordings("SETTLEMENT_SWEPT") = 0
      BY <1>2, <3>0, CountMoves DEF Swept, Money
    <3>2. Recordings("SETTLEMENT_SWEPT")' = Recordings("SETTLEMENT_SWEPT") + 1
      BY <3>1 DEF Counted, Money
    <3>3. row' = MatchedRow
      BY <1>2, <2>2, <2>4, MatchedLine DEF Matched
    <3> HIDE DEF Recordings
    <3>4. QED
      BY <3>1, <3>2, <3>3 DEF SweptMatched
  <2>8. QED
    BY <2>3, <2>5, <2>6, <2>7 DEF LossInv
<1>3. QED
  BY <1>1, <1>2 DEF SelectEligible, SweepOne, SweepStops, Swept, lifeVars, vars, storeVars

(* At the start, and after every step.                                     *)
LEMMA LossInductive == ASSUME ~SlowWorkers PROVE TreasurySpec => []LossInv
<1>1. TreasuryInit => LossInv
  <2>1. DebtInv /\ ~InDebt /\ refund.status = "NONE" => LossInv
    BY LineTells DEF DebtInv, Flowing, Idle, Repaid, Tally, SweptMatched, LossInv
  <2>2. TreasuryInit => ~InDebt /\ refund.status = "NONE"
    BY LineFields DEF TreasuryInit, LifeInit, Init, StoreInit, RefundInit, NoRefund, InDebt, LostLeg
  <2>3. QED
    BY <2>1, <2>2, DebtStart
<1>2. ASSUME LossInv, [TreasuryNext]_treasuryVars PROVE LossInv'
  <2>1. CASE [LifeNext]_lifeVars
    <3>1. LifeInv'
      BY <1>2, <2>1, LifeStep DEF LossInv
    <3>2. \/ [Next]_vars /\ UNCHANGED refundVars
          \/ RefundNext /\ UNCHANGED <<webhookVars, bankVars>>
      BY <2>1 DEF LifeNext, lifeVars
    <3>3. CASE InDebt
      BY <1>2, <3>1, <3>2, <3>3, LossStays
    <3>4. CASE ~InDebt
      <4>1. ~RefundNext
        BY <1>2, <3>4, NothingToRefund DEF LossInv
      <4>2. QED
        BY <1>2, <3>1, <3>2, <3>4, <4>1, LossFlows
    <3>5. QED
      BY <3>3, <3>4
  <2>2. CASE \E s \in Sweepers : SelectEligible(s) \/ SweepOne(s) \/ SweepStops(s)
    BY <1>2, <2>2, LossSweeps
  <2>3. QED
    BY <1>2, <2>1, <2>2 DEF TreasuryNext, treasuryVars
<1>3. QED
  BY <1>1, <1>2, PTL DEF TreasurySpec
-----------------------------------------------------------------------------
(***************************************************************************)
(* Theorems about the refund and the sweep                                 *)
(***************************************************************************)

(* The columns of a matched line are those that a sweep looks for.         *)
LEMMA MatchedIsEligible == ASSUME row = MatchedRow PROVE Matched /\ row.bankStatus = "COMPLETED"
  BY DEF Matched, InitialRow, TakenRow, Executed, Verdict, ExecutedRow, MatchedRow

(* A case is resolved only once the provider paid on the key of its        *)
(* refund, for a leg that was lost, whatever the crashes, the failed       *)
(* statements and the answers of the provider (recordSuccess), if no       *)
(* worker outlasts its lease.                                              *)
THEOREM ResolvedOnlyWhenRepaidHolds ==
  ASSUME ~SlowWorkers PROVE TreasurySpec => []ResolvedOnlyWhenRepaid
<1>1. ASSUME LossInv PROVE ResolvedOnlyWhenRepaid
  <2>1. CASE InDebt
    BY <1>1, <2>1 DEF LossInv, Repaid, InDebt, LostLeg, ResolvedOnlyWhenRepaid
  <2>2. CASE ~InDebt
    BY <1>1, <2>2, LineTells DEF LossInv, ResolvedOnlyWhenRepaid
  <2>3. QED
    BY <2>1, <2>2
<1>2. QED
  BY <1>1, LossInductive, PTL

(* The line of the refund and the column of the transaction always agree,  *)
(* whichever request, retry worker or operator wrote last                  *)
(* (syncTransaction), if no worker outlasts its lease and no SQL statement *)
(* fails.                                                                  *)
THEOREM RefundViewsAgreeHolds ==
  ASSUME ~SlowWorkers, MaxDbFaults = 0 PROVE TreasurySpec => []RefundViewsAgree
<1>1. ASSUME DebtInv PROVE RefundViewsAgree
  <2>1. CASE InDebt
    BY <1>1, <2>1 DEF DebtInv, Owing, InDebt, LostLeg, RefundViewsAgree
  <2>2. CASE ~InDebt
    <3>1. row.refundStatus = "NOT_REQUIRED" /\ refund.status = "NONE"
      BY <1>1, <2>2, LineTells DEF DebtInv, Flowing, Idle, NoRefund
    <3>2. QED
      BY <2>2, <3>1 DEF InDebt, LostLeg, RefundViewsAgree
  <2>3. QED
    BY <2>1, <2>2
<1>2. QED
  BY <1>1, DebtInductive, PTL

(* The step that a debt takes once it is extinct.                          *)
LEMMA ExtinctStep ==
  ASSUME ~SlowWorkers, MaxDbFaults = 0, DebtInv, [TreasuryNext]_treasuryVars, refund.status = "COMPLETED"
  PROVE  refund'.status = "COMPLETED" /\ row'.refundStatus = "COMPLETED" /\ row'.caseStatus = "RESOLVED"
<1>1. InDebt
  BY DEF DebtInv, Flowing, Idle, NoRefund
<1>2. LifeInv /\ Quiet /\ Owing /\ Tally /\ Amount
  BY <1>1 DEF DebtInv
<1>3. CASE [LifeNext]_lifeVars
  <2>1. \/ [Next]_vars /\ UNCHANGED refundVars
        \/ RefundNext /\ UNCHANGED <<webhookVars, bankVars>>
    BY <1>3 DEF LifeNext, lifeVars
  <2>2. Owing'
    BY <1>1, <1>2, <2>1, OwingStep
  <2>3. refund'.status = "COMPLETED"
    BY <1>2, <2>1, RefundSteps DEF RefundMove, refundVars
  <2>4. QED
    BY <2>2, <2>3 DEF Owing
<1>4. CASE \E s \in Sweepers : SelectEligible(s) \/ SweepOne(s) \/ SweepStops(s)
  <2>1. UNCHANGED <<row, refund>>
    BY <1>4 DEF SelectEligible, SweepOne, SweepStops, lifeVars, vars, storeVars, refundVars
  <2>2. QED
    BY <1>2, <2>1 DEF Owing
<1>5. QED
  BY <1>3, <1>4 DEF TreasuryNext, treasuryVars

(* A debt that was extinguished is never reborn: no agent that was waiting *)
(* for the provider and none with an older copy writes over it             *)
(* (beginAttempt, recordFailure), under the same hypotheses.               *)
THEOREM ExtinctDebtIsFinalHolds ==
  ASSUME ~SlowWorkers, MaxDbFaults = 0 PROVE TreasurySpec => ExtinctDebtIsFinal
<1>1. DebtInv /\ [TreasuryNext]_treasuryVars =>
        [refund.status = "COMPLETED" =>
           /\ refund'.status = "COMPLETED"
           /\ row'.refundStatus = "COMPLETED"
           /\ row'.caseStatus = "RESOLVED"]_<<refund, row>>
  BY ExtinctStep
<1>2. QED
  BY <1>1, DebtInductive, PTL DEF TreasurySpec, ExtinctDebtIsFinal

(* Concurrent sweeps bring the funds of a case home once, and only of a    *)
(* case whose beneficiary was paid and that stays matched (sweep), also if *)
(* statements fail, if no worker outlasts its lease.                       *)
THEOREM SweptOnceWhenPaidHolds ==
  ASSUME ~SlowWorkers PROVE TreasurySpec => []SweptOnceWhenPaid
<1>1. ASSUME LossInv PROVE SweptOnceWhenPaid
  <2>0. chain \in Seq(TransactionEventType) /\ SweptMatched
    BY <1>1 DEF LossInv, LifeInv, LifeTypeOK, TypeOK, StoreTypeOK
  <2>1. Recorded("SETTLEMENT_SWEPT") <=> Recordings("SETTLEMENT_SWEPT") # 0
    BY <2>0, CountMoves DEF Money
  <2>2. Recordings("SETTLEMENT_SWEPT") <= 1
    BY <2>0 DEF SweptMatched
  <2>3. ASSUME Recorded("SETTLEMENT_SWEPT") PROVE Recorded("BANK_PROCESSING_COMPLETED") /\ Matched
    <3>1. row = MatchedRow
      BY <2>0, <2>1, <2>3 DEF SweptMatched
    <3>2. Matched /\ ~InDebt
      BY <3>1, MatchedIsEligible DEF InDebt, LostLeg
    <3>3. QED
      BY <1>1, <3>1, <3>2 DEF LossInv, LeaseInv, Told
  <2>4. QED
    BY <2>2, <2>3 DEF SweptOnceWhenPaid, Recordings
<1>2. QED
  BY <1>1, LossInductive, PTL
-----------------------------------------------------------------------------
(***************************************************************************)
(* Theorems about the books                                                *)
(***************************************************************************)

(* What a line on one account, or on two, leaves on each account.          *)
LEMMA LinesOf ==
  ASSUME NEW a \in LedgerAccount, NEW amount \in Int, NEW fee \in Nat, NEW x \in LedgerAccount
  PROVE  /\ One(a, amount)[x] = IF x = a THEN Positive(amount) ELSE 0
         /\ Two("CREDITOR_PAYABLE", amount, "FEE_REVENUE", fee)[x]
              = IF x = "CREDITOR_PAYABLE" THEN Positive(amount)
                ELSE IF x = "FEE_REVENUE" THEN fee ELSE 0
<1>1. NoLines[x] = 0 /\ NoLines \in [LedgerAccount -> {0}] /\ Positive(fee) = fee
  BY DEF NoLines, Positive
<1>2. /\ "CREDITOR_PAYABLE" \in LedgerAccount /\ "FEE_REVENUE" \in LedgerAccount
      /\ "CREDITOR_PAYABLE" # "FEE_REVENUE"
  BY DEF LedgerAccount
<1> HIDE DEF NoLines, Positive
<1>3. QED
  BY <1>1, <1>2 DEF One, Two

(* What each fact that moves money does to each account.                   *)
LEMMA NetOf ==
  ASSUME NEW c \in Context, c.fee <= c.ordered, NEW x \in LedgerAccount
  PROVE  /\ Net(Posting("PROVIDER_CONFIRMED", c), x) =
              IF x = "PROVIDER_FLOAT" THEN c.observed
              ELSE IF x = "CREDITOR_PAYABLE" THEN Positive(c.observed - c.fee)
              ELSE IF x = "FEE_REVENUE" THEN c.fee ELSE 0
         /\ Net(Posting("AMOUNT_MISMATCH_DETECTED", c), x) =
              IF x \in {"PROVIDER_FLOAT", "PAYER_PAYABLE"} THEN c.observed ELSE 0
         /\ Net(Posting("SETTLEMENT_SWEPT", c), x) =
              IF x = "SETTLEMENT" THEN c.observed ELSE IF x = "PROVIDER_FLOAT" THEN -c.observed ELSE 0
         /\ Net(Posting("BANK_PROCESSING_COMPLETED", c), x) =
              IF x \in {"CREDITOR_PAYABLE", "SETTLEMENT"} THEN c.fee - c.ordered ELSE 0
         /\ Net(Posting("BANK_PROCESSING_FAILED", c), x) =
              IF x = "CREDITOR_PAYABLE" THEN c.fee - c.ordered
              ELSE IF x = "FEE_REVENUE" THEN -c.fee
              ELSE IF x = "PAYER_PAYABLE" THEN c.ordered ELSE 0
         /\ Net(Posting("REFUND_COMPLETED", c), x) =
              IF x \in {"PROVIDER_FLOAT", "PAYER_PAYABLE"} THEN -c.observed ELSE 0
<1>1. c.ordered \in Nat /\ c.observed \in Nat /\ c.fee \in Nat /\ c.ordered - c.fee \in Nat
  BY DEF Context
<1>2. /\ c.observed - c.fee \in Int /\ Positive(c.observed) = c.observed /\ Positive(c.ordered) = c.ordered
      /\ Positive(c.ordered - c.fee) = c.ordered - c.fee /\ Positive(c.observed - c.fee) \in Nat
  BY <1>1 DEF Positive
<1>3. \A d, k : Entry(d, k).debits = d /\ Entry(d, k).credits = k
  BY DEF Entry
<1>4. x \in {"PROVIDER_FLOAT", "SETTLEMENT", "CREDITOR_PAYABLE", "PAYER_PAYABLE", "FEE_REVENUE"}
  BY DEF LedgerAccount
<1>5. \A a \in LedgerAccount : /\ One(a, c.observed)[x] = IF x = a THEN c.observed ELSE 0
                               /\ One(a, c.ordered)[x] = IF x = a THEN c.ordered ELSE 0
                               /\ One(a, c.ordered - c.fee)[x] = IF x = a THEN c.ordered - c.fee ELSE 0
  BY <1>1, <1>2, LinesOf
<1>6. /\ Two("CREDITOR_PAYABLE", c.observed - c.fee, "FEE_REVENUE", c.fee)[x]
           = IF x = "CREDITOR_PAYABLE" THEN Positive(c.observed - c.fee)
             ELSE IF x = "FEE_REVENUE" THEN c.fee ELSE 0
      /\ Two("CREDITOR_PAYABLE", c.ordered - c.fee, "FEE_REVENUE", c.fee)[x]
           = IF x = "CREDITOR_PAYABLE" THEN c.ordered - c.fee
             ELSE IF x = "FEE_REVENUE" THEN c.fee ELSE 0
  BY <1>1, <1>2, LinesOf DEF LedgerAccount
<1>7. /\ "PROVIDER_FLOAT" \in LedgerAccount /\ "SETTLEMENT" \in LedgerAccount
      /\ "CREDITOR_PAYABLE" \in LedgerAccount /\ "PAYER_PAYABLE" \in LedgerAccount
  BY DEF LedgerAccount
<1>8. /\ Posting("PROVIDER_CONFIRMED", c) =
            Entry(One("PROVIDER_FLOAT", c.observed),
                  Two("CREDITOR_PAYABLE", c.observed - c.fee, "FEE_REVENUE", c.fee))
      /\ Posting("AMOUNT_MISMATCH_DETECTED", c) =
            Entry(One("PROVIDER_FLOAT", c.observed), One("PAYER_PAYABLE", c.observed))
      /\ Posting("SETTLEMENT_SWEPT", c) =
            Entry(One("SETTLEMENT", c.observed), One("PROVIDER_FLOAT", c.observed))
      /\ Posting("BANK_PROCESSING_COMPLETED", c) =
            Entry(One("CREDITOR_PAYABLE", c.ordered - c.fee), One("SETTLEMENT", c.ordered - c.fee))
      /\ Posting("BANK_PROCESSING_FAILED", c) =
            Entry(Two("CREDITOR_PAYABLE", c.ordered - c.fee, "FEE_REVENUE", c.fee),
                  One("PAYER_PAYABLE", c.ordered))
      /\ Posting("REFUND_COMPLETED", c) =
            Entry(One("PAYER_PAYABLE", c.observed), One("PROVIDER_FLOAT", c.observed))
  BY DEF Posting, BeneficiaryPaid, DebtMovesToPayer
<1>9. \A d, k : Net(Entry(d, k), x) = IF x \in Asset THEN d[x] - k[x] ELSE k[x] - d[x]
  BY <1>3 DEF Net
<1> HIDE DEF Entry, One, Two, Positive
<1>10. QED
  BY ONLY <1>1, <1>2, <1>4, <1>5, <1>6, <1>7, <1>8, <1>9 DEF Asset

(* The context of the books of a case.                                     *)
LEMMA BooksType ==
  /\ Books \in Context /\ Books.fee = FeeAmount /\ Books.ordered = Ordered
  /\ Ordered \in Nat /\ FeeAmount \in Nat /\ FeeAmount <= Ordered
  /\ Books.observed \in Nat \ {0}
  /\ row.observed = "conforming" => Books.observed = Ordered
  BY Amounts DEF Books, Context

(* A balance is the sum of what each kind of fact did, times its count.    *)
LEMMA BalanceSum ==
  ASSUME NEW x \in LedgerAccount
  PROVE  BalanceOf(x) =
           Recordings("PROVIDER_CONFIRMED") * Net(Posting("PROVIDER_CONFIRMED", Books), x)
           + Recordings("AMOUNT_MISMATCH_DETECTED") * Net(Posting("AMOUNT_MISMATCH_DETECTED", Books), x)
           + Recordings("SETTLEMENT_SWEPT") * Net(Posting("SETTLEMENT_SWEPT", Books), x)
           + Recordings("BANK_PROCESSING_COMPLETED") * Net(Posting("BANK_PROCESSING_COMPLETED", Books), x)
           + Recordings("BANK_PROCESSING_FAILED") * Net(Posting("BANK_PROCESSING_FAILED", Books), x)
           + Recordings("REFUND_COMPLETED") * Net(Posting("REFUND_COMPLETED", Books), x)
  BY DEF BalanceOf, Balance, Recordings
(* The balances of a case at each state of its bank leg.                   *)
LEMMA BooksByLeg ==
  ASSUME DebtInv
  PROVE  /\ ~InDebt => BalanceOf("PAYER_PAYABLE") = 0
         /\ InDebt => /\ BalanceOf("CREDITOR_PAYABLE") = 0 /\ BalanceOf("FEE_REVENUE") = 0
                      /\ BalanceOf("PAYER_PAYABLE")
                           = Books.observed - Recordings("REFUND_COMPLETED") * Books.observed
         /\ row.bankStatus = "COMPLETED" =>
              /\ BalanceOf("CREDITOR_PAYABLE") = 0 /\ BalanceOf("FEE_REVENUE") = FeeAmount
              /\ Recordings("SETTLEMENT_SWEPT") = 1 =>
                   BalanceOf("PROVIDER_FLOAT") = 0 /\ BalanceOf("SETTLEMENT") = FeeAmount
<1> DEFINE o == Books.observed
           n == Recordings("REFUND_COMPLETED")
           Leg == row.bankStatus
<1>1. /\ Books \in Context /\ Books.fee = FeeAmount /\ Books.ordered = Ordered
      /\ Ordered \in Nat /\ FeeAmount \in Nat /\ FeeAmount <= Ordered /\ o \in Nat
      /\ row.observed = "conforming" => o = Ordered
  BY BooksType
<1>2. Tally /\ Amount
  BY DEF DebtInv
<1>3. row.bankStatus \in {"NOT_STARTED", "PROCESSING", "COMPLETED", "FAILED", "BLOCKED"}
  BY DEF DebtInv, LifeInv, LifeTypeOK, TypeOK, StoreTypeOK, TransactionRow, BankProcessingStatus
<1>4. row.bankStatus \in InstructedLeg => o = Ordered
  BY <1>1, <1>2 DEF Amount
<1>5. Positive(o - FeeAmount) \in Nat /\ (row.bankStatus \in InstructedLeg => Positive(o - FeeAmount) = o - FeeAmount)
  BY <1>1, <1>4 DEF Positive
<1>6. /\ Recordings("PROVIDER_CONFIRMED") = If(row.bankStatus \in InstructedLeg)
      /\ Recordings("AMOUNT_MISMATCH_DETECTED") = If(row.bankStatus = "BLOCKED")
      /\ Recordings("BANK_PROCESSING_COMPLETED") = If(row.bankStatus = "COMPLETED")
      /\ Recordings("BANK_PROCESSING_FAILED") = If(row.bankStatus = "FAILED")
      /\ Recordings("SETTLEMENT_SWEPT") \in {0, 1} /\ n \in Nat
  BY <1>2 DEF Tally
<1>7. ~InDebt => n = 0
  BY <1>2 DEF Tally, DebtInv, Flowing, Idle, NoRefund
<1>8. InDebt => Recordings("SETTLEMENT_SWEPT") = 0
  <2>1. InDebt => row # MatchedRow
    BY LineFields DEF InDebt, LostLeg
  <2>2. QED
    BY <1>6, <2>1, <1>2 DEF Tally
<1> DEFINE Pos == Positive(o - FeeAmount)
           PC == Recordings("PROVIDER_CONFIRMED")
           AM == Recordings("AMOUNT_MISMATCH_DETECTED")
           SS == Recordings("SETTLEMENT_SWEPT")
           BC == Recordings("BANK_PROCESSING_COMPLETED")
           BF == Recordings("BANK_PROCESSING_FAILED")
<1>9. /\ BalanceOf("PAYER_PAYABLE") = PC * 0 + AM * o + SS * 0 + BC * 0 + BF * Ordered + n * (-o)
      /\ BalanceOf("CREDITOR_PAYABLE")
           = PC * Pos + AM * 0 + SS * 0 + BC * (FeeAmount - Ordered) + BF * (FeeAmount - Ordered) + n * 0
      /\ BalanceOf("FEE_REVENUE") = PC * FeeAmount + AM * 0 + SS * 0 + BC * 0 + BF * (-FeeAmount) + n * 0
      /\ BalanceOf("PROVIDER_FLOAT") = PC * o + AM * o + SS * (-o) + BC * 0 + BF * 0 + n * (-o)
      /\ BalanceOf("SETTLEMENT") = PC * 0 + AM * 0 + SS * o + BC * (FeeAmount - Ordered) + BF * 0 + n * 0
  <2>1. /\ "PAYER_PAYABLE" \in LedgerAccount /\ "CREDITOR_PAYABLE" \in LedgerAccount
        /\ "FEE_REVENUE" \in LedgerAccount /\ "PROVIDER_FLOAT" \in LedgerAccount
        /\ "SETTLEMENT" \in LedgerAccount
    BY DEF LedgerAccount
  <2> HIDE DEF Recordings
  <2>2. BalanceOf("PAYER_PAYABLE") = PC * 0 + AM * o + SS * 0 + BC * 0 + BF * Ordered + n * (-o)
    BY <1>1, <2>1, BalanceSum, NetOf
  <2>3. BalanceOf("CREDITOR_PAYABLE")
          = PC * Pos + AM * 0 + SS * 0 + BC * (FeeAmount - Ordered) + BF * (FeeAmount - Ordered) + n * 0
    BY <1>1, <2>1, BalanceSum, NetOf
  <2>4. BalanceOf("FEE_REVENUE") = PC * FeeAmount + AM * 0 + SS * 0 + BC * 0 + BF * (-FeeAmount) + n * 0
    BY <1>1, <2>1, BalanceSum, NetOf
  <2>5. BalanceOf("PROVIDER_FLOAT") = PC * o + AM * o + SS * (-o) + BC * 0 + BF * 0 + n * (-o)
    BY <1>1, <2>1, BalanceSum, NetOf
  <2>6. BalanceOf("SETTLEMENT") = PC * 0 + AM * 0 + SS * o + BC * (FeeAmount - Ordered) + BF * 0 + n * 0
    BY <1>1, <2>1, BalanceSum, NetOf
  <2>7. QED
    BY <2>2, <2>3, <2>4, <2>5, <2>6
<1>10. /\ InDebt <=> Leg \in {"FAILED", "BLOCKED"}
       /\ Leg = "FAILED" => o = Ordered /\ Pos = o - FeeAmount
       /\ Leg = "COMPLETED" => o = Ordered /\ Pos = o - FeeAmount
       /\ PC = IF Leg \in {"PROCESSING", "COMPLETED", "FAILED"} THEN 1 ELSE 0
       /\ AM = IF Leg = "BLOCKED" THEN 1 ELSE 0
       /\ BC = IF Leg = "COMPLETED" THEN 1 ELSE 0
       /\ BF = IF Leg = "FAILED" THEN 1 ELSE 0
  BY <1>4, <1>5, <1>6 DEF InDebt, LostLeg, InstructedLeg, If
<1>11. Pos \in Nat /\ n \in Nat /\ SS \in {0, 1} /\ o \in Nat /\ Ordered \in Nat /\ FeeAmount \in Nat
  BY <1>1, <1>5, <1>6
<1> HIDE DEF n, o, Pos, PC, AM, SS, BC, BF, Leg
<1>12. CASE ~InDebt
  <2>1. PC \in {0, 1} /\ AM = 0 /\ BF = 0 /\ BC \in {0, 1} /\ n = 0
    BY <1>7, <1>10, <1>12 DEF n
  <2>2. BalanceOf("PAYER_PAYABLE") = 0
    BY ONLY <1>9, <1>11, <2>1
  <2>3. Leg = "COMPLETED" => /\ BalanceOf("CREDITOR_PAYABLE") = 0 /\ BalanceOf("FEE_REVENUE") = FeeAmount
                             /\ SS = 1 => BalanceOf("PROVIDER_FLOAT") = 0 /\ BalanceOf("SETTLEMENT") = FeeAmount
    BY ONLY <1>9, <1>10, <1>11, <2>1
  <2>4. QED
    BY <1>12, <2>2, <2>3 DEF Leg, SS
<1>13. CASE InDebt
  <2>1. SS = 0 /\ BC = 0 /\ Leg # "COMPLETED"
    BY <1>8, <1>10, <1>13 DEF SS
  <2>2. n * (-o) = -(n * o) /\ n * o \in Nat
    BY <1>11
  <2>3. CASE Leg = "FAILED"
    <3>1. PC = 1 /\ AM = 0 /\ BF = 1 /\ o = Ordered /\ Pos = o - FeeAmount
      BY <1>10, <2>3
    <3>2. /\ BalanceOf("CREDITOR_PAYABLE") = 0 /\ BalanceOf("FEE_REVENUE") = 0
          /\ BalanceOf("PAYER_PAYABLE") = o - n * o
      BY ONLY <1>9, <1>11, <2>1, <2>2, <3>1
    <3>3. QED
      BY <1>13, <2>1, <3>2 DEF o, n, Leg
  <2>4. CASE Leg = "BLOCKED"
    <3>1. PC = 0 /\ AM = 1 /\ BF = 0
      BY <1>10, <2>4
    <3>2. /\ BalanceOf("CREDITOR_PAYABLE") = 0 /\ BalanceOf("FEE_REVENUE") = 0
          /\ BalanceOf("PAYER_PAYABLE") = o - n * o
      BY ONLY <1>9, <1>11, <2>1, <2>2, <3>1
    <3>3. QED
      BY <1>13, <2>1, <3>2 DEF o, n, Leg
  <2>5. QED
    BY <1>10, <1>13, <2>3, <2>4
<1>14. QED
  BY <1>12, <1>13

(* While the payer is owed, the journal holds what was collected on his    *)
(* account, and never a positive amount otherwise (POSTING_RULES), however *)
(* often the payment back was recorded, if no worker outlasts its lease    *)
(* and no SQL statement fails.                                             *)
THEOREM OpenDebtIsBookedHolds ==
  ASSUME ~SlowWorkers, MaxDbFaults = 0 PROVE TreasurySpec => []OpenDebtIsBooked
<1>1. ASSUME DebtInv PROVE OpenDebtIsBooked
  <2> DEFINE o == Books.observed
             n == Recordings("REFUND_COMPLETED")
             open == row.refundStatus \in {"REQUIRED", "REQUESTED", "FAILED"}
  <2>0. o \in Nat /\ n \in Nat /\ (n # 0 <=> refund.status = "COMPLETED")
    BY <1>1, BooksType DEF DebtInv, Tally
  <2>1. CASE ~InDebt
    <3>1. row.refundStatus = "NOT_REQUIRED"
      BY <1>1, <2>1, LineTells DEF DebtInv, Flowing
    <3>2. BalanceOf("PAYER_PAYABLE") = 0
      BY <1>1, <2>1, BooksByLeg
    <3>3. QED
      BY <3>1, <3>2 DEF OpenDebtIsBooked
  <2>2. CASE InDebt
    <3>1. BalanceOf("PAYER_PAYABLE") = o - n * o
      BY <1>1, <2>2, BooksByLeg
    <3>2. refund.status \in {"NONE", "REQUIRED", "REQUESTED", "COMPLETED", "FAILED"}
      BY <1>1, <2>2 DEF DebtInv, LifeInv, LifeTypeOK, RefundTypeOK, Refund, RefundStatus, Owing
    <3>3. open <=> refund.status # "COMPLETED"
      BY <1>1, <2>2, <3>2 DEF DebtInv, Owing
    <3>4. (open => n = 0) /\ (~open => n >= 1)
      BY <2>0, <3>3
    <3> HIDE DEF o, n
    <3>5. (n = 0 => o - n * o = o) /\ (n >= 1 => o - n * o <= 0)
      <4>1. n >= 1 => n * o >= o
        BY <2>0
      <4>2. n * o \in Nat
        BY <2>0
      <4>3. n = 0 => n * o = 0
        BY <2>0
      <4>4. QED
        BY <2>0, <4>1, <4>2, <4>3
    <3>6. QED
      BY <3>1, <3>4, <3>5 DEF OpenDebtIsBooked, o
  <2>3. QED
    BY <2>1, <2>2
<1>2. QED
  BY <1>1, DebtInductive, PTL

(* A matched case owes its beneficiary nothing and leaves the fee, in the  *)
(* settlement account once it is swept, and a lost leg leaves no fee       *)
(* (POSTING_RULES), for every amount and fee, under the same hypotheses.   *)
THEOREM BooksOfEndedCaseHolds ==
  ASSUME ~SlowWorkers, MaxDbFaults = 0 PROVE TreasurySpec => []BooksOfEndedCase
<1>1. ASSUME DebtInv PROVE BooksOfEndedCase
  <2>0. chain \in Seq(TransactionEventType) /\ Tally
    BY <1>1 DEF DebtInv, LifeInv, LifeTypeOK, TypeOK, StoreTypeOK
  <2>1. ASSUME Matched PROVE row.bankStatus = "COMPLETED"
    <3>1. ~InDebt
      BY <1>1, <2>1 DEF DebtInv, Quiet, Matched
    <3>2. row = MatchedRow
      BY <1>1, <2>1, <3>1, MatchedLine DEF DebtInv, Flowing, Matched
    <3>3. QED
      BY <3>2, LineFields
  <2>2. Recorded("SETTLEMENT_SWEPT") => Recordings("SETTLEMENT_SWEPT") = 1
    BY <2>0, CountMoves DEF Money, Tally
  <2>3. InDebt <=> row.bankStatus \in {"FAILED", "BLOCKED"}
    BY DEF InDebt, LostLeg
  <2> HIDE DEF Recordings
  <2>4. QED
    BY <1>1, <2>1, <2>2, <2>3, BooksByLeg DEF BooksOfEndedCase
<1>2. QED
  BY <1>1, DebtInductive, PTL

-----------------------------------------------------------------------------
(***************************************************************************)
(* The posting rules, for every amount and every fee                       *)
(***************************************************************************)

(* A line that is not positive is left out, which changes no total.        *)
LEMMA PositiveIsIdentity ==
  ASSUME NEW amount \in Nat
  PROVE  Positive(amount) = amount
BY DEF Positive

(* What debits or credits of one and of two accounts add up to.            *)
LEMMA TotalOfOne ==
  ASSUME NEW a \in LedgerAccount, NEW amount \in Nat
  PROVE  Total(One(a, amount)) = amount
<1>1. Positive(amount) = amount
  BY PositiveIsIdentity
<1>2. CASE a = "PROVIDER_FLOAT"   BY <1>1, <1>2 DEF Total, One, NoLines, LedgerAccount
<1>3. CASE a = "SETTLEMENT"       BY <1>1, <1>3 DEF Total, One, NoLines, LedgerAccount
<1>4. CASE a = "CREDITOR_PAYABLE" BY <1>1, <1>4 DEF Total, One, NoLines, LedgerAccount
<1>5. CASE a = "PAYER_PAYABLE"    BY <1>1, <1>5 DEF Total, One, NoLines, LedgerAccount
<1>6. CASE a = "FEE_REVENUE"      BY <1>1, <1>6 DEF Total, One, NoLines, LedgerAccount
<1>. QED  BY <1>2, <1>3, <1>4, <1>5, <1>6 DEF LedgerAccount

(* The total of two lines on two accounts is their sum.                    *)
LEMMA TotalOfCreditorAndFee ==
  ASSUME NEW amount \in Nat, NEW fee \in Nat
  PROVE  Total(Two("CREDITOR_PAYABLE", amount, "FEE_REVENUE", fee)) = amount + fee
<1>1. Positive(amount) = amount /\ Positive(fee) = fee
  BY PositiveIsIdentity
<1>. QED  BY <1>1 DEF Total, Two, One, NoLines, LedgerAccount

(* An entry without lines has total 0.                                     *)
LEMMA TotalOfNothing == Total(NoLines) = 0
BY DEF Total, NoLines, LedgerAccount

-----------------------------------------------------------------------------
(***************************************************************************)
(* Every rule produces an entry that the trigger of the journal accepts,   *)
(* whatever the amounts, as long as the fee is no more than the order and  *)
(* what was collected (POSTING_RULES: "Toutes les regles produisent des    *)
(* lignes dont la somme des debits egale celle des credits"): the posting  *)
(* of a fact never makes the transaction that records it fail.             *)
(***************************************************************************)
THEOREM PostingBalanced ==
  ASSUME NEW type, NEW c \in Context, c.fee <= c.ordered, c.fee <= c.observed
  PROVE  BalancedEntry(Posting(type, c))
<1>1. /\ c.ordered \in Nat /\ c.observed \in Nat /\ c.fee \in Nat
      /\ c.ordered - c.fee \in Nat /\ c.observed - c.fee \in Nat
  BY DEF Context
<1>2. \A d, k : Entry(d, k).debits = d /\ Entry(d, k).credits = k
  BY DEF Entry
<1>3. /\ "PROVIDER_FLOAT" \in LedgerAccount /\ "SETTLEMENT" \in LedgerAccount
      /\ "CREDITOR_PAYABLE" \in LedgerAccount /\ "PAYER_PAYABLE" \in LedgerAccount
  BY DEF LedgerAccount
<1>4. CASE type = "PROVIDER_CONFIRMED"
  <2>1. Posting(type, c) =
          Entry(One("PROVIDER_FLOAT", c.observed),
                Two("CREDITOR_PAYABLE", c.observed - c.fee, "FEE_REVENUE", c.fee))
    BY <1>4 DEF Posting
  <2>2. Total(One("PROVIDER_FLOAT", c.observed)) = c.observed
    BY <1>1, <1>3, TotalOfOne
  <2>3. Total(Two("CREDITOR_PAYABLE", c.observed - c.fee, "FEE_REVENUE", c.fee))
          = (c.observed - c.fee) + c.fee
    BY <1>1, TotalOfCreditorAndFee
  <2>. QED  BY <1>1, <1>2, <2>1, <2>2, <2>3 DEF BalancedEntry
<1>5. CASE type = "AMOUNT_MISMATCH_DETECTED"
  <2>1. Posting(type, c) = Entry(One("PROVIDER_FLOAT", c.observed), One("PAYER_PAYABLE", c.observed))
    BY <1>5 DEF Posting
  <2>. QED  BY <1>1, <1>2, <1>3, <2>1, TotalOfOne DEF BalancedEntry
<1>6. CASE type = "SETTLEMENT_SWEPT"
  <2>1. Posting(type, c) = Entry(One("SETTLEMENT", c.observed), One("PROVIDER_FLOAT", c.observed))
    BY <1>6 DEF Posting
  <2>. QED  BY <1>1, <1>2, <1>3, <2>1, TotalOfOne DEF BalancedEntry
<1>7. CASE type = "BANK_PROCESSING_COMPLETED"
  <2>1. Posting(type, c) =
          Entry(One("CREDITOR_PAYABLE", c.ordered - c.fee), One("SETTLEMENT", c.ordered - c.fee))
    BY <1>7 DEF Posting, BeneficiaryPaid
  <2>. QED  BY <1>1, <1>2, <1>3, <2>1, TotalOfOne DEF BalancedEntry
<1>8. CASE type = "BANK_PROCESSING_FAILED"
  <2>1. Posting(type, c) =
          Entry(Two("CREDITOR_PAYABLE", c.ordered - c.fee, "FEE_REVENUE", c.fee),
                One("PAYER_PAYABLE", c.ordered))
    BY <1>8 DEF Posting, DebtMovesToPayer
  <2>2. Total(One("PAYER_PAYABLE", c.ordered)) = c.ordered
    BY <1>1, <1>3, TotalOfOne
  <2>3. Total(Two("CREDITOR_PAYABLE", c.ordered - c.fee, "FEE_REVENUE", c.fee))
          = (c.ordered - c.fee) + c.fee
    BY <1>1, TotalOfCreditorAndFee
  <2>. QED  BY <1>1, <1>2, <2>1, <2>2, <2>3 DEF BalancedEntry
<1>9. CASE type = "REFUND_COMPLETED"
  <2>1. Posting(type, c) = Entry(One("PAYER_PAYABLE", c.observed), One("PROVIDER_FLOAT", c.observed))
    BY <1>9 DEF Posting
  <2>. QED  BY <1>1, <1>2, <1>3, <2>1, TotalOfOne DEF BalancedEntry
<1>10. CASE type \notin {"PROVIDER_CONFIRMED", "AMOUNT_MISMATCH_DETECTED", "SETTLEMENT_SWEPT",
                         "BANK_PROCESSING_COMPLETED", "BANK_PROCESSING_FAILED",
                         "REFUND_COMPLETED"}
  <2>1. Posting(type, c) = Entry(NoLines, NoLines)
    BY <1>10 DEF Posting
  <2>. QED  BY <1>2, <2>1, TotalOfNothing DEF BalancedEntry
<1>. QED  BY <1>4, <1>5, <1>6, <1>7, <1>8, <1>9, <1>10
=============================================================================
