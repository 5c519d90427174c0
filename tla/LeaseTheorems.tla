--------------------------- MODULE LeaseTheorems ----------------------------
(***************************************************************************)
(* What MobileMoney guarantees when no live worker outlasts its lease      *)
(* (IN_FLIGHT_LEASE_MS), for any number of handlers, notifications,        *)
(* workers and replays, any bound on attempts, crashes and database        *)
(* faults, and handlers that may outlast their claims: the copy that a     *)
(* worker saves whole is then never too old for the line it overwrites.    *)
(***************************************************************************)
EXTENDS MobileMoneyTheorems

(* The other values of an instructed line.                                 *)
ExecutedRow == Executed(TakenRow)
MatchedRow  == Verdict(ExecutedRow)
OwedRow     == Indebted(TakenRow)

-----------------------------------------------------------------------------
(***************************************************************************)
(* The inductive invariant, beside IInv                                    *)
(***************************************************************************)

(* One worker at most is at work, on a claim that is still fresh.          *)
Exclusive ==
  /\ \A w \in Workers : worker[w].pc # "idle" => instr.status = "IN_FLIGHT" /\ ~leaseExpired
  /\ \A v, w \in Workers : worker[v].pc # "idle" /\ worker[w].pc # "idle" => v = w

(* The line, seen by a worker that holds this copy at this step: the copy  *)
(* is the line, or a change of it that a fault kept from being written, or *)
(* it is older than a replayed reconciliation.                             *)
FitsLine(line, copy, step) ==
  /\ copy = TakenRow => line = TakenRow
  /\ copy = OwedRow => line \in {TakenRow, OwedRow}
  /\ copy \in {ExecutedRow, MatchedRow} => line # OwedRow
  /\ step = "reconcile" => line = ExecutedRow \/ (line = MatchedRow /\ Reconcilers # {})

Fresh ==
  /\ \A w \in Workers : worker[w].pc # "idle" => FitsLine(row, worker[w].row, worker[w].pc)
  /\ \A r \in Reconcilers : reconciler[r].pc = "loaded" => row \in {ExecutedRow, MatchedRow}
  /\ \A h \in Handlers : handler[h].pc = "repair" => row = MatchedRow
  /\ \A h \in Handlers : handler[h].pc = "loaded" => RowExists

(* The chain tells what the line tells.                                    *)
Told ==
  /\ Recorded("BANK_PROCESSING_COMPLETED") <=> row \in {ExecutedRow, MatchedRow}
  /\ Recorded("BANK_PROCESSING_FAILED") <=> row = OwedRow
  /\ Recorded("CASE_OPENED") <=> row \in BlockedRows \union {OwedRow}
  /\ Recorded("RECONCILIATION_MATCHED") <=> row = MatchedRow
  /\ row # InitialRow => RowExists

Abandoned == instr.status = "DEAD_LETTER" => row = OwedRow

LeaseInv == Exclusive /\ Fresh /\ Told /\ Abandoned

-----------------------------------------------------------------------------
(***************************************************************************)
(* What the SQL transactions of the gateway do to line and chain, once the *)
(* invariant says what the copies they start from can be.                  *)
(***************************************************************************)
Opens   == ~RowExists /\ row = InitialRow /\ row' = InitialRow /\ chain' = <<"PAYMENT_INITIATED">>
Refuses == /\ RowExists /\ row \in {InitialRow, RefusedRow} /\ row' = RefusedRow
           /\ \E n \in Notifications : KindOf[n] = "failed"
           /\ chain' = CloseCase(Append(chain, "PROVIDER_FAILED"))
Collects == /\ RowExists /\ row = InitialRow /\ row' = TakenRow
            /\ chain' = Append(chain, "PROVIDER_CONFIRMED")
Withholds == /\ RowExists /\ row \in {InitialRow, RefusedRow} /\ row' \in BlockedRows
             /\ \E n \in Notifications : KindOf[n] \in {"amount", "currency"}
             /\ chain' = chain \o <<"AMOUNT_MISMATCH_DETECTED", "BANK_PROCESSING_BLOCKED", "CASE_OPENED">>
Executes == /\ row = TakenRow /\ row' = ExecutedRow
            /\ chain' = Append(chain, "BANK_PROCESSING_COMPLETED")
Fails    == /\ row \in {TakenRow, OwedRow} /\ row' = OwedRow
            /\ chain' = chain \o <<"BANK_PROCESSING_FAILED", "CASE_OPENED">>
Matches  == /\ row = ExecutedRow \/ (row = MatchedRow /\ Reconcilers # {})
            /\ row' = MatchedRow
            /\ chain' = CloseCase(Append(chain, "RECONCILIATION_MATCHED"))
Repairs  == row = MatchedRow /\ row' = row /\ chain' = CloseCase(chain)

StoreMove ==
  \/ UNCHANGED <<row, chain>>
  \/ Opens \/ Refuses \/ Collects \/ Withholds \/ Executes \/ Fails \/ Matches \/ Repairs
-----------------------------------------------------------------------------
USE FaultBounds, WebhookConstants, BankConstants

(* The columns that tell the values of the line apart.                     *)
LEMMA LineFields ==
  /\ InstructedRows = {TakenRow, ExecutedRow, MatchedRow, OwedRow}
  /\ InitialRow.bankStatus = "NOT_STARTED" /\ RefusedRow.bankStatus = "NOT_STARTED"
  /\ InitialRow.providerStatus = "PENDING" /\ RefusedRow.providerStatus = "FAILED"
  /\ \A b \in BlockedRows : b.bankStatus = "BLOCKED"
  /\ TakenRow.bankStatus = "PROCESSING" /\ OwedRow.bankStatus = "FAILED"
  /\ ExecutedRow.bankStatus = "COMPLETED" /\ MatchedRow.bankStatus = "COMPLETED"
  /\ ExecutedRow.reconciliationStatus = "PENDING" /\ MatchedRow.reconciliationStatus = "MATCHED"
<1> USE DEF InitialRow, RefusedRow, BlockedRow, BlockedRows, TakenRow, Executed, Verdict, Indebted,
            ExecutedRow, MatchedRow, OwedRow
<1>1. InstructedRows = {TakenRow, ExecutedRow, MatchedRow, OwedRow}
  BY ONLY DEF InstructedRows, ExecutedRow, MatchedRow, OwedRow
<1>2. /\ InitialRow.bankStatus = "NOT_STARTED" /\ RefusedRow.bankStatus = "NOT_STARTED"
      /\ InitialRow.providerStatus = "PENDING" /\ RefusedRow.providerStatus = "FAILED"
      /\ TakenRow.bankStatus = "PROCESSING" /\ OwedRow.bankStatus = "FAILED"
  OBVIOUS
<1>3. \A b \in BlockedRows : b.bankStatus = "BLOCKED"
  OBVIOUS
<1>4. /\ ExecutedRow.bankStatus = "COMPLETED" /\ MatchedRow.bankStatus = "COMPLETED"
      /\ ExecutedRow.reconciliationStatus = "PENDING" /\ MatchedRow.reconciliationStatus = "MATCHED"
  OBVIOUS
<1>5. QED
  BY ONLY <1>1, <1>2, <1>3, <1>4

(* No two values of the line are equal.                                    *)
LEMMA LinesApart ==
  /\ InitialRow \notin {RefusedRow, TakenRow, ExecutedRow, MatchedRow, OwedRow} \union BlockedRows
  /\ RefusedRow \notin {TakenRow, ExecutedRow, MatchedRow, OwedRow} \union BlockedRows
  /\ TakenRow \notin {ExecutedRow, MatchedRow, OwedRow} \union BlockedRows
  /\ ExecutedRow \notin {MatchedRow, OwedRow} \union BlockedRows
  /\ MatchedRow \notin {OwedRow} \union BlockedRows
  /\ OwedRow \notin BlockedRows
  BY ONLY LineFields

(* What the answers and verdicts make of the copies that take them.        *)
LEMMA Answers ==
  /\ Executed(TakenRow) = ExecutedRow
  /\ Verdict(ExecutedRow) = MatchedRow
  /\ Indebted(TakenRow) = OwedRow
  /\ \A e \in InstructedRows : AssertTransition(e, Indebted(e)) => e \in {TakenRow, OwedRow} /\ Indebted(e) = OwedRow
<1>1. /\ Executed(TakenRow) = ExecutedRow
      /\ Verdict(ExecutedRow) = MatchedRow
      /\ Indebted(TakenRow) = OwedRow
  BY ONLY DEF ExecutedRow, MatchedRow, OwedRow
<1>2. ASSUME NEW e \in InstructedRows, AssertTransition(e, Indebted(e))
      PROVE  e \in {TakenRow, OwedRow} /\ Indebted(e) = OwedRow
  <2>1. Indebted(e) = OwedRow
    BY <1>2, AnsweredRows DEF OwedRow
  <2>2. LegalMove(BankMoves, e.bankStatus, OwedRow.bankStatus)
    BY <1>2, <2>1 DEF AssertTransition, NoIllegalMoves
  <2>3. e.bankStatus # "COMPLETED"
    BY <2>2, LineFields DEF LegalMove, BankMoves, Null
  <2>4. QED
    BY <2>1, <2>3, LineFields
<1>3. QED
  BY <1>1, <1>2

(* The line takes the values of IInv, and a worker at work has one of an   *)
(* instructed leg in memory.                                               *)
LEMMA Lines ==
  ASSUME IInv
  PROVE  /\ row \in {InitialRow, RefusedRow} \union BlockedRows
                      \union {TakenRow, ExecutedRow, MatchedRow, OwedRow}
         /\ instr.status # "NONE" <=> row \in {TakenRow, ExecutedRow, MatchedRow, OwedRow}
         /\ chain \in Seq(TransactionEventType)
         /\ \A w \in Workers :
              /\ worker[w] \in WorkerMemory
              /\ worker[w].pc # "idle" =>
                   instr.status # "NONE" /\ worker[w].row \in {TakenRow, ExecutedRow, MatchedRow, OwedRow}
              /\ worker[w].pc \in {"executed", "refused"} => worker[w].row = TakenRow
              /\ worker[w].pc = "reconcile" => worker[w].row = ExecutedRow
         /\ \A r \in Reconcilers :
              reconciler[r].pc = "loaded" => instr.status # "NONE" /\ reconciler[r].row = ExecutedRow
  BY LineFields DEF IInv, TypeOK, StoreTypeOK, BankTypeOK, Shape, LineShape, WorkerShape,
                    ReconcilerShape, ExecutedRow
(* A line whose payment is matched is the matched line.                    *)
LEMMA MatchedLine ==
  ASSUME IInv, row.reconciliationStatus = "MATCHED" PROVE row = MatchedRow
<1> USE DEF InitialRow, RefusedRow, BlockedRow, BlockedRows, TakenRow, Executed, Verdict, Indebted,
            ExecutedRow, MatchedRow, OwedRow
<1>1. /\ InitialRow.reconciliationStatus = "PENDING" /\ TakenRow.reconciliationStatus = "PENDING"
      /\ RefusedRow.reconciliationStatus = "NOT_APPLICABLE"
      /\ ExecutedRow.reconciliationStatus = "PENDING"
      /\ OwedRow.reconciliationStatus = "MANUAL_REVIEW"
  OBVIOUS
<1>2. \A b \in BlockedRows : b.reconciliationStatus # "MATCHED"
  OBVIOUS
<1>3. QED
  BY ONLY <1>1, <1>2, IInv, Lines, row.reconciliationStatus = "MATCHED"

-----------------------------------------------------------------------------
(***************************************************************************)
(* Steps of the handlers                                                   *)
(***************************************************************************)

(* No handler comes to the steps that write the line or the chain.         *)
NoneLoads ==
  \A k \in Handlers : handler'[k].pc \in {"repair", "loaded"} => handler'[k].pc = handler[k].pc

(* What a handler's step leaves of line, chain, instruction and memories.  *)
HandlerEffect ==
  /\ StoreMove
  /\ \/ instr' = instr /\ (row' = row \/ row \in {InitialRow, RefusedRow})
     \/ row = InitialRow /\ row' = TakenRow /\ instr' = Enqueued
  /\ leaseExpired' = leaseExpired
  /\ \A h \in Handlers :
       /\ handler'[h].pc = "repair" => handler[h].pc = "repair" \/ (row = MatchedRow /\ row' = row)
       /\ handler'[h].pc = "loaded" => handler[h].pc = "loaded" \/ (RowExists /\ chain' = chain)

(* A handler that goes to another step than these, or ends.                *)
LEMMA HandlerGoes ==
  ASSUME TypeOK, NEW h \in Handlers
  PROVE  /\ \A step \in HandlerSteps \ {"repair", "loaded"} : Goto(h, step) => NoneLoads
         /\ Goto(h, "repair") =>
              \A k \in Handlers : handler'[k].pc = "loaded" => handler[k].pc = "loaded"
         /\ Return(h) => NoneLoads
         /\ \A n, status :
              handler' = [handler EXCEPT ![h] = [@ EXCEPT !.pc = "registered", !.note = n, !.seen = status]]
                => NoneLoads
         /\ \A e :
              handler' = [handler EXCEPT ![h] = [@ EXCEPT !.pc = "loaded", !.row = e]]
                => \A k \in Handlers : handler'[k].pc = "repair" => handler[k].pc = "repair"
<1>1. handler \in [Handlers -> HandlerMemory] /\ handler[h] \in HandlerMemory
  BY DEF TypeOK, WebhookTypeOK
<1>2. /\ \A step : [handler[h] EXCEPT !.pc = step].pc = step
      /\ \A n, status : [handler[h] EXCEPT !.pc = "registered", !.note = n, !.seen = status].pc = "registered"
      /\ \A e : [handler[h] EXCEPT !.pc = "loaded", !.row = e].pc = "loaded"
      /\ IdleHandler.pc = "idle"
  BY <1>1 DEF HandlerMemory, IdleHandler
<1>3. ASSUME NEW m, handler' = [handler EXCEPT ![h] = m]
      PROVE  /\ m.pc \notin {"repair", "loaded"} => NoneLoads
             /\ m.pc = "repair" => \A k \in Handlers : handler'[k].pc = "loaded" => handler[k].pc = "loaded"
             /\ m.pc = "loaded" => \A k \in Handlers : handler'[k].pc = "repair" => handler[k].pc = "repair"
  BY <1>1, <1>3 DEF NoneLoads
<1>4. ASSUME NEW step, Goto(h, step)
      PROVE  /\ step \notin {"repair", "loaded"} => NoneLoads
             /\ step = "repair" => \A k \in Handlers : handler'[k].pc = "loaded" => handler[k].pc = "loaded"
  <2> DEFINE m == [handler[h] EXCEPT !.pc = step]
  <2>1. handler' = [handler EXCEPT ![h] = m] /\ m.pc = step
    BY <1>2, <1>4 DEF Goto
  <2> HIDE DEF m
  <2>2. QED
    BY ONLY <2>1, <1>3
<1>5. Return(h) => NoneLoads
  BY <1>2, <1>3 DEF Return
<1>6. ASSUME NEW n, NEW status,
             handler' = [handler EXCEPT ![h] = [@ EXCEPT !.pc = "registered", !.note = n, !.seen = status]]
      PROVE  NoneLoads
  <2> DEFINE m == [handler[h] EXCEPT !.pc = "registered", !.note = n, !.seen = status]
  <2>1. handler' = [handler EXCEPT ![h] = m] /\ m.pc = "registered"
    BY <1>2, <1>6
  <2> HIDE DEF m
  <2>2. QED
    BY ONLY <2>1, <1>3
<1>7. ASSUME NEW e, handler' = [handler EXCEPT ![h] = [@ EXCEPT !.pc = "loaded", !.row = e]]
      PROVE  \A k \in Handlers : handler'[k].pc = "repair" => handler[k].pc = "repair"
  <2> DEFINE m == [handler[h] EXCEPT !.pc = "loaded", !.row = e]
  <2>1. handler' = [handler EXCEPT ![h] = m] /\ m.pc = "loaded"
    BY <1>2, <1>7
  <2> HIDE DEF m
  <2>2. QED
    BY ONLY <2>1, <1>3
<1>8. QED
  BY ONLY <1>4, <1>5, <1>6, <1>7

(* Every step of a handler has such an effect.                             *)
LEMMA HandlerEffects ==
  IInv /\ LeaseInv /\ WebhookNext => HandlerEffect
<1> SUFFICES ASSUME IInv, LeaseInv, WebhookNext PROVE HandlerEffect
  OBVIOUS
<1> USE DEF HandlerEffect, NoneLoads
<1>0. TypeOK /\ Shape
  BY DEF IInv
<1>s. {"claimed", "succeeded", "failed"} \subseteq HandlerSteps \ {"repair", "loaded"}
  BY DEF HandlerSteps
<1>q. ASSUME UNCHANGED <<row, chain, instr, leaseExpired>>,
             NoneLoads
      PROVE  HandlerEffect
  BY <1>q DEF StoreMove
<1>1. ASSUME NEW h \in Handlers, NEW n \in Notifications, Register(h, n) PROVE HandlerEffect
  BY <1>0, <1>1, <1>q, HandlerGoes DEF Register, storeVars
<1>2. ASSUME NEW h \in Handlers, ClaimEvent(h) \/ Settle(h) PROVE HandlerEffect
  BY <1>0, <1>2, <1>q, <1>s, HandlerGoes DEF ClaimEvent, Settle, storeVars
<1>2a. ASSUME NEW h \in Handlers, LoadTransaction(h) PROVE HandlerEffect
  <2>1. UNCHANGED <<row, chain, instr, leaseExpired>>
    BY <1>2a DEF LoadTransaction, storeVars
  <2>2. CASE RowExists
    BY <1>0, <1>2a, <2>1, <2>2, HandlerGoes DEF LoadTransaction, StoreMove
  <2>3. CASE ~RowExists
    BY <1>0, <1>2a, <1>q, <1>s, <2>1, <2>3, HandlerGoes DEF LoadTransaction
  <2>4. QED
    BY <2>2, <2>3
<1>3. ASSUME NEW h \in Handlers, HandlerDbFault(h) \/ HandlerCrash(h) PROVE HandlerEffect
  BY <1>0, <1>3, <1>q, <1>s, HandlerGoes DEF HandlerDbFault, HandlerCrash
<1>4. ASSUME NEW n \in Notifications, ClaimExpires(n) PROVE HandlerEffect
  BY <1>4, <1>q DEF ClaimExpires, storeVars
<1>5. ASSUME NEW h \in Handlers, RepairClosure(h) PROVE HandlerEffect
  <2>1. row = MatchedRow
    BY <1>5 DEF RepairClosure, LeaseInv, Fresh
  <2>2. NoneLoads
    BY <1>0, <1>5, <1>s, HandlerGoes DEF RepairClosure
  <2>3. QED
    BY <1>5, <2>1, <2>2 DEF RepairClosure, StoreMove, Repairs
<1>6. ASSUME NEW h \in Handlers, NEW found \in BOOLEAN, NEW after, NEW facts, NEW instruction,
             ApplyTransition(h, found, after, facts, instruction),
             ~(found /\ row' = after /\ chain' = facts /\ instr' = instruction
                 /\ Goto(h, "succeeded") /\ leaseExpired' = leaseExpired)
      PROVE  HandlerEffect
  <2>1. UNCHANGED <<row, chain, instr, leaseExpired>>
    BY <1>6 DEF ApplyTransition, storeVars
  <2>2. CASE Goto(h, "failed") \/ Goto(h, "succeeded")
    BY <1>0, <1>q, <1>s, <2>1, <2>2, HandlerGoes
  <2>3. CASE row.reconciliationStatus = "MATCHED" /\ Goto(h, "repair")
    BY <1>0, <2>1, <2>3, MatchedLine, HandlerGoes DEF StoreMove
  <2>4. QED
    BY <1>6, <2>2, <2>3 DEF ApplyTransition, AlreadyTaken
<1>7. ASSUME NEW h \in Handlers, MarkProviderFailed(h) PROVE HandlerEffect
  <2> DEFINE after == [row EXCEPT !.providerStatus = "FAILED", !.status = "FAILED",
                                  !.observed = "conforming",
                                  !.reconciliationStatus = "NOT_APPLICABLE",
                                  !.refundStatus = "NOT_REQUIRED", !.caseStatus = "NONE"]
             facts == CloseCase(Append(chain, "PROVIDER_FAILED"))
             found == row.bankStatus = "NOT_STARTED"
  <2>1. /\ ApplyTransition(h, found, after, facts, instr)
        /\ KindOf[handler[h].note] = "failed" /\ handler[h].note \in Notifications
        /\ RowExists
    BY <1>0, <1>7 DEF MarkProviderFailed, TypeOK, WebhookTypeOK, HandlerMemory, LeaseInv, Fresh
  <2>2. found => row \in {InitialRow, RefusedRow} /\ after = RefusedRow
    BY <1>0, NotStarted, NotifiedRows
  <2> HIDE DEF after
  <2>3. CASE found /\ row' = after /\ chain' = facts /\ instr' = instr
               /\ Goto(h, "succeeded") /\ leaseExpired' = leaseExpired
    <3>1. NoneLoads
      BY <1>0, <1>s, <2>3, HandlerGoes
    <3>2. Refuses
      BY <2>1, <2>2, <2>3 DEF Refuses
    <3>3. QED
      BY <2>2, <2>3, <3>1, <3>2 DEF StoreMove
  <2>4. QED
    BY <1>6, <2>1, <2>3
<1>8. ASSUME NEW h \in Handlers, ConfirmAndClaimBankProcessing(h) PROVE HandlerEffect
  <2> DEFINE after == [row EXCEPT !.providerStatus = "CONFIRMED", !.observed = "conforming",
                                  !.bankStatus = "PROCESSING", !.status = "PROCESSING"]
             facts == Append(chain, "PROVIDER_CONFIRMED")
             found == row.bankStatus = "NOT_STARTED" /\ row.providerStatus \in {"INITIATED", "PENDING"}
  <2>1. ApplyTransition(h, found, after, facts, Enqueued) /\ RowExists
    BY <1>8 DEF ConfirmAndClaimBankProcessing, LeaseInv, Fresh
  <2>2. found => row = InitialRow /\ after = TakenRow
    BY <1>0, NotStarted, NotifiedRows, LineFields
  <2> HIDE DEF after
  <2>3. CASE found /\ row' = after /\ chain' = facts /\ instr' = Enqueued
               /\ Goto(h, "succeeded") /\ leaseExpired' = leaseExpired
    <3>1. NoneLoads
      BY <1>0, <1>s, <2>3, HandlerGoes
    <3>2. QED
      BY <2>1, <2>2, <2>3, <3>1 DEF StoreMove, Collects
  <2>4. QED
    BY <1>6, <2>1, <2>3
<1>9. ASSUME NEW h \in Handlers, MarkAmountMismatch(h) PROVE HandlerEffect
  <2> DEFINE kind == KindOf[handler[h].note]
             after == [row EXCEPT !.providerStatus = "CONFIRMED", !.observed = kind,
                             !.bankStatus = "BLOCKED", !.status = "FAILED",
                             !.reconciliationStatus = IF kind = "currency" THEN "CURRENCY_MISMATCH"
                                                                           ELSE "AMOUNT_MISMATCH",
                             !.refundStatus = "REQUIRED", !.caseStatus = "MANUAL_REVIEW"]
             facts == chain \o <<"AMOUNT_MISMATCH_DETECTED", "BANK_PROCESSING_BLOCKED", "CASE_OPENED">>
             found == row.bankStatus = "NOT_STARTED"
  <2>1. /\ ApplyTransition(h, found, after, facts, instr)
        /\ kind \in {"amount", "currency"} /\ handler[h].note \in Notifications
        /\ RowExists
    BY <1>0, <1>9 DEF MarkAmountMismatch, TypeOK, WebhookTypeOK, HandlerMemory, LeaseInv, Fresh
  <2>2. found => row \in {InitialRow, RefusedRow} /\ after \in BlockedRows
    <3> HIDE DEF kind
    <3>1. QED
      BY <1>0, <2>1, NotStarted, NotifiedRows
  <2> HIDE DEF after
  <2>3. CASE found /\ row' = after /\ chain' = facts /\ instr' = instr
               /\ Goto(h, "succeeded") /\ leaseExpired' = leaseExpired
    <3>1. NoneLoads
      BY <1>0, <1>s, <2>3, HandlerGoes
    <3>2. Withholds
      BY <2>1, <2>2, <2>3 DEF Withholds
    <3>3. QED
      BY <2>2, <2>3, <3>1, <3>2 DEF StoreMove
  <2>4. QED
    BY <1>6, <2>1, <2>3
<1>10. QED
  BY <1>1, <1>2, <1>2a, <1>3, <1>4, <1>5, <1>7, <1>8, <1>9 DEF WebhookNext, HandlerStep
-----------------------------------------------------------------------------
(***************************************************************************)
(* Steps of the workers                                                    *)
(***************************************************************************)

(* A worker takes the instruction, ends its attempt, or goes on with it.   *)
Takes(w) ==
  /\ worker[w].pc = "idle" /\ InstructionClaimable
  /\ instr'.status = "IN_FLIGHT" /\ leaseExpired' = FALSE
  /\ row' = row /\ chain' = chain
  /\ worker'[w].pc = "claimed" /\ worker'[w].row = row

Ends(w) ==
  /\ worker[w].pc # "idle" /\ worker'[w].pc = "idle"
  /\ \/ row' = row /\ chain' = chain /\ instr'.status # "DEAD_LETTER"
     \/ Fails

GoesOn(w) ==
  /\ worker[w].pc # "idle" /\ worker'[w].pc # "idle"
  /\ instr' = instr /\ leaseExpired' = leaseExpired
  /\ StoreMove
  /\ row' \in {TakenRow, ExecutedRow, MatchedRow, OwedRow}
  /\ FitsLine(row', worker'[w].row, worker'[w].pc)

WorkerEffect(w) ==
  /\ reconciler' = reconciler
  /\ \A v \in Workers \ {w} : worker'[v] = worker[v]
  /\ Takes(w) \/ Ends(w) \/ GoesOn(w)

(* What a worker has in memory after a step, and that it is the only one   *)
(* whose memory changes.                                                   *)
LEMMA WorkerGoes ==
  ASSUME TypeOK, NEW w \in Workers
  PROVE  /\ Release(w) => worker'[w].pc = "idle" /\ \A v \in Workers \ {w} : worker'[v] = worker[v]
         /\ \A step : Step(w, step) =>
              /\ worker'[w].pc = step /\ worker'[w].row = worker[w].row
              /\ \A v \in Workers \ {w} : worker'[v] = worker[v]
         /\ \A step, e : StepWith(w, step, e) =>
              /\ worker'[w].pc = step /\ worker'[w].row = e
              /\ \A v \in Workers \ {w} : worker'[v] = worker[v]
<1>1. worker \in [Workers -> WorkerMemory] /\ worker[w] \in WorkerMemory
  BY DEF TypeOK, BankTypeOK
<1>2. Release(w) => worker'[w].pc = "idle" /\ \A v \in Workers \ {w} : worker'[v] = worker[v]
  BY <1>1 DEF Release, IdleWorker
<1>3. ASSUME NEW step, Step(w, step)
      PROVE  /\ worker'[w].pc = step /\ worker'[w].row = worker[w].row
             /\ \A v \in Workers \ {w} : worker'[v] = worker[v]
  BY <1>1, <1>3 DEF Step, WorkerMemory
<1>4. ASSUME NEW step, NEW e, StepWith(w, step, e)
      PROVE  /\ worker'[w].pc = step /\ worker'[w].row = e
             /\ \A v \in Workers \ {w} : worker'[v] = worker[v]
  BY <1>1, <1>4 DEF StepWith, WorkerMemory
<1>5. QED
  BY <1>2, <1>3, <1>4

(* Every step of a worker has such an effect.                              *)
LEMMA WorkerEffects ==
  ASSUME IInv, LeaseInv, NEW w \in Workers, WorkerStep(w) \/ WorkerDbFault(w) \/ WorkerCrash(w)
  PROVE  WorkerEffect(w)
<1>0. TypeOK /\ Shape
  BY DEF IInv
<1>w. /\ worker[w] \in WorkerMemory
      /\ worker[w].pc # "idle" =>
           instr.status # "NONE" /\ worker[w].row \in {TakenRow, ExecutedRow, MatchedRow, OwedRow}
      /\ worker[w].pc \in {"executed", "refused"} => worker[w].row = TakenRow
      /\ worker[w].pc = "reconcile" => worker[w].row = ExecutedRow
      /\ worker[w].pc # "idle" => row \in {TakenRow, ExecutedRow, MatchedRow, OwedRow}
  BY Lines
<1>f. worker[w].pc # "idle" => /\ FitsLine(row, worker[w].row, worker[w].pc)
                               /\ instr.status = "IN_FLIGHT" /\ ~leaseExpired
  BY DEF LeaseInv, Fresh, Exclusive
<1> USE DEF WorkerEffect
<1>e. ASSUME worker[w].pc # "idle", Release(w), reconciler' = reconciler, row' = row, chain' = chain,
             instr'.status # "DEAD_LETTER"
      PROVE  WorkerEffect(w)
  BY <1>0, <1>e, WorkerGoes DEF Ends
<1>g. ASSUME worker[w].pc # "idle", NEW step, step # "idle", NEW e, reconciler' = reconciler,
             (Step(w, step) /\ e = worker[w].row) \/ StepWith(w, step, e),
             UNCHANGED <<instr, leaseExpired>>, StoreMove,
             row' \in {TakenRow, ExecutedRow, MatchedRow, OwedRow},
             FitsLine(row', e, step)
      PROVE  WorkerEffect(w)
  BY <1>0, <1>g, WorkerGoes DEF GoesOn
<1>1. CASE ClaimNext(w)
  <2>1. worker'[w] = [pc |-> "claimed", row |-> row, attempts |-> instr.attempts + 1]
        /\ \A v \in Workers \ {w} : worker'[v] = worker[v]
    BY <1>0, <1>1 DEF ClaimNext, TypeOK, BankTypeOK
  <2>2. QED
    BY <1>1, <2>1 DEF ClaimNext, Takes
<1>2. CASE SkipSettled(w) \/ Complete(w) \/ Retry(w)
  BY <1>2, <1>e DEF SkipSettled, Complete, Retry, SaveInstruction
<1>3. CASE CallBank(w)
  <2>1. PICK step \in {"executed", "refused", "error"} : Step(w, step)
    BY <1>3 DEF CallBank
  <2>2. /\ UNCHANGED <<instr, leaseExpired, row, chain, reconciler>> /\ worker[w].pc = "claimed"
    BY <1>3 DEF CallBank, storeVars
  <2>3. FitsLine(row', worker[w].row, step)
    BY <1>f, <2>1, <2>2 DEF FitsLine
  <2>4. QED
    BY <1>g, <1>w, <2>1, <2>2, <2>3 DEF StoreMove
<1>4. CASE ApplyBankSuccess(w)
  <2>1. /\ worker[w].pc = "executed" /\ worker[w].row = TakenRow /\ row = TakenRow
        /\ row' = ExecutedRow /\ StepWith(w, "reconcile", ExecutedRow)
        /\ chain' = Append(chain, "BANK_PROCESSING_COMPLETED")
        /\ UNCHANGED <<instr, leaseExpired, reconciler>>
    BY <1>4, <1>w, <1>f, Answers DEF ApplyBankSuccess, FitsLine
  <2>2. FitsLine(row', ExecutedRow, "reconcile")
    BY <2>1, LinesApart DEF FitsLine
  <2>3. QED
    BY <1>g, <2>1, <2>2 DEF StoreMove, Executes
<1>5. CASE HandleBankFailure(w)
  <2>1. /\ worker[w].pc = "refused" /\ worker[w].row = TakenRow /\ row = TakenRow
        /\ row' = OwedRow /\ StepWith(w, "done", OwedRow)
        /\ chain' = chain \o <<"BANK_PROCESSING_FAILED", "CASE_OPENED">>
        /\ UNCHANGED <<instr, leaseExpired, reconciler>>
    BY <1>5, <1>w, <1>f, Answers DEF HandleBankFailure, FitsLine
  <2>2. FitsLine(row', OwedRow, "done")
    BY <2>1, LinesApart DEF FitsLine
  <2>3. QED
    BY <1>g, <2>1, <2>2 DEF StoreMove, Fails
<1>6. CASE Reconcile(w)
  <2>1. /\ worker[w].pc = "reconcile" /\ worker[w].row = ExecutedRow
        /\ row = ExecutedRow \/ (row = MatchedRow /\ Reconcilers # {})
        /\ row' = MatchedRow /\ StepWith(w, "done", MatchedRow)
        /\ chain' = CloseCase(Append(chain, "RECONCILIATION_MATCHED"))
        /\ UNCHANGED <<instr, leaseExpired, reconciler>>
    BY <1>6, <1>w, <1>f, Answers, LineFields DEF Reconcile, ReconcileEntity, VerdictFacts, FitsLine
  <2>2. FitsLine(row', MatchedRow, "done")
    BY <2>1, LinesApart DEF FitsLine
  <2>3. QED
    BY <1>g, <2>1, <2>2 DEF StoreMove, Matches
<1>7. CASE DeadLetter(w)
  <2>1. worker[w].pc = "error" /\ Release(w) /\ reconciler' = reconciler
    BY <1>7 DEF DeadLetter
  <2>2. CASE UNCHANGED <<instr, row, chain>>
    BY <1>e, <1>f, <2>1, <2>2
  <2>3. CASE /\ AssertTransition(worker[w].row, Indebted(worker[w].row))
             /\ row' = Indebted(worker[w].row)
             /\ chain' = chain \o <<"BANK_PROCESSING_FAILED", "CASE_OPENED">>
    <3>1. worker[w].row \in {TakenRow, OwedRow} /\ row' = OwedRow
      BY <1>w, <2>1, <2>3, Answers, LineFields
    <3>2. row \in {TakenRow, OwedRow}
      BY <1>f, <2>1, <3>1 DEF FitsLine
    <3>3. QED
      BY <1>0, <2>1, <2>3, <3>1, <3>2, WorkerGoes DEF Ends, Fails
  <2>4. QED
    BY <1>7, <2>2, <2>3 DEF DeadLetter
<1>8. CASE WorkerCrash(w)
  BY <1>8, <1>e, <1>f DEF WorkerCrash
<1>9. CASE WorkerDbFault(w)
  <2>1. UNCHANGED <<row, chain, instr, leaseExpired, reconciler>> /\ worker[w].pc # "idle"
    BY <1>9 DEF WorkerDbFault
  <2>2. CASE Release(w)
    BY <1>e, <1>f, <2>1, <2>2
  <2>3. CASE StepWith(w, "error", Mutated(w))
    <3>1. FitsLine(row, Mutated(w), "error")
      <4>1. CASE worker[w].pc = "executed"
        BY <1>w, <1>f, <4>1, Answers, LinesApart DEF FitsLine, Mutated
      <4>2. CASE worker[w].pc = "refused"
        BY <1>w, <1>f, <4>2, Answers, LinesApart DEF FitsLine, Mutated
      <4>3. CASE worker[w].pc = "reconcile"
        BY <1>w, <1>f, <4>3, Answers, LinesApart DEF FitsLine, Mutated
      <4>4. CASE worker[w].pc \notin {"executed", "refused", "reconcile"}
        BY <1>f, <2>1, <4>4 DEF FitsLine, Mutated
      <4>5. QED
        BY <4>1, <4>2, <4>3, <4>4
    <3>2. QED
      BY <1>g, <1>w, <2>1, <2>3, <3>1 DEF StoreMove
  <2>4. QED
    BY <1>9, <2>2, <2>3 DEF WorkerDbFault
<1>10. QED
  BY <1>1, <1>2, <1>3, <1>4, <1>5, <1>6, <1>7, <1>8, <1>9 DEF WorkerStep
-----------------------------------------------------------------------------
(***************************************************************************)
(* Facts                                                                   *)
(***************************************************************************)

(* The facts that a transaction adds, the closure aside.                   *)
LEMMA AddedFacts ==
  ASSUME NEW s \in Seq(TransactionEventType), NEW e \in TransactionEventType, NEW t, t # "CASE_CLOSED"
  PROVE  /\ Holds(Append(s, e), t) <=> Holds(s, t) \/ t = e
         /\ Holds(CloseCase(s), t) <=> Holds(s, t)
         /\ Holds(CloseCase(Append(s, e)), t) <=> Holds(s, t) \/ t = e
         /\ Holds(<<"PAYMENT_INITIATED">>, t) <=> t = "PAYMENT_INITIATED"
         /\ Holds(s \o <<"BANK_PROCESSING_FAILED", "CASE_OPENED">>, t)
              <=> Holds(s, t) \/ t \in {"BANK_PROCESSING_FAILED", "CASE_OPENED"}
         /\ Holds(s \o <<"AMOUNT_MISMATCH_DETECTED", "BANK_PROCESSING_BLOCKED", "CASE_OPENED">>, t)
              <=> Holds(s, t) \/ t \in {"AMOUNT_MISMATCH_DETECTED", "BANK_PROCESSING_BLOCKED", "CASE_OPENED"}
<1>1. /\ Append(s, e) \in Seq(TransactionEventType)
      /\ Holds(Append(s, e), t) <=> Holds(s, t) \/ t = e
  BY AppendHolds
<1>2. /\ Holds(CloseCase(s), t) <=> Holds(s, t)
      /\ Holds(CloseCase(Append(s, e)), t) <=> Holds(Append(s, e), t)
  BY <1>1, CloseCaseHolds
<1>3. Holds(<<"PAYMENT_INITIATED">>, t) <=> t = "PAYMENT_INITIATED"
  BY DEF Holds
<1> DEFINE two == <<"BANK_PROCESSING_FAILED", "CASE_OPENED">>
           three == <<"AMOUNT_MISMATCH_DETECTED", "BANK_PROCESSING_BLOCKED", "CASE_OPENED">>
<1>4. two \in Seq(TransactionEventType) /\ three \in Seq(TransactionEventType)
  BY DEF TransactionEventType
<1>5. Holds(two, t) <=> t \in {"BANK_PROCESSING_FAILED", "CASE_OPENED"}
  BY DEF Holds
<1>6. Holds(three, t) <=> t \in {"AMOUNT_MISMATCH_DETECTED", "BANK_PROCESSING_BLOCKED", "CASE_OPENED"}
  BY DEF Holds
<1> HIDE DEF two, three
<1>7. /\ Holds(s \o two, t) <=> Holds(s, t) \/ Holds(two, t)
      /\ Holds(s \o three, t) <=> Holds(s, t) \/ Holds(three, t)
  BY <1>4, ConcatHolds
<1>8. QED
  BY <1>1, <1>2, <1>3, <1>5, <1>6, <1>7 DEF two, three

(* A chain that grew is not empty.                                         *)
LEMMA NotEmpty ==
  ASSUME NEW s \in Seq(TransactionEventType), NEW e \in TransactionEventType
  PROVE  /\ Append(s, e) # << >>
         /\ s # << >> => CloseCase(s) # << >>
         /\ CloseCase(Append(s, e)) # << >>
         /\ s \o <<"BANK_PROCESSING_FAILED", "CASE_OPENED">> # << >>
         /\ s \o <<"AMOUNT_MISMATCH_DETECTED", "BANK_PROCESSING_BLOCKED", "CASE_OPENED">> # << >>
<1>1. \A u \in Seq(TransactionEventType), f \in TransactionEventType : Append(u, f) # << >>
  BY AppendProperties
<1>2. "CASE_CLOSED" \in TransactionEventType /\ Append(s, e) \in Seq(TransactionEventType)
  BY DEF TransactionEventType
<1>3. Append(s, e) # << >> /\ (s # << >> => CloseCase(s) # << >>) /\ CloseCase(Append(s, e)) # << >>
  BY <1>1, <1>2 DEF CloseCase
<1>4. /\ Holds(s \o <<"BANK_PROCESSING_FAILED", "CASE_OPENED">>, "CASE_OPENED")
      /\ Holds(s \o <<"AMOUNT_MISMATCH_DETECTED", "BANK_PROCESSING_BLOCKED", "CASE_OPENED">>, "CASE_OPENED")
  BY AddedFacts
<1>5. ~Holds(<< >>, "CASE_OPENED")
  BY DEF Holds
<1>6. QED
  BY <1>3, <1>4, <1>5

(* A line that exists stays.                                               *)
LEMMA LineStays == ASSUME IInv, StoreMove, RowExists PROVE RowExists'
<1>1. /\ chain \in Seq(TransactionEventType)
      /\ {"PROVIDER_FAILED", "PROVIDER_CONFIRMED", "BANK_PROCESSING_COMPLETED", "RECONCILIATION_MATCHED"}
           \subseteq TransactionEventType
  BY Lines DEF TransactionEventType
<1>2. QED
  BY <1>1, NotEmpty DEF StoreMove, Opens, Refuses, Collects, Withholds, Executes, Fails, Matches, Repairs,
                        RowExists

(* The chain keeps telling what the line tells.                            *)
LEMMA ToldStep == IInv /\ Told /\ StoreMove => Told'
<1> SUFFICES ASSUME IInv, Told, StoreMove PROVE Told'
  OBVIOUS
<1>0. chain \in Seq(TransactionEventType)
  BY Lines
<1>t. {"PROVIDER_FAILED", "PROVIDER_CONFIRMED", "BANK_PROCESSING_COMPLETED", "RECONCILIATION_MATCHED"}
        \subseteq TransactionEventType
  BY DEF TransactionEventType
<1> DEFINE Kept == {"BANK_PROCESSING_COMPLETED", "BANK_PROCESSING_FAILED", "CASE_OPENED",
                    "RECONCILIATION_MATCHED"}
<1>1. CASE UNCHANGED <<row, chain>>
  BY <1>1 DEF Told, Recorded, RowExists
<1>2. CASE Opens
  <2>1. \A t \in Kept : ~Recorded(t)'
    BY <1>0, <1>2, <1>t, AddedFacts DEF Opens, Recorded
  <2>2. QED
    BY <1>2, <2>1, LinesApart DEF Opens, Told
<1>3. CASE Refuses
  <2>1. \A t \in Kept : Recorded(t)' <=> Recorded(t)
    BY <1>0, <1>3, <1>t, AddedFacts DEF Refuses, Recorded
  <2>2. RowExists'
    BY <1>0, <1>3, <1>t, NotEmpty DEF Refuses, RowExists
  <2>3. QED
    BY <1>3, <2>1, <2>2, LinesApart DEF Refuses, Told
<1>4. CASE Collects
  <2>1. \A t \in Kept : Recorded(t)' <=> Recorded(t)
    BY <1>0, <1>4, <1>t, AddedFacts DEF Collects, Recorded
  <2>2. RowExists'
    BY <1>0, <1>4, <1>t, NotEmpty DEF Collects, RowExists
  <2>3. QED
    BY <1>4, <2>1, <2>2, LinesApart DEF Collects, Told
<1>5. CASE Withholds
  <2>1. \A t \in Kept : Recorded(t)' <=> Recorded(t) \/ t = "CASE_OPENED"
    BY <1>0, <1>5, <1>t, AddedFacts DEF Withholds, Recorded
  <2>2. RowExists'
    BY <1>0, <1>5, <1>t, NotEmpty DEF Withholds, RowExists
  <2>3. QED
    BY <1>5, <2>1, <2>2, LinesApart DEF Withholds, Told
<1>6. CASE Executes
  <2>1. \A t \in Kept : Recorded(t)' <=> Recorded(t) \/ t = "BANK_PROCESSING_COMPLETED"
    BY <1>0, <1>6, <1>t, AddedFacts DEF Executes, Recorded
  <2>2. RowExists'
    BY <1>0, <1>6, <1>t, NotEmpty DEF Executes, RowExists
  <2>3. QED
    BY <1>6, <2>1, <2>2, LinesApart DEF Executes, Told
<1>7. CASE Fails
  <2>1. \A t \in Kept : Recorded(t)' <=> Recorded(t) \/ t \in {"BANK_PROCESSING_FAILED", "CASE_OPENED"}
    BY <1>0, <1>7, <1>t, AddedFacts DEF Fails, Recorded
  <2>2. RowExists'
    BY <1>0, <1>7, <1>t, NotEmpty DEF Fails, RowExists
  <2>3. QED
    BY <1>7, <2>1, <2>2, LinesApart DEF Fails, Told
<1>8. CASE Matches
  <2>1. \A t \in Kept : Recorded(t)' <=> Recorded(t) \/ t = "RECONCILIATION_MATCHED"
    BY <1>0, <1>8, <1>t, AddedFacts DEF Matches, Recorded
  <2>2. RowExists'
    BY <1>0, <1>8, <1>t, NotEmpty DEF Matches, RowExists
  <2>3. QED
    BY <1>8, <2>1, <2>2, LinesApart DEF Matches, Told
<1>9. CASE Repairs
  <2>1. \A t \in Kept : Recorded(t)' <=> Recorded(t)
    BY <1>0, <1>9, <1>t, AddedFacts DEF Repairs, Recorded
  <2>2. RowExists'
    BY <1>0, <1>9, <1>t, NotEmpty, LinesApart DEF Repairs, RowExists, Told
  <2>3. QED
    BY <1>9, <2>1, <2>2 DEF Repairs, Told
<1>10. QED
  BY <1>1, <1>2, <1>3, <1>4, <1>5, <1>6, <1>7, <1>8, <1>9 DEF StoreMove

-----------------------------------------------------------------------------
(***************************************************************************)
(* The inductive step                                                      *)
(***************************************************************************)

(* Steps of the handlers keep the exclusion and the freshness of copies.   *)
LEMMA HandlerLeaseStep ==
  ASSUME IInv, LeaseInv, HandlerEffect, UNCHANGED bankVars PROVE LeaseInv'
<1>0. /\ UNCHANGED <<worker, reconciler>> /\ StoreMove /\ leaseExpired' = leaseExpired
      /\ Told /\ Exclusive /\ Fresh /\ Abandoned
  BY DEF HandlerEffect, bankVars, LeaseInv
<1>x. RowExists => RowExists'
  BY <1>0, LineStays
<1>1. Told'
  BY <1>0, ToldStep
<1>2. CASE instr' = instr /\ (row' = row \/ row \in {InitialRow, RefusedRow})
  <2>1. Exclusive'
    BY <1>0, <1>2 DEF Exclusive
  <2>2. CASE row' = row
    <3>1. Fresh'
      BY <1>0, <1>x, <2>2 DEF Fresh, HandlerEffect
    <3>2. QED
      BY <1>0, <1>1, <1>2, <2>1, <2>2, <3>1 DEF LeaseInv, Abandoned
  <2>3. CASE row \in {InitialRow, RefusedRow} /\ row' # row
    <3>1. instr.status = "NONE" /\ row # MatchedRow
      BY <2>3, Lines, LinesApart
    <3>2. (\A w \in Workers : worker[w].pc = "idle") /\ \A r \in Reconcilers : reconciler[r].pc # "loaded"
      BY <3>1, Lines
    <3>3. Fresh'
      BY <1>0, <1>x, <2>3, <3>1, <3>2 DEF Fresh, HandlerEffect
    <3>4. QED
      BY <1>0, <1>1, <1>2, <2>1, <3>1, <3>3 DEF LeaseInv, Abandoned
  <2>4. QED
    BY <1>2, <2>2, <2>3
<1>3. CASE row = InitialRow /\ row' = TakenRow /\ instr' = Enqueued
  <2>1. instr.status = "NONE" /\ row # MatchedRow
    BY <1>3, Lines, LinesApart
  <2>2. (\A w \in Workers : worker[w].pc = "idle") /\ \A r \in Reconcilers : reconciler[r].pc # "loaded"
    BY <2>1, Lines
  <2>3. Exclusive' /\ Fresh'
    BY <1>0, <1>3, <1>x, <2>1, <2>2, LinesApart DEF Exclusive, Fresh, HandlerEffect
  <2>4. Abandoned'
    BY <1>3 DEF Abandoned, Enqueued
  <2>5. QED
    BY <1>1, <2>3, <2>4 DEF LeaseInv
<1>4. QED
  BY <1>2, <1>3 DEF HandlerEffect
(* Steps of the workers do too.                                            *)
LEMMA WorkerLeaseStep ==
  ASSUME IInv, LeaseInv, NEW w \in Workers, WorkerEffect(w), UNCHANGED webhookVars PROVE LeaseInv'
<1>0. /\ reconciler' = reconciler /\ handler' = handler
      /\ \A v \in Workers \ {w} : worker'[v] = worker[v]
      /\ Told /\ Exclusive /\ Fresh /\ Abandoned
  BY DEF WorkerEffect, webhookVars, LeaseInv
<1>1. StoreMove
  BY DEF WorkerEffect, Takes, Ends, GoesOn, StoreMove
<1>2. Told' /\ (RowExists => RowExists')
  BY <1>0, <1>1, ToldStep, LineStays
<1>i. ASSUME NEW v \in Workers \ {w}, worker[w].pc # "idle" \/ InstructionClaimable
      PROVE  worker'[v].pc = "idle"
  BY <1>0, <1>i DEF Exclusive, InstructionClaimable
<1>3. CASE Takes(w)
  <2>1. Exclusive'
    BY <1>0, <1>3, <1>i DEF Takes, Exclusive
  <2>2. FitsLine(row', worker'[w].row, worker'[w].pc)
    BY <1>3, LinesApart DEF Takes, FitsLine
  <2>3. Fresh'
    BY <1>0, <1>2, <1>3, <1>i, <2>2 DEF Takes, Fresh
  <2>4. Abandoned'
    BY <1>3 DEF Takes, Abandoned
  <2>5. QED
    BY <1>2, <2>1, <2>3, <2>4 DEF LeaseInv
<1>r. ASSUME worker[w].pc # "idle", StoreMove
      PROVE  /\ \A r \in Reconcilers : reconciler'[r].pc = "loaded" => row' \in {ExecutedRow, MatchedRow}
             /\ \A h \in Handlers : handler'[h].pc = "repair" => row' = MatchedRow
             /\ \A h \in Handlers : handler'[h].pc = "loaded" => RowExists'
  <2>1. row \in {ExecutedRow, MatchedRow} => row' \in {ExecutedRow, MatchedRow}
    BY <1>r, LinesApart DEF StoreMove, Opens, Refuses, Collects, Withholds, Executes, Fails, Matches, Repairs
  <2>2. row = MatchedRow => row' = MatchedRow
    BY <1>r, LinesApart DEF StoreMove, Opens, Refuses, Collects, Withholds, Executes, Fails, Matches, Repairs
  <2>3. QED
    BY <1>0, <1>2, <2>1, <2>2 DEF Fresh
<1>4. CASE Ends(w)
  <2>1. worker[w].pc # "idle" /\ \A v \in Workers : worker'[v].pc = "idle"
    BY <1>0, <1>4, <1>i DEF Ends
  <2>2. Exclusive' /\ Fresh'
    BY <1>1, <1>r, <2>1 DEF Exclusive, Fresh
  <2>3. Abandoned'
    BY <1>0, <1>4 DEF Ends, Fails, Abandoned
  <2>4. QED
    BY <1>2, <2>2, <2>3 DEF LeaseInv
<1>5. CASE GoesOn(w)
  <2>1. /\ worker[w].pc # "idle" /\ instr.status = "IN_FLIGHT" /\ ~leaseExpired
        /\ instr' = instr /\ leaseExpired' = leaseExpired
        /\ \A v \in Workers \ {w} : worker'[v].pc = "idle"
    BY <1>0, <1>5, <1>i DEF GoesOn, Exclusive
  <2>2. Exclusive'
    BY <2>1 DEF Exclusive
  <2>3. \A v \in Workers : worker'[v].pc # "idle" => FitsLine(row', worker'[v].row, worker'[v].pc)
    BY <1>5, <2>1 DEF GoesOn
  <2>4. Fresh'
    BY <1>1, <1>r, <2>1, <2>3 DEF Fresh
  <2>5. Abandoned'
    BY <2>1 DEF Abandoned
  <2>6. QED
    BY <1>2, <2>2, <2>4, <2>5 DEF LeaseInv
<1>6. QED
  BY <1>3, <1>4, <1>5 DEF WorkerEffect

(* Steps of the replays: they match an executed payment, perhaps again.    *)
LEMMA ReplayLeaseStep ==
  ASSUME IInv, LeaseInv, NEW r \in Reconcilers, RunPending(r) \/ RunPendingAborts(r),
         UNCHANGED webhookVars
  PROVE  StoreMove /\ LeaseInv' /\ UNCHANGED <<instr, paid>>
<1>0. /\ handler' = handler /\ worker' = worker /\ UNCHANGED <<instr, leaseExpired, paid>>
      /\ reconciler \in [Reconcilers -> ReconcilerMemory]
      /\ Told /\ Exclusive /\ Fresh /\ Abandoned
  BY DEF RunPending, RunPendingLoad, RunPendingReconcile, RunPendingAborts, storeVars, webhookVars,
         LeaseInv, IInv, TypeOK, BankTypeOK
<1>1. Exclusive'
  BY <1>0 DEF Exclusive
<1>2. CASE RunPendingLoad(r)
  <2>1. UNCHANGED <<row, chain>> /\ row \in {ExecutedRow, MatchedRow}
    BY <1>2, Lines, LineFields DEF RunPendingLoad, storeVars
  <2>2. StoreMove /\ Told' /\ Abandoned' /\ (RowExists => RowExists')
    BY <1>0, <2>1, ToldStep, LineStays DEF StoreMove, Abandoned
  <2>3. Fresh'
    BY <1>0, <2>1, <2>2 DEF Fresh
  <2>4. QED
    BY <1>0, <1>1, <2>2, <2>3 DEF LeaseInv
<1>3. CASE RunPendingAborts(r)
  <2>1. UNCHANGED <<row, chain>> /\ reconciler' = [reconciler EXCEPT ![r] = IdleReconciler]
    BY <1>3 DEF RunPendingAborts
  <2>2. StoreMove /\ Told' /\ Abandoned' /\ (RowExists => RowExists')
    BY <1>0, <2>1, ToldStep, LineStays DEF StoreMove, Abandoned
  <2>3. Fresh'
    BY <1>0, <2>1, <2>2 DEF Fresh, IdleReconciler
  <2>4. QED
    BY <1>0, <1>1, <2>2, <2>3 DEF LeaseInv
<1>4. CASE RunPendingReconcile(r)
  <2>1. /\ reconciler[r].row = ExecutedRow /\ row \in {ExecutedRow, MatchedRow}
        /\ reconciler' = [reconciler EXCEPT ![r] = IdleReconciler]
    BY <1>0, <1>4, Lines DEF RunPendingReconcile, Fresh
  <2>2. row' = MatchedRow /\ chain' = CloseCase(Append(chain, "RECONCILIATION_MATCHED"))
    BY <1>4, <2>1, Answers, LineFields DEF RunPendingReconcile, ReconcileEntity, VerdictFacts
  <2>3. StoreMove
    BY <2>1, <2>2 DEF StoreMove, Matches
  <2>4. Told' /\ (RowExists => RowExists')
    BY <1>0, <2>3, ToldStep, LineStays
  <2>5. Abandoned'
    BY <1>0, <2>1, LinesApart DEF Abandoned
  <2>6. \A w \in Workers : worker'[w].pc # "idle" => FitsLine(row', worker'[w].row, worker'[w].pc)
    BY <1>0, <2>1, <2>2, LinesApart DEF Fresh, FitsLine
  <2>7. Fresh'
    BY <1>0, <2>1, <2>2, <2>4, <2>6 DEF Fresh, IdleReconciler
  <2>8. QED
    BY <1>0, <1>1, <2>3, <2>4, <2>5, <2>7 DEF LeaseInv
<1>5. QED
  BY <1>2, <1>3, <1>4 DEF RunPending

(* A step of the flow keeps the invariant, does one of the moves, and does *)
(* not touch a settled instruction.                                        *)
LEMMA LeaseStep ==
  ASSUME ~SlowWorkers, IInv, LeaseInv, [Next]_vars
  PROVE  /\ LeaseInv' /\ StoreMove
         /\ instr.status \in {"COMPLETED", "DEAD_LETTER"} => UNCHANGED <<instr, paid>>
<1>1. CASE UNCHANGED vars
  <2>1. /\ UNCHANGED <<row, chain, instr, leaseExpired>> /\ UNCHANGED <<worker, reconciler, handler>>
        /\ UNCHANGED paid
    BY <1>1 DEF vars, storeVars, webhookVars, bankVars
  <2>2. QED
    BY <2>1 DEF LeaseInv, Exclusive, Fresh, Told, Abandoned, Recorded, RowExists, StoreMove
<1>2. CASE Initiate /\ UNCHANGED <<webhookVars, bankVars>>
  <2>1. row = InitialRow
    BY <1>2 DEF Initiate, LeaseInv, Told
  <2>2. StoreMove /\ row' = row /\ UNCHANGED <<instr, leaseExpired, worker, reconciler, handler, paid>>
    BY <1>2, <2>1 DEF Initiate, StoreMove, Opens, webhookVars, bankVars
  <2>3. Told' /\ (RowExists => RowExists')
    BY <2>2, ToldStep, LineStays DEF LeaseInv
  <2>4. QED
    BY <2>2, <2>3 DEF LeaseInv, Exclusive, Fresh, Abandoned
<1>3. CASE WebhookNext /\ UNCHANGED bankVars
  <2>1. HandlerEffect /\ paid' = paid
    BY <1>3, HandlerEffects DEF bankVars
  <2>2. instr.status \in {"COMPLETED", "DEAD_LETTER"} => instr' = instr
    BY <2>1, Lines, LinesApart DEF HandlerEffect
  <2>3. QED
    BY <1>3, <2>1, <2>2, HandlerLeaseStep DEF HandlerEffect
<1>4. ASSUME NEW w \in Workers, WorkerStep(w) \/ WorkerDbFault(w) \/ WorkerCrash(w),
             UNCHANGED webhookVars
      PROVE  /\ LeaseInv' /\ StoreMove
             /\ instr.status \notin {"COMPLETED", "DEAD_LETTER"}
  <2>1. WorkerEffect(w)
    BY <1>4, WorkerEffects
  <2>2. StoreMove
    BY <2>1 DEF WorkerEffect, Takes, Ends, GoesOn, StoreMove
  <2>3. instr.status \notin {"COMPLETED", "DEAD_LETTER"}
    BY <2>1 DEF WorkerEffect, Takes, Ends, GoesOn, InstructionClaimable, LeaseInv, Exclusive
  <2>4. QED
    BY <1>4, <2>1, <2>2, <2>3, WorkerLeaseStep
<1>5. CASE LeaseExpires /\ UNCHANGED webhookVars
  <2>1. /\ \A w \in Workers : worker[w].pc = "idle"
        /\ UNCHANGED <<row, chain, instr, worker, reconciler, handler, paid>>
    BY <1>5 DEF LeaseExpires, bankVars, webhookVars
  <2>2. StoreMove /\ Told' /\ (RowExists => RowExists')
    BY <2>1, ToldStep, LineStays DEF StoreMove, LeaseInv
  <2>3. QED
    BY <2>1, <2>2 DEF LeaseInv, Exclusive, Fresh, Abandoned
<1>6. QED
  BY <1>1, <1>2, <1>3, <1>4, <1>5, ReplayLeaseStep DEF Next, BankNext

(* At the start nobody is at work and nothing was recorded.                *)
LEMMA LeaseStart == Init => LeaseInv
<1> SUFFICES ASSUME Init PROVE LeaseInv
  OBVIOUS
<1>1. row = InitialRow /\ \A t : ~Recorded(t)
  BY DEF Init, StoreInit, Recorded, Holds
<1>2. QED
  BY <1>1, LinesApart DEF Init, StoreInit, BankInit, WebhookInit, IdleWorker, IdleReconciler, IdleHandler,
              LeaseInv, Exclusive, Fresh, Told, Abandoned

(* The exclusion of workers, the freshness of copies and the agreement of  *)
(* line and chain are invariant.                                           *)
LEMMA LeaseInductive == ASSUME ~SlowWorkers PROVE Spec => [](IInv /\ LeaseInv)
<1>1. IInv /\ LeaseInv /\ [Next]_vars => LeaseInv'
  BY LeaseStep
<1>2. QED
  BY <1>1, LeaseStart, Inductive, PTL DEF Spec
-----------------------------------------------------------------------------
(***************************************************************************)
(* Theorems about the bank leg                                             *)
(***************************************************************************)

(* The debt columns of each value of the line.                             *)
LEMMA DebtColumns ==
  /\ \A e \in BlockedRows \union {OwedRow} :
       /\ e.refundStatus = "REQUIRED" /\ e.caseStatus = "MANUAL_REVIEW"
       /\ e.bankStatus \in {"FAILED", "BLOCKED"}
  /\ \A e \in {InitialRow, RefusedRow, TakenRow, ExecutedRow, MatchedRow} :
       e.refundStatus = "NOT_REQUIRED" /\ e.caseStatus = "NONE" /\ e.bankStatus \notin {"FAILED", "BLOCKED"}
<1> USE DEF InitialRow, RefusedRow, BlockedRow, BlockedRows, TakenRow, Executed, Verdict, Indebted,
            ExecutedRow, MatchedRow, OwedRow
<1>1. \A e \in BlockedRows :
        e.refundStatus = "REQUIRED" /\ e.caseStatus = "MANUAL_REVIEW" /\ e.bankStatus = "BLOCKED"
  OBVIOUS
<1>2. OwedRow.refundStatus = "REQUIRED" /\ OwedRow.caseStatus = "MANUAL_REVIEW" /\ OwedRow.bankStatus = "FAILED"
  OBVIOUS
<1>3. /\ InitialRow.refundStatus = "NOT_REQUIRED" /\ InitialRow.caseStatus = "NONE"
      /\ RefusedRow.refundStatus = "NOT_REQUIRED" /\ RefusedRow.caseStatus = "NONE"
      /\ TakenRow.refundStatus = "NOT_REQUIRED" /\ TakenRow.caseStatus = "NONE"
  OBVIOUS
<1>4. /\ ExecutedRow.refundStatus = "NOT_REQUIRED" /\ ExecutedRow.caseStatus = "NONE"
      /\ ExecutedRow.bankStatus = "COMPLETED"
  OBVIOUS
<1>4a. /\ MatchedRow.refundStatus = "NOT_REQUIRED" /\ MatchedRow.caseStatus = "NONE"
       /\ MatchedRow.bankStatus = "COMPLETED"
  OBVIOUS
<1>5. QED
  BY ONLY <1>1, <1>2, <1>3, <1>4, <1>4a, LineFields

(* The chain of a payment never tells both that the bank executed and that *)
(* it failed, whatever the lost answers, the crashes, the failed commits   *)
(* and the replays, if no worker outlasts its lease (applyBankSuccess,     *)
(* handleBankFailure, deadLetter).                                         *)
THEOREM OneBankVerdictHolds == ASSUME ~SlowWorkers PROVE Spec => []OneBankVerdict
<1>1. LeaseInv => OneBankVerdict
  BY LinesApart DEF LeaseInv, Told, OneBankVerdict
<1>2. QED
  BY <1>1, LeaseInductive, PTL

(* The line owes a refund and keeps its case under review exactly when the *)
(* bank leg was lost, and the chain holds the fact that opens the debt; an *)
(* abandoned instruction is such a debt (markAmountMismatch,               *)
(* handleBankFailure, deadLetter).                                         *)
THEOREM DebtMatchesLostLegHolds == ASSUME ~SlowWorkers PROVE Spec => []DebtMatchesLostLeg
<1>1. IInv /\ LeaseInv => DebtMatchesLostLeg
  BY Lines, DebtColumns, LineFields DEF LeaseInv, Told, Abandoned, DebtMatchesLostLeg
<1>2. QED
  BY <1>1, LeaseInductive, PTL

(* An instruction that was acknowledged or abandoned is never written      *)
(* again, and the bank is never called for it again (claimNext).           *)
THEOREM SettledInstructionIsOverHolds == ASSUME ~SlowWorkers PROVE Spec => SettledInstructionIsOver
<1>1. IInv /\ LeaseInv /\ [Next]_vars =>
        [instr.status \in {"COMPLETED", "DEAD_LETTER"} => UNCHANGED <<instr, paid>>]_<<instr, paid>>
  BY LeaseStep
<1>2. QED
  BY <1>1, LeaseInductive, PTL DEF Spec, SettledInstructionIsOver

-----------------------------------------------------------------------------
(***************************************************************************)
(* The line and the promise of PaymentCase.  An aggregator that reports a  *)
(* gap for a payment it also refused makes the gateway write a debt over   *)
(* the refusal (markAmountMismatch looks at the bank leg only).  The moves *)
(* of the line name that case; the refinement is about an aggregator that  *)
(* does not do both.                                                       *)
(***************************************************************************)
NoRefusal == \A n \in Notifications : KindOf[n] # "failed"
NoGap     == \A n \in Notifications : KindOf[n] \notin {"amount", "currency"}

(* A case is closed exactly when its payment was refused or matched.       *)
Sealed ==
  /\ Recorded("CASE_CLOSED") <=> row \in {RefusedRow, MatchedRow}
  /\ row = RefusedRow => ~NoRefusal

CaseInv == IInv /\ LeaseInv /\ Sealed

(* The closure is added once the case has a fact, and stays.               *)
LEMMA ClosureHolds ==
  ASSUME NEW s \in Seq(TransactionEventType), NEW e \in TransactionEventType
  PROVE  /\ s # << >> => Holds(CloseCase(s), "CASE_CLOSED")
         /\ Holds(CloseCase(Append(s, e)), "CASE_CLOSED")
         /\ e # "CASE_CLOSED" => (Holds(Append(s, e), "CASE_CLOSED") <=> Holds(s, "CASE_CLOSED"))
         /\ Holds(s \o <<"BANK_PROCESSING_FAILED", "CASE_OPENED">>, "CASE_CLOSED")
              <=> Holds(s, "CASE_CLOSED")
         /\ Holds(s \o <<"AMOUNT_MISMATCH_DETECTED", "BANK_PROCESSING_BLOCKED", "CASE_OPENED">>, "CASE_CLOSED")
              <=> Holds(s, "CASE_CLOSED")
         /\ ~Holds(<<"PAYMENT_INITIATED">>, "CASE_CLOSED")
<1>1. "CASE_CLOSED" \in TransactionEventType
  BY DEF TransactionEventType
<1>2. \A u \in Seq(TransactionEventType) : u # << >> => Holds(CloseCase(u), "CASE_CLOSED")
  BY <1>1, AppendHolds DEF CloseCase
<1>3. Append(s, e) \in Seq(TransactionEventType) /\ Append(s, e) # << >>
  BY NotEmpty
<1>4. e # "CASE_CLOSED" => (Holds(Append(s, e), "CASE_CLOSED") <=> Holds(s, "CASE_CLOSED"))
  BY AppendHolds
<1> DEFINE two == <<"BANK_PROCESSING_FAILED", "CASE_OPENED">>
           three == <<"AMOUNT_MISMATCH_DETECTED", "BANK_PROCESSING_BLOCKED", "CASE_OPENED">>
<1>5. two \in Seq(TransactionEventType) /\ three \in Seq(TransactionEventType)
  BY DEF TransactionEventType
<1>6. ~Holds(two, "CASE_CLOSED") /\ ~Holds(three, "CASE_CLOSED")
  BY DEF Holds
<1> HIDE DEF two, three
<1>7. /\ Holds(s \o two, "CASE_CLOSED") <=> Holds(s, "CASE_CLOSED")
      /\ Holds(s \o three, "CASE_CLOSED") <=> Holds(s, "CASE_CLOSED")
  BY <1>5, <1>6, ConcatHolds
<1>8. ~Holds(<<"PAYMENT_INITIATED">>, "CASE_CLOSED")
  BY DEF Holds
<1>9. QED
  BY <1>2, <1>3, <1>4, <1>7, <1>8 DEF two, three

(* Every move of the line keeps the closure exactly on a matched line.     *)
LEMMA SealedStep ==
  ASSUME NoRefusal \/ NoGap, IInv, LeaseInv, Sealed, StoreMove PROVE Sealed'
<1>0. chain \in Seq(TransactionEventType) /\ Told
  BY Lines DEF LeaseInv
<1>t. {"PROVIDER_FAILED", "PROVIDER_CONFIRMED", "BANK_PROCESSING_COMPLETED", "RECONCILIATION_MATCHED"}
        \subseteq TransactionEventType \ {"CASE_CLOSED"}
  BY DEF TransactionEventType
<1> USE LinesApart DEF Sealed, Recorded
<1>1. CASE UNCHANGED <<row, chain>>
  BY <1>1
<1>2. CASE Opens
  BY <1>0, <1>2, <1>t, ClosureHolds DEF Opens
<1>3. CASE Refuses
  BY <1>0, <1>3, <1>t, ClosureHolds DEF Refuses, NoRefusal
<1>4. CASE Collects
  BY <1>0, <1>4, <1>t, ClosureHolds DEF Collects
<1>5. CASE Withholds
  <2>1. row = InitialRow
    BY <1>5 DEF Withholds, NoGap
  <2>2. QED
    BY <1>0, <1>5, <1>t, <2>1, ClosureHolds DEF Withholds
<1>6. CASE Executes
  BY <1>0, <1>6, <1>t, ClosureHolds DEF Executes
<1>7. CASE Fails
  BY <1>0, <1>7, <1>t, ClosureHolds DEF Fails
<1>8. CASE Matches
  BY <1>0, <1>8, <1>t, ClosureHolds DEF Matches
<1>9. CASE Repairs
  BY <1>0, <1>9, <1>t, ClosureHolds DEF Repairs, Told, RowExists
<1>10. QED
  BY <1>1, <1>2, <1>3, <1>4, <1>5, <1>6, <1>7, <1>8, <1>9 DEF StoreMove

(* The invariant of the refinement holds for ever.                         *)
LEMMA CaseInductive ==
  ASSUME ~SlowWorkers, NoRefusal \/ NoGap PROVE Spec => []CaseInv
<1>1. Init => Sealed
  <2> SUFFICES ASSUME Init PROVE Sealed
    OBVIOUS
  <2>1. row = InitialRow /\ ~Recorded("CASE_CLOSED")
    BY DEF Init, StoreInit, Recorded, Holds
  <2>2. QED
    BY <2>1, LinesApart DEF Sealed
<1>2. IInv /\ LeaseInv /\ Sealed /\ [Next]_vars => Sealed'
  BY LeaseStep, SealedStep
<1>3. QED
  BY <1>1, <1>2, LeaseInductive, PTL DEF Spec, CaseInv
(* The proper moves of the line are moves the state machine allows.        *)
LEMMA MovesAllowed ==
  /\ AssertTransition(InitialRow, RefusedRow)
  /\ AssertTransition(InitialRow, TakenRow)
  /\ \A b \in BlockedRows : AssertTransition(InitialRow, b)
  /\ AssertTransition(TakenRow, ExecutedRow)
  /\ AssertTransition(TakenRow, OwedRow)
  /\ AssertTransition(ExecutedRow, MatchedRow)
<1> USE DEF AssertTransition, NoBrokenInvariants, BankRequiresProviderConfirmation,
            RefundRequiresCollection, RefundEngaged, ResolvedCaseRequiresExtinctDebt,
            MatchedRequiresBothLegsDone, BlockedBankImpliesDeclaredGap, NoIllegalMoves, LegalMove,
            StatusMoves, ProviderMoves, BankMoves, ReconciliationMoves, ReconciliationStatus,
            RefundMoves, CaseMoves, InitialRow
<1>1. AssertTransition(InitialRow, RefusedRow)
  BY DEF RefusedRow
<1>2. AssertTransition(InitialRow, TakenRow)
  BY DEF TakenRow
<1>3. AssertTransition(InitialRow, BlockedRow("amount"))
  BY DEF BlockedRow
<1>4. AssertTransition(InitialRow, BlockedRow("currency"))
  BY DEF BlockedRow
<1>5. QED
  BY ONLY <1>1, <1>2, <1>3, <1>4, AnsweredRows DEF BlockedRows, ExecutedRow, MatchedRow, OwedRow

(* Every committed change of the line is a move that the state machine     *)
(* allows from the committed line and leaves its invariants true, although *)
(* each writer checks it from an older copy and saves that copy whole; a   *)
(* gap written over a refusal is the one exception.                        *)
THEOREM LegalRowMovesHolds ==
  ASSUME ~SlowWorkers PROVE Spec => LegalRowMoves
<1>1. IInv /\ LeaseInv /\ [Next]_vars =>
        [RowExists => /\ NoIllegalMoves(row, row') \/ GapOverRefusal(row, row')
                      /\ NoBrokenInvariants(row')]_row
  <2> SUFFICES ASSUME IInv, LeaseInv, [Next]_vars, row' # row
               PROVE  /\ NoIllegalMoves(row, row') \/ GapOverRefusal(row, row')
                      /\ NoBrokenInvariants(row')
    OBVIOUS
  <2>1. StoreMove
    BY LeaseStep
  <2>2. \/ row = InitialRow /\ row' \in {RefusedRow, TakenRow} \union BlockedRows
        \/ row = TakenRow /\ row' \in {ExecutedRow, OwedRow}
        \/ row = ExecutedRow /\ row' = MatchedRow
        \/ row = RefusedRow /\ row' \in BlockedRows
    BY <2>1 DEF StoreMove, Opens, Refuses, Collects, Withholds, Executes, Fails, Matches, Repairs
  <2>3. CASE row = RefusedRow /\ row' \in BlockedRows
    <3>1. GapOverRefusal(row, row')
      BY <2>3, LineFields DEF GapOverRefusal
    <3>2. AssertTransition(InitialRow, row')
      BY <2>3, MovesAllowed
    <3>3. QED
      BY <3>1, <3>2 DEF AssertTransition
  <2>4. CASE ~(row = RefusedRow /\ row' \in BlockedRows)
    <3>1. AssertTransition(row, row')
      BY <2>2, <2>4, MovesAllowed
    <3>2. QED
      BY <3>1 DEF AssertTransition
  <2>5. QED
    BY <2>3, <2>4
<1>2. QED
  BY <1>1, LeaseInductive, PTL DEF Spec, LegalRowMoves

-----------------------------------------------------------------------------
(* The fate of the payment and the state of the case that each value of    *)
(* the line shows.                                                         *)
FateTable ==
  /\ row \in {InitialRow, RefusedRow} \union BlockedRows
               \union {TakenRow, ExecutedRow, MatchedRow, OwedRow}
  /\ row = InitialRow => Fate = "awaited" /\ File = (IF RowExists THEN "open" ELSE "none")
  /\ row = RefusedRow => Fate = "refused" /\ File = "closed"
  /\ row = TakenRow => Fate = "collected" /\ File = "open"
  /\ row \in BlockedRows \union {OwedRow} => Fate = "owed" /\ File = "review"
  /\ row = ExecutedRow => Fate = "delivered" /\ File = "open"
  /\ row = MatchedRow => Fate = "delivered" /\ File = "closed"

(* The fate that the mapping shows is the one the table gives for the line.*)
LEMMA FateShown == CaseInv => FateTable
<1> SUFFICES ASSUME CaseInv PROVE FateTable
  OBVIOUS
<1>0. /\ IInv /\ Told /\ Sealed
      /\ row # InitialRow => RowExists
  BY DEF CaseInv, LeaseInv, Told
<1>1. row \in {InitialRow, RefusedRow} \union BlockedRows
                \union {TakenRow, ExecutedRow, MatchedRow, OwedRow}
  BY <1>0, Lines
<1>p. /\ \A e \in BlockedRows \union {TakenRow, ExecutedRow, MatchedRow, OwedRow} :
           e.providerStatus = "CONFIRMED"
  <2> USE DEF InitialRow, BlockedRow, BlockedRows, TakenRow, Executed, Verdict, Indebted,
              ExecutedRow, MatchedRow, OwedRow
  <2>1. \A b \in BlockedRows : b.providerStatus = "CONFIRMED"
    OBVIOUS
  <2>2. TakenRow.providerStatus = "CONFIRMED" /\ OwedRow.providerStatus = "CONFIRMED"
    OBVIOUS
  <2>3. ExecutedRow.providerStatus = "CONFIRMED" /\ MatchedRow.providerStatus = "CONFIRMED"
    OBVIOUS
  <2>4. QED
    BY ONLY <2>1, <2>2, <2>3
<1>2. CASE row = InitialRow
  <2>1. /\ row.providerStatus = "PENDING" /\ row.bankStatus = "NOT_STARTED" /\ row.caseStatus = "NONE"
        /\ ~Recorded("CASE_CLOSED")
    BY <1>0, <1>2, LineFields, DebtColumns, LinesApart DEF Sealed
  <2>2. QED
    BY <1>2, <2>1, LinesApart DEF FateTable, Fate, File
<1>3. CASE row = RefusedRow
  <2>1. /\ row.providerStatus = "FAILED" /\ row.bankStatus = "NOT_STARTED" /\ row.caseStatus = "NONE"
        /\ Recorded("CASE_CLOSED") /\ RowExists
    BY <1>0, <1>3, LineFields, DebtColumns, LinesApart DEF Sealed
  <2>2. QED
    BY <1>3, <2>1, LinesApart DEF FateTable, Fate, File
<1>4. CASE row = TakenRow
  <2>1. /\ row.providerStatus = "CONFIRMED" /\ row.bankStatus = "PROCESSING" /\ row.caseStatus = "NONE"
        /\ ~Recorded("CASE_CLOSED") /\ RowExists
    BY <1>0, <1>4, <1>p, LineFields, DebtColumns, LinesApart DEF Sealed
  <2>2. QED
    BY <1>4, <2>1, LinesApart DEF FateTable, Fate, File
<1>5. CASE row \in BlockedRows \union {OwedRow}
  <2>1. /\ row.providerStatus = "CONFIRMED" /\ row.bankStatus \in {"FAILED", "BLOCKED"}
        /\ row.caseStatus = "MANUAL_REVIEW" /\ ~Recorded("CASE_CLOSED") /\ RowExists
    BY <1>0, <1>5, <1>p, DebtColumns, LinesApart DEF Sealed
  <2>2. QED
    BY <1>5, <2>1, LinesApart DEF FateTable, Fate, File
<1>6. CASE row = ExecutedRow
  <2>1. /\ row.providerStatus = "CONFIRMED" /\ row.bankStatus = "COMPLETED" /\ row.caseStatus = "NONE"
        /\ ~Recorded("CASE_CLOSED") /\ RowExists
    BY <1>0, <1>6, <1>p, LineFields, DebtColumns, LinesApart DEF Sealed
  <2>2. QED
    BY <1>6, <2>1, LinesApart DEF FateTable, Fate, File
<1>7. CASE row = MatchedRow
  <2>1. /\ row.providerStatus = "CONFIRMED" /\ row.bankStatus = "COMPLETED" /\ row.caseStatus = "NONE"
        /\ Recorded("CASE_CLOSED") /\ RowExists
    BY <1>0, <1>7, <1>p, LineFields, DebtColumns, LinesApart DEF Sealed
  <2>2. QED
    BY <1>7, <2>1, LinesApart DEF FateTable, Fate, File
<1>8. QED
  BY <1>1, <1>2, <1>3, <1>4, <1>5, <1>6, <1>7

(* The flow implements PaymentCase: the money of the payer has one fate, a *)
(* refusal closes the case in the same step, a lost leg opens a review in  *)
(* the same step, and a delivered payment is closed and never reopened.    *)
THEOREM KeepsPaymentCaseHolds ==
  ASSUME ~SlowWorkers, NoRefusal \/ NoGap PROVE Spec => KeepsPaymentCase
<1>1. Init => Case!Init
  <2> SUFFICES ASSUME Init PROVE Case!Init
    OBVIOUS
  <2>1. row = InitialRow /\ ~RowExists
    BY DEF Init, StoreInit, RowExists
  <2>2. /\ row.providerStatus = "PENDING" /\ row.bankStatus = "NOT_STARTED" /\ row.caseStatus = "NONE"
        /\ ~Recorded("CASE_CLOSED")
    BY <2>1, LineFields, DebtColumns DEF RowExists, Recorded, Holds
  <2>3. QED
    BY <2>1, <2>2 DEF Case!Init, Fate, File
<1>2. CaseInv' => FateTable'
  BY FateShown, PTL
<1>3. CaseInv /\ CaseInv' /\ [Next]_vars => [Case!Next]_(Case!caseVars)
  <2> SUFFICES ASSUME CaseInv, CaseInv', [Next]_vars PROVE [Case!Next]_(Case!caseVars)
    OBVIOUS
  <2>1. FateTable /\ FateTable' /\ StoreMove /\ Sealed
    BY <1>2, FateShown, LeaseStep DEF CaseInv
  <2>2. IInv
    BY DEF CaseInv
  <2> USE DEF Case!Next, Case!caseVars, Case!Moves
  <2>3. CASE UNCHANGED <<row, chain>>
    BY <2>3 DEF Fate, File, RowExists, Recorded
  <2>4. CASE Opens
    <3>1. RowExists'
      BY <2>4 DEF Opens, RowExists
    <3>2. Fate = "awaited" /\ File = "none"
      BY <2>1, <2>4 DEF Opens, FateTable
    <3>3. Fate' = "awaited" /\ File' = "open"
      BY <2>1, <2>4, <3>1 DEF Opens, FateTable
    <3>4. QED
      BY <3>2, <3>3 DEF Case!Request
  <2>5. CASE Refuses
    <3>1. Fate' = "refused" /\ File' = "closed"
      BY <2>1, <2>5 DEF Refuses, FateTable
    <3>2. (Fate = "awaited" /\ File = "open") \/ (Fate = "refused" /\ File = "closed")
      BY <2>1, <2>5 DEF Refuses, FateTable
    <3>3. QED
      BY <3>1, <3>2 DEF Case!Refuse
  <2>6. CASE Collects
    <3>1. Fate = "awaited" /\ File = "open"
      BY <2>1, <2>6 DEF Collects, FateTable
    <3>2. Fate' = "collected" /\ File' = "open"
      BY <2>1, <2>6 DEF Collects, FateTable
    <3>3. QED
      BY <3>1, <3>2 DEF Case!Collect
  <2>7. CASE Withholds
    <3>0. row = InitialRow
      BY <2>1, <2>7 DEF Withholds, Sealed, NoGap
    <3>1. Fate = "awaited" /\ File = "open"
      BY <2>1, <2>7, <3>0 DEF Withholds, FateTable
    <3>2. Fate' = "owed" /\ File' = "review"
      BY <2>1, <2>7 DEF Withholds, FateTable
    <3>3. QED
      BY <3>1, <3>2 DEF Case!Withhold
  <2>8. CASE Executes
    <3>1. Fate = "collected" /\ File = "open"
      BY <2>1, <2>8 DEF Executes, FateTable
    <3>2. Fate' = "delivered" /\ File' = "open"
      BY <2>1, <2>8 DEF Executes, FateTable
    <3>3. QED
      BY <3>1, <3>2 DEF Case!Deliver
  <2>9. CASE Fails
    <3>1. (Fate = "collected" /\ File = "open") \/ (Fate = "owed" /\ File = "review")
      BY <2>1, <2>9 DEF Fails, FateTable
    <3>2. Fate' = "owed" /\ File' = "review"
      BY <2>1, <2>9 DEF Fails, FateTable
    <3>3. QED
      BY <3>1, <3>2 DEF Case!Fail
  <2>10. CASE Matches
    <3>1. Fate = "delivered" /\ File \in {"open", "closed"}
      BY <2>1, <2>10 DEF Matches, FateTable
    <3>2. Fate' = "delivered" /\ File' = "closed"
      BY <2>1, <2>10 DEF Matches, FateTable
    <3>3. QED
      BY <3>1, <3>2 DEF Case!Close
  <2>11. CASE Repairs
    <3>1. Fate = "delivered" /\ File = "closed"
      BY <2>1, <2>11 DEF Repairs, FateTable
    <3>2. Fate' = "delivered" /\ File' = "closed"
      BY <2>1, <2>11 DEF Repairs, FateTable
    <3>3. QED
      BY <3>1, <3>2
  <2>12. QED
    BY <2>1, <2>3, <2>4, <2>5, <2>6, <2>7, <2>8, <2>9, <2>10, <2>11 DEF StoreMove
<1>4. QED
  BY <1>1, <1>3, CaseInductive, PTL DEF Spec, KeepsPaymentCase, Case!Spec
-----------------------------------------------------------------------------
(***************************************************************************)
(* The chain of a payment, with refusals, gaps and replays in any order: a *)
(* refusal handled twice, a gap that read the line before the refusal and  *)
(* a replay that read it before the match each record facts behind the     *)
(* closure, and nothing else does.                                         *)
(***************************************************************************)

(* Every closure of these facts seals this outcome, the fact before it,    *)
(* and only facts of later types come after it.                            *)
Seals(facts, outcome, later) ==
  \A i \in DOMAIN facts : facts[i] = "CASE_CLOSED" =>
    /\ i > 1 /\ facts[i - 1] = outcome
    /\ \A j \in DOMAIN facts : j > i => facts[j] \in later

(* Facts without a closure seal any outcome; facts that may come later     *)
(* keep it sealed; the first closure seals the fact it follows.            *)
LEMMA SealsAppended ==
  ASSUME NEW s \in Seq(TransactionEventType), NEW e \in TransactionEventType \ {"CASE_CLOSED"},
         NEW outcome, NEW later
  PROVE  /\ ~Holds(s, "CASE_CLOSED") => Seals(s, outcome, later)
         /\ Seals(s, outcome, later) /\ e \in later => Seals(Append(s, e), outcome, later)
         /\ ~Holds(s, "CASE_CLOSED") => Seals(CloseCase(Append(s, e)), e, later)
<1>1. ASSUME NEW u \in Seq(TransactionEventType), NEW d \in TransactionEventType
      PROVE  /\ DOMAIN u = 1..Len(u) /\ Len(u) \in Nat
             /\ Append(u, d) \in Seq(TransactionEventType)
             /\ DOMAIN Append(u, d) = 1..(Len(u) + 1) /\ Len(Append(u, d)) = Len(u) + 1
             /\ \A i \in 1..Len(u) : Append(u, d)[i] = u[i]
             /\ Append(u, d)[Len(u) + 1] = d
             /\ \A i \in 1..(Len(u) + 1) : i \in 1..Len(u) \/ i = Len(u) + 1
  BY AppendProperties
<1>2. ~Holds(s, "CASE_CLOSED") => Seals(s, outcome, later)
  BY DEF Holds, Seals
<1>3. ASSUME Seals(s, outcome, later), e \in later PROVE Seals(Append(s, e), outcome, later)
  <2> SUFFICES ASSUME NEW i \in DOMAIN Append(s, e), Append(s, e)[i] = "CASE_CLOSED"
               PROVE  /\ i > 1 /\ Append(s, e)[i - 1] = outcome
                      /\ \A j \in DOMAIN Append(s, e) : j > i => Append(s, e)[j] \in later
    BY DEF Seals
  <2>1. i \in 1..Len(s) /\ s[i] = "CASE_CLOSED"
    BY <1>1
  <2>2. i > 1 /\ s[i - 1] = outcome /\ \A j \in DOMAIN s : j > i => s[j] \in later
    BY <1>1, <1>3, <2>1 DEF Seals
  <2>3. i - 1 \in 1..Len(s)
    BY <1>1, <2>1, <2>2
  <2>4. ASSUME NEW j \in DOMAIN Append(s, e), j > i PROVE Append(s, e)[j] \in later
    BY <1>1, <1>3, <2>2, <2>4
  <2>5. QED
    BY <1>1, <2>2, <2>3, <2>4
<1>4. ASSUME ~Holds(s, "CASE_CLOSED") PROVE Seals(CloseCase(Append(s, e)), e, later)
  <2> DEFINE u == Append(s, e)
  <2>1. u \in Seq(TransactionEventType) /\ u # << >> /\ ~Holds(u, "CASE_CLOSED")
    BY <1>4, NotEmpty, ClosureHolds
  <2>2. "CASE_CLOSED" \in TransactionEventType
    BY DEF TransactionEventType
  <2>3. /\ Len(u) \in Nat /\ Len(u) = Len(s) + 1 /\ Len(s) \in Nat /\ u[Len(u)] = e
    BY <1>1
  <2> HIDE DEF u
  <2>4. CloseCase(u) = Append(u, "CASE_CLOSED")
    BY <2>1 DEF CloseCase
  <2>5. ASSUME NEW i \in DOMAIN CloseCase(u), CloseCase(u)[i] = "CASE_CLOSED"
        PROVE  i = Len(u) + 1
    BY <1>1, <2>1, <2>2, <2>4, <2>5 DEF Holds
  <2>6. DOMAIN CloseCase(u) = 1..(Len(u) + 1) /\ CloseCase(u)[Len(u)] = e
    BY <1>1, <2>1, <2>2, <2>3, <2>4
  <2>7. Seals(CloseCase(u), e, later)
    <3> SUFFICES ASSUME NEW i \in DOMAIN CloseCase(u), CloseCase(u)[i] = "CASE_CLOSED"
                 PROVE  /\ i > 1 /\ CloseCase(u)[i - 1] = e
                        /\ \A j \in DOMAIN CloseCase(u) : j > i => CloseCase(u)[j] \in later
      BY DEF Seals
    <3>1. i = Len(u) + 1
      BY <2>5
    <3>2. QED
      BY <2>3, <2>6, <3>1
  <2>8. QED
    BY <2>7 DEF u
<1>5. QED
  BY <1>2, <1>3, <1>4

(* So do several facts that may come later.                                *)
LEMMA SealsConcatenated ==
  ASSUME NEW s \in Seq(TransactionEventType), NEW u \in Seq(TransactionEventType), NEW outcome, NEW later,
         ~Holds(u, "CASE_CLOSED"), \A i \in DOMAIN u : u[i] \in later, Seals(s, outcome, later)
  PROVE  Seals(s \o u, outcome, later)
<1>1. /\ DOMAIN s = 1..Len(s) /\ Len(s) \in Nat /\ DOMAIN u = 1..Len(u) /\ Len(u) \in Nat
      /\ DOMAIN (s \o u) = 1..(Len(s) + Len(u))
      /\ \A i \in 1..(Len(s) + Len(u)) : (s \o u)[i] = IF i <= Len(s) THEN s[i] ELSE u[i - Len(s)]
  BY ConcatProperties
<1>2. ASSUME NEW i \in DOMAIN (s \o u), ~(i <= Len(s)) PROVE (s \o u)[i] \in later /\ (s \o u)[i] # "CASE_CLOSED"
  <2>1. i - Len(s) \in DOMAIN u /\ (s \o u)[i] = u[i - Len(s)]
    BY <1>1, <1>2
  <2>2. QED
    BY <2>1 DEF Holds
<1> SUFFICES ASSUME NEW i \in DOMAIN (s \o u), (s \o u)[i] = "CASE_CLOSED"
             PROVE  /\ i > 1 /\ (s \o u)[i - 1] = outcome
                    /\ \A j \in DOMAIN (s \o u) : j > i => (s \o u)[j] \in later
  BY DEF Seals
<1>3. i <= Len(s)
  BY <1>2
<1>4. i \in DOMAIN s /\ s[i] = "CASE_CLOSED"
  BY <1>1, <1>3
<1>5. i > 1 /\ s[i - 1] = outcome /\ \A j \in DOMAIN s : j > i => s[j] \in later
  BY <1>4 DEF Seals
<1>6. (s \o u)[i - 1] = outcome
  BY <1>1, <1>3, <1>4, <1>5
<1>7. ASSUME NEW j \in DOMAIN (s \o u), j > i PROVE (s \o u)[j] \in later
  <2>1. CASE j <= Len(s)
    BY <1>1, <1>5, <1>7, <2>1
  <2>2. CASE ~(j <= Len(s))
    BY <1>2, <2>2
  <2>3. QED
    BY <2>1, <2>2
<1>8. QED
  BY <1>5, <1>6, <1>7

(* What may follow the closure of a refusal and that of a match, and that  *)
(* no other line has a closed case.                                        *)
AfterRefusal == GapFacts \union {"PROVIDER_FAILED"}
AfterMatch   == {"RECONCILIATION_MATCHED"}
Closures ==
  /\ row \in {RefusedRow} \union BlockedRows => Seals(chain, "PROVIDER_FAILED", AfterRefusal)
  /\ row = MatchedRow => Seals(chain, "RECONCILIATION_MATCHED", AfterMatch)
  /\ row \in {InitialRow, TakenRow, ExecutedRow, OwedRow} => ~Recorded("CASE_CLOSED")
  /\ row \in {RefusedRow, MatchedRow} => Recorded("CASE_CLOSED")
Outcomes ==
  /\ Recorded("PROVIDER_FAILED") => Recorded("CASE_CLOSED")
  /\ ~Recorded("REFUND_COMPLETED")

(* Every move of the line keeps these closures.                            *)
LEMMA ClosuresStep ==
  ASSUME IInv, LeaseInv, Closures, StoreMove PROVE Closures'
<1>0. chain \in Seq(TransactionEventType) /\ Told
  BY Lines DEF LeaseInv
<1>t. {"PROVIDER_FAILED", "PROVIDER_CONFIRMED", "BANK_PROCESSING_COMPLETED", "RECONCILIATION_MATCHED"}
        \subseteq TransactionEventType \ {"CASE_CLOSED"}
  BY DEF TransactionEventType
<1>k. Recorded("CASE_CLOSED") =>
        \A e \in TransactionEventType \ {"CASE_CLOSED"} : CloseCase(Append(chain, e)) = Append(chain, e)
  <2> SUFFICES ASSUME Recorded("CASE_CLOSED"), NEW e \in TransactionEventType \ {"CASE_CLOSED"}
               PROVE  CloseCase(Append(chain, e)) = Append(chain, e)
    OBVIOUS
  <2>1. Holds(Append(chain, e), "CASE_CLOSED")
    BY <1>0, ClosureHolds DEF Recorded
  <2>2. QED
    BY <2>1 DEF CloseCase
<1>1. CASE UNCHANGED <<row, chain>>
  BY <1>1 DEF Closures, Recorded
<1>2. CASE Opens
  <2>1. ~Recorded("CASE_CLOSED")' /\ row' = InitialRow
    BY <1>2 DEF Opens, Recorded, Holds
  <2>2. QED
    BY <2>1, LinesApart DEF Closures
<1>3. CASE Refuses
  <2>1. /\ chain' = CloseCase(Append(chain, "PROVIDER_FAILED")) /\ row' = RefusedRow
        /\ Recorded("CASE_CLOSED")'
    BY <1>0, <1>3, <1>t, ClosureHolds DEF Refuses, Recorded
  <2>2. Seals(chain', "PROVIDER_FAILED", AfterRefusal)
    <3>1. CASE row = InitialRow
      BY <1>0, <1>t, <2>1, <3>1, SealsAppended DEF Closures, Recorded
    <3>2. CASE row = RefusedRow
      <4>1. chain' = Append(chain, "PROVIDER_FAILED")
        BY <1>k, <1>t, <2>1, <3>2 DEF Closures
      <4>2. QED
        BY <1>0, <1>t, <3>2, <4>1, SealsAppended DEF Closures, AfterRefusal
    <3>3. QED
      BY <1>3, <3>1, <3>2 DEF Refuses
  <2>3. QED
    BY <2>1, <2>2, LinesApart DEF Closures
<1>4. CASE Collects
  <2>1. ~Holds(chain', "CASE_CLOSED") /\ row' = TakenRow
    BY <1>0, <1>4, <1>t, ClosureHolds DEF Collects, Closures, Recorded
  <2>2. QED
    BY <2>1, LinesApart DEF Closures, Recorded
<1>5. CASE Withholds
  <2> DEFINE three == <<"AMOUNT_MISMATCH_DETECTED", "BANK_PROCESSING_BLOCKED", "CASE_OPENED">>
  <2>1. /\ three \in Seq(TransactionEventType) /\ ~Holds(three, "CASE_CLOSED")
        /\ \A i \in DOMAIN three : three[i] \in AfterRefusal
    BY DEF TransactionEventType, Holds, AfterRefusal, GapFacts
  <2>2. chain' = chain \o three /\ row' \in BlockedRows
    BY <1>5 DEF Withholds
  <2> HIDE DEF three
  <2>3. Seals(chain, "PROVIDER_FAILED", AfterRefusal)
    BY <1>0, <1>5, <1>t, SealsAppended DEF Withholds, Closures, Recorded
  <2>4. Seals(chain', "PROVIDER_FAILED", AfterRefusal)
    BY <1>0, <2>1, <2>2, <2>3, SealsConcatenated
  <2>5. QED
    BY <2>2, <2>4, LinesApart DEF Closures
<1>6. CASE Executes
  <2>1. ~Holds(chain', "CASE_CLOSED") /\ row' = ExecutedRow
    BY <1>0, <1>6, <1>t, ClosureHolds DEF Executes, Closures, Recorded
  <2>2. QED
    BY <2>1, LinesApart DEF Closures, Recorded
<1>7. CASE Fails
  <2>1. ~Holds(chain', "CASE_CLOSED") /\ row' = OwedRow
    BY <1>0, <1>7, <1>t, ClosureHolds DEF Fails, Closures, Recorded
  <2>2. QED
    BY <2>1, LinesApart DEF Closures, Recorded
<1>8. CASE Matches
  <2>1. /\ chain' = CloseCase(Append(chain, "RECONCILIATION_MATCHED")) /\ row' = MatchedRow
        /\ Recorded("CASE_CLOSED")'
    BY <1>0, <1>8, <1>t, ClosureHolds DEF Matches, Recorded
  <2>2. Seals(chain', "RECONCILIATION_MATCHED", AfterMatch)
    <3>1. CASE row = ExecutedRow
      BY <1>0, <1>t, <2>1, <3>1, SealsAppended DEF Closures, Recorded
    <3>2. CASE row = MatchedRow
      <4>1. chain' = Append(chain, "RECONCILIATION_MATCHED")
        BY <1>k, <1>t, <2>1, <3>2 DEF Closures
      <4>2. QED
        BY <1>0, <1>t, <3>2, <4>1, SealsAppended DEF Closures, AfterMatch
    <3>3. QED
      BY <1>8, <3>1, <3>2 DEF Matches
  <2>3. QED
    BY <2>1, <2>2, LinesApart DEF Closures
<1>9. CASE Repairs
  <2>1. UNCHANGED <<row, chain>>
    BY <1>9 DEF Repairs, Closures, Recorded, CloseCase
  <2>2. QED
    BY <1>1, <2>1
<1>10. QED
  BY <1>1, <1>2, <1>3, <1>4, <1>5, <1>6, <1>7, <1>8, <1>9 DEF StoreMove

(* A refusal is recorded with a closure, and the flow repays nothing.      *)
LEMMA OutcomesStep ==
  ASSUME IInv, LeaseInv, Closures, Outcomes, StoreMove PROVE Outcomes'
<1>0. chain \in Seq(TransactionEventType)
  BY Lines
<1>t. {"PROVIDER_FAILED", "PROVIDER_CONFIRMED", "BANK_PROCESSING_COMPLETED", "RECONCILIATION_MATCHED"}
        \subseteq TransactionEventType \ {"CASE_CLOSED"}
  BY DEF TransactionEventType
<1>a. ASSUME NEW e \in TransactionEventType \ {"CASE_CLOSED"}, e # "REFUND_COMPLETED",
             \/ chain' = Append(chain, e) /\ e # "PROVIDER_FAILED"
             \/ chain' = CloseCase(Append(chain, e))
      PROVE  Outcomes'
  <2>1. ASSUME NEW t \in {"PROVIDER_FAILED", "REFUND_COMPLETED"}
        PROVE  /\ Holds(Append(chain, e), t) <=> Holds(chain, t) \/ t = e
               /\ Holds(CloseCase(Append(chain, e)), t) <=> Holds(chain, t) \/ t = e
    <3>1. t # "CASE_CLOSED" /\ e \in TransactionEventType
      BY <1>a
    <3>2. QED
      BY <1>0, <3>1, AddedFacts
  <2>2. /\ Holds(CloseCase(Append(chain, e)), "CASE_CLOSED")
        /\ Holds(Append(chain, e), "CASE_CLOSED") <=> Holds(chain, "CASE_CLOSED")
    BY <1>0, <1>a, ClosureHolds
  <2>3. QED
    BY <1>a, <2>1, <2>2 DEF Outcomes, Recorded
<1> DEFINE two == <<"BANK_PROCESSING_FAILED", "CASE_OPENED">>
           three == <<"AMOUNT_MISMATCH_DETECTED", "BANK_PROCESSING_BLOCKED", "CASE_OPENED">>
<1>b. ASSUME chain' = chain \o two \/ chain' = chain \o three PROVE Outcomes'
  <2>1. ASSUME NEW t \in {"PROVIDER_FAILED", "REFUND_COMPLETED"} PROVE Recorded(t)' <=> Recorded(t)
    <3>1. t # "CASE_CLOSED" /\ "CASE_OPENED" \in TransactionEventType
      BY DEF TransactionEventType
    <3>2. /\ Holds(chain \o two, t) <=> Holds(chain, t) \/ t \in {"BANK_PROCESSING_FAILED", "CASE_OPENED"}
          /\ Holds(chain \o three, t)
               <=> Holds(chain, t) \/ t \in {"AMOUNT_MISMATCH_DETECTED", "BANK_PROCESSING_BLOCKED", "CASE_OPENED"}
      BY <1>0, <3>1, AddedFacts
    <3>3. QED
      BY <1>b, <3>2 DEF Recorded
  <2>2. Recorded("CASE_CLOSED")' <=> Recorded("CASE_CLOSED")
    <3>1. PICK e : e \in TransactionEventType
      BY <1>t
    <3>2. /\ Holds(chain \o two, "CASE_CLOSED") <=> Holds(chain, "CASE_CLOSED")
          /\ Holds(chain \o three, "CASE_CLOSED") <=> Holds(chain, "CASE_CLOSED")
      BY <1>0, <3>1, ClosureHolds
    <3>3. QED
      BY <1>b, <3>2 DEF Recorded
  <2>3. QED
    BY <2>1, <2>2 DEF Outcomes
<1>1. CASE UNCHANGED <<row, chain>>
  BY <1>1 DEF Outcomes, Recorded
<1>2. CASE Opens
  BY <1>2 DEF Opens, Outcomes, Recorded, Holds
<1>3. CASE Refuses \/ Collects \/ Executes \/ Matches
  BY <1>3, <1>a, <1>t DEF Refuses, Collects, Executes, Matches
<1>4. CASE Withholds \/ Fails
  BY <1>4, <1>b DEF Withholds, Fails
<1>5. CASE Repairs
  <2>1. UNCHANGED <<row, chain>>
    BY <1>5 DEF Repairs, Closures, Recorded, CloseCase
  <2>2. QED
    BY <1>1, <2>1
<1>6. QED
  BY <1>1, <1>2, <1>3, <1>4, <1>5 DEF StoreMove

(* verify accuses lines that only the gateway wrote for two causes: the    *)
(* outcome that the closure sealed is recorded again behind it, or a gap   *)
(* is recorded behind a refusal.  It holds for any refusals, gaps, replays *)
(* and redeliveries, if no worker outlasts its lease.                      *)
THEOREM AccusedOnlyForRepetitionHolds ==
  ASSUME ~SlowWorkers PROVE Spec => []AccusedOnlyForRepetition
<1>1. Init => Closures /\ Outcomes
  <2> SUFFICES ASSUME Init PROVE Closures /\ Outcomes
    OBVIOUS
  <2>1. row = InitialRow /\ chain = << >> /\ \A t : ~Recorded(t)
    BY DEF Init, StoreInit, Recorded, Holds
  <2>2. QED
    BY <2>1, LinesApart DEF Closures, Outcomes
<1>2. IInv /\ LeaseInv /\ Closures /\ Outcomes /\ [Next]_vars => Closures' /\ Outcomes'
  BY LeaseStep, ClosuresStep, OutcomesStep
<1>3. IInv /\ LeaseInv /\ Closures /\ Outcomes => AccusedOnlyForRepetition
  <2> SUFFICES ASSUME IInv, LeaseInv, Closures, Outcomes, RowExists, Tampered(row, chain)
               PROVE  \E i \in ClosureRanks(chain) : \A j \in DOMAIN chain : j > i =>
                        \/ chain[j] = chain[i - 1]
                        \/ chain[i - 1] = "PROVIDER_FAILED" /\ chain[j] \in GapFacts
    BY DEF AccusedOnlyForRepetition
  <2>0. Told /\ chain \in Seq(TransactionEventType)
    BY Lines DEF LeaseInv
  <2>1. CASE ClosureRanks(chain) # {}
    <3>1. PICK i \in DOMAIN chain : chain[i] = "CASE_CLOSED"
      BY <2>1 DEF ClosureRanks
    <3>2. \/ Seals(chain, "PROVIDER_FAILED", AfterRefusal)
          \/ Seals(chain, "RECONCILIATION_MATCHED", AfterMatch)
      <4>1. Recorded("CASE_CLOSED")
        BY <3>1 DEF Recorded, Holds
      <4>2. QED
        BY <4>1, Lines DEF Closures
    <3>3. \A j \in DOMAIN chain : j > i =>
            \/ chain[j] = chain[i - 1]
            \/ chain[i - 1] = "PROVIDER_FAILED" /\ chain[j] \in GapFacts
      BY <3>1, <3>2 DEF Seals, AfterRefusal, AfterMatch
    <3>4. QED
      BY <3>1, <3>3 DEF ClosureRanks
  <2>2. CASE ClosureRanks(chain) = {}
    <3>1. ~Recorded("CASE_CLOSED") /\ row \notin {RefusedRow, MatchedRow}
      BY <2>2 DEF Closures, Recorded, Holds, ClosureRanks
    <3>2. row.paymentChannel = "MOBILE_MONEY" /\ row.providerStatus # "FAILED"
      <4> USE DEF InitialRow, BlockedRow, BlockedRows, TakenRow, Executed, Verdict, Indebted,
                  ExecutedRow, OwedRow
      <4>1. \A b \in BlockedRows : b.providerStatus = "CONFIRMED" /\ b.paymentChannel = "MOBILE_MONEY"
        OBVIOUS
      <4>2. /\ InitialRow.providerStatus = "PENDING" /\ InitialRow.paymentChannel = "MOBILE_MONEY"
            /\ TakenRow.providerStatus = "CONFIRMED" /\ TakenRow.paymentChannel = "MOBILE_MONEY"
        OBVIOUS
      <4>3. /\ OwedRow.providerStatus = "CONFIRMED" /\ OwedRow.paymentChannel = "MOBILE_MONEY"
            /\ ExecutedRow.providerStatus = "CONFIRMED" /\ ExecutedRow.paymentChannel = "MOBILE_MONEY"
        OBVIOUS
      <4> HIDE DEF InitialRow, BlockedRow, BlockedRows, TakenRow, Executed, Verdict, Indebted,
                   ExecutedRow, OwedRow
      <4>4. QED
        BY <3>1, <4>1, <4>2, <4>3, Lines
    <3>3. row.reconciliationStatus # "MATCHED"
      BY <3>1, MatchedLine
    <3>4. row.refundStatus # "COMPLETED"
      BY Lines, DebtColumns
    <3>5. \A i \in DOMAIN chain :
            chain[i] \notin {"TRANSFER_COMPLETED", "TRANSFER_FAILED", "PROVIDER_FAILED",
                             "RECONCILIATION_MATCHED", "REFUND_COMPLETED"}
      <4>1. \A i \in DOMAIN chain : chain[i] \in TransactionEventType
        BY <2>0
      <4>2. \A i \in DOMAIN chain : chain[i] \notin {"TRANSFER_COMPLETED", "TRANSFER_FAILED"}
        BY <4>1 DEF TransactionEventType
      <4>3. /\ ~Recorded("PROVIDER_FAILED") /\ ~Recorded("REFUND_COMPLETED")
            /\ ~Recorded("RECONCILIATION_MATCHED")
        BY <2>0, <3>1 DEF Told, Outcomes
      <4>4. QED
        BY <4>2, <4>3 DEF Recorded, Holds
    <3>6. ~Tampered(row, chain)
      BY <2>2, <3>2, <3>3, <3>4, <3>5 DEF Tampered, ClosureExpected
    <3>7. QED
      BY <3>6
  <2>3. QED
    BY <2>1, <2>2
<1>4. QED
  BY <1>1, <1>2, <1>3, LeaseInductive, PTL DEF Spec

-----------------------------------------------------------------------------
(***************************************************************************)
(* Who still records a match of a matched payment                          *)
(***************************************************************************)

(* A notification of a matched payment finds its leg taken and records     *)
(* nothing; a late confirmation finds the closure it would repair.         *)
LEMMA HandlersMatchNothing ==
  ASSUME IInv, row = MatchedRow, WebhookNext PROVE MatchRanks' = MatchRanks
<1>0. chain \in Seq(TransactionEventType)
  BY Lines
<1>1. row.bankStatus # "NOT_STARTED"
  BY LineFields
<1>2. ASSUME chain' = chain PROVE MatchRanks' = MatchRanks
  BY <1>2 DEF MatchRanks
<1>3. ASSUME chain' = CloseCase(chain) PROVE MatchRanks' = MatchRanks
  <2>1. CASE chain' = chain
    BY <1>2, <2>1
  <2>2. CASE chain' = Append(chain, "CASE_CLOSED")
    <3>0. "CASE_CLOSED" \in TransactionEventType
      BY DEF TransactionEventType
    <3>1. /\ DOMAIN chain = 1..Len(chain) /\ Len(chain) \in Nat
          /\ DOMAIN chain' = 1..(Len(chain) + 1)
          /\ \A i \in 1..Len(chain) : chain'[i] = chain[i]
          /\ chain'[Len(chain) + 1] = "CASE_CLOSED"
          /\ \A i \in 1..(Len(chain) + 1) : i \in 1..Len(chain) \/ i = Len(chain) + 1
      BY <1>0, <2>2, <3>0, AppendProperties
    <3>2. QED
      BY <3>1 DEF MatchRanks
  <2>3. QED
    BY <1>3, <2>1, <2>2 DEF CloseCase
<1>4. ASSUME NEW h, NEW found, ~found, NEW after, NEW facts, NEW instruction,
             ApplyTransition(h, found, after, facts, instruction)
      PROVE  chain' = chain
  BY <1>4 DEF ApplyTransition, storeVars
<1>5. ASSUME NEW h \in Handlers, HandlerStep(h) PROVE chain' = chain \/ chain' = CloseCase(chain)
  <2>1. CASE MarkProviderFailed(h)
    BY <1>1, <1>4, <2>1 DEF MarkProviderFailed
  <2>2. CASE ConfirmAndClaimBankProcessing(h)
    BY <1>1, <1>4, <2>2 DEF ConfirmAndClaimBankProcessing
  <2>3. CASE MarkAmountMismatch(h)
    BY <1>1, <1>4, <2>3 DEF MarkAmountMismatch
  <2>4. CASE RepairClosure(h)
    BY <2>4 DEF RepairClosure
  <2>5. CASE ClaimEvent(h) \/ LoadTransaction(h) \/ Settle(h)
    BY <2>5 DEF ClaimEvent, LoadTransaction, Settle, storeVars
  <2>6. QED
    BY <1>5, <2>1, <2>2, <2>3, <2>4, <2>5 DEF HandlerStep
<1>6. CASE \E h \in Handlers : HandlerStep(h)
  BY <1>2, <1>3, <1>5, <1>6
<1>7. CASE \E h \in Handlers, n \in Notifications : Register(h, n)
  BY <1>2, <1>7 DEF Register, storeVars
<1>8. CASE \E h \in Handlers : HandlerDbFault(h) \/ HandlerCrash(h)
  BY <1>2, <1>8 DEF HandlerDbFault, HandlerCrash
<1>9. CASE \E n \in Notifications : ClaimExpires(n)
  BY <1>2, <1>9 DEF ClaimExpires, storeVars
<1>10. QED
  BY <1>6, <1>7, <1>8, <1>9 DEF WebhookNext

(* A worker that executed nothing yet does not come to reconcile a matched *)
(* payment, and only the reconciliation it had begun records its match.    *)
LEMMA WorkersMatchOnce ==
  ASSUME IInv, LeaseInv, row = MatchedRow,
         NEW w \in Workers, WorkerStep(w) \/ WorkerDbFault(w) \/ WorkerCrash(w)
  PROVE  /\ Reconciling' \subseteq Reconciling
         /\ reconciler' = reconciler
         /\ MatchRanks' = MatchRanks \/ Reconciling' # Reconciling
<1>0. TypeOK /\ worker \in [Workers -> WorkerMemory]
  BY DEF IInv, TypeOK, BankTypeOK
<1>w. worker[w].pc # "idle" =>
        /\ worker[w].row \in InstructedRows \ {TakenRow, OwedRow}
        /\ worker[w].pc \notin {"executed", "refused"}
  BY Lines, LinesApart, LineFields DEF LeaseInv, Fresh, FitsLine
<1>a. ASSUME chain' = chain, reconciler' = reconciler, worker'[w].pc # "reconcile",
             \A v \in Workers \ {w} : worker'[v] = worker[v]
      PROVE  /\ Reconciling' \subseteq Reconciling
             /\ reconciler' = reconciler
             /\ MatchRanks' = MatchRanks
  BY <1>a DEF Reconciling, MatchRanks
<1>1. CASE ClaimNext(w)
  BY <1>0, <1>1, <1>a DEF ClaimNext
<1>2. CASE SkipSettled(w) \/ Complete(w) \/ Retry(w)
  BY <1>0, <1>2, <1>a, WorkerGoes DEF SkipSettled, Complete, Retry
<1>3. CASE CallBank(w)
  <2>1. PICK step \in {"executed", "refused", "error"} : Step(w, step)
    BY <1>3 DEF CallBank
  <2>2. QED
    BY <1>0, <1>3, <1>a, <2>1, WorkerGoes DEF CallBank, storeVars
<1>4. CASE ApplyBankSuccess(w) \/ HandleBankFailure(w)
  BY <1>4, <1>w DEF ApplyBankSuccess, HandleBankFailure
<1>5. CASE Reconcile(w)
  <2>1. /\ worker'[w].pc = "done" /\ worker[w].pc = "reconcile" /\ reconciler' = reconciler
        /\ \A v \in Workers \ {w} : worker'[v] = worker[v]
    BY <1>0, <1>5, WorkerGoes DEF Reconcile
  <2>2. QED
    BY <2>1 DEF Reconciling
<1>6. CASE DeadLetter(w)
  <2>1. worker[w].pc = "error" /\ Release(w) /\ reconciler' = reconciler
    BY <1>6 DEF DeadLetter
  <2>2. ~AssertTransition(worker[w].row, Indebted(worker[w].row))
    BY <1>w, <2>1, Answers
  <2>3. chain' = chain
    BY <1>6, <2>2 DEF DeadLetter
  <2>4. QED
    BY <1>0, <1>a, <2>1, <2>3, WorkerGoes
<1>7. CASE WorkerDbFault(w) \/ WorkerCrash(w)
  <2>1. /\ chain' = chain /\ reconciler' = reconciler
        /\ StepWith(w, "error", Mutated(w)) \/ Release(w)
    BY <1>7 DEF WorkerDbFault, WorkerCrash
  <2>2. QED
    BY <1>0, <1>a, <2>1, WorkerGoes
<1>8. QED
  BY <1>1, <1>2, <1>3, <1>4, <1>5, <1>6, <1>7 DEF WorkerStep

(* Nor does a replay read a matched line, and one that had read it before  *)
(* has its copy only until it reconciles it.                               *)
LEMMA ReplaysMatchOnce ==
  ASSUME IInv, row = MatchedRow, NEW r \in Reconcilers, RunPending(r) \/ RunPendingAborts(r)
  PROVE  /\ Replaying' \subseteq Replaying
         /\ worker' = worker
         /\ MatchRanks' = MatchRanks \/ Replaying' # Replaying
<1>0. reconciler \in [Reconcilers -> ReconcilerMemory]
  BY DEF IInv, TypeOK, BankTypeOK
<1>1. ~RunPendingLoad(r)
  BY LineFields DEF RunPendingLoad
<1>2. /\ reconciler[r].pc = "loaded" /\ worker' = worker
      /\ reconciler' = [reconciler EXCEPT ![r] = IdleReconciler]
  BY <1>1 DEF RunPending, RunPendingReconcile, RunPendingAborts
<1>3. reconciler'[r].pc = "idle" /\ \A q \in Reconcilers \ {r} : reconciler'[q] = reconciler[q]
  BY <1>0, <1>2 DEF IdleReconciler
<1>4. QED
  BY <1>2, <1>3 DEF Replaying

(* Once a match is recorded, nobody comes to reconcile the payment again,  *)
(* and each further match takes the copy of a process that had read the    *)
(* line before the first (reconcile, runPending), whatever the replays,    *)
(* crashes, failed commits and late notifications, if no worker outlasts   *)
(* its lease.                                                              *)
THEOREM MatchedByEarlierReadersHolds ==
  ASSUME ~SlowWorkers PROVE Spec => MatchedByEarlierReaders
<1>1. IInv /\ LeaseInv /\ [Next]_vars =>
        [MatchRanks # {} =>
           /\ Reconciling' \subseteq Reconciling
           /\ Replaying' \subseteq Replaying
           /\ \/ MatchRanks' = MatchRanks
              \/ Reconciling' # Reconciling
              \/ Replaying' # Replaying]_vars
  <2> SUFFICES ASSUME IInv, LeaseInv, Next, MatchRanks # {}
               PROVE  /\ Reconciling' \subseteq Reconciling
                      /\ Replaying' \subseteq Replaying
                      /\ \/ MatchRanks' = MatchRanks
                         \/ Reconciling' # Reconciling
                         \/ Replaying' # Replaying
    OBVIOUS
  <2>0. row = MatchedRow
    BY DEF MatchRanks, LeaseInv, Told, Recorded, Holds
  <2>1. CASE Initiate
    BY <2>1 DEF Initiate, RowExists, MatchRanks
  <2>2. CASE WebhookNext /\ UNCHANGED bankVars
    BY <2>0, <2>2, HandlersMatchNothing DEF bankVars, Reconciling, Replaying
  <2>3. CASE BankNext
    <3>1. CASE \E w \in Workers : WorkerStep(w) \/ WorkerDbFault(w) \/ WorkerCrash(w)
      BY <2>0, <3>1, WorkersMatchOnce DEF Replaying
    <3>2. CASE \E r \in Reconcilers : RunPending(r) \/ RunPendingAborts(r)
      BY <2>0, <3>2, ReplaysMatchOnce DEF Reconciling
    <3>3. CASE LeaseExpires
      BY <3>3 DEF LeaseExpires, bankVars, Reconciling, Replaying, MatchRanks
    <3>4. QED
      BY <2>3, <3>1, <3>2, <3>3 DEF BankNext
  <2>4. QED
    BY <2>1, <2>2, <2>3 DEF Next
<1>2. QED
  BY <1>1, LeaseInductive, PTL DEF Spec, MatchedByEarlierReaders
=============================================================================
