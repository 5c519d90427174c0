------------------------------ MODULE Webhooks ------------------------------
(***************************************************************************)
(* Reception of the notifications of the Mobile Money aggregator           *)
(* (MobileMoneyWebhookService.handle) and the three state changes they     *)
(* cause (MobileMoneyService).  Each HTTP request is handled by a process  *)
(* that registers the event, claims it, loads the transaction, applies the *)
(* notification in one SQL transaction and settles the event.  The same    *)
(* notification may be delivered any number of times, to several handlers  *)
(* at once; a handler may stop or lose the database between two steps.     *)
(***************************************************************************)
EXTENDS PaymentStore

CONSTANTS
  Handlers,       \* concurrent requests
  Notifications,  \* eventIds sent by the aggregator for this payment
  KindOf,         \* what each notification says
  SlowHandlers    \* may a live handler outlast STALE_CLAIM_MS?

(* A refusal, or a confirmation that agrees with the order or diverges on  *)
(* the amount or on the currency.                                          *)
Kinds == {"failed", "conforming", "amount", "currency"}

ASSUME WebhookConstants ==
  /\ Notifications # {}
  /\ KindOf \in [Notifications -> Kinds]
  /\ SlowHandlers \in BOOLEAN

VARIABLES
  inbox,         \* processing_status per eventId, "NONE" before its first delivery
  claimExpired,  \* the claim of a PROCESSING event is older than STALE_CLAIM_MS
  handler        \* what each request has in memory, see HandlerMemory

webhookVars == <<inbox, claimExpired, handler>>

WebhookProcessingStatus == {"NONE", "RECEIVED", "PROCESSING", "PROCESSED", "FAILED"}
HandlerSteps == {"idle", "registered", "claimed", "loaded", "repair", "succeeded", "failed"}

(* Where a handler stands, the notification it handles, the status of the  *)
(* event it read before claiming it and the transaction it loaded.         *)
HandlerMemory ==
  [pc: HandlerSteps, note: Notifications, seen: WebhookProcessingStatus, row: TransactionRow]

IdleHandler ==
  [pc |-> "idle", note |-> CHOOSE n \in Notifications : TRUE, seen |-> "NONE", row |-> InitialRow]

WebhookTypeOK ==
  /\ inbox \in [Notifications -> WebhookProcessingStatus]
  /\ claimExpired \in [Notifications -> BOOLEAN]
  /\ handler \in [Handlers -> HandlerMemory]

WebhookInit ==
  /\ inbox = [n \in Notifications |-> "NONE"]
  /\ claimExpired = [n \in Notifications |-> FALSE]
  /\ handler = [h \in Handlers |-> IdleHandler]

Goto(h, step) == handler' = [handler EXCEPT ![h].pc = step]

(* The request ends and what it had in memory is gone.                     *)
Return(h) == handler' = [handler EXCEPT ![h] = IdleHandler]

-----------------------------------------------------------------------------
(***************************************************************************)
(* registerAndClaim                                                        *)
(***************************************************************************)

(* Mutant: an abandoned claim is never taken over.                         *)
EventClaimableOnce(status, expired) == status \notin {"PROCESSED", "PROCESSING"}

(* An event of this status may be claimed: neither processed nor held by a *)
(* claim that is still fresh.                                              *)
EventClaimable(status, expired) ==
  /\ status # "PROCESSED"
  /\ status = "PROCESSING" => expired

(* Inserts the event, or reads the one that a previous delivery left.  An  *)
(* event that is not claimable ends the request without any effect.        *)
Register(h, n) ==
  LET status == IF inbox[n] = "NONE" THEN "RECEIVED" ELSE inbox[n]
  IN /\ handler[h].pc = "idle"
     /\ EventClaimable(status, claimExpired[n])
     /\ inbox' = [inbox EXCEPT ![n] = status]
     /\ handler' = [handler EXCEPT ![h] = [@ EXCEPT !.pc = "registered", !.note = n, !.seen = status]]
     /\ UNCHANGED <<storeVars, claimExpired>>

(* UPDATE ... WHERE processing_status = the status read.                   *)
ClaimEvent(h) ==
  LET n == handler[h].note
  IN /\ handler[h].pc = "registered"
     /\ IF inbox[n] = handler[h].seen
        THEN /\ inbox' = [inbox EXCEPT ![n] = "PROCESSING"]
             /\ claimExpired' = [claimExpired EXCEPT ![n] = FALSE]
             /\ Goto(h, "claimed")
        ELSE /\ Return(h)
             /\ UNCHANGED <<inbox, claimExpired>>
     /\ UNCHANGED storeVars

-----------------------------------------------------------------------------
(***************************************************************************)
(* handle, after the claim                                                 *)
(***************************************************************************)

(* findByAggregatorReference: a callback faster than the commit of the     *)
(* payment finds no transaction.                                           *)
LoadTransaction(h) ==
  /\ handler[h].pc = "claimed"
  /\ IF RowExists
     THEN handler' = [handler EXCEPT ![h] = [@ EXCEPT !.pc = "loaded", !.row = row]]
     ELSE Goto(h, "failed")
  /\ UNCHANGED <<storeVars, inbox, claimExpired>>

(* A confirmation that found the leg already taken: a matched payment goes *)
(* through reconcile again, which repairs a missing closure.               *)
AlreadyTaken(h) ==
  IF row.reconciliationStatus = "MATCHED" /\ KindOf[handler[h].note] # "failed"
  THEN Goto(h, "repair")
  ELSE Goto(h, "succeeded")

(* The SQL transaction shared by the three notifications.  If the update   *)
(* finds the line, the line is read again, the transition is checked from  *)
(* the state in the handler's memory and the facts are appended; a refused *)
(* transition rolls everything back.                                       *)
ApplyTransition(h, found, after, facts, instruction) ==
  \/ /\ ~found
     /\ AlreadyTaken(h)
     /\ UNCHANGED storeVars
  \/ /\ found
     /\ AssertTransition(handler[h].row, after)
     /\ row' = after
     /\ chain' = facts
     /\ instr' = instruction
     /\ Goto(h, "succeeded")
     /\ UNCHANGED <<leaseExpired, crashes, dbFaults>>
  \/ /\ found
     /\ ~AssertTransition(handler[h].row, after)
     /\ Goto(h, "failed")
     /\ UNCHANGED storeVars

(* markProviderFailed: nothing was collected; the case is closed at once.  *)
MarkProviderFailed(h) ==
  /\ handler[h].pc = "loaded"
  /\ KindOf[handler[h].note] = "failed"
  /\ ApplyTransition(h,
       row.bankStatus = "NOT_STARTED",
       [row EXCEPT !.providerStatus = "FAILED", !.status = "FAILED",
                   !.observed = "conforming",
                   !.reconciliationStatus = "NOT_APPLICABLE",
                   !.refundStatus = "NOT_REQUIRED", !.caseStatus = "NONE"],
       CloseCase(Append(chain, "PROVIDER_FAILED")),
       instr)
  /\ UNCHANGED <<inbox, claimExpired>>

(* Mutant: the update does not look at provider_status.                    *)
ConfirmIgnoringRefusal(h) ==
  /\ handler[h].pc = "loaded"
  /\ KindOf[handler[h].note] = "conforming"
  /\ ApplyTransition(h,
       row.bankStatus = "NOT_STARTED",
       [row EXCEPT !.providerStatus = "CONFIRMED", !.observed = "conforming",
                   !.bankStatus = "PROCESSING", !.status = "PROCESSING"],
       Append(chain, "PROVIDER_CONFIRMED"),
       Enqueued)
  /\ UNCHANGED <<inbox, claimExpired>>

(* confirmAndClaimBankProcessing, amounts and currencies matching: the     *)
(* right to call the bank is taken with the fact and the queued            *)
(* instruction.                                                            *)
ConfirmAndClaimBankProcessing(h) ==
  /\ handler[h].pc = "loaded"
  /\ KindOf[handler[h].note] = "conforming"
  /\ ApplyTransition(h,
       row.bankStatus = "NOT_STARTED" /\ row.providerStatus \in {"INITIATED", "PENDING"},
       [row EXCEPT !.providerStatus = "CONFIRMED", !.observed = "conforming",
                   !.bankStatus = "PROCESSING", !.status = "PROCESSING"],
       Append(chain, "PROVIDER_CONFIRMED"),
       Enqueued)
  /\ UNCHANGED <<inbox, claimExpired>>

(* Mutant: the update does not look at bank_status.                        *)
MismatchUnconditional(h) ==
  /\ handler[h].pc = "loaded"
  /\ KindOf[handler[h].note] \in {"amount", "currency"}
  /\ ApplyTransition(h,
       TRUE,
       [row EXCEPT !.providerStatus = "CONFIRMED", !.observed = KindOf[handler[h].note],
                   !.bankStatus = "BLOCKED", !.status = "FAILED",
                   !.reconciliationStatus = "AMOUNT_MISMATCH",
                   !.refundStatus = "REQUIRED", !.caseStatus = "MANUAL_REVIEW"],
       chain \o <<"AMOUNT_MISMATCH_DETECTED", "BANK_PROCESSING_BLOCKED", "CASE_OPENED">>,
       instr)
  /\ UNCHANGED <<inbox, claimExpired>>

(* markAmountMismatch: the bank is never instructed, a debt is born.       *)
MarkAmountMismatch(h) ==
  LET kind == KindOf[handler[h].note]
  IN /\ handler[h].pc = "loaded"
     /\ kind \in {"amount", "currency"}
     /\ ApplyTransition(h,
          row.bankStatus = "NOT_STARTED",
          [row EXCEPT !.providerStatus = "CONFIRMED", !.observed = kind,
                      !.bankStatus = "BLOCKED", !.status = "FAILED",
                      !.reconciliationStatus = IF kind = "currency" THEN "CURRENCY_MISMATCH"
                                                                    ELSE "AMOUNT_MISMATCH",
                      !.refundStatus = "REQUIRED", !.caseStatus = "MANUAL_REVIEW"],
          chain \o <<"AMOUNT_MISMATCH_DETECTED", "BANK_PROCESSING_BLOCKED", "CASE_OPENED">>,
          instr)
     /\ UNCHANGED <<inbox, claimExpired>>

(* A late confirmation of a matched payment repairs a missing closure.     *)
RepairClosure(h) ==
  /\ handler[h].pc = "repair"
  /\ chain' = CloseCase(chain)
  /\ Goto(h, "succeeded")
  /\ UNCHANGED <<row, instr, leaseExpired, crashes, dbFaults>>
  /\ UNCHANGED <<inbox, claimExpired>>

(* The event is saved as PROCESSED, or as FAILED so that a redelivery can  *)
(* claim it again.                                                         *)
Settle(h) ==
  /\ handler[h].pc \in {"succeeded", "failed"}
  /\ inbox' = [inbox EXCEPT ![handler[h].note] = IF handler[h].pc = "succeeded" THEN "PROCESSED" ELSE "FAILED"]
  /\ claimExpired' = [claimExpired EXCEPT ![handler[h].note] = FALSE]
  /\ Return(h)
  /\ UNCHANGED storeVars

-----------------------------------------------------------------------------
(***************************************************************************)
(* Faults and time                                                         *)
(***************************************************************************)

(* A statement fails: inside the try the event is released as FAILED; if   *)
(* that last save fails too, the event stays PROCESSING.                   *)
HandlerDbFault(h) ==
  /\ handler[h].pc \in HandlerSteps \ {"idle"}
  /\ DbFault
  /\ IF handler[h].pc \in {"registered", "failed"} THEN Return(h) ELSE Goto(h, "failed")
  /\ UNCHANGED <<row, chain, instr, leaseExpired, crashes>>
  /\ UNCHANGED <<inbox, claimExpired>>

HandlerCrash(h) ==
  /\ handler[h].pc # "idle"
  /\ Crash
  /\ Return(h)
  /\ UNCHANGED <<row, chain, instr, leaseExpired, dbFaults>>
  /\ UNCHANGED <<inbox, claimExpired>>

(* Handlers that hold the claim of an event.                               *)
Holding(n) == {h \in Handlers : handler[h].note = n /\ handler[h].pc \notin {"idle", "registered"}}

(* STALE_CLAIM_MS elapses since the claim.                                 *)
ClaimExpires(n) ==
  /\ inbox[n] = "PROCESSING"
  /\ ~claimExpired[n]
  /\ SlowHandlers \/ Holding(n) = {}
  /\ claimExpired' = [claimExpired EXCEPT ![n] = TRUE]
  /\ UNCHANGED <<storeVars, inbox, handler>>

(* The steps a handler takes by itself, once it received a request.        *)
HandlerStep(h) ==
  \/ ClaimEvent(h)
  \/ LoadTransaction(h)
  \/ MarkProviderFailed(h)
  \/ ConfirmAndClaimBankProcessing(h)
  \/ MarkAmountMismatch(h)
  \/ RepairClosure(h)
  \/ Settle(h)

WebhookNext ==
  \/ \E h \in Handlers : HandlerStep(h)
  \/ \E h \in Handlers, n \in Notifications : Register(h, n)
  \/ \E h \in Handlers : HandlerDbFault(h)
  \/ \E h \in Handlers : HandlerCrash(h)
  \/ \E n \in Notifications : ClaimExpires(n)
=============================================================================
