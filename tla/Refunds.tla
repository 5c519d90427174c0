------------------------------ MODULE Refunds -------------------------------
(***************************************************************************)
(* The refund of the payer (RefundsService) and the worker that resumes    *)
(* refunds whose outcome is unknown (RefundRetryWorker), for the one       *)
(* payment of PaymentStore.                                                *)
(*                                                                         *)
(* An agent is one execution of requestRefund or of retryPending.  It      *)
(* reads the transaction and the refund, writes REQUESTED in one SQL       *)
(* transaction, calls the provider outside any, and records the outcome in *)
(* another from the copies in its memory, the refund saved whole.  Nothing *)
(* prevents two agents from working on one refund: what keeps the payer    *)
(* from being paid twice is the key of the refund, on which the provider   *)
(* deduplicates.                                                           *)
(***************************************************************************)
EXTENDS PaymentStore

CONSTANTS
  Requests,     \* executions of requestRefund
  RetryRuns,    \* executions of retryPending
  Operators,    \* API keys with refunds:write or refunds:approve
  MaxFailures,  \* bound: answers of the provider other than a success
  MaxReopenings \* bound: calls of reopenRefund that succeed

ASSUME RefundBounds ==
  /\ Requests \cap RetryRuns = {}
  /\ MaxFailures \in Nat
  /\ MaxReopenings \in Nat

VARIABLES
  refund,     \* the line of refunds; status "NONE": no line
  agent,      \* what each agent has in memory, see AgentMemory
  payouts,    \* external: the keys on which the provider paid back
  failures,   \* failed answers so far, at most MaxFailures
  reopenings  \* reopenings so far, at most MaxReopenings

refundVars == <<refund, agent, payouts, failures, reopenings>>

Agents == Requests \union RetryRuns
Nobody == "nobody"

(* The key is drawn at random by the agent that drafts the line: it is     *)
(* named after that agent.                                                 *)
Refund ==
  [status: RefundStatus \union {"NONE"}, retryable: BOOLEAN,
   key: Agents \union {Nobody}, lastRequestedBy: Operators \union {Nobody}]

AgentSteps == {"idle", "loaded", "draft", "picked", "ready", "asking",
               "succeeded", "rejected", "unavailable", "over"}

AgentMemory == [pc: AgentSteps, row: TransactionRow, refund: Refund, actor: Operators \union {Nobody}]

NoRefund == [status |-> "NONE", retryable |-> TRUE, key |-> Nobody, lastRequestedBy |-> Nobody]

IdleAgent == [pc |-> "idle", row |-> InitialRow, refund |-> NoRefund, actor |-> Nobody]

RefundTypeOK ==
  /\ refund \in Refund
  /\ agent \in [Agents -> AgentMemory]
  /\ payouts \subseteq Agents \union {Nobody}
  /\ failures \in 0..MaxFailures
  /\ reopenings \in 0..MaxReopenings

RefundInit ==
  /\ refund = NoRefund
  /\ agent = [p \in Agents |-> IdleAgent]
  /\ payouts = {}
  /\ failures = 0
  /\ reopenings = 0

To(p, step) == agent' = [agent EXCEPT ![p].pc = step]
Hold(p, step, copy) == agent' = [agent EXCEPT ![p] = [@ EXCEPT !.pc = step, !.refund = copy]]

(* A request is over when it ends or stops; the retry worker passes again. *)
Leave(p) ==
  agent' = [agent EXCEPT ![p] = [IdleAgent EXCEPT !.pc = IF p \in Requests THEN "over" ELSE "idle"]]

-----------------------------------------------------------------------------
(***************************************************************************)
(* requestRefund                                                           *)
(***************************************************************************)

(* loadRefundable: only a debt of a known amount is refunded.              *)
LoadRefundable(p, operator) ==
  /\ p \in Requests
  /\ agent[p].pc = "idle"
  /\ RowExists
  /\ row.refundStatus # "NOT_REQUIRED"
  /\ row.observed # "none"
  /\ agent' = [agent EXCEPT ![p] =
                 [@ EXCEPT !.pc = "loaded", !.row = row, !.actor = operator]]
  /\ UNCHANGED <<storeVars, refund, payouts, failures, reopenings>>

(* findOrCreate: looks for the line ...                                    *)
FindRefund(p) ==
  /\ agent[p].pc = "loaded"
  /\ IF refund.status = "NONE" THEN To(p, "draft") ELSE Hold(p, "ready", refund)
  /\ UNCHANGED <<storeVars, refund, payouts, failures, reopenings>>

Draft(p) == [NoRefund EXCEPT !.status = "REQUIRED", !.key = p]

\* Mutant: the reference is not unique, the draft replaces the line.
InsertUnchecked(p) == Draft(p)

(* What the line is once the agent inserted its draft: the draft, or the   *)
(* line that the unique reference protects.                                *)
Inserted(p) == IF refund.status = "NONE" THEN Draft(p) ELSE refund

(* ... and inserts it, or takes the line that another agent inserted.      *)
CreateRefund(p) ==
  /\ agent[p].pc = "draft"
  /\ refund' = Inserted(p)
  /\ Hold(p, "ready", Inserted(p))
  /\ UNCHANGED <<storeVars, payouts, failures, reopenings>>

(* A request for a completed refund repairs a missing closure.             *)
RepairRefundClosure(p) ==
  /\ p \in Requests
  /\ agent[p].pc = "ready"
  /\ agent[p].refund.status = "COMPLETED"
  /\ chain' = CloseCase(chain)
  /\ Leave(p)
  /\ UNCHANGED <<row, instr, leaseExpired, crashes, dbFaults>>
  /\ UNCHANGED <<refund, payouts, failures, reopenings>>

-----------------------------------------------------------------------------
(***************************************************************************)
(* retryPending                                                            *)
(***************************************************************************)

\* Mutant: only refunds that failed are resumed.
PendingIfFailed(copy) == copy.status = "FAILED" /\ copy.retryable

(* An interrupted attempt, or a provider that was unavailable.             *)
Pending(copy) == copy.status = "REQUESTED" \/ (copy.status = "FAILED" /\ copy.retryable)

FindPending(p) ==
  /\ p \in RetryRuns
  /\ agent[p].pc = "idle"
  /\ Pending(refund)
  /\ Hold(p, "picked", refund)
  /\ UNCHANGED <<storeVars, refund, payouts, failures, reopenings>>

LoadForRetry(p) ==
  /\ agent[p].pc = "picked"
  /\ agent' = [agent EXCEPT ![p] = [@ EXCEPT !.pc = "ready", !.row = row]]
  /\ UNCHANGED <<storeVars, refund, payouts, failures, reopenings>>

-----------------------------------------------------------------------------
(***************************************************************************)
(* attempt                                                                 *)
(***************************************************************************)

Attemptable(copy) ==
  copy.status \in {"REQUIRED", "REQUESTED"} \/ (copy.status = "FAILED" /\ copy.retryable)

SkipAttempt(p) ==
  /\ agent[p].pc = "ready"
  /\ ~Attemptable(agent[p].refund)
  /\ p \in Requests => agent[p].refund.status # "COMPLETED"
  /\ Leave(p)
  /\ UNCHANGED <<storeVars, refund, payouts, failures, reopenings>>

\* Mutant: the refund is saved without its view on the transaction.
WriteRefundOnly(copy, after, facts) ==
  /\ refund' = copy
  /\ chain' = facts
  /\ UNCHANGED row

(* The SQL transaction of each stage: the refund is saved, syncTransaction *)
(* writes the status on the line as it is now, reads it again and checks   *)
(* the move from the state in memory; the fact follows.  A refused move    *)
(* rolls everything back.                                                  *)
Write(copy, after, facts) ==
  /\ refund' = copy
  /\ row' = after
  /\ chain' = facts

(* Records REQUESTED before the provider is called; the copies follow.     *)
BeginAttempt(p) ==
  LET me    == agent[p]
      after == [row EXCEPT !.refundStatus = "REQUESTED"]
      copy  == [me.refund EXCEPT !.status = "REQUESTED",
                                 !.lastRequestedBy = IF p \in Requests THEN me.actor
                                                                           ELSE me.refund.lastRequestedBy]
  IN /\ me.pc = "ready"
     /\ Attemptable(me.refund)
     /\ IF AssertTransition(me.row, after)
        THEN /\ Write(copy, after, Append(chain, "REFUND_REQUESTED"))
             /\ agent' = [agent EXCEPT ![p] = [me EXCEPT
                            !.pc = "asking", !.refund = copy,
                            !.row = [me.row EXCEPT !.refundStatus = after.refundStatus,
                                                   !.caseStatus = after.caseStatus]]]
        ELSE /\ Leave(p)
             /\ UNCHANGED <<refund, row, chain>>
     /\ UNCHANGED <<instr, leaseExpired, crashes, dbFaults, payouts, failures, reopenings>>

(* The provider pays, or answers that it paid on this key; it rejects the  *)
(* request; or the exchange is cut, which says nothing of what it did.     *)
AskProvider(p) ==
  LET key == agent[p].refund.key
      Fails == failures < MaxFailures /\ failures' = failures + 1
  IN /\ agent[p].pc = "asking"
     /\ \/ To(p, "succeeded") /\ payouts' = payouts \union {key} /\ UNCHANGED failures
        \/ To(p, "rejected") /\ key \notin payouts /\ Fails /\ UNCHANGED payouts
        \/ To(p, "unavailable") /\ Fails /\ UNCHANGED payouts
        \/ To(p, "unavailable") /\ Fails /\ payouts' = payouts \union {key}
     /\ UNCHANGED <<storeVars, refund, reopenings>>

(* Mutant: a cut exchange is taken for a success.                          *)
RecordSuccessUnanswered(p) ==
  LET after == [row EXCEPT !.refundStatus = "COMPLETED", !.caseStatus = "RESOLVED"]
      copy  == [agent[p].refund EXCEPT !.status = "COMPLETED", !.retryable = FALSE]
  IN /\ agent[p].pc \in {"succeeded", "unavailable"}
     /\ AssertTransition(agent[p].row, after)
     /\ Write(copy, after, CloseCase(Append(chain, "REFUND_COMPLETED")))
     /\ Leave(p)
     /\ UNCHANGED <<instr, leaseExpired, crashes, dbFaults, payouts, failures, reopenings>>

(* recordSuccess: the debt is extinct, the exception resolved and the case *)
(* closed in one transaction.  Its failure is handled as one of the        *)
(* exchange.                                                               *)
RecordSuccess(p) ==
  LET after == [row EXCEPT !.refundStatus = "COMPLETED", !.caseStatus = "RESOLVED"]
      copy  == [agent[p].refund EXCEPT !.status = "COMPLETED", !.retryable = FALSE]
  IN /\ agent[p].pc = "succeeded"
     /\ IF AssertTransition(agent[p].row, after)
        THEN /\ Write(copy, after, CloseCase(Append(chain, "REFUND_COMPLETED")))
             /\ Leave(p)
        ELSE /\ Hold(p, "unavailable", copy)
             /\ UNCHANGED <<refund, row, chain>>
     /\ UNCHANGED <<instr, leaseExpired, crashes, dbFaults, payouts, failures, reopenings>>

(* recordFailure: the debt stays open; a rejection is not to be replayed.  *)
RecordFailure(p) ==
  LET after == [row EXCEPT !.refundStatus = "FAILED"]
      copy  == [agent[p].refund EXCEPT !.status = "FAILED",
                                       !.retryable = agent[p].pc = "unavailable"]
  IN /\ agent[p].pc \in {"rejected", "unavailable"}
     /\ IF AssertTransition(agent[p].row, after)
        THEN Write(copy, after, Append(chain, "REFUND_FAILED"))
        ELSE UNCHANGED <<refund, row, chain>>
     /\ Leave(p)
     /\ UNCHANGED <<instr, leaseExpired, crashes, dbFaults, payouts, failures, reopenings>>

-----------------------------------------------------------------------------
(* reopenRefund, under the lock of the line: another operator than the one *)
(* who asked last lifts a rejection.                                       *)
ReopenRefund(operator) ==
  /\ reopenings < MaxReopenings
  /\ refund.status \notin {"NONE", "COMPLETED"}
  /\ ~refund.retryable
  /\ operator # refund.lastRequestedBy
  /\ refund' = [refund EXCEPT !.retryable = TRUE]
  /\ chain' = Append(chain, "REFUND_REOPENED")
  /\ reopenings' = reopenings + 1
  /\ UNCHANGED <<row, instr, leaseExpired, crashes, dbFaults, agent, payouts, failures>>

-----------------------------------------------------------------------------
(* A statement fails: the error of recordSuccess is caught by attempt, any *)
(* other leaves the request or the retry.                                  *)
AgentDbFault(p) ==
  /\ agent[p].pc \in AgentSteps \ {"idle", "asking", "over"}
  /\ DbFault
  /\ IF agent[p].pc = "succeeded" THEN To(p, "unavailable") ELSE Leave(p)
  /\ UNCHANGED <<row, chain, instr, leaseExpired, crashes>>
  /\ UNCHANGED <<refund, payouts, failures, reopenings>>

AgentCrash(p) ==
  /\ agent[p].pc \notin {"idle", "over"}
  /\ Crash
  /\ Leave(p)
  /\ UNCHANGED <<row, chain, instr, leaseExpired, dbFaults>>
  /\ UNCHANGED <<refund, payouts, failures, reopenings>>

(* The steps an agent takes by itself.                                     *)
AgentStep(p) ==
  \/ FindRefund(p)
  \/ CreateRefund(p)
  \/ RepairRefundClosure(p)
  \/ FindPending(p)
  \/ LoadForRetry(p)
  \/ SkipAttempt(p)
  \/ BeginAttempt(p)
  \/ AskProvider(p)
  \/ RecordSuccess(p)
  \/ RecordFailure(p)

RefundNext ==
  \/ \E p \in Agents : AgentStep(p)
  \/ \E p \in Requests, o \in Operators : LoadRefundable(p, o)
  \/ \E o \in Operators : ReopenRefund(o)
  \/ \E p \in Agents : AgentDbFault(p)
  \/ \E p \in Agents : AgentCrash(p)
=============================================================================
