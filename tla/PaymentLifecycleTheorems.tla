---------------------- MODULE PaymentLifecycleTheorems ----------------------
(***************************************************************************)
(* The payer is repaid at most once, for any number of refund requests and *)
(* retry workers, beside a Mobile Money flow of any size.                  *)
(***************************************************************************)
EXTENDS PaymentLifecycle, MobileMoneyTheorems

LifeTypeOK == TypeOK /\ RefundTypeOK

(* Steps at which an agent holds a copy of the line of the refund.         *)
WithCopy == {"picked", "ready", "asking", "succeeded", "rejected", "unavailable"}

(***************************************************************************)
(* Every copy of the refund carries the key of the one line, and only that *)
(* key was paid.                                                           *)
(***************************************************************************)
OneKey ==
  /\ payouts \subseteq {refund.key}
  /\ refund.status = "NONE" => payouts = {}
  /\ \A p \in Agents :
       agent[p].pc \in WithCopy => refund.status # "NONE" /\ agent[p].refund.key = refund.key

LifeInv == LifeTypeOK /\ OneKey

-----------------------------------------------------------------------------
USE FaultBounds, RefundBounds

(* The values a stage of an attempt writes on the line and on the refund.  *)
LEMMA StageTypes ==
  ASSUME NEW e \in TransactionRow, NEW c \in Refund,
         NEW s \in RefundStatus, NEW k \in CaseStatus,
         NEW b \in BOOLEAN, NEW o \in Operators \union {Nobody}
  PROVE  /\ [e EXCEPT !.refundStatus = s] \in TransactionRow
         /\ [e EXCEPT !.refundStatus = s, !.caseStatus = k] \in TransactionRow
         /\ [c EXCEPT !.status = s, !.lastRequestedBy = o] \in Refund
         /\ [c EXCEPT !.status = s, !.retryable = b] \in Refund
         /\ [c EXCEPT !.retryable = b] \in Refund
<1>1. /\ [e EXCEPT !.refundStatus = s] \in TransactionRow
      /\ [e EXCEPT !.refundStatus = s, !.caseStatus = k] \in TransactionRow
  BY DEF TransactionRow
<1>2. /\ [c EXCEPT !.status = s, !.lastRequestedBy = o] \in Refund
      /\ [c EXCEPT !.status = s, !.retryable = b] \in Refund
      /\ [c EXCEPT !.retryable = b] \in Refund
  BY DEF Refund
<1>3. QED
  BY <1>1, <1>2

(* The ways an agent changes what it has in memory.                        *)
LEMMA AgentTypes ==
  ASSUME RefundTypeOK, NEW p \in Agents, NEW step \in AgentSteps
  PROVE  /\ To(p, step) => agent' \in [Agents -> AgentMemory]
         /\ Leave(p) => agent' \in [Agents -> AgentMemory]
         /\ \A c \in Refund : Hold(p, step, c) => agent' \in [Agents -> AgentMemory]
<1>1. agent \in [Agents -> AgentMemory] /\ agent[p] \in AgentMemory
  BY DEF RefundTypeOK
<1>2. NoRefund \in Refund
  BY DEF NoRefund, Refund, RefundStatus
<1>3. [IdleAgent EXCEPT !.pc = IF p \in Requests THEN "over" ELSE "idle"] \in AgentMemory
  BY <1>2, InitialTypes DEF IdleAgent, AgentMemory, AgentSteps
<1>4. /\ [agent[p] EXCEPT !.pc = step] \in AgentMemory
      /\ \A c \in Refund : [agent[p] EXCEPT !.pc = step, !.refund = c] \in AgentMemory
  BY <1>1 DEF AgentMemory
<1>5. To(p, step) => agent' \in [Agents -> AgentMemory]
  BY <1>1, <1>4 DEF To
<1>6. \A c \in Refund : Hold(p, step, c) => agent' \in [Agents -> AgentMemory]
  BY <1>1, <1>4 DEF Hold
<1>7. Leave(p) => agent' \in [Agents -> AgentMemory]
  BY <1>1, <1>3 DEF Leave
<1>8. QED
  BY <1>5, <1>6, <1>7

(* The tables keep their types if the line, the chain and the counters of  *)
(* faults do.                                                              *)
LEMMA StoreFrame ==
  ASSUME TypeOK, UNCHANGED <<webhookVars, bankVars>>, UNCHANGED <<instr, leaseExpired>>,
         row' \in TransactionRow, chain' \in Seq(TransactionEventType),
         crashes' \in 0..MaxCrashes, dbFaults' \in 0..MaxDbFaults
  PROVE  TypeOK'
  BY DEF TypeOK, StoreTypeOK, WebhookTypeOK, BankTypeOK, webhookVars, bankVars

(* Steps of the agents and reopenings keep the types.                      *)
LEMMA RefundTypeStep ==
  LifeTypeOK /\ RefundNext /\ UNCHANGED <<webhookVars, bankVars>> => LifeTypeOK'
<1> SUFFICES ASSUME LifeTypeOK, RefundNext, UNCHANGED <<webhookVars, bankVars>>
             PROVE  LifeTypeOK'
  OBVIOUS
<1> USE DEF LifeTypeOK
<1>0. /\ row \in TransactionRow /\ chain \in Seq(TransactionEventType)
      /\ crashes \in 0..MaxCrashes /\ dbFaults \in 0..MaxDbFaults
      /\ refund \in Refund /\ agent \in [Agents -> AgentMemory]
      /\ payouts \subseteq Agents \union {Nobody}
      /\ failures \in 0..MaxFailures /\ reopenings \in 0..MaxReopenings
  BY DEF TypeOK, StoreTypeOK, RefundTypeOK
<1>a. Requests \subseteq Agents /\ RetryRuns \subseteq Agents
  BY DEF Agents
<1>b. ASSUME NEW p \in Agents
      PROVE  /\ agent[p] \in AgentMemory /\ agent[p].row \in TransactionRow
             /\ agent[p].refund \in Refund /\ agent[p].actor \in Operators \union {Nobody}
  BY <1>0 DEF AgentMemory
<1>c. ASSUME UNCHANGED storeVars PROVE TypeOK'
  BY <1>0, <1>c, StoreFrame DEF storeVars
<1>1. ASSUME NEW p \in Requests, NEW o \in Operators, LoadRefundable(p, o) PROVE LifeTypeOK'
  <2>0. p \in Agents
    BY <1>a
  <2>1. [agent[p] EXCEPT !.pc = "loaded", !.row = row, !.actor = o] \in AgentMemory
    BY <1>0, <1>b, <2>0 DEF AgentMemory, AgentSteps
  <2>2. agent' \in [Agents -> AgentMemory]
    BY <1>0, <1>1, <1>a, <2>1 DEF LoadRefundable
  <2>3. QED
    BY <1>0, <1>1, <1>c, <2>2 DEF LoadRefundable, RefundTypeOK
<1>2. ASSUME NEW p \in Agents, FindRefund(p) PROVE LifeTypeOK'
  <2>1. agent' \in [Agents -> AgentMemory]
    BY <1>0, <1>2, AgentTypes DEF FindRefund, AgentSteps
  <2>2. QED
    BY <1>0, <1>2, <1>c, <2>1 DEF FindRefund, RefundTypeOK
<1>3. ASSUME NEW p \in Agents, CreateRefund(p) PROVE LifeTypeOK'
  <2>1. Inserted(p) \in Refund
    BY <1>0 DEF Inserted, Draft, NoRefund, Refund, RefundStatus
  <2>2. agent' \in [Agents -> AgentMemory]
    BY <1>3, <2>1, AgentTypes DEF CreateRefund, AgentSteps
  <2>3. QED
    BY <1>0, <1>3, <1>c, <2>1, <2>2 DEF CreateRefund, RefundTypeOK
<1>4. ASSUME NEW p \in Agents, RepairRefundClosure(p) PROVE LifeTypeOK'
  <2>1. agent' \in [Agents -> AgentMemory]
    BY <1>0, <1>4, AgentTypes DEF RepairRefundClosure, AgentSteps
  <2>2. chain' \in Seq(TransactionEventType)
    BY <1>0, <1>4, ChainTypes DEF RepairRefundClosure
  <2>3. TypeOK'
    BY <1>0, <1>4, <2>2, StoreFrame DEF RepairRefundClosure
  <2>4. QED
    BY <1>0, <1>4, <2>1, <2>3 DEF RepairRefundClosure, RefundTypeOK
<1>5. ASSUME NEW p \in Agents, FindPending(p) PROVE LifeTypeOK'
  <2>1. agent' \in [Agents -> AgentMemory]
    BY <1>0, <1>5, AgentTypes DEF FindPending, AgentSteps
  <2>2. QED
    BY <1>0, <1>5, <1>c, <2>1 DEF FindPending, RefundTypeOK
<1>6. ASSUME NEW p \in Agents, LoadForRetry(p) PROVE LifeTypeOK'
  <2>1. [agent[p] EXCEPT !.pc = "ready", !.row = row] \in AgentMemory
    BY <1>0, <1>b DEF AgentMemory, AgentSteps
  <2>2. agent' \in [Agents -> AgentMemory]
    BY <1>0, <1>6, <2>1 DEF LoadForRetry
  <2>3. QED
    BY <1>0, <1>6, <1>c, <2>2 DEF LoadForRetry, RefundTypeOK
<1>7. ASSUME NEW p \in Agents, SkipAttempt(p) PROVE LifeTypeOK'
  <2>1. agent' \in [Agents -> AgentMemory]
    BY <1>0, <1>7, AgentTypes DEF SkipAttempt, AgentSteps
  <2>2. QED
    BY <1>0, <1>7, <1>c, <2>1 DEF SkipAttempt, RefundTypeOK
<1>8. ASSUME NEW p \in Agents, BeginAttempt(p) PROVE LifeTypeOK'
  <2> DEFINE after == [row EXCEPT !.refundStatus = "REQUESTED"]
             by    == IF p \in Requests THEN agent[p].actor ELSE agent[p].refund.lastRequestedBy
             copy  == [agent[p].refund EXCEPT !.status = "REQUESTED", !.lastRequestedBy = by]
             seen  == [agent[p].row EXCEPT !.refundStatus = after.refundStatus,
                                           !.caseStatus = after.caseStatus]
  <2>1. by \in Operators \union {Nobody}
    BY <1>b DEF Refund
  <2>2. "REQUESTED" \in RefundStatus /\ row.caseStatus \in CaseStatus
    BY <1>0 DEF RefundStatus, TransactionRow
  <2>3. after \in TransactionRow /\ copy \in Refund
    BY <1>0, <1>b, <2>1, <2>2, StageTypes
  <2>4. seen \in TransactionRow
    BY <1>b, <2>3 DEF TransactionRow
  <2>5. [agent[p] EXCEPT !.pc = "asking", !.refund = copy, !.row = seen] \in AgentMemory
    BY <1>b, <2>3, <2>4 DEF AgentMemory, AgentSteps
  <2>6. CASE AssertTransition(agent[p].row, after)
    <3>1. /\ Write(copy, after, Append(chain, "REFUND_REQUESTED"))
          /\ agent' = [agent EXCEPT ![p] = [agent[p] EXCEPT !.pc = "asking", !.refund = copy, !.row = seen]]
      BY <1>8, <2>6 DEF BeginAttempt
    <3>2. chain' \in Seq(TransactionEventType) /\ row' \in TransactionRow /\ refund' \in Refund
      BY <1>0, <2>3, <3>1, ChainTypes DEF Write, TransactionEventType
    <3>3. agent' \in [Agents -> AgentMemory]
      BY <1>0, <2>5, <3>1
    <3>4. TypeOK'
      BY <1>0, <1>8, <3>2, StoreFrame DEF BeginAttempt
    <3>5. QED
      BY <1>0, <1>8, <3>2, <3>3, <3>4 DEF BeginAttempt, RefundTypeOK
  <2>7. CASE ~AssertTransition(agent[p].row, after)
    <3>1. Leave(p) /\ UNCHANGED <<refund, row, chain>>
      BY <1>8, <2>7 DEF BeginAttempt
    <3>2. agent' \in [Agents -> AgentMemory]
      BY <1>0, <3>1, AgentTypes DEF AgentSteps
    <3>3. TypeOK'
      BY <1>0, <1>8, <3>1, StoreFrame DEF BeginAttempt
    <3>4. QED
      BY <1>0, <1>8, <3>1, <3>2, <3>3 DEF BeginAttempt, RefundTypeOK
  <2>8. QED
    BY <2>6, <2>7
<1>9. ASSUME NEW p \in Agents, AskProvider(p) PROVE LifeTypeOK'
  <2>1. agent' \in [Agents -> AgentMemory]
    BY <1>0, <1>9, AgentTypes DEF AskProvider, AgentSteps
  <2>2. agent[p].refund.key \in Agents \union {Nobody}
    BY <1>b DEF Refund
  <2>3. payouts' \subseteq Agents \union {Nobody} /\ failures' \in 0..MaxFailures
    BY <1>0, <1>9, <2>2 DEF AskProvider
  <2>4. QED
    BY <1>0, <1>9, <1>c, <2>1, <2>3 DEF AskProvider, RefundTypeOK
<1>10. ASSUME NEW p \in Agents, RecordSuccess(p) PROVE LifeTypeOK'
  <2> DEFINE after == [row EXCEPT !.refundStatus = "COMPLETED", !.caseStatus = "RESOLVED"]
             copy  == [agent[p].refund EXCEPT !.status = "COMPLETED", !.retryable = FALSE]
  <2>1. after \in TransactionRow
    BY <1>0 DEF TransactionRow, RefundStatus, CaseStatus
  <2>2. copy \in Refund
    BY <1>b DEF Refund, RefundStatus
  <2>3. CASE AssertTransition(agent[p].row, after)
    <3>1. Write(copy, after, CloseCase(Append(chain, "REFUND_COMPLETED"))) /\ Leave(p)
      BY <1>10, <2>3 DEF RecordSuccess
    <3>2. chain' \in Seq(TransactionEventType) /\ row' \in TransactionRow /\ refund' \in Refund
      BY <1>0, <2>1, <2>2, <3>1, ChainTypes DEF Write, TransactionEventType
    <3>3. agent' \in [Agents -> AgentMemory]
      BY <1>0, <3>1, AgentTypes DEF AgentSteps
    <3>4. TypeOK'
      BY <1>0, <1>10, <3>2, StoreFrame DEF RecordSuccess
    <3>5. QED
      BY <1>0, <1>10, <3>2, <3>3, <3>4 DEF RecordSuccess, RefundTypeOK
  <2>4. CASE ~AssertTransition(agent[p].row, after)
    <3>1. Hold(p, "unavailable", copy) /\ UNCHANGED <<refund, row, chain>>
      BY <1>10, <2>4 DEF RecordSuccess
    <3>2. agent' \in [Agents -> AgentMemory]
      BY <1>0, <2>2, <3>1, AgentTypes DEF AgentSteps
    <3>3. TypeOK'
      BY <1>0, <1>10, <3>1, StoreFrame DEF RecordSuccess
    <3>4. QED
      BY <1>0, <1>10, <3>1, <3>2, <3>3 DEF RecordSuccess, RefundTypeOK
  <2>5. QED
    BY <2>3, <2>4
<1>11. ASSUME NEW p \in Agents, RecordFailure(p) PROVE LifeTypeOK'
  <2> DEFINE after == [row EXCEPT !.refundStatus = "FAILED"]
             copy  == [agent[p].refund EXCEPT !.status = "FAILED",
                                              !.retryable = agent[p].pc = "unavailable"]
  <2>1. after \in TransactionRow
    BY <1>0 DEF TransactionRow, RefundStatus
  <2>2. copy \in Refund
    BY <1>b DEF Refund, RefundStatus
  <2>3. \/ Write(copy, after, Append(chain, "REFUND_FAILED"))
        \/ UNCHANGED <<refund, row, chain>>
    BY <1>11 DEF RecordFailure
  <2>4. chain' \in Seq(TransactionEventType) /\ row' \in TransactionRow /\ refund' \in Refund
    BY <1>0, <2>1, <2>2, <2>3, ChainTypes DEF Write, TransactionEventType
  <2>5. agent' \in [Agents -> AgentMemory]
    BY <1>0, <1>11, AgentTypes DEF AgentSteps, RecordFailure
  <2>6. TypeOK'
    BY <1>0, <1>11, <2>4, StoreFrame DEF RecordFailure
  <2>7. QED
    BY <1>0, <1>11, <2>4, <2>5, <2>6 DEF RecordFailure, RefundTypeOK
<1>12. ASSUME NEW o \in Operators, ReopenRefund(o) PROVE LifeTypeOK'
  <2>1. refund' \in Refund
    BY <1>0, <1>12 DEF ReopenRefund, Refund
  <2>2. chain' \in Seq(TransactionEventType)
    BY <1>0, <1>12, ChainTypes DEF ReopenRefund, TransactionEventType
  <2>3. TypeOK'
    BY <1>0, <1>12, <2>2, StoreFrame DEF ReopenRefund
  <2>4. reopenings' \in 0..MaxReopenings
    BY <1>0, <1>12 DEF ReopenRefund
  <2>5. QED
    BY <1>0, <1>12, <2>1, <2>3, <2>4 DEF ReopenRefund, RefundTypeOK
<1>13. ASSUME NEW p \in Agents, AgentDbFault(p) PROVE LifeTypeOK'
  <2>1. agent' \in [Agents -> AgentMemory]
    BY <1>0, <1>13, AgentTypes DEF AgentDbFault, AgentSteps
  <2>2. TypeOK'
    BY <1>0, <1>13, StoreFrame DEF AgentDbFault, DbFault
  <2>3. QED
    BY <1>0, <1>13, <2>1, <2>2 DEF AgentDbFault, RefundTypeOK
<1>14. ASSUME NEW p \in Agents, AgentCrash(p) PROVE LifeTypeOK'
  <2>1. agent' \in [Agents -> AgentMemory]
    BY <1>0, <1>14, AgentTypes DEF AgentCrash, AgentSteps
  <2>2. TypeOK'
    BY <1>0, <1>14, StoreFrame DEF AgentCrash, Crash
  <2>3. QED
    BY <1>0, <1>14, <2>1, <2>2 DEF AgentCrash, RefundTypeOK
<1>15. QED
  BY <1>1, <1>2, <1>3, <1>4, <1>5, <1>6, <1>7, <1>8, <1>9, <1>10, <1>11, <1>12, <1>13, <1>14
     DEF RefundNext, AgentStep

(* A step that leaves the refund and the payouts alone, and gives no agent *)
(* a copy that is not the line's, keeps the one key.                       *)
LEMMA KeyStep ==
  ASSUME LifeInv, NEW p \in Agents, payouts' = payouts, refund' = refund,
         \A q \in Agents \ {p} : agent'[q] = agent[q],
         agent'[p].pc \in WithCopy => refund.status # "NONE" /\ agent'[p].refund.key = refund.key
  PROVE  OneKey'
  BY DEF LifeInv, OneKey

(* Steps of the agents and reopenings keep the one key.                    *)
LEMMA RefundKeyStep == LifeInv /\ RefundNext => OneKey'
<1> SUFFICES ASSUME LifeInv, RefundNext PROVE OneKey'
  OBVIOUS
<1>0. agent \in [Agents -> AgentMemory] /\ refund \in Refund
  BY DEF LifeInv, LifeTypeOK, RefundTypeOK
<1>a. Requests \subseteq Agents
  BY DEF Agents
<1>b. ASSUME NEW p \in Agents
      PROVE  /\ agent[p] \in AgentMemory
             /\ agent[p].pc \in WithCopy => refund.status # "NONE" /\ agent[p].refund.key = refund.key
             /\ agent[p].refund \in Refund
  BY <1>0 DEF LifeInv, OneKey, AgentMemory
<1>c. ASSUME NEW p \in Agents, NEW step, To(p, step)
      PROVE  /\ \A q \in Agents \ {p} : agent'[q] = agent[q]
             /\ agent'[p].pc = step /\ agent'[p].refund = agent[p].refund
  BY <1>0, <1>b, <1>c DEF To, AgentMemory
<1>d. ASSUME NEW p \in Agents, NEW step, NEW c, Hold(p, step, c)
      PROVE  /\ \A q \in Agents \ {p} : agent'[q] = agent[q]
             /\ agent'[p].pc = step /\ agent'[p].refund = c
  BY <1>0, <1>b, <1>d DEF Hold, AgentMemory
<1>e. ASSUME NEW p \in Agents, Leave(p)
      PROVE  /\ \A q \in Agents \ {p} : agent'[q] = agent[q]
             /\ agent'[p].pc \notin WithCopy
  BY <1>0, <1>e DEF Leave, IdleAgent, WithCopy
<1> USE DEF WithCopy
<1>1. ASSUME NEW p \in Requests, NEW o \in Operators, LoadRefundable(p, o) PROVE OneKey'
  <2>1. /\ \A q \in Agents \ {p} : agent'[q] = agent[q]
        /\ agent'[p].pc = "loaded"
    BY <1>0, <1>1, <1>a, <1>b DEF LoadRefundable, AgentMemory
  <2>2. QED
    BY <1>1, <1>a, <2>1, KeyStep DEF LoadRefundable
<1>2. ASSUME NEW p \in Agents, FindRefund(p) PROVE OneKey'
  BY <1>2, <1>c, <1>d, KeyStep DEF FindRefund
<1>3. ASSUME NEW p \in Agents, CreateRefund(p) PROVE OneKey'
  <2>1. Hold(p, "ready", Inserted(p)) /\ refund' = Inserted(p) /\ payouts' = payouts
    BY <1>3 DEF CreateRefund
  <2>2. Inserted(p).status # "NONE"
    BY DEF Inserted, Draft, NoRefund
  <2>3. CASE refund.status # "NONE"
    BY <1>d, <2>1, <2>2, <2>3, KeyStep DEF Inserted
  <2>4. CASE refund.status = "NONE"
    BY <1>d, <2>1, <2>2, <2>4 DEF LifeInv, OneKey
  <2>5. QED
    BY <2>3, <2>4
<1>4. ASSUME NEW p \in Agents, RepairRefundClosure(p) PROVE OneKey'
  BY <1>4, <1>e, KeyStep DEF RepairRefundClosure
<1>5. ASSUME NEW p \in Agents, FindPending(p) PROVE OneKey'
  BY <1>5, <1>d, KeyStep DEF FindPending, Pending
<1>6. ASSUME NEW p \in Agents, LoadForRetry(p) PROVE OneKey'
  <2>1. /\ \A q \in Agents \ {p} : agent'[q] = agent[q]
        /\ agent'[p].refund = agent[p].refund
    BY <1>0, <1>6, <1>b DEF LoadForRetry, AgentMemory
  <2>2. QED
    BY <1>6, <1>b, <2>1, KeyStep DEF LoadForRetry
<1>7. ASSUME NEW p \in Agents, SkipAttempt(p) PROVE OneKey'
  BY <1>7, <1>e, KeyStep DEF SkipAttempt
<1>w. ASSUME NEW p \in Agents, NEW copy, NEW after, NEW facts, Write(copy, after, facts),
             agent[p].pc \in WithCopy, copy.key = agent[p].refund.key, copy.status # "NONE",
             payouts' = payouts,
             \A q \in Agents \ {p} : agent'[q] = agent[q],
             agent'[p].pc \in WithCopy => agent'[p].refund.key = copy.key
      PROVE  OneKey'
  <2>1. refund'.key = refund.key /\ refund'.status # "NONE" /\ refund.status # "NONE"
    BY <1>b, <1>w DEF Write
  <2>2. QED
    BY <1>w, <2>1 DEF LifeInv, OneKey, Write
<1>8. ASSUME NEW p \in Agents, BeginAttempt(p) PROVE OneKey'
  <2> DEFINE after == [row EXCEPT !.refundStatus = "REQUESTED"]
             copy  == [agent[p].refund EXCEPT !.status = "REQUESTED",
                         !.lastRequestedBy = IF p \in Requests THEN agent[p].actor
                                             ELSE agent[p].refund.lastRequestedBy]
             seen  == [agent[p].row EXCEPT !.refundStatus = after.refundStatus,
                                           !.caseStatus = after.caseStatus]
  <2>1. copy.key = agent[p].refund.key /\ copy.status = "REQUESTED"
    BY <1>b DEF Refund
  <2>2. CASE AssertTransition(agent[p].row, after)
    <3>1. /\ Write(copy, after, Append(chain, "REFUND_REQUESTED"))
          /\ agent' = [agent EXCEPT ![p] = [agent[p] EXCEPT !.pc = "asking", !.refund = copy, !.row = seen]]
          /\ payouts' = payouts /\ agent[p].pc = "ready"
      BY <1>8, <2>2 DEF BeginAttempt
    <3>2. (\A q \in Agents \ {p} : agent'[q] = agent[q]) /\ agent'[p].refund = copy
      BY <1>0, <1>b, <3>1 DEF AgentMemory
    <3>3. QED
      BY <1>w, <2>1, <3>1, <3>2
  <2>3. CASE ~AssertTransition(agent[p].row, after)
    BY <1>8, <1>e, <2>3, KeyStep DEF BeginAttempt
  <2>4. QED
    BY <2>2, <2>3
<1>9. ASSUME NEW p \in Agents, AskProvider(p) PROVE OneKey'
  <2>1. PICK step \in AgentSteps : To(p, step)
    BY <1>9 DEF AskProvider, AgentSteps
  <2>2. refund' = refund /\ agent[p].pc = "asking"
        /\ payouts' \in {payouts, payouts \union {agent[p].refund.key}}
    BY <1>9 DEF AskProvider
  <2>3. refund.status # "NONE" /\ agent[p].refund.key = refund.key
    BY <1>b, <2>2
  <2>4. QED
    BY <1>c, <2>1, <2>2, <2>3 DEF LifeInv, OneKey
<1>10. ASSUME NEW p \in Agents, RecordSuccess(p) PROVE OneKey'
  <2> DEFINE after == [row EXCEPT !.refundStatus = "COMPLETED", !.caseStatus = "RESOLVED"]
             copy  == [agent[p].refund EXCEPT !.status = "COMPLETED", !.retryable = FALSE]
  <2>1. copy.key = agent[p].refund.key /\ copy.status = "COMPLETED"
    BY <1>b DEF Refund
  <2>2. CASE AssertTransition(agent[p].row, after)
    <3>1. /\ Write(copy, after, CloseCase(Append(chain, "REFUND_COMPLETED"))) /\ Leave(p)
          /\ payouts' = payouts /\ agent[p].pc = "succeeded"
      BY <1>10, <2>2 DEF RecordSuccess
    <3>2. QED
      BY <1>e, <1>w, <2>1, <3>1
  <2>3. CASE ~AssertTransition(agent[p].row, after)
    <3>1. /\ Hold(p, "unavailable", copy) /\ refund' = refund /\ payouts' = payouts
          /\ agent[p].pc = "succeeded"
      BY <1>10, <2>3 DEF RecordSuccess
    <3>2. refund.status # "NONE" /\ copy.key = refund.key
      BY <1>b, <2>1, <3>1
    <3>3. QED
      BY <1>d, <3>1, <3>2, KeyStep
  <2>4. QED
    BY <2>2, <2>3
<1>11. ASSUME NEW p \in Agents, RecordFailure(p) PROVE OneKey'
  <2> DEFINE after == [row EXCEPT !.refundStatus = "FAILED"]
             copy  == [agent[p].refund EXCEPT !.status = "FAILED",
                                              !.retryable = agent[p].pc = "unavailable"]
  <2>1. copy.key = agent[p].refund.key /\ copy.status = "FAILED"
    BY <1>b DEF Refund
  <2>2. /\ Write(copy, after, Append(chain, "REFUND_FAILED")) \/ UNCHANGED refund
        /\ Leave(p) /\ payouts' = payouts /\ agent[p].pc \in WithCopy
    BY <1>11 DEF RecordFailure
  <2>3. QED
    BY <1>e, <1>w, <2>1, <2>2, KeyStep
<1>12. ASSUME NEW o \in Operators, ReopenRefund(o) PROVE OneKey'
  <2>1. refund'.key = refund.key /\ refund'.status = refund.status
    BY <1>0, <1>12 DEF ReopenRefund, Refund
  <2>2. QED
    BY <1>12, <2>1 DEF ReopenRefund, LifeInv, OneKey
<1>13. ASSUME NEW p \in Agents, AgentDbFault(p) PROVE OneKey'
  BY <1>13, <1>b, <1>c, <1>e, KeyStep DEF AgentDbFault
<1>14. ASSUME NEW p \in Agents, AgentCrash(p) PROVE OneKey'
  BY <1>14, <1>e, KeyStep DEF AgentCrash
<1>15. QED
  BY <1>1, <1>2, <1>3, <1>4, <1>5, <1>6, <1>7, <1>8, <1>9, <1>10, <1>11, <1>12, <1>13, <1>14
     DEF RefundNext, AgentStep

(* At the start nothing was asked and nothing was paid back.               *)
LEMMA LifeStart == LifeInit => LifeInv
<1> SUFFICES ASSUME LifeInit PROVE LifeInv
  OBVIOUS
<1>1. NoRefund \in Refund
  BY DEF NoRefund, Refund, RefundStatus
<1>2. IdleAgent \in AgentMemory
  BY <1>1, InitialTypes DEF IdleAgent, AgentMemory, AgentSteps
<1>3. RefundTypeOK
  BY <1>1, <1>2 DEF LifeInit, RefundInit, RefundTypeOK
<1>4. TypeOK
  BY TypeInit DEF LifeInit
<1>5. OneKey
  BY DEF LifeInit, RefundInit, OneKey, NoRefund, IdleAgent, WithCopy
<1>6. QED
  BY <1>3, <1>4, <1>5 DEF LifeInv, LifeTypeOK

(* Every step of the flow, of an agent or of an operator keeps the types   *)
(* and the one key.                                                        *)
LEMMA LifeStep == LifeInv /\ [LifeNext]_lifeVars => LifeInv'
<1> SUFFICES ASSUME LifeInv, [LifeNext]_lifeVars PROVE LifeInv'
  OBVIOUS
<1>1. CASE [Next]_vars /\ UNCHANGED refundVars
  <2>1. TypeOK'
    BY <1>1, TypeStep DEF LifeInv, LifeTypeOK
  <2>2. RefundTypeOK' /\ OneKey'
    BY <1>1 DEF LifeInv, LifeTypeOK, RefundTypeOK, OneKey, refundVars
  <2>3. QED
    BY <2>1, <2>2 DEF LifeInv, LifeTypeOK
<1>2. CASE RefundNext /\ UNCHANGED <<webhookVars, bankVars>>
  BY <1>2, RefundTypeStep, RefundKeyStep DEF LifeInv
<1>3. QED
  BY <1>1, <1>2 DEF LifeNext, lifeVars

(* The types of the whole and the one key are invariant.                   *)
THEOREM OneKeyInductive == LifeSpec => []LifeInv
  BY LifeStart, LifeStep, PTL DEF LifeSpec

(* The provider pays the payer back at most once, whatever the requests,   *)
(* the retry workers, the cut exchanges and the crashes (findOrCreate and  *)
(* the key of the refund).                                                 *)
THEOREM RepaidAtMostOnceHolds == LifeSpec => []RepaidAtMostOnce
<1>1. LifeInv => RepaidAtMostOnce
  BY DEF LifeInv, OneKey, RepaidAtMostOnce
<1>2. QED
  BY <1>1, OneKeyInductive, PTL
=============================================================================
