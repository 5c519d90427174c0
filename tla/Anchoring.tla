----------------------------- MODULE Anchoring ------------------------------
(***************************************************************************)
(* The anchoring of closed cases: AnchorService gathers CASE_CLOSED facts  *)
(* into batches, publishes the Merkle root of each batch in the contract   *)
(* AuditAnchor through EvmAnchorClient, and marks the facts.               *)
(*                                                                         *)
(* An instance is one process of the gateway; it runs one                  *)
(* processPendingBatch at a time, started by the interval or by            *)
(* POST /anchors/batches.  A SQL transaction is one step, and so is a call *)
(* to the node; between two steps the batch stays in memory as it was      *)
(* read, and save writes that copy back whole.  The session of the         *)
(* advisory lock is not the connection of those steps: it may be lost      *)
(* while the instance goes on.                                             *)
(*                                                                         *)
(* A fact is named by its rank in order of creation, and so is a batch.    *)
(* Of a case only its CASE_CLOSED fact is modelled, with the anchor_status *)
(* that is copied to its line of "transactions".                           *)
(***************************************************************************)
EXTENDS Integers, Sequences, FiniteSets, MerkleTree

CONSTANTS
  Instances,      \* processes of the gateway
  BatchMaxSize,   \* ANCHOR_BATCH_MAX_SIZE
  MaxRetries,     \* ANCHOR_MAX_RETRIES
  Confirmations,  \* BLOCKCHAIN_CONFIRMATIONS
  MaxCases,       \* bound: cases that are closed
  FaultKinds,     \* the kinds of fault that happen
  MaxFaults       \* bound: faults of any kind in a behaviour

(* "stop": an instance stops or its SQL fails; "node": a call to the node  *)
(* fails; "lock": the session of the lock is lost; "reorg": an unconfirmed *)
(* block leaves the chain; "alteration": a fact is altered or erased       *)
(* behind the append-only trigger.                                         *)
Nobody == "nobody"

ASSUME AnchoringBounds ==
  /\ Nobody \notin Instances
  /\ {BatchMaxSize, MaxRetries, Confirmations} \subseteq Nat \ {0}
  /\ {MaxCases, MaxFaults} \subseteq Nat
  /\ FaultKinds \subseteq {"stop", "node", "lock", "reorg", "alteration"}

VARIABLES
  facts,    \* the CASE_CLOSED facts of transaction_events
  batches,  \* the lines of anchor_batches
  work,     \* what each instance has in memory
  lock,     \* the instance whose session holds the advisory lock, or Nobody
  mempool,  \* external: transactions sent to the node, by nonce
  blocks,   \* external: transactions in blocks; depth counts confirmations
  faults,   \* faults so far, at most MaxFaults
  lockLost  \* the session of the lock was lost in this behaviour

anchorVars == <<facts, batches, work, lock, mempool, blocks, faults, lockLost>>

AnchorStatus == {"NOT_SEALED", "PENDING", "ANCHORED", "FAILED"}
BatchStatus == {"PENDING", "ANCHORING", "ANCHORED", "FAILED"}

(* Digests are terms of MerkleTree and have no useful type.                *)
IsFact(f) ==
  /\ DOMAIN f = {"anchorStatus", "lineStatus", "batchId", "leafIndex", "merkleProof", "content"}
  /\ f.anchorStatus \in AnchorStatus
  /\ f.lineStatus \in AnchorStatus
  /\ f.batchId \in 0..Len(batches)    \* 0: no batch
  /\ f.leafIndex \in 0..BatchMaxSize
  /\ f.content \in {"sealed", "altered", "erased"}

IsBatch(b) ==
  /\ DOMAIN b = {"status", "merkleRoot", "leafCount", "attempts", "receipt"}
  /\ b.status \in BatchStatus
  /\ b.leafCount \in 1..BatchMaxSize
  /\ b.attempts \in 0..MaxRetries
  /\ b.receipt \in BOOLEAN    \* tx_hash is known

Steps == {"idle", "claiming", "discarding", "ready", "reading", "sending", "waiting",
          "lastReading", "finalizing", "failing", "refuted"}

Idle == [pc |-> "idle", batch |-> 0, copy |-> << >>, receipt |-> FALSE]

(* Everything the tables, the processes and the chain can hold.            *)
AnchoringTypeOK ==
  /\ \A f \in DOMAIN facts : IsFact(facts[f])
  /\ \A b \in DOMAIN batches : IsBatch(batches[b])
  /\ \A i \in Instances :
       /\ work[i].pc \in Steps
       /\ work[i].batch \in 0..Len(batches)
       /\ work[i].pc \notin {"idle", "claiming", "discarding"} => IsBatch(work[i].copy)
  /\ lock \in Instances \union {Nobody}
  /\ \A t \in DOMAIN blocks : blocks[t].depth \in 1..Confirmations
  /\ faults \in 0..MaxFaults
  /\ lockLost \in BOOLEAN

AnchoringInit ==
  /\ facts = << >>
  /\ batches = << >>
  /\ work = [i \in Instances |-> Idle]
  /\ lock = Nobody
  /\ mempool = << >>
  /\ blocks = << >>
  /\ faults = 0
  /\ lockLost = FALSE

Fault(kind) ==
  /\ kind \in FaultKinds
  /\ faults < MaxFaults
  /\ faults' = faults + 1
  /\ lockLost' = (lockLost \/ kind = "lock")

NoFault == UNCHANGED <<faults, lockLost>>

To(i, step) == work' = [work EXCEPT ![i].pc = step]

(* processPendingBatch ends, its finally releases lock and running.        *)
Leave(i) ==
  /\ work' = [work EXCEPT ![i] = Idle]
  /\ lock' = IF lock = i THEN Nobody ELSE lock

-----------------------------------------------------------------------------
(***************************************************************************)
(* The chain                                                               *)
(***************************************************************************)

(* AuditAnchor.isAnchored and getBatch, on the latest block.               *)
IsAnchored(b) == \E t \in DOMAIN blocks : blocks[t].ok /\ blocks[t].batch = b
OnChain(b) == blocks[CHOOSE t \in DOMAIN blocks : blocks[t].ok /\ blocks[t].batch = b]

(* AuditAnchor.anchorBatch, sent by its submitter: the roots the gateway   *)
(* sends are never zero.                                                   *)
Accepts(tx) == tx.leafCount # 0 /\ ~IsAnchored(tx.batch)

(* The next transaction of the account enters a block; one that the        *)
(* contract rejects is there too, with a receipt that says so.             *)
Mine ==
  /\ mempool # << >>
  /\ LET tx == Head(mempool)
     IN blocks' = Append(blocks, [batch |-> tx.batch, merkleRoot |-> tx.merkleRoot,
                                  leafCount |-> tx.leafCount, sender |-> tx.sender,
                                  attempt |-> tx.attempt, ok |-> Accepts(tx), depth |-> 1])
  /\ mempool' = Tail(mempool)
  /\ UNCHANGED <<facts, batches, work, lock>> /\ NoFault

(* Blocks are built on top: every transaction gains a confirmation.        *)
Deepen ==
  /\ \E t \in DOMAIN blocks : blocks[t].depth < Confirmations
  /\ blocks' = [t \in DOMAIN blocks |->
                  [blocks[t] EXCEPT !.depth = IF @ < Confirmations THEN @ + 1 ELSE @]]
  /\ UNCHANGED <<facts, batches, work, lock, mempool>> /\ NoFault

(* A reorganisation takes back the last transaction while it has fewer     *)
(* confirmations than the operator asks for: it waits in the mempool.      *)
Reorg ==
  /\ Fault("reorg")
  /\ blocks # << >>
  /\ blocks[Len(blocks)].depth < Confirmations
  /\ LET tx == blocks[Len(blocks)]
     IN mempool' = <<[batch |-> tx.batch, merkleRoot |-> tx.merkleRoot, leafCount |-> tx.leafCount,
                      sender |-> tx.sender, attempt |-> tx.attempt]>> \o mempool
  /\ blocks' = SubSeq(blocks, 1, Len(blocks) - 1)
  /\ UNCHANGED <<facts, batches, work, lock>>

-----------------------------------------------------------------------------
(***************************************************************************)
(* The registry                                                            *)
(***************************************************************************)

(* TransactionEventsService.closeCase: a closure enters the queue.         *)
RecordClosure ==
  /\ Len(facts) < MaxCases
  /\ facts' = Append(facts, [anchorStatus |-> "PENDING", lineStatus |-> "NOT_SEALED", batchId |-> 0,
                             leafIndex |-> 0, merkleProof |-> << >>, content |-> "sealed"])
  /\ UNCHANGED <<batches, work, lock, mempool, blocks>> /\ NoFault

(* A superuser, for whom the append-only trigger does not hold, changes    *)
(* the fingerprint of a fact of a batch or erases the fact.                *)
Alter ==
  /\ Fault("alteration")
  /\ \E f \in DOMAIN facts, content \in {"altered", "erased"} :
       /\ facts[f].batchId # 0
       /\ facts[f].content = "sealed"
       /\ facts' = [facts EXCEPT ![f].content = content]
  /\ UNCHANGED <<batches, work, lock, mempool, blocks>>

Present(f) == facts[f].content # "erased"

(* Mutant of Leaf: the leaf of the identity of the fact, not of its print. *)
LeafOfIdentity(f) == ToLeaf(<<f>>)

Leaf(f) == ToLeaf(<<f, facts[f].content>>)
ItemsOf(b) == {f \in DOMAIN facts : facts[f].batchId = b /\ Present(f)}

(* Mutant of MarkItems: the line of transactions is forgotten.             *)
MarkEventsOnly(b, status) ==
  [f \in DOMAIN facts |-> IF f \in ItemsOf(b) THEN [facts[f] EXCEPT !.anchorStatus = status] ELSE facts[f]]

(* Mutant of MarkItems: a batch that fails releases its items.             *)
MarkItemsReleasing(b, status) ==
  [f \in DOMAIN facts |->
     IF f \in ItemsOf(b)
     THEN [facts[f] EXCEPT !.anchorStatus = status, !.lineStatus = status,
                           !.batchId = IF status = "FAILED" THEN 0 ELSE @]
     ELSE facts[f]]

(* markItems: the facts of a batch and the lines of their cases.           *)
MarkItems(b, status) ==
  [f \in DOMAIN facts |->
     IF f \in ItemsOf(b)
     THEN [facts[f] EXCEPT !.anchorStatus = status, !.lineStatus = status]
     ELSE facts[f]]

-----------------------------------------------------------------------------
(***************************************************************************)
(* processPendingBatch                                                     *)
(***************************************************************************)

(* Not while the instance is running; pg_try_advisory_lock gives up when   *)
(* another session has the lock.                                           *)
Begin(i) ==
  /\ work[i].pc = "idle"
  /\ lock = Nobody
  /\ lock' = i
  /\ To(i, "claiming")
  /\ UNCHANGED <<facts, batches, mempool, blocks>> /\ NoFault

(* Mutants of Resumable: a batch left ANCHORING by a stop is forgotten,    *)
(* and an anchored one is taken up again.                                  *)
ResumablePendingOnly(b) == batches[b].status = "PENDING"
ResumableUnlessFailed(b) == batches[b].status # "FAILED"

(* findResumableBatch: the batches a stop may have left, oldest first.     *)
Resumable(b) == batches[b].status \in {"PENDING", "ANCHORING"}
Candidates == {b \in DOMAIN batches : Resumable(b)}
Oldest(b) == b \in Candidates /\ \A c \in Candidates : b <= c
Complete(b) == Cardinality(ItemsOf(b)) = batches[b].leafCount

(* orderedLeaves: by the stored index of each item of a complete batch.    *)
(* It throws on an index out of range, a missing leaf or a missing print,  *)
(* which only a change of leaf_index or of the print to null brings about; *)
(* Alter makes neither.                                                    *)
OrderedLeaves(b) ==
  [k \in 1..batches[b].leafCount |->
     Leaf(CHOOSE f \in ItemsOf(b) : facts[f].leafIndex = k)]

(* What anchorBatchItems does first, before anything is awaited: compare   *)
(* the root, then look at what is left of the budget.                      *)
FirstStep(b) ==
  IF Root(OrderedLeaves(b)) # batches[b].merkleRoot THEN "refuted"
  ELSE IF batches[b].attempts >= MaxRetries THEN "lastReading"
  ELSE "ready"

Resume(i) ==
  /\ work[i].pc = "claiming"
  /\ \E b \in DOMAIN batches :
       /\ Oldest(b)
       /\ Complete(b)
       /\ work' = [work EXCEPT ![i] =
                     [pc |-> FirstStep(b), batch |-> b, copy |-> batches[b], receipt |-> FALSE]]
  /\ UNCHANGED <<facts, batches, lock, mempool, blocks>> /\ NoFault

(* An incomplete batch fails, then its items outside its transaction, and  *)
(* the search goes on.  markItems has one statement for the facts and one  *)
(* for their lines; here they are one step.                                *)
DiscardIncomplete(i) ==
  /\ work[i].pc = "claiming"
  /\ \E b \in DOMAIN batches :
       /\ Oldest(b)
       /\ ~Complete(b)
       /\ batches' = [batches EXCEPT ![b].status = "FAILED"]
       /\ work' = [work EXCEPT ![i] = [Idle EXCEPT !.pc = "discarding", !.batch = b]]
  /\ UNCHANGED <<facts, lock, mempool, blocks>> /\ NoFault

DiscardItems(i) ==
  /\ work[i].pc = "discarding"
  /\ facts' = MarkItems(work[i].batch, "FAILED")
  /\ work' = [work EXCEPT ![i] = [Idle EXCEPT !.pc = "claiming"]]
  /\ UNCHANGED <<batches, lock, mempool, blocks>> /\ NoFault

(* findOrCreateBatch: the closures to gather, oldest first.                *)
Unclaimed == {f \in DOMAIN facts : facts[f].anchorStatus = "PENDING" /\ facts[f].batchId = 0 /\ Present(f)}
Rank(f) == Cardinality({g \in Unclaimed : g <= f})
Gathered == {f \in Unclaimed : Rank(f) <= BatchMaxSize}
GatheredLeaves == [k \in 1..Cardinality(Gathered) |-> Leaf(CHOOSE f \in Gathered : Rank(f) = k)]

NewBatch(leaves) ==
  [status |-> "PENDING", merkleRoot |-> Root(leaves), leafCount |-> Len(leaves),
   attempts |-> 0, receipt |-> FALSE]

(* One transaction inserts the batch and gives each fact its place.  The   *)
(* rows are selected FOR UPDATE SKIP LOCKED: two transactions at once      *)
(* gather different facts, as two steps in a row do.                       *)
Constitute(i) ==
  /\ work[i].pc = "claiming"
  /\ Candidates = {}
  /\ Unclaimed # {}
  /\ batches' = Append(batches, NewBatch(GatheredLeaves))
  /\ facts' = [f \in DOMAIN facts |->
                 IF f \in Gathered
                 THEN [facts[f] EXCEPT !.batchId = Len(batches) + 1, !.leafIndex = Rank(f),
                                       !.merkleProof = GetProof(GatheredLeaves, Rank(f))]
                 ELSE facts[f]]
  /\ work' = [work EXCEPT ![i] = [pc |-> "ready", batch |-> Len(batches) + 1,
                                  copy |-> NewBatch(GatheredLeaves), receipt |-> FALSE]]
  /\ UNCHANGED <<lock, mempool, blocks>> /\ NoFault

NothingToAnchor(i) ==
  /\ work[i].pc = "claiming"
  /\ Candidates = {}
  /\ Unclaimed = {}
  /\ Leave(i)
  /\ UNCHANGED <<facts, batches, mempool, blocks>> /\ NoFault

-----------------------------------------------------------------------------
(***************************************************************************)
(* anchorBatchItems                                                        *)
(***************************************************************************)

Save(i, copy) == batches' = [batches EXCEPT ![work[i].batch] = copy]

(* Mutant of Attempted: the attempt is not counted.                        *)
AttemptedUncounted(copy) == [copy EXCEPT !.status = "ANCHORING"]

Attempted(copy) == [copy EXCEPT !.status = "ANCHORING", !.attempts = @ + 1]

(* The attempt is counted and stored before the node is called.            *)
Attempt(i) ==
  /\ work[i].pc = "ready"
  /\ Save(i, Attempted(work[i].copy))
  /\ work' = [work EXCEPT ![i] = [@ EXCEPT !.pc = "reading", !.copy = Attempted(work[i].copy)]]
  /\ UNCHANGED <<facts, lock, mempool, blocks>> /\ NoFault

(* finalizeRecoveredBatch: what is on the chain must be this batch.        *)
Recovered(i) ==
  IF /\ OnChain(work[i].batch).merkleRoot = work[i].copy.merkleRoot
     /\ OnChain(work[i].batch).leafCount = work[i].copy.leafCount
  THEN "finalizing" ELSE "refuted"

(* getBatch: a batch that is on the chain already is not sent again.       *)
Read(i) ==
  /\ work[i].pc \in {"reading", "lastReading"}
  /\ To(i, IF IsAnchored(work[i].batch) THEN Recovered(i)
           ELSE IF work[i].pc = "reading" THEN "sending" ELSE "refuted")
  /\ UNCHANGED <<facts, batches, lock, mempool, blocks>> /\ NoFault

Transaction(i) ==
  [batch |-> work[i].batch, merkleRoot |-> work[i].copy.merkleRoot, leafCount |-> work[i].copy.leafCount,
   sender |-> i, attempt |-> work[i].copy.attempts]

(* EvmAnchorClient.anchorBatch: simulated first; a simulation that the     *)
(* contract rejects is an error, else the transaction is sent.             *)
Send(i) ==
  /\ work[i].pc = "sending"
  /\ IF Accepts(Transaction(i))
     THEN mempool' = Append(mempool, Transaction(i)) /\ To(i, "waiting")
     ELSE mempool' = mempool /\ To(i, "failing")
  /\ UNCHANGED <<facts, batches, lock, blocks>> /\ NoFault

(* Mutant of Confirmed: any block is as good as a confirmed one.           *)
ConfirmedAtOnce(t) == t \in DOMAIN blocks

Confirmed(t) == blocks[t].depth >= Confirmations

(* tx.wait: the receipt, once it has the confirmations; a rejected         *)
(* transaction is an error.                                                *)
Receive(i) ==
  /\ work[i].pc = "waiting"
  /\ \E t \in DOMAIN blocks :
       /\ Confirmed(t)
       /\ blocks[t].batch = work[i].batch
       /\ blocks[t].sender = i
       /\ blocks[t].attempt = work[i].copy.attempts
       /\ work' = [work EXCEPT ![i] =
                     [@ EXCEPT !.pc = IF blocks[t].ok THEN "finalizing" ELSE "failing",
                               !.receipt = blocks[t].ok]]
  /\ UNCHANGED <<facts, batches, lock, mempool, blocks>> /\ NoFault

(* The node does not answer.  A transaction sent before may still be       *)
(* mined.  The last reading has no attempt left after it.                  *)
NodeFails(i) ==
  /\ work[i].pc \in {"reading", "sending", "waiting", "lastReading"}
  /\ Fault("node")
  /\ To(i, IF work[i].pc = "lastReading" THEN "refuted" ELSE "failing")
  /\ UNCHANGED <<facts, batches, lock, mempool, blocks>>

(* finalizeBatch: the batch and its items in one transaction.  Only a      *)
(* receipt gives a hash to the batch.                                      *)
Finalize(i) ==
  /\ work[i].pc = "finalizing"
  /\ Save(i, [work[i].copy EXCEPT !.status = "ANCHORED", !.receipt = @ \/ work[i].receipt])
  /\ facts' = MarkItems(work[i].batch, "ANCHORED")
  /\ Leave(i)
  /\ UNCHANGED <<mempool, blocks>> /\ NoFault

(* recordBatchFailure: for another attempt, or for good.                   *)
RecordFailure(i) ==
  /\ work[i].pc \in {"failing", "refuted"}
  /\ LET exhausted == work[i].pc = "refuted" \/ work[i].copy.attempts >= MaxRetries
     IN /\ Save(i, [work[i].copy EXCEPT !.status = IF exhausted THEN "FAILED" ELSE "PENDING"])
        /\ facts' = IF exhausted THEN MarkItems(work[i].batch, "FAILED") ELSE facts
  /\ Leave(i)
  /\ UNCHANGED <<mempool, blocks>> /\ NoFault

(* The instance stops, or a SQL statement fails: no handler catches the    *)
(* error before the finally of processPendingBatch.  The session ends or   *)
(* releases the lock; the stored batch stays as it was last saved.         *)
Stop(i) ==
  /\ work[i].pc # "idle"
  /\ Fault("stop")
  /\ Leave(i)
  /\ UNCHANGED <<facts, batches, mempool, blocks>>

(* The session of the lock is lost and the instance does not notice.       *)
LoseLock(i) ==
  /\ lock = i
  /\ Fault("lock")
  /\ lock' = Nobody
  /\ UNCHANGED <<facts, batches, work, mempool, blocks>>

InstanceStep(i) ==
  \/ Begin(i) \/ Resume(i) \/ DiscardIncomplete(i) \/ DiscardItems(i) \/ Constitute(i)
  \/ NothingToAnchor(i) \/ Attempt(i) \/ Read(i) \/ Send(i) \/ Receive(i) \/ Finalize(i)
  \/ RecordFailure(i)

InstanceFault(i) == NodeFails(i) \/ Stop(i) \/ LoseLock(i)

AnchoringNext ==
  \/ \E i \in Instances : InstanceStep(i) \/ InstanceFault(i)
  \/ RecordClosure
  \/ Alter
  \/ Mine
  \/ Deepen
  \/ Reorg

AnchoringSpec == AnchoringInit /\ [][AnchoringNext]_anchorVars

(* setInterval starts each instance again and again, the awaits of an      *)
(* execution return, and the chain takes what it was sent.                 *)
FairAnchoringSpec ==
  /\ AnchoringSpec
  /\ \A i \in Instances : WF_anchorVars(InstanceStep(i))
  /\ WF_anchorVars(Mine)
  /\ WF_anchorVars(Deepen)
-----------------------------------------------------------------------------
(***************************************************************************)
(* The verification of a published proof                                   *)
(***************************************************************************)

(* EventChainVerificationService.verifyAnchor of a fact that claims to be  *)
(* anchored, while the node answers: the proof leads to the root of the    *)
(* line, the chain holds that root, and the contract says the same.        *)
VerifyAnchor(f) ==
  LET b == facts[f].batchId
  IN /\ VerifyProof(Leaf(f), facts[f].merkleProof, batches[b].merkleRoot)
     /\ IsAnchored(b)
     /\ OnChain(b).merkleRoot = batches[b].merkleRoot
     /\ VerifyProof(Leaf(f), facts[f].merkleProof, OnChain(b).merkleRoot)

-----------------------------------------------------------------------------
(***************************************************************************)
(* Properties                                                              *)
(***************************************************************************)

Anchored(f) == facts[f].anchorStatus = "ANCHORED"
ConfirmedOnChain(b) == \E t \in DOMAIN blocks : blocks[t].ok /\ blocks[t].batch = b /\ Confirmed(t)

(* A closure is committed by one batch: whatever instances interleave,     *)
(* stop or lose the lock, every leaf under a stored root is a fact that    *)
(* points back at that batch, and a fact in no batch has no place          *)
(* (findOrCreateBatch).  That two selections never gather one fact is the  *)
(* atomicity of Constitute; that no failure, resumption or second instance *)
(* releases or moves a fact afterwards is what is checked.                 *)
CommittedOnce ==
  \A b \in DOMAIN batches :
    LET members == {f \in DOMAIN facts : facts[f].batchId = b}
    IN /\ Cardinality(members) = batches[b].leafCount
       /\ {facts[f].leafIndex : f \in members} = 1..batches[b].leafCount

(* A batch marked ANCHORED on a receipt is on the chain with the           *)
(* confirmations that the operator asked for, and no reorganisation, stop  *)
(* or second instance makes that untrue (EvmAnchorClient.anchorBatch).     *)
ReceiptIsConfirmed ==
  \A b \in DOMAIN batches :
    batches[b].status = "ANCHORED" /\ batches[b].receipt => ConfirmedOnChain(b)

(* A batch marked ANCHORED has its root confirmed on the chain, recovered  *)
(* or not.                                                                 *)
AnchoredIsConfirmed ==
  \A b \in DOMAIN batches : batches[b].status = "ANCHORED" => ConfirmedOnChain(b)

(* A proof tells an untouched closure from an altered one: once the batch  *)
(* is confirmed, verifyAnchor accepts the anchored facts whose fingerprint *)
(* is the sealed one and no other, whatever its place in the tree.         *)
ProofsTellAlteration ==
  \A f \in DOMAIN facts :
    Anchored(f) /\ Present(f) /\ ConfirmedOnChain(facts[f].batchId) =>
      (VerifyAnchor(f) <=> facts[f].content = "sealed")

(* While no session of the lock is lost, the three places that tell        *)
(* whether a case is anchored agree: its fact, its batch and its line of   *)
(* transactions, on which the public "anchored" is computed.               *)
AnchorViewsAgree ==
  ~lockLost =>
    \A f \in DOMAIN facts : Present(f) =>
      /\ Anchored(f) <=> facts[f].lineStatus = "ANCHORED"
      /\ Anchored(f) <=> facts[f].batchId # 0 /\ batches[facts[f].batchId].status = "ANCHORED"

(* A batch is sent to the chain at most MaxRetries times, stops included,  *)
(* and accepted once, while no session of the lock is lost.                *)
Sent(b) == {t \in DOMAIN mempool : mempool[t].batch = b}
InBlocks(b) == {t \in DOMAIN blocks : blocks[t].batch = b}
WritesWithinBudget ==
  \A b \in DOMAIN batches :
    /\ ~lockLost => Cardinality(Sent(b)) + Cardinality(InBlocks(b)) <= MaxRetries
    /\ Cardinality({t \in InBlocks(b) : blocks[t].ok}) <= 1

(* While no session of the lock is lost, an anchored batch stays anchored: *)
(* no late failure of another execution is recorded over it.               *)
AnchoredIsFinal ==
  [][\A b \in DOMAIN batches :
       batches[b].status = "ANCHORED" /\ ~lockLost => batches'[b] = batches[b]]_anchorVars

(* Every closure in the queue ends anchored or given up, through stops,    *)
(* failures of the node, lost locks and reorganisations.  A batch from     *)
(* which a fact was erased is excepted: DiscardItems may never run.        *)
Mutilated(b) == b # 0 /\ ~Complete(b)
ClosureSettles ==
  \A f \in 1..MaxCases :
    (f \in DOMAIN facts /\ facts[f].anchorStatus = "PENDING") ~>
      (f \in DOMAIN facts /\ (facts[f].anchorStatus # "PENDING" \/ Mutilated(facts[f].batchId)))
=============================================================================
