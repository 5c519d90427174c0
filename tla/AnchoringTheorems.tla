------------------------- MODULE AnchoringTheorems --------------------------
(***************************************************************************)
(* Proofs about Anchoring, for any number of instances, cases and faults.  *)
(*                                                                         *)
(* Digests have no useful type, so the sequences of the model are typed by *)
(* what they hold (IsList), and records by their fields.                   *)
(***************************************************************************)
EXTENDS Anchoring, MerkleTreeTheorems, FiniteSetTheorems

FactFields == {"anchorStatus", "lineStatus", "batchId", "leafIndex", "merkleProof", "content"}
BatchFields == {"status", "merkleRoot", "leafCount", "attempts", "receipt"}
WorkFields == {"pc", "batch", "copy", "receipt"}

Busy(i) == work[i].pc \notin {"idle", "claiming", "discarding"}

Shapes ==
  /\ IsList(facts)
  /\ IsList(batches)
  /\ lockLost \in BOOLEAN
  /\ \A f \in DOMAIN facts : DOMAIN facts[f] = FactFields /\ facts[f].batchId \in 0..Len(batches)
  /\ \A b \in DOMAIN batches : DOMAIN batches[b] = BatchFields
  /\ DOMAIN work = Instances
  /\ \A i \in Instances :
       /\ DOMAIN work[i] = WorkFields
       /\ Busy(i) => DOMAIN work[i].copy = BatchFields
       /\ Busy(i) \/ work[i].pc = "discarding" => work[i].batch \in DOMAIN batches

(* While no session of the lock is lost, an instance that is not idle is   *)
(* the holder of the lock, and the batch it works on is not anchored.      *)
Exclusive ==
  ~lockLost =>
    \A i \in Instances :
      /\ work[i].pc # "idle" => lock = i
      /\ Busy(i) => batches[work[i].batch].status # "ANCHORED"
      /\ work[i].pc = "discarding" => batches[work[i].batch].status = "FAILED"

AnchoringInv == Shapes /\ Exclusive /\ AnchorViewsAgree

-----------------------------------------------------------------------------
(* A function on the domain of a list is a list of the same length.        *)
LEMMA ListUpdate ==
  ASSUME NEW s, IsList(s), NEW t, t = [k \in DOMAIN s |-> t[k]]
  PROVE  IsList(t) /\ DOMAIN t = DOMAIN s /\ Len(t) = Len(s)
<1>1. Len(s) \in Nat /\ DOMAIN s = 1..Len(s)
  BY ListFacts
<1>2. t \in [1..Len(s) -> {t[k] : k \in DOMAIN t}]
  BY <1>1
<1>3. t \in Seq({t[k] : k \in DOMAIN t})
  BY <1>1, <1>2, SeqDef
<1>. QED  BY <1>1, <1>2, <1>3 DEF IsList

-----------------------------------------------------------------------------
(* The memory of an instance, and how a step may change it.                *)
Memory(w, bs) ==
  /\ DOMAIN w = WorkFields
  /\ w.pc \notin {"idle", "claiming", "discarding"} => DOMAIN w.copy = BatchFields
  /\ w.pc \notin {"idle", "claiming"} => w.batch \in DOMAIN bs

(* The memories of all instances after one of them changed to w.           *)
LEMMA WorkShape ==
  ASSUME Shapes, NEW i \in Instances, NEW w, Memory(w, batches'),
         work' = [work EXCEPT ![i] = w], DOMAIN batches \subseteq DOMAIN batches'
  PROVE  /\ DOMAIN work' = Instances
         /\ \A j \in Instances :
              /\ DOMAIN work'[j] = WorkFields
              /\ Busy(j)' => DOMAIN work'[j].copy = BatchFields
              /\ Busy(j)' \/ work'[j].pc = "discarding" => work'[j].batch \in DOMAIN batches'
BY DEF Shapes, Memory, Busy

(* The invariant after a step that ends an execution and changes neither   *)
(* table: the lock is released.                                            *)
LEMMA GiveUp ==
  ASSUME AnchoringInv, NEW i \in Instances, Leave(i), facts' = facts, batches' = batches,
         lockLost' = lockLost
  PROVE  AnchoringInv'
<1> DEFINE w == Idle
<1>1. Memory(w, batches') /\ w.pc = "idle" /\ work' = [work EXCEPT ![i] = w]
  BY DEF Idle, Memory, WorkFields, Leave
<1> HIDE DEF w
<1>2. Shapes'
  BY <1>1, WorkShape DEF AnchoringInv, Shapes
<1>3. Exclusive'
  BY <1>1 DEF AnchoringInv, Shapes, Exclusive, Busy, Leave
<1>4. AnchorViewsAgree'
  BY DEF AnchoringInv, AnchorViewsAgree, Anchored, Present
<1>. QED  BY <1>2, <1>3, <1>4 DEF AnchoringInv

(* The invariant after a step that moves an execution on with a batch that *)
(* is not anchored.                                                        *)
LEMMA MoveOn ==
  ASSUME AnchoringInv, NEW i \in Instances, NEW w, Memory(w, batches),
         work' = [work EXCEPT ![i] = w], facts' = facts, batches' = batches,
         lock' = lock, lockLost' = lockLost, work[i].pc # "idle",
         w.pc \in {"ready", "reading", "sending", "waiting", "lastReading",
                   "finalizing", "failing", "refuted"},
         ~lockLost => batches[w.batch].status # "ANCHORED"
  PROVE  AnchoringInv'
<1>1. Shapes'
  BY WorkShape DEF AnchoringInv, Shapes
<1>2. Exclusive'
  BY DEF AnchoringInv, Shapes, Exclusive, Busy, Memory
<1>3. AnchorViewsAgree'
  BY DEF AnchoringInv, AnchorViewsAgree, Anchored, Present
<1>. QED  BY <1>1, <1>2, <1>3 DEF AnchoringInv

(* The steps of an execution that only move it on, and those that end it   *)
(* without writing anything.                                               *)
LEMMA QuietSteps ==
  ASSUME AnchoringInv, NEW i \in Instances,
         Resume(i) \/ Read(i) \/ Send(i) \/ Receive(i) \/ NodeFails(i) \/ NothingToAnchor(i) \/ Stop(i)
  PROVE  AnchoringInv'
<1>1. CASE Resume(i)
  <2>1. PICK b \in DOMAIN batches :
          /\ Oldest(b)
          /\ work' = [work EXCEPT ![i] =
                        [pc |-> FirstStep(b), batch |-> b, copy |-> batches[b], receipt |-> FALSE]]
    BY <1>1 DEF Resume
  <2>2. batches[b].status # "ANCHORED"
    BY <2>1 DEF Oldest, Candidates, Resumable
  <2>3. FirstStep(b) \in {"refuted", "lastReading", "ready"}
    BY DEF FirstStep
  <2> DEFINE w == [pc |-> FirstStep(b), batch |-> b, copy |-> batches[b], receipt |-> FALSE]
  <2>4. Memory(w, batches) /\ w.batch = b /\ w.pc \in {"refuted", "lastReading", "ready"}
    BY <2>3 DEF AnchoringInv, Shapes, Memory, WorkFields
  <2>5. work' = [work EXCEPT ![i] = w]
    BY <2>1
  <2>6. UNCHANGED <<facts, batches, lock, lockLost>> /\ work[i].pc # "idle"
    BY <1>1 DEF Resume, NoFault
  <2> HIDE DEF w
  <2>. QED  BY <2>2, <2>4, <2>5, <2>6, MoveOn
<1>2. CASE Read(i)
  <2> DEFINE w == [work[i] EXCEPT !.pc = IF IsAnchored(work[i].batch) THEN Recovered(i)
                                         ELSE IF work[i].pc = "reading" THEN "sending" ELSE "refuted"]
  <2>1. work' = [work EXCEPT ![i] = w]
    BY <1>2 DEF Read, To
  <2>2. Recovered(i) \in {"finalizing", "refuted"}
    BY DEF Recovered
  <2>3. Memory(w, batches) /\ w.batch = work[i].batch /\ w.pc \in {"finalizing", "refuted", "sending"}
    BY <1>2, <2>2 DEF Read, AnchoringInv, Shapes, Busy, Memory, WorkFields
  <2>4. ~lockLost => batches[w.batch].status # "ANCHORED"
    BY <1>2, <2>3 DEF Read, AnchoringInv, Exclusive, Busy
  <2>5. UNCHANGED <<facts, batches, lock, lockLost>> /\ work[i].pc # "idle"
    BY <1>2 DEF Read, NoFault
  <2> HIDE DEF w
  <2>. QED  BY <2>1, <2>3, <2>4, <2>5, MoveOn
<1>3. CASE Send(i)
  <2>1. PICK p \in {"waiting", "failing"} : work' = [work EXCEPT ![i].pc = p]
    BY <1>3 DEF Send, To
  <2> DEFINE w == [work[i] EXCEPT !.pc = p]
  <2>2. work' = [work EXCEPT ![i] = w]
    BY <2>1
  <2>3. Memory(w, batches) /\ w.batch = work[i].batch /\ w.pc = p
    BY <1>3 DEF Send, AnchoringInv, Shapes, Busy, Memory, WorkFields
  <2>4. ~lockLost => batches[w.batch].status # "ANCHORED"
    BY <1>3, <2>3 DEF Send, AnchoringInv, Exclusive, Busy
  <2>5. UNCHANGED <<facts, batches, lock, lockLost>> /\ work[i].pc # "idle"
    BY <1>3 DEF Send, NoFault
  <2> HIDE DEF w
  <2>. QED  BY <2>2, <2>3, <2>4, <2>5, MoveOn
<1>4. CASE Receive(i)
  <2>1. PICK t \in DOMAIN blocks :
          work' = [work EXCEPT ![i] =
                     [@ EXCEPT !.pc = IF blocks[t].ok THEN "finalizing" ELSE "failing",
                               !.receipt = blocks[t].ok]]
    BY <1>4 DEF Receive
  <2> DEFINE w == [work[i] EXCEPT !.pc = IF blocks[t].ok THEN "finalizing" ELSE "failing",
                                  !.receipt = blocks[t].ok]
  <2>2. work' = [work EXCEPT ![i] = w]
    BY <2>1
  <2>3. Memory(w, batches) /\ w.batch = work[i].batch /\ w.pc \in {"finalizing", "failing"}
    BY <1>4 DEF Receive, AnchoringInv, Shapes, Busy, Memory, WorkFields
  <2>4. ~lockLost => batches[w.batch].status # "ANCHORED"
    BY <1>4, <2>3 DEF Receive, AnchoringInv, Exclusive, Busy
  <2>5. UNCHANGED <<facts, batches, lock, lockLost>> /\ work[i].pc # "idle"
    BY <1>4 DEF Receive, NoFault
  <2> HIDE DEF w
  <2>. QED  BY <2>2, <2>3, <2>4, <2>5, MoveOn
<1>5. CASE NodeFails(i)
  <2> DEFINE w == [work[i] EXCEPT !.pc = IF work[i].pc = "lastReading" THEN "refuted" ELSE "failing"]
  <2>1. work' = [work EXCEPT ![i] = w] /\ UNCHANGED <<facts, batches, lock>>
    BY <1>5 DEF NodeFails, To
  <2>2. lockLost' = lockLost
    <3>1. lockLost' = (lockLost \/ "node" = "lock")
      BY <1>5 DEF NodeFails, Fault
    <3>2. lockLost \in BOOLEAN
      BY DEF AnchoringInv, Shapes
    <3>. QED  BY <3>1, <3>2
  <2>3. Memory(w, batches) /\ w.batch = work[i].batch /\ w.pc \in {"refuted", "failing"}
    BY <1>5 DEF NodeFails, AnchoringInv, Shapes, Busy, Memory, WorkFields
  <2>4. ~lockLost => batches[w.batch].status # "ANCHORED"
    BY <1>5, <2>3 DEF NodeFails, AnchoringInv, Exclusive, Busy
  <2>5. work[i].pc # "idle"
    BY <1>5 DEF NodeFails
  <2> HIDE DEF w
  <2>. QED  BY <2>1, <2>2, <2>3, <2>4, <2>5, MoveOn
<1>6. CASE NothingToAnchor(i)
  BY <1>6, GiveUp DEF NothingToAnchor, NoFault
<1>7. CASE Stop(i)
  <2>1. lockLost' = lockLost
    <3>1. lockLost' = (lockLost \/ "stop" = "lock")
      BY <1>7 DEF Stop, Fault
    <3>2. lockLost \in BOOLEAN
      BY DEF AnchoringInv, Shapes
    <3>. QED  BY <3>1, <3>2
  <2>. QED  BY <1>7, <2>1, GiveUp DEF Stop
<1>. QED  BY <1>1, <1>2, <1>3, <1>4, <1>5, <1>6, <1>7

-----------------------------------------------------------------------------
(* What markItems keeps and what it writes.                                *)
LEMMA Marking ==
  ASSUME Shapes, NEW b, NEW s, facts' = MarkItems(b, s)
  PROVE  /\ IsList(facts')
         /\ DOMAIN facts' = DOMAIN facts
         /\ \A f \in DOMAIN facts :
              /\ DOMAIN facts'[f] = FactFields
              /\ facts'[f].batchId = facts[f].batchId
              /\ facts'[f].content = facts[f].content
              /\ f \in ItemsOf(b) => facts'[f].anchorStatus = s /\ facts'[f].lineStatus = s
              /\ f \notin ItemsOf(b) => facts'[f] = facts[f]
<1>1. facts' = [k \in DOMAIN facts |-> facts'[k]]
  BY DEF MarkItems
<1>2. IsList(facts') /\ DOMAIN facts' = DOMAIN facts
  BY <1>1, ListUpdate DEF Shapes
<1>3. \A f \in DOMAIN facts :
        facts'[f] = IF f \in ItemsOf(b)
                    THEN [facts[f] EXCEPT !.anchorStatus = s, !.lineStatus = s]
                    ELSE facts[f]
  BY DEF MarkItems
<1>4. \A f \in DOMAIN facts : DOMAIN facts[f] = FactFields
  BY DEF Shapes
<1>. QED  BY <1>2, <1>3, <1>4 DEF FactFields

(* The shapes after an instance saves a batch and marks its items or not.  *)
LEMMA SaveShapes ==
  ASSUME Shapes, NEW i \in Instances, NEW w, Memory(w, batches), NEW b, NEW c,
         DOMAIN c = BatchFields, batches' = [batches EXCEPT ![b] = c],
         work' = [work EXCEPT ![i] = w], lockLost' = lockLost,
         facts' = facts \/ \E s : facts' = MarkItems(b, s)
  PROVE  Shapes' /\ DOMAIN batches' = DOMAIN batches
<1>1. batches' = [k \in DOMAIN batches |-> batches'[k]]
  OBVIOUS
<1>2. IsList(batches') /\ DOMAIN batches' = DOMAIN batches /\ Len(batches') = Len(batches)
  BY <1>1, ListUpdate DEF Shapes
<1>3. \A k \in DOMAIN batches' : DOMAIN batches'[k] = BatchFields
  BY <1>2 DEF Shapes
<1>4. /\ IsList(facts')
      /\ \A f \in DOMAIN facts' : DOMAIN facts'[f] = FactFields /\ facts'[f].batchId \in 0..Len(batches')
  <2>1. CASE facts' = facts
    BY <1>2, <2>1 DEF Shapes
  <2>2. CASE \E s : facts' = MarkItems(b, s)
    BY <1>2, <2>2, Marking DEF Shapes
  <2>. QED  BY <2>1, <2>2
<1>5. Memory(w, batches')
  BY <1>2 DEF Memory
<1>6. /\ DOMAIN work' = Instances
      /\ \A j \in Instances :
           /\ DOMAIN work'[j] = WorkFields
           /\ Busy(j)' => DOMAIN work'[j].copy = BatchFields
           /\ Busy(j)' \/ work'[j].pc = "discarding" => work'[j].batch \in DOMAIN batches'
  BY <1>2, <1>5, WorkShape
<1>. QED  BY <1>2, <1>3, <1>4, <1>6 DEF Shapes

(* The views after a batch that is not anchored is saved as not anchored.  *)
LEMMA SaveViews ==
  ASSUME AnchoringInv, NEW b \in DOMAIN batches, NEW c, batches' = [batches EXCEPT ![b] = c],
         facts' = facts, lockLost' = lockLost, c.status # "ANCHORED",
         ~lockLost => batches[b].status # "ANCHORED"
  PROVE  AnchorViewsAgree'
<1>1. \A f \in DOMAIN facts : facts[f].batchId # 0 => facts[f].batchId \in DOMAIN batches
  BY ListFacts DEF AnchoringInv, Shapes
<1>2. \A k \in DOMAIN batches : batches'[k] = IF k = b THEN c ELSE batches[k]
  OBVIOUS
<1>. QED  BY <1>1, <1>2 DEF AnchoringInv, AnchorViewsAgree, Anchored, Present

(* The views after a batch is saved and its items are marked alike.        *)
LEMMA MarkViews ==
  ASSUME AnchoringInv, NEW b \in DOMAIN batches, NEW c, batches' = [batches EXCEPT ![b] = c],
         NEW s, facts' = MarkItems(b, s), lockLost' = lockLost,
         s = "ANCHORED" <=> c.status = "ANCHORED"
  PROVE  AnchorViewsAgree'
<1>1. \A f \in DOMAIN facts : facts[f].batchId # 0 => facts[f].batchId \in DOMAIN batches
  BY ListFacts DEF AnchoringInv, Shapes
<1>2. \A k \in DOMAIN batches : batches'[k] = IF k = b THEN c ELSE batches[k]
  OBVIOUS
<1>3. b # 0
  BY ListFacts DEF AnchoringInv, Shapes
<1> SUFFICES ASSUME ~lockLost, NEW f \in DOMAIN facts', Present(f)'
             PROVE  /\ Anchored(f)' <=> facts'[f].lineStatus = "ANCHORED"
                    /\ Anchored(f)' <=> facts'[f].batchId # 0
                                        /\ batches'[facts'[f].batchId].status = "ANCHORED"
  BY DEF AnchorViewsAgree
<1>4. /\ f \in DOMAIN facts
      /\ facts'[f].batchId = facts[f].batchId
      /\ facts'[f].content = facts[f].content
      /\ f \in ItemsOf(b) => facts'[f].anchorStatus = s /\ facts'[f].lineStatus = s
      /\ f \notin ItemsOf(b) => facts'[f] = facts[f]
  BY Marking DEF AnchoringInv
<1>5. CASE f \in ItemsOf(b)
  BY <1>2, <1>3, <1>4, <1>5 DEF ItemsOf, Anchored
<1>6. CASE f \notin ItemsOf(b)
  <2>1. Present(f) /\ facts[f].batchId # b
    BY <1>4, <1>6 DEF Present, ItemsOf
  <2>. QED  BY <1>1, <1>2, <1>4, <1>6, <2>1 DEF AnchoringInv, AnchorViewsAgree, Anchored
<1>. QED  BY <1>5, <1>6

-----------------------------------------------------------------------------
(* An execution starts: the lock was free.                                 *)
LEMMA BeginStep ==
  ASSUME AnchoringInv, NEW i \in Instances, Begin(i)
  PROVE  AnchoringInv'
<1> DEFINE w == [work[i] EXCEPT !.pc = "claiming"]
<1>1. Memory(w, batches') /\ w.pc = "claiming" /\ work' = [work EXCEPT ![i] = w]
  BY DEF Begin, To, AnchoringInv, Shapes, Memory, WorkFields
<1> HIDE DEF w
<1>2. facts' = facts /\ batches' = batches /\ lockLost' = lockLost /\ lock = Nobody /\ lock' = i
  BY DEF Begin, NoFault
<1>3. Shapes'
  BY <1>1, <1>2, WorkShape DEF AnchoringInv, Shapes
<1>4. Exclusive'
  BY <1>1, <1>2, AnchoringBounds DEF AnchoringInv, Shapes, Exclusive, Busy
<1>5. AnchorViewsAgree'
  BY <1>2 DEF AnchoringInv, AnchorViewsAgree, Anchored, Present
<1>. QED  BY <1>3, <1>4, <1>5 DEF AnchoringInv

(* findResumableBatch: the batch fails, then its items.                    *)
LEMMA DiscardSteps ==
  ASSUME AnchoringInv, NEW i \in Instances, DiscardIncomplete(i) \/ DiscardItems(i)
  PROVE  AnchoringInv'
<1>1. CASE DiscardIncomplete(i)
  <2>1. PICK b \in DOMAIN batches :
          /\ Oldest(b)
          /\ batches' = [batches EXCEPT ![b].status = "FAILED"]
          /\ work' = [work EXCEPT ![i] = [Idle EXCEPT !.pc = "discarding", !.batch = b]]
    BY <1>1 DEF DiscardIncomplete
  <2> DEFINE w == [Idle EXCEPT !.pc = "discarding", !.batch = b]
             c == [batches[b] EXCEPT !.status = "FAILED"]
  <2>2. batches[b].status # "ANCHORED"
    BY <2>1 DEF Oldest, Candidates, Resumable
  <2>3. /\ work' = [work EXCEPT ![i] = w] /\ w.pc = "discarding" /\ w.batch = b
        /\ Memory(w, batches)
    BY <2>1 DEF Idle, Memory, WorkFields
  <2>4. batches' = [batches EXCEPT ![b] = c] /\ c.status = "FAILED" /\ DOMAIN c = BatchFields
    BY <2>1 DEF AnchoringInv, Shapes, BatchFields
  <2> HIDE DEF w, c
  <2>5. facts' = facts /\ lock' = lock /\ lockLost' = lockLost /\ work[i].pc # "idle"
    BY <1>1 DEF DiscardIncomplete, NoFault
  <2>6. Shapes'
    BY <2>3, <2>4, <2>5, SaveShapes DEF AnchoringInv
  <2>7. Exclusive'
    BY <2>3, <2>4, <2>5 DEF AnchoringInv, Shapes, Exclusive, Busy
  <2>8. AnchorViewsAgree'
    BY <2>2, <2>4, <2>5, SaveViews
  <2>. QED  BY <2>6, <2>7, <2>8 DEF AnchoringInv
<1>2. CASE DiscardItems(i)
  <2> DEFINE w == [Idle EXCEPT !.pc = "claiming"]
             b == work[i].batch
             c == batches[b]
  <2>1. /\ work' = [work EXCEPT ![i] = w] /\ w.pc = "claiming"
        /\ Memory(w, batches)
    BY <1>2 DEF DiscardItems, Idle, Memory, WorkFields
  <2> HIDE DEF w
  <2>2. /\ facts' = MarkItems(b, "FAILED") /\ batches' = batches
        /\ lock' = lock /\ lockLost' = lockLost /\ work[i].pc = "discarding"
    BY <1>2 DEF DiscardItems, NoFault
  <2>3. b \in DOMAIN batches
    BY <2>2 DEF AnchoringInv, Shapes
  <2>4. batches' = [batches EXCEPT ![b] = c] /\ DOMAIN c = BatchFields
    BY <2>2, <2>3, ListFacts DEF AnchoringInv, Shapes, IsList
  <2>5. Shapes'
    BY <2>1, <2>2, <2>4, SaveShapes DEF AnchoringInv
  <2>6. Exclusive'
    BY <2>1, <2>2 DEF AnchoringInv, Shapes, Exclusive, Busy
  <2>7. AnchorViewsAgree'
    <3>1. CASE lockLost
      BY <2>2, <3>1 DEF AnchorViewsAgree
    <3>2. CASE ~lockLost
      <4>1. c.status = "FAILED"
        BY <2>2, <3>2 DEF AnchoringInv, Exclusive
      <4>2. "FAILED" = "ANCHORED" <=> c.status = "ANCHORED"
        BY <4>1
      <4>. QED  BY <2>2, <2>3, <2>4, <4>2, MarkViews
    <3>. QED  BY <3>1, <3>2
  <2>. QED  BY <2>5, <2>6, <2>7 DEF AnchoringInv
<1>. QED  BY <1>1, <1>2

(* An execution saves its copy of the batch and ends.                      *)
LEMMA SaveAndLeave ==
  ASSUME AnchoringInv, NEW i \in Instances, Busy(i), NEW c, DOMAIN c = BatchFields,
         batches' = [batches EXCEPT ![work[i].batch] = c],
         facts' = facts \/ \E s : facts' = MarkItems(work[i].batch, s),
         Leave(i), lockLost' = lockLost
  PROVE  Shapes' /\ Exclusive'
<1> DEFINE w == Idle
<1>1. Memory(w, batches) /\ w.pc = "idle" /\ work' = [work EXCEPT ![i] = w]
  BY DEF Idle, Memory, WorkFields, Leave
<1> HIDE DEF w
<1>2. Shapes'
  BY <1>1, SaveShapes DEF AnchoringInv
<1>3. \A j \in Instances : ~lockLost => work'[j].pc = "idle"
  BY <1>1 DEF AnchoringInv, Shapes, Exclusive, Busy
<1>4. Exclusive'
  BY <1>3 DEF Exclusive, Busy
<1>. QED  BY <1>2, <1>4

(* The steps that write the batch an execution works on.                   *)
LEMMA WritingSteps ==
  ASSUME AnchoringInv, NEW i \in Instances, Attempt(i) \/ Finalize(i) \/ RecordFailure(i)
  PROVE  AnchoringInv'
<1> DEFINE b == work[i].batch
<1>1. Busy(i) /\ lockLost' = lockLost
  BY DEF Attempt, Finalize, RecordFailure, Busy, NoFault
<1>2. b \in DOMAIN batches /\ DOMAIN work[i].copy = BatchFields /\ DOMAIN work[i] = WorkFields
  BY <1>1 DEF AnchoringInv, Shapes
<1>3. ~lockLost => batches[b].status # "ANCHORED"
  BY <1>1 DEF AnchoringInv, Exclusive
<1>4. CASE Attempt(i)
  <2> DEFINE c == Attempted(work[i].copy)
             w == [work[i] EXCEPT !.pc = "reading", !.copy = c]
  <2>1. DOMAIN c = BatchFields /\ c.status = "ANCHORING"
    BY <1>2 DEF Attempted, BatchFields
  <2>2. batches' = [batches EXCEPT ![b] = c] /\ work' = [work EXCEPT ![i] = w]
    BY <1>4 DEF Attempt, Save
  <2>3. w.pc = "reading" /\ w.batch = b /\ Memory(w, batches)
    BY <1>2, <2>1 DEF Memory, WorkFields
  <2>4. facts' = facts /\ lock' = lock /\ work[i].pc # "idle"
    BY <1>4 DEF Attempt
  <2> HIDE DEF c, w
  <2>5. Shapes'
    BY <1>1, <2>1, <2>2, <2>3, <2>4, SaveShapes DEF AnchoringInv
  <2>6. Exclusive'
    BY <1>1, <1>2, <2>1, <2>2, <2>3, <2>4 DEF AnchoringInv, Shapes, Exclusive, Busy
  <2>7. AnchorViewsAgree'
    BY <1>1, <1>2, <1>3, <2>1, <2>2, <2>4, SaveViews
  <2>. QED  BY <2>5, <2>6, <2>7 DEF AnchoringInv
<1>5. CASE Finalize(i)
  <2> DEFINE c == [work[i].copy EXCEPT !.status = "ANCHORED", !.receipt = @ \/ work[i].receipt]
  <2>1. DOMAIN c = BatchFields /\ c.status = "ANCHORED"
    BY <1>2 DEF BatchFields
  <2>2. batches' = [batches EXCEPT ![b] = c] /\ facts' = MarkItems(b, "ANCHORED") /\ Leave(i)
    BY <1>5 DEF Finalize, Save
  <2> HIDE DEF c
  <2>3. Shapes' /\ Exclusive'
    BY <1>1, <2>1, <2>2, SaveAndLeave
  <2>4. AnchorViewsAgree'
    BY <1>1, <1>2, <2>1, <2>2, MarkViews
  <2>. QED  BY <2>3, <2>4 DEF AnchoringInv
<1>6. CASE RecordFailure(i)
  <2> DEFINE exhausted == work[i].pc = "refuted" \/ work[i].copy.attempts >= MaxRetries
             c == [work[i].copy EXCEPT !.status = IF exhausted THEN "FAILED" ELSE "PENDING"]
  <2>1. DOMAIN c = BatchFields /\ c.status # "ANCHORED"
    BY <1>2 DEF BatchFields
  <2>2. batches' = [batches EXCEPT ![b] = c] /\ Leave(i)
    BY <1>6 DEF RecordFailure, Save
  <2>3. facts' = facts \/ facts' = MarkItems(b, "FAILED")
    BY <1>6 DEF RecordFailure
  <2> HIDE DEF c
  <2>4. Shapes' /\ Exclusive'
    BY <1>1, <2>1, <2>2, <2>3, SaveAndLeave
  <2>5. CASE facts' = facts
    BY <1>1, <1>2, <1>3, <2>1, <2>2, <2>4, <2>5, SaveViews DEF AnchoringInv
  <2>6. CASE facts' = MarkItems(b, "FAILED")
    <3>1. "FAILED" = "ANCHORED" <=> c.status = "ANCHORED"
      BY <2>1
    <3>2. AnchorViewsAgree'
      BY <1>1, <1>2, <2>2, <2>6, <3>1, MarkViews
    <3>. QED  BY <2>4, <3>2 DEF AnchoringInv
  <2>. QED  BY <2>3, <2>5, <2>6
<1>. QED  BY <1>4, <1>5, <1>6

-----------------------------------------------------------------------------
(* findOrCreateBatch: the new batch and the facts it takes.                *)
LEMMA ConstituteStep ==
  ASSUME AnchoringInv, NEW i \in Instances, Constitute(i)
  PROVE  AnchoringInv'
<1> DEFINE n == Len(batches) + 1
           c == NewBatch(GatheredLeaves)
           w == [pc |-> "ready", batch |-> n, copy |-> c, receipt |-> FALSE]
           taken(f) == [facts[f] EXCEPT !.batchId = n, !.leafIndex = Rank(f),
                                        !.merkleProof = GetProof(GatheredLeaves, Rank(f))]
<1>1. batches' = Append(batches, c) /\ work' = [work EXCEPT ![i] = w]
  BY DEF Constitute
<1>2. facts' = [f \in DOMAIN facts |-> IF f \in Gathered THEN taken(f) ELSE facts[f]]
  BY DEF Constitute
<1>3. lock' = lock /\ lockLost' = lockLost /\ work[i].pc # "idle"
  BY DEF Constitute, NoFault
<1>4. DOMAIN c = BatchFields /\ c.status = "PENDING"
  BY DEF NewBatch, BatchFields
<1>5. w.pc = "ready" /\ w.batch = n /\ w.copy = c /\ DOMAIN w = WorkFields
  BY DEF WorkFields
<1>6. \A f \in DOMAIN facts :
        /\ DOMAIN taken(f) = FactFields
        /\ taken(f).batchId = n
        /\ taken(f).anchorStatus = facts[f].anchorStatus
        /\ taken(f).lineStatus = facts[f].lineStatus
        /\ taken(f).content = facts[f].content
  BY DEF AnchoringInv, Shapes, FactFields
<1>7. \A f \in Gathered : f \in DOMAIN facts /\ facts[f].anchorStatus = "PENDING"
  BY DEF Gathered, Unclaimed
<1> HIDE DEF c, w, taken
<1>8. /\ Len(batches) \in Nat /\ DOMAIN batches = 1..Len(batches)
      /\ IsList(batches') /\ DOMAIN batches' = 1..n /\ Len(batches') = n
      /\ \A k \in DOMAIN batches : batches'[k] = batches[k]
      /\ batches'[n] = c
  BY <1>1, ListAppend, ListFacts DEF AnchoringInv, Shapes
<1> HIDE DEF n
<1>9. IsList(facts') /\ DOMAIN facts' = DOMAIN facts
  <2>1. facts' = [k \in DOMAIN facts |-> facts'[k]]
    BY <1>2
  <2>. QED  BY <2>1, ListUpdate DEF AnchoringInv, Shapes
<1>10. \A f \in DOMAIN facts : facts'[f] = IF f \in Gathered THEN taken(f) ELSE facts[f]
  BY <1>2
<1>11. n \in Nat /\ n # 0 /\ n = Len(batches) + 1
  BY <1>8 DEF n
<1>12. Shapes'
  <2>1. \A f \in DOMAIN facts' : DOMAIN facts'[f] = FactFields /\ facts'[f].batchId \in 0..Len(batches')
    BY <1>6, <1>8, <1>9, <1>10, <1>11 DEF AnchoringInv, Shapes
  <2>2. \A k \in DOMAIN batches' : DOMAIN batches'[k] = BatchFields
    BY <1>4, <1>8, <1>11 DEF AnchoringInv, Shapes
  <2>3. Memory(w, batches') /\ DOMAIN batches \subseteq DOMAIN batches'
    BY <1>4, <1>5, <1>8, <1>11 DEF Memory
  <2>4. /\ DOMAIN work' = Instances
        /\ \A j \in Instances :
             /\ DOMAIN work'[j] = WorkFields
             /\ Busy(j)' => DOMAIN work'[j].copy = BatchFields
             /\ Busy(j)' \/ work'[j].pc = "discarding" => work'[j].batch \in DOMAIN batches'
    BY <1>1, <2>3, WorkShape DEF AnchoringInv
  <2>. QED  BY <1>3, <1>8, <1>9, <2>1, <2>2, <2>4 DEF AnchoringInv, Shapes
<1>13. Exclusive'
  BY <1>1, <1>3, <1>4, <1>5, <1>8 DEF AnchoringInv, Shapes, Exclusive, Busy
<1>14. AnchorViewsAgree'
  <2> SUFFICES ASSUME ~lockLost, NEW f \in DOMAIN facts, Present(f)'
               PROVE  /\ Anchored(f)' <=> facts'[f].lineStatus = "ANCHORED"
                      /\ Anchored(f)' <=> facts'[f].batchId # 0
                                          /\ batches'[facts'[f].batchId].status = "ANCHORED"
    BY <1>3, <1>9 DEF AnchorViewsAgree
  <2>1. Present(f)
    BY <1>6, <1>10 DEF Present
  <2>2. facts[f].batchId # 0 => facts[f].batchId \in DOMAIN batches
    BY <1>8 DEF AnchoringInv, Shapes
  <2>3. /\ Anchored(f) <=> facts[f].lineStatus = "ANCHORED"
        /\ Anchored(f) <=> facts[f].batchId # 0 /\ batches[facts[f].batchId].status = "ANCHORED"
    BY <2>1 DEF AnchoringInv, AnchorViewsAgree
  <2>4. CASE f \in Gathered
    BY <1>4, <1>6, <1>7, <1>8, <1>10, <2>3, <2>4 DEF Anchored
  <2>5. CASE f \notin Gathered
    BY <1>8, <1>10, <2>2, <2>3, <2>5 DEF Anchored
  <2>. QED  BY <2>4, <2>5
<1>. QED  BY <1>12, <1>13, <1>14 DEF AnchoringInv

(* The steps of the chain touch neither the tables nor the instances.      *)
LEMMA ChainSteps ==
  ASSUME AnchoringInv, Mine \/ Deepen \/ Reorg
  PROVE  AnchoringInv'
<1>1. lockLost' = lockLost
  <2>1. lockLost \in BOOLEAN
    BY DEF AnchoringInv, Shapes
  <2>2. CASE Reorg
    <3>1. lockLost' = (lockLost \/ "reorg" = "lock")
      BY <2>2 DEF Reorg, Fault
    <3>. QED  BY <2>1, <3>1
  <2>. QED  BY <2>2 DEF Mine, Deepen, NoFault
<1>2. UNCHANGED <<facts, batches, work, lock>>
  BY DEF Mine, Deepen, Reorg
<1>. QED  BY <1>1, <1>2 DEF AnchoringInv, Shapes, Exclusive, Busy, AnchorViewsAgree, Anchored, Present

(* A new closure, and an alteration behind the trigger.                    *)
LEMMA RegistrySteps ==
  ASSUME AnchoringInv, RecordClosure \/ Alter
  PROVE  AnchoringInv'
<1>1. UNCHANGED <<batches, work, lock>>
  BY DEF RecordClosure, Alter
<1>2. CASE RecordClosure
  <2> DEFINE e == [anchorStatus |-> "PENDING", lineStatus |-> "NOT_SEALED", batchId |-> 0,
                   leafIndex |-> 0, merkleProof |-> << >>, content |-> "sealed"]
             n == Len(facts) + 1
  <2>1. facts' = Append(facts, e) /\ lockLost' = lockLost
    BY <1>2 DEF RecordClosure, NoFault
  <2>2. /\ DOMAIN e = FactFields /\ e.batchId = 0 /\ e.anchorStatus = "PENDING"
        /\ e.lineStatus = "NOT_SEALED"
    BY DEF FactFields
  <2> HIDE DEF e
  <2>3. /\ Len(facts) \in Nat /\ DOMAIN facts = 1..Len(facts)
        /\ IsList(facts') /\ DOMAIN facts' = 1..n
        /\ \A k \in DOMAIN facts : facts'[k] = facts[k]
        /\ facts'[n] = e
    BY <2>1, ListAppend, ListFacts DEF AnchoringInv, Shapes
  <2>4. \A f \in DOMAIN facts' : (f \in DOMAIN facts /\ facts'[f] = facts[f]) \/ facts'[f] = e
    BY <2>3
  <2>5. Len(batches) \in Nat
    BY ListFacts DEF AnchoringInv, Shapes
  <2>6. Shapes'
    BY <1>1, <2>1, <2>2, <2>3, <2>4, <2>5 DEF AnchoringInv, Shapes, Busy
  <2>7. Exclusive'
    BY <1>1, <2>1 DEF AnchoringInv, Exclusive, Busy
  <2>8. AnchorViewsAgree'
    BY <1>1, <2>1, <2>2, <2>4 DEF AnchoringInv, AnchorViewsAgree, Anchored, Present
  <2>. QED  BY <2>6, <2>7, <2>8 DEF AnchoringInv
<1>3. CASE Alter
  <2>1. lockLost' = lockLost
    <3>1. lockLost' = (lockLost \/ "alteration" = "lock")
      BY <1>3 DEF Alter, Fault
    <3>2. lockLost \in BOOLEAN
      BY DEF AnchoringInv, Shapes
    <3>. QED  BY <3>1, <3>2
  <2>2. PICK g \in DOMAIN facts, content \in {"altered", "erased"} :
          facts[g].content = "sealed" /\ facts' = [facts EXCEPT ![g].content = content]
    BY <1>3 DEF Alter
  <2>3. IsList(facts') /\ DOMAIN facts' = DOMAIN facts
    <3>1. facts' = [k \in DOMAIN facts |-> facts'[k]]
      BY <2>2
    <3>. QED  BY <3>1, ListUpdate DEF AnchoringInv, Shapes
  <2>4. \A f \in DOMAIN facts :
          /\ DOMAIN facts'[f] = FactFields
          /\ facts'[f].batchId = facts[f].batchId
          /\ facts'[f].anchorStatus = facts[f].anchorStatus
          /\ facts'[f].lineStatus = facts[f].lineStatus
          /\ facts'[f].content # "erased" => facts[f].content # "erased"
    BY <2>2 DEF AnchoringInv, Shapes, FactFields
  <2>5. Shapes'
    BY <1>1, <2>1, <2>3, <2>4 DEF AnchoringInv, Shapes, Busy
  <2>6. Exclusive'
    BY <1>1, <2>1 DEF AnchoringInv, Exclusive, Busy
  <2>7. AnchorViewsAgree'
    BY <1>1, <2>1, <2>3, <2>4 DEF AnchoringInv, AnchorViewsAgree, Anchored, Present
  <2>. QED  BY <2>5, <2>6, <2>7 DEF AnchoringInv
<1>. QED  BY <1>2, <1>3

(* Once the session of the lock is lost, only the shapes are left.         *)
LEMMA LoseLockStep ==
  ASSUME AnchoringInv, NEW i \in Instances, LoseLock(i)
  PROVE  AnchoringInv'
<1>1. lockLost' = TRUE /\ UNCHANGED <<facts, batches, work>>
  BY DEF LoseLock, Fault
<1>. QED  BY <1>1 DEF AnchoringInv, Shapes, Busy, Exclusive, AnchorViewsAgree

-----------------------------------------------------------------------------
(* The invariant holds at the start, when nothing is stored.               *)
LEMMA AnchoringInvInit ==
  ASSUME AnchoringInit
  PROVE  AnchoringInv
<1>1. IsList(facts) /\ IsList(batches) /\ DOMAIN facts = {} /\ DOMAIN batches = {}
  <2>1. << >> \in Seq({}) /\ DOMAIN << >> = {}
    OBVIOUS
  <2>. QED  BY <2>1, SequenceIsList DEF AnchoringInit
<1>2. Shapes
  BY <1>1 DEF AnchoringInit, Shapes, Idle, WorkFields, Busy
<1>3. Exclusive /\ AnchorViewsAgree
  BY <1>1 DEF AnchoringInit, Exclusive, Idle, Busy, AnchorViewsAgree
<1>. QED  BY <1>2, <1>3 DEF AnchoringInv

(* Every step keeps it.                                                    *)
LEMMA AnchoringInvStep ==
  ASSUME AnchoringInv, [AnchoringNext]_anchorVars
  PROVE  AnchoringInv'
<1>1. CASE UNCHANGED anchorVars
  BY <1>1 DEF anchorVars, AnchoringInv, Shapes, Exclusive, Busy, AnchorViewsAgree, Anchored, Present
<1>2. ASSUME NEW i \in Instances, InstanceStep(i) \/ InstanceFault(i)
      PROVE  AnchoringInv'
  BY <1>2, BeginStep, QuietSteps, DiscardSteps, ConstituteStep, WritingSteps, LoseLockStep
  DEF InstanceStep, InstanceFault
<1>. QED  BY <1>1, <1>2, RegistrySteps, ChainSteps DEF AnchoringNext

(* For any number of instances, cases and faults, and whatever they do to  *)
(* one another: while no session of the lock is lost, the fact, the batch  *)
(* and the line of transactions tell the same of every case                *)
(* (finalizeBatch, recordBatchFailure, findResumableBatch).                *)
THEOREM AnchorViewsAgreeHolds == AnchoringSpec => []AnchorViewsAgree
<1>1. AnchoringInit => AnchoringInv
  BY AnchoringInvInit
<1>2. AnchoringInv /\ [AnchoringNext]_anchorVars => AnchoringInv'
  BY AnchoringInvStep
<1>3. AnchoringInv => AnchorViewsAgree
  BY DEF AnchoringInv
<1>. QED  BY <1>1, <1>2, <1>3, PTL DEF AnchoringSpec

-----------------------------------------------------------------------------
AnchoredKept ==
  \A b \in DOMAIN batches : batches[b].status = "ANCHORED" /\ ~lockLost => batches'[b] = batches[b]

(* No action writes over an anchored batch while the lock is held.         *)
LEMMA AnchoredKeptStep ==
  ASSUME AnchoringInv, AnchoringNext
  PROVE  AnchoredKept
<1> SUFFICES ASSUME NEW b \in DOMAIN batches, batches[b].status = "ANCHORED", ~lockLost
             PROVE  batches'[b] = batches[b]
  BY DEF AnchoredKept
<1>1. ASSUME NEW i \in Instances, DiscardIncomplete(i)
      PROVE  batches'[b] = batches[b]
  BY <1>1 DEF DiscardIncomplete, Oldest, Candidates, Resumable
<1>2. ASSUME NEW i \in Instances, Constitute(i)
      PROVE  batches'[b] = batches[b]
  <2> DEFINE c == NewBatch(GatheredLeaves)
  <2>1. batches' = Append(batches, c)
    BY <1>2 DEF Constitute
  <2> HIDE DEF c
  <2>2. IsList(batches)
    BY DEF AnchoringInv, Shapes
  <2>. QED  BY <2>1, <2>2, ListAppend
<1>3. ASSUME NEW i \in Instances, Attempt(i) \/ Finalize(i) \/ RecordFailure(i)
      PROVE  batches'[b] = batches[b]
  <2>1. Busy(i)
    BY <1>3 DEF Attempt, Finalize, RecordFailure, Busy
  <2>2. work[i].batch # b
    BY <2>1 DEF AnchoringInv, Exclusive
  <2>3. PICK c : batches' = [batches EXCEPT ![work[i].batch] = c]
    BY <1>3 DEF Attempt, Finalize, RecordFailure, Save
  <2>. QED  BY <2>2, <2>3
<1>4. ASSUME NEW i \in Instances,
             \/ Begin(i) \/ Resume(i) \/ DiscardItems(i) \/ NothingToAnchor(i) \/ Read(i) \/ Send(i)
             \/ Receive(i) \/ NodeFails(i) \/ Stop(i) \/ LoseLock(i)
      PROVE  batches'[b] = batches[b]
  BY <1>4 DEF Begin, Resume, DiscardItems, NothingToAnchor, Read, Send, Receive, NodeFails, Stop, LoseLock
<1>5. CASE RecordClosure \/ Alter \/ Mine \/ Deepen \/ Reorg
  BY <1>5 DEF RecordClosure, Alter, Mine, Deepen, Reorg
<1>. QED  BY <1>1, <1>2, <1>3, <1>4, <1>5 DEF AnchoringNext, InstanceStep, InstanceFault

(* For any number of instances, cases and faults: while no session of the  *)
(* lock is lost, no step writes over an anchored batch, a late             *)
(* recordBatchFailure included.                                            *)
THEOREM AnchoredIsFinalHolds == AnchoringSpec => AnchoredIsFinal
<1>1. AnchoringInit => AnchoringInv
  BY AnchoringInvInit
<1>2. AnchoringInv /\ [AnchoringNext]_anchorVars => AnchoringInv'
  BY AnchoringInvStep
<1>3. AnchoringInv /\ [AnchoringNext]_anchorVars =>
        [\A b \in DOMAIN batches :
           batches[b].status = "ANCHORED" /\ ~lockLost => batches'[b] = batches[b]]_anchorVars
  BY AnchoredKeptStep DEF AnchoredKept
<1>. QED  BY <1>1, <1>2, <1>3, PTL DEF AnchoringSpec, AnchoredIsFinal
-----------------------------------------------------------------------------
(* The lists of the chain lose their first or last place, or gain a first. *)
LEMMA ListTail ==
  ASSUME NEW s, IsList(s), s # << >>
  PROVE  /\ IsList(Tail(s)) /\ Len(s) \in Nat \ {0}
         /\ DOMAIN Tail(s) = 1..(Len(s) - 1) /\ Len(Tail(s)) = Len(s) - 1
         /\ \A k \in 1..(Len(s) - 1) : Tail(s)[k] = s[k + 1]
         /\ Head(s) = s[1]
<1> DEFINE T == {s[k] : k \in DOMAIN s}
<1>1. s \in Seq(T)
  BY DEF IsList
<1> HIDE DEF T
<1>2. Tail(s) \in Seq(T) /\ Len(Tail(s)) = Len(s) - 1 /\ Head(s) = s[1]
  BY <1>1, HeadTailProperties
<1>3. Len(s) \in Nat \ {0} /\ \A k \in 1..(Len(s) - 1) : Tail(s)[k] = s[k + 1]
  BY <1>1, <1>2, HeadTailProperties, EmptySeq
<1>. QED  BY <1>2, <1>3, SequenceIsList, LenProperties

(* A list without its last item is a list of the others.                   *)
LEMMA ListFront ==
  ASSUME NEW s, IsList(s), s # << >>, NEW t, t = SubSeq(s, 1, Len(s) - 1)
  PROVE  /\ IsList(t) /\ Len(s) \in Nat \ {0}
         /\ DOMAIN t = 1..(Len(s) - 1) /\ Len(t) = Len(s) - 1
         /\ \A k \in 1..(Len(s) - 1) : t[k] = s[k]
<1> DEFINE T == {s[k] : k \in DOMAIN s}
<1>1. s \in Seq(T)
  BY DEF IsList
<1> HIDE DEF T
<1>2. Len(s) \in Nat \ {0} /\ DOMAIN s = 1..Len(s)
  BY <1>1, EmptySeq, LenProperties
<1> DEFINE n == Len(s) - 1
<1>3. t = [k \in 1..n |-> s[k]]
  BY <1>1, <1>2
<1>4. n \in Nat /\ \A k \in 1..n : s[k] \in T
  BY <1>1, <1>2
<1> HIDE DEF n
<1>5. t \in [1..n -> T]
  BY <1>3, <1>4
<1>6. t \in Seq(T)
  BY <1>4, <1>5, SeqDef
<1>7. Len(t) = n
  BY <1>4, <1>5, <1>6
<1>. QED  BY <1>2, <1>3, <1>6, <1>7, SequenceIsList DEF n

Follows(t, e, s) ==
  /\ IsList(t) /\ Len(s) \in Nat
  /\ DOMAIN t = 1..(Len(s) + 1) /\ Len(t) = Len(s) + 1 /\ t[1] = e
  /\ \A k \in 1..Len(s) : t[k + 1] = s[k]

(* A list behind one more item.                                            *)
LEMMA ListCons ==
  ASSUME NEW s, IsList(s), NEW e
  PROVE  Follows(<<e>> \o s, e, s)
<1> DEFINE T == {s[k] : k \in DOMAIN s} \union {e}
           t == <<e>> \o s
<1>1. s \in Seq(T) /\ <<e>> \in Seq(T) /\ Len(<<e>>) = 1 /\ <<e>>[1] = e
  BY DEF IsList
<1> HIDE DEF T
<1>2. t \in Seq(T) /\ Len(t) = Len(s) + 1
  BY <1>1, ConcatProperties, LenProperties
<1>3. t[1] = e /\ \A k \in 1..Len(s) : t[k + 1] = s[k]
  BY <1>1, ConcatProperties, LenProperties
<1> HIDE DEF t
<1>4. Follows(t, e, s)
  BY <1>1, <1>2, <1>3, SequenceIsList, LenProperties DEF Follows
<1>. QED  BY <1>4 DEF t
-----------------------------------------------------------------------------
(* What the chain holds: transactions of batches that are stored.          *)
SentFields == {"batch", "merkleRoot", "leafCount", "sender", "attempt"}
MinedFields == SentFields \union {"ok", "depth"}

ChainShape ==
  /\ IsList(mempool)
  /\ IsList(blocks)
  /\ \A t \in DOMAIN mempool :
       DOMAIN mempool[t] = SentFields /\ mempool[t].batch \in DOMAIN batches
  /\ \A t \in DOMAIN blocks :
       /\ DOMAIN blocks[t] = MinedFields /\ blocks[t].batch \in DOMAIN batches
       /\ blocks[t].ok \in BOOLEAN
       /\ blocks[t].depth \in 1..Confirmations

(* A transaction enters a block.                                           *)
LEMMA MineChain ==
  ASSUME ChainShape, Mine
  PROVE  /\ ChainShape'
         /\ mempool # << >> /\ mempool' = Tail(mempool)
         /\ \E e : /\ blocks' = Append(blocks, e) /\ e.batch = Head(mempool).batch
                   /\ e.merkleRoot = Head(mempool).merkleRoot
                   /\ e.ok = ~IsAnchored(e.batch) \/ e.ok = FALSE
<1> DEFINE tx == Head(mempool)
           e == [batch |-> tx.batch, merkleRoot |-> tx.merkleRoot, leafCount |-> tx.leafCount,
                 sender |-> tx.sender, attempt |-> tx.attempt, ok |-> Accepts(tx), depth |-> 1]
<1>1. mempool # << >> /\ mempool' = Tail(mempool) /\ blocks' = Append(blocks, e) /\ batches' = batches
  BY DEF Mine
<1>2. tx = mempool[1] /\ 1 \in DOMAIN mempool
  BY <1>1, ListTail, ListFacts DEF ChainShape
<1>3. /\ DOMAIN e = MinedFields /\ e.batch = tx.batch /\ e.ok = Accepts(tx) /\ e.depth = 1
      /\ e.merkleRoot = tx.merkleRoot
  BY DEF MinedFields, SentFields
<1>4. e.ok \in BOOLEAN /\ (e.ok = ~IsAnchored(e.batch) \/ e.ok = FALSE)
  BY <1>3 DEF Accepts
<1>5. e.batch \in DOMAIN batches
  BY <1>2, <1>3 DEF ChainShape
<1> HIDE DEF e, tx
<1>6. /\ IsList(blocks') /\ DOMAIN blocks' = 1..(Len(blocks) + 1)
      /\ \A k \in DOMAIN blocks : blocks'[k] = blocks[k]
      /\ blocks'[Len(blocks) + 1] = e /\ Len(blocks) \in Nat /\ DOMAIN blocks = 1..Len(blocks)
  BY <1>1, ListAppend, ListFacts DEF ChainShape
<1>7. \A t \in DOMAIN blocks' : (t \in DOMAIN blocks /\ blocks'[t] = blocks[t]) \/ blocks'[t] = e
  BY <1>6
<1>8. /\ IsList(mempool') /\ DOMAIN mempool' = 1..(Len(mempool) - 1) /\ Len(mempool) \in Nat
      /\ \A k \in DOMAIN mempool' : mempool'[k] = mempool[k + 1]
      /\ DOMAIN mempool = 1..Len(mempool)
  BY <1>1, ListTail, ListFacts DEF ChainShape
<1>9. \A k \in DOMAIN mempool' : k + 1 \in DOMAIN mempool
  BY <1>8
<1>10. 1 \in 1..Confirmations
  BY AnchoringBounds
<1>11. ChainShape'
  BY <1>1, <1>3, <1>4, <1>5, <1>6, <1>7, <1>8, <1>9, <1>10 DEF ChainShape
<1>12. e.batch = Head(mempool).batch /\ e.merkleRoot = Head(mempool).merkleRoot
  BY <1>3 DEF tx
<1>. QED  BY <1>1, <1>4, <1>11, <1>12, Zenon

(* A confirmation more for each.                                           *)
LEMMA DeepenChain ==
  ASSUME ChainShape, Deepen
  PROVE  /\ ChainShape' /\ mempool' = mempool /\ DOMAIN blocks' = DOMAIN blocks
         /\ \A t \in DOMAIN blocks :
              /\ blocks'[t].batch = blocks[t].batch /\ blocks'[t].ok = blocks[t].ok
              /\ blocks'[t].merkleRoot = blocks[t].merkleRoot
              /\ blocks'[t].depth >= blocks[t].depth
<1> DEFINE deeper(t) == [blocks[t] EXCEPT !.depth = IF @ < Confirmations THEN @ + 1 ELSE @]
<1>1. blocks' = [t \in DOMAIN blocks |-> deeper(t)] /\ mempool' = mempool /\ batches' = batches
  BY DEF Deepen
<1>2. Confirmations \in Nat
  BY AnchoringBounds
<1>3. \A t \in DOMAIN blocks :
        /\ DOMAIN deeper(t) = MinedFields /\ deeper(t).batch = blocks[t].batch
        /\ deeper(t).ok = blocks[t].ok /\ deeper(t).merkleRoot = blocks[t].merkleRoot
        /\ deeper(t).depth \in 1..Confirmations /\ deeper(t).depth >= blocks[t].depth
  BY <1>2 DEF ChainShape, MinedFields, SentFields
<1> HIDE DEF deeper
<1>4. IsList(blocks') /\ DOMAIN blocks' = DOMAIN blocks
  <2>1. blocks' = [t \in DOMAIN blocks |-> blocks'[t]]
    BY <1>1
  <2>. QED  BY <2>1, ListUpdate DEF ChainShape
<1>5. \A t \in DOMAIN blocks : blocks'[t] = deeper(t)
  BY <1>1
<1>. QED  BY <1>1, <1>3, <1>4, <1>5 DEF ChainShape

(* The last transaction, unconfirmed, goes back to the mempool.            *)
LEMMA ReorgChain ==
  ASSUME ChainShape, Reorg
  PROVE  /\ ChainShape'
         /\ blocks # << >> /\ blocks[Len(blocks)].depth < Confirmations
         /\ blocks' = SubSeq(blocks, 1, Len(blocks) - 1)
         /\ \E e : /\ mempool' = <<e>> \o mempool /\ e.batch = blocks[Len(blocks)].batch
                   /\ e.merkleRoot = blocks[Len(blocks)].merkleRoot
<1> DEFINE tx == blocks[Len(blocks)]
           e == [batch |-> tx.batch, merkleRoot |-> tx.merkleRoot, leafCount |-> tx.leafCount,
                 sender |-> tx.sender, attempt |-> tx.attempt]
<1>1. /\ blocks # << >> /\ tx.depth < Confirmations /\ mempool' = <<e>> \o mempool
      /\ blocks' = SubSeq(blocks, 1, Len(blocks) - 1) /\ batches' = batches
  BY DEF Reorg
<1>2. DOMAIN e = SentFields /\ e.batch = tx.batch /\ e.merkleRoot = tx.merkleRoot
  BY DEF SentFields
<1> HIDE DEF e
<1> HIDE DEF tx
<1>0. IsList(blocks) /\ IsList(mempool)
  BY DEF ChainShape
<1>3. /\ IsList(blocks') /\ DOMAIN blocks' = 1..(Len(blocks) - 1) /\ Len(blocks) \in Nat \ {0}
      /\ \A k \in DOMAIN blocks' : blocks'[k] = blocks[k]
      /\ DOMAIN blocks = 1..Len(blocks)
  BY <1>1, <1>0, ListFront, ListFacts
<1>4. Len(blocks) \in DOMAIN blocks /\ \A k \in DOMAIN blocks' : k \in DOMAIN blocks
  BY <1>3
<1>5. /\ IsList(mempool') /\ DOMAIN mempool' = 1..(Len(mempool) + 1) /\ Len(mempool) \in Nat
      /\ mempool'[1] = e /\ \A k \in 1..Len(mempool) : mempool'[k + 1] = mempool[k]
      /\ DOMAIN mempool = 1..Len(mempool)
  <2>1. Follows(mempool', e, mempool)
    BY <1>0, <1>1, ListCons, Zenon
  <2>. QED  BY <1>0, <2>1, ListFacts DEF Follows
<1>6. \A k \in DOMAIN mempool' :
        k = 1 \/ (k - 1 \in DOMAIN mempool /\ mempool'[k] = mempool[k - 1])
  <2>1. \A k \in DOMAIN mempool' : k = 1 \/ (k - 1 \in 1..Len(mempool) /\ (k - 1) + 1 = k)
    BY <1>5
  <2>. QED  BY <1>5, <2>1
<1>7. e.batch \in DOMAIN batches
  BY <1>2, <1>4 DEF ChainShape, tx
<1>8. ChainShape'
  BY <1>1, <1>2, <1>3, <1>4, <1>5, <1>6, <1>7 DEF ChainShape
<1>9. tx = blocks[Len(blocks)]
  BY DEF tx
<1>. QED  BY <1>1, <1>2, <1>8, <1>9
-----------------------------------------------------------------------------
(* A batch that is confirmed stays so: no reorganisation reaches it.       *)
LEMMA ConfirmedStays ==
  ASSUME ChainShape, AnchoringNext, NEW b, ConfirmedOnChain(b)
  PROVE  ConfirmedOnChain(b)'
<1>1. PICK t \in DOMAIN blocks : blocks[t].ok /\ blocks[t].batch = b /\ blocks[t].depth >= Confirmations
  BY DEF ConfirmedOnChain, Confirmed
<1>2. Confirmations \in Nat /\ blocks[t].depth \in Nat
  BY AnchoringBounds DEF ChainShape
<1>3. IsList(blocks)
  BY DEF ChainShape
<1>4. CASE Mine
  <2>1. PICK e : blocks' = Append(blocks, e)
    BY <1>4, MineChain
  <2>2. t \in DOMAIN blocks' /\ blocks'[t] = blocks[t]
    BY <1>3, <2>1, ListAppend, ListFacts
  <2>. QED  BY <1>1, <2>2 DEF ConfirmedOnChain, Confirmed
<1>5. CASE Deepen
  <2>1. /\ t \in DOMAIN blocks' /\ blocks'[t].batch = blocks[t].batch /\ blocks'[t].ok = blocks[t].ok
        /\ blocks'[t].depth >= blocks[t].depth /\ blocks'[t].depth \in Nat
    BY <1>5, DeepenChain DEF ChainShape
  <2>2. blocks'[t].depth >= Confirmations
    BY <1>1, <1>2, <2>1
  <2>. QED  BY <1>1, <2>1, <2>2 DEF ConfirmedOnChain, Confirmed
<1>6. CASE Reorg
  <2>1. /\ blocks # << >> /\ blocks[Len(blocks)].depth < Confirmations
        /\ blocks' = SubSeq(blocks, 1, Len(blocks) - 1)
    BY <1>6, ReorgChain
  <2>2. /\ DOMAIN blocks' = 1..(Len(blocks) - 1) /\ DOMAIN blocks = 1..Len(blocks)
        /\ Len(blocks) \in Nat /\ \A k \in 1..(Len(blocks) - 1) : blocks'[k] = blocks[k]
    BY <1>3, <2>1, ListFront, ListFacts
  <2>3. t # Len(blocks)
    BY <1>1, <1>2, <2>1
  <2>4. t \in DOMAIN blocks' /\ blocks'[t] = blocks[t]
    BY <2>2, <2>3
  <2>. QED  BY <1>1, <2>4 DEF ConfirmedOnChain, Confirmed
<1>7. CASE blocks' = blocks
  BY <1>1, <1>7 DEF ConfirmedOnChain, Confirmed
<1>8. ASSUME NEW i \in Instances, InstanceStep(i) \/ InstanceFault(i)
      PROVE  blocks' = blocks
  BY <1>8 DEF InstanceStep, InstanceFault, Begin, Resume, DiscardIncomplete, DiscardItems, Constitute,
              NothingToAnchor, Attempt, Read, Send, Receive, Finalize, RecordFailure,
              NodeFails, Stop, LoseLock
<1>9. CASE RecordClosure \/ Alter
  BY <1>7, <1>9 DEF RecordClosure, Alter
<1>. QED  BY <1>4, <1>5, <1>6, <1>7, <1>8, <1>9 DEF AnchoringNext

(* The stored batches grow and a transaction that is sent is of one.       *)
LEMMA ChainShapeStep ==
  ASSUME AnchoringInv, AnchoringInv', ChainShape, [AnchoringNext]_anchorVars
  PROVE  ChainShape'
<1>1. CASE Mine \/ Deepen \/ Reorg
  BY <1>1, MineChain, DeepenChain, ReorgChain
<1>2. ASSUME NEW i \in Instances, Send(i)
      PROVE  ChainShape'
  <2> DEFINE e == Transaction(i)
  <2>1. (mempool' = mempool \/ mempool' = Append(mempool, e)) /\ batches' = batches /\ blocks' = blocks
    BY <1>2 DEF Send
  <2>2. DOMAIN e = SentFields /\ e.batch = work[i].batch
    BY DEF Transaction, SentFields
  <2>3. e.batch \in DOMAIN batches
    BY <1>2, <2>2 DEF AnchoringInv, Shapes, Busy, Send
  <2> HIDE DEF e
  <2>4. CASE mempool' = mempool
    BY <2>1, <2>4 DEF ChainShape
  <2>5. CASE mempool' = Append(mempool, e)
    <3>1. IsList(mempool)
      BY DEF ChainShape
    <3>2. /\ IsList(mempool') /\ DOMAIN mempool' = 1..(Len(mempool) + 1)
          /\ \A k \in DOMAIN mempool : mempool'[k] = mempool[k]
          /\ mempool'[Len(mempool) + 1] = e /\ Len(mempool) \in Nat /\ DOMAIN mempool = 1..Len(mempool)
      BY <2>5, <3>1, ListAppend, ListFacts
    <3>3. \A t \in DOMAIN mempool' : (t \in DOMAIN mempool /\ mempool'[t] = mempool[t]) \/ mempool'[t] = e
      BY <3>2
    <3>. QED  BY <2>1, <2>2, <2>3, <3>2, <3>3 DEF ChainShape
  <2>. QED  BY <2>1, <2>4, <2>5
<1>3. ASSUME mempool' = mempool, blocks' = blocks, DOMAIN batches \subseteq DOMAIN batches'
      PROVE  ChainShape'
  BY <1>3 DEF ChainShape
<1>4. ASSUME NEW i \in Instances, Constitute(i)
      PROVE  ChainShape'
  <2>1. mempool' = mempool /\ blocks' = blocks /\ \E e : batches' = Append(batches, e)
    BY <1>4 DEF Constitute
  <2>2. DOMAIN batches \subseteq DOMAIN batches'
    BY <2>1, ListAppend, ListFacts DEF AnchoringInv, Shapes
  <2>. QED  BY <1>3, <2>1, <2>2
<1>5. ASSUME NEW i \in Instances,
             \/ Begin(i) \/ Resume(i) \/ DiscardIncomplete(i) \/ DiscardItems(i) \/ NothingToAnchor(i)
             \/ Attempt(i) \/ Read(i) \/ Receive(i) \/ Finalize(i) \/ RecordFailure(i)
             \/ NodeFails(i) \/ Stop(i) \/ LoseLock(i)
      PROVE  ChainShape'
  <2>1. mempool' = mempool /\ blocks' = blocks
    BY <1>5 DEF Begin, Resume, DiscardIncomplete, DiscardItems, NothingToAnchor, Attempt, Read, Receive,
                Finalize, RecordFailure, NodeFails, Stop, LoseLock
  <2>2. DOMAIN batches' = DOMAIN batches
    BY <1>5 DEF Begin, Resume, DiscardIncomplete, DiscardItems, NothingToAnchor, Attempt, Read, Receive,
                Finalize, RecordFailure, NodeFails, Stop, LoseLock, Save
  <2>. QED  BY <1>3, <2>1, <2>2
<1>6. CASE RecordClosure \/ Alter \/ UNCHANGED anchorVars
  BY <1>3, <1>6 DEF RecordClosure, Alter, anchorVars
<1>. QED  BY <1>1, <1>2, <1>4, <1>5, <1>6 DEF AnchoringNext, InstanceStep, InstanceFault
-----------------------------------------------------------------------------
(* Whoever holds a receipt, a stored batch, a copy of it or an execution,  *)
(* holds that of a confirmed transaction.                                  *)
Held(i) == work[i].copy.receipt \/ work[i].receipt

Receipts ==
  /\ \A b \in DOMAIN batches : batches[b].receipt => ConfirmedOnChain(b)
  /\ \A i \in Instances : Busy(i) /\ Held(i) => ConfirmedOnChain(work[i].batch)

(* No step of an execution makes a receipt out of nothing.                 *)
LEMMA ReceiptEffects ==
  ASSUME AnchoringInv, Receipts, NEW i \in Instances, InstanceStep(i) \/ InstanceFault(i)
  PROVE  /\ \A b \in DOMAIN batches' : batches'[b].receipt => ConfirmedOnChain(b)
         /\ \A j \in Instances : Busy(j)' /\ Held(j)' => ConfirmedOnChain(work'[j].batch)
<1> DEFINE old == work[i]
           stored == \A b \in DOMAIN batches' : batches'[b].receipt => ConfirmedOnChain(b)
           held == \A j \in Instances : Busy(j)' /\ Held(j)' => ConfirmedOnChain(work'[j].batch)
<1>0. DOMAIN work = Instances /\ DOMAIN old = WorkFields
  BY DEF AnchoringInv, Shapes
<1>1. CASE LoseLock(i)
  <2>1. batches' = batches /\ work' = work
    BY <1>1 DEF LoseLock
  <2>. QED  BY <2>1 DEF Receipts, Busy, Held
<1>2. ASSUME NEW w, work' = [work EXCEPT ![i] = w],
             w.pc \in {"idle", "claiming", "discarding"}
             \/ ((w.copy.receipt \/ w.receipt) => ConfirmedOnChain(w.batch))
      PROVE  held
  BY <1>0, <1>2 DEF Receipts, Busy, Held
<1>3. CASE batches' = batches /\ (Begin(i) \/ DiscardItems(i) \/ NothingToAnchor(i) \/ Stop(i))
  <2>1. PICK w : work' = [work EXCEPT ![i] = w] /\ w.pc \in {"idle", "claiming"}
    <3>1. CASE Begin(i)
      <4>1. work' = [work EXCEPT ![i] = [old EXCEPT !.pc = "claiming"]]
        BY <3>1 DEF Begin, To
      <4>2. [old EXCEPT !.pc = "claiming"].pc = "claiming"
        BY <1>0 DEF WorkFields
      <4>. QED  BY <4>1, <4>2
    <3>2. CASE DiscardItems(i) \/ NothingToAnchor(i) \/ Stop(i)
      BY <3>2 DEF DiscardItems, NothingToAnchor, Stop, Leave, Idle
    <3>. QED  BY <1>3, <3>1, <3>2
  <2>2. held
    BY <1>2, <2>1
  <2>. QED  BY <1>3, <2>2 DEF Receipts
<1>4. CASE Resume(i)
  <2>1. PICK b \in DOMAIN batches :
          work' = [work EXCEPT ![i] =
                     [pc |-> FirstStep(b), batch |-> b, copy |-> batches[b], receipt |-> FALSE]]
    BY <1>4 DEF Resume
  <2> DEFINE w == [pc |-> FirstStep(b), batch |-> b, copy |-> batches[b], receipt |-> FALSE]
  <2>2. w.batch = b /\ w.copy = batches[b] /\ w.receipt = FALSE /\ work' = [work EXCEPT ![i] = w]
    BY <2>1
  <2> HIDE DEF w
  <2>3. held
    BY <1>2, <2>2 DEF Receipts
  <2>. QED  BY <1>4, <2>3 DEF Resume, Receipts
<1>5. CASE DiscardIncomplete(i)
  <2>1. PICK b \in DOMAIN batches :
          /\ batches' = [batches EXCEPT ![b].status = "FAILED"]
          /\ work' = [work EXCEPT ![i] = [Idle EXCEPT !.pc = "discarding", !.batch = b]]
    BY <1>5 DEF DiscardIncomplete
  <2> DEFINE w == [Idle EXCEPT !.pc = "discarding", !.batch = b]
  <2>2. w.pc = "discarding" /\ work' = [work EXCEPT ![i] = w]
    BY <2>1 DEF Idle
  <2> HIDE DEF w
  <2>3. held
    BY <1>2, <2>2
  <2>4. DOMAIN batches' = DOMAIN batches /\ \A k \in DOMAIN batches : batches'[k].receipt = batches[k].receipt
    BY <2>1 DEF AnchoringInv, Shapes, BatchFields
  <2>. QED  BY <2>3, <2>4 DEF Receipts
<1>6. CASE Constitute(i)
  <2> DEFINE c == NewBatch(GatheredLeaves)
             w == [pc |-> "ready", batch |-> Len(batches) + 1, copy |-> c, receipt |-> FALSE]
  <2>1. batches' = Append(batches, c) /\ work' = [work EXCEPT ![i] = w]
    BY <1>6 DEF Constitute
  <2>2. c.receipt = FALSE /\ w.copy = c /\ w.receipt = FALSE
    BY DEF NewBatch
  <2> HIDE DEF c, w
  <2>3. held
    BY <1>2, <2>1, <2>2
  <2>4. /\ DOMAIN batches' = 1..(Len(batches) + 1) /\ Len(batches) \in Nat
        /\ DOMAIN batches = 1..Len(batches)
        /\ \A k \in DOMAIN batches : batches'[k] = batches[k]
        /\ batches'[Len(batches) + 1] = c
    BY <2>1, ListAppend, ListFacts DEF AnchoringInv, Shapes
  <2>5. \A k \in DOMAIN batches' : (k \in DOMAIN batches /\ batches'[k] = batches[k]) \/ batches'[k] = c
    BY <2>4
  <2>. QED  BY <2>2, <2>3, <2>5 DEF Receipts
<1>7. CASE Read(i) \/ Send(i) \/ NodeFails(i)
  <2>1. batches' = batches /\ Busy(i) /\ \E p : work' = [work EXCEPT ![i].pc = p]
    BY <1>7 DEF Read, Send, NodeFails, To, Busy
  <2>2. PICK p : work' = [work EXCEPT ![i] = [old EXCEPT !.pc = p]]
    BY <2>1
  <2> DEFINE w == [old EXCEPT !.pc = p]
  <2>3. /\ work' = [work EXCEPT ![i] = w]
        /\ w.copy = old.copy /\ w.receipt = old.receipt /\ w.batch = old.batch
    BY <1>0, <2>2 DEF WorkFields
  <2> HIDE DEF w
  <2>4. held
    BY <1>2, <2>1, <2>3 DEF Receipts, Held
  <2>. QED  BY <2>1, <2>4 DEF Receipts
<1>8. CASE Receive(i)
  <2>1. PICK t \in DOMAIN blocks :
          /\ Confirmed(t) /\ blocks[t].batch = old.batch
          /\ work' = [work EXCEPT ![i] =
                        [old EXCEPT !.pc = IF blocks[t].ok THEN "finalizing" ELSE "failing",
                                    !.receipt = blocks[t].ok]]
    BY <1>8 DEF Receive
  <2> DEFINE w == [old EXCEPT !.pc = IF blocks[t].ok THEN "finalizing" ELSE "failing",
                              !.receipt = blocks[t].ok]
  <2>2. /\ work' = [work EXCEPT ![i] = w]
        /\ w.copy = old.copy /\ w.receipt = blocks[t].ok /\ w.batch = old.batch
    BY <1>0, <2>1 DEF WorkFields
  <2> HIDE DEF w
  <2>3. blocks[t].ok => ConfirmedOnChain(old.batch)
    BY <2>1 DEF ConfirmedOnChain
  <2>4. batches' = batches /\ Busy(i)
    BY <1>8 DEF Receive, Busy
  <2>5. held
    BY <1>2, <2>2, <2>3, <2>4 DEF Receipts, Held
  <2>. QED  BY <2>4, <2>5 DEF Receipts
<1>9. CASE Attempt(i)
  <2> DEFINE c == Attempted(old.copy)
             w == [old EXCEPT !.pc = "reading", !.copy = c]
  <2>1. Busy(i) /\ batches' = [batches EXCEPT ![old.batch] = c] /\ work' = [work EXCEPT ![i] = w]
    BY <1>9 DEF Attempt, Save, Busy
  <2>2. c.receipt = old.copy.receipt
    BY <2>1 DEF AnchoringInv, Shapes, Attempted, BatchFields
  <2>3. w.copy = c /\ w.receipt = old.receipt /\ w.batch = old.batch
    BY <1>0 DEF WorkFields
  <2> HIDE DEF c, w
  <2>4. held
    BY <1>2, <2>1, <2>2, <2>3 DEF Receipts, Held
  <2>5. stored
    BY <2>1, <2>2 DEF Receipts, Held
  <2>. QED  BY <2>4, <2>5
<1>10. CASE Finalize(i) \/ RecordFailure(i)
  <2>1. Busy(i) /\ work' = [work EXCEPT ![i] = Idle] /\ Idle.pc = "idle"
    BY <1>10 DEF Finalize, RecordFailure, Leave, Idle, Busy
  <2>2. held
    BY <1>2, <2>1
  <2>3. DOMAIN old.copy = BatchFields
    BY <2>1 DEF AnchoringInv, Shapes
  <2>4. PICK c : batches' = [batches EXCEPT ![old.batch] = c] /\ (c.receipt => Held(i))
    <3>1. CASE Finalize(i)
      <4> DEFINE c == [old.copy EXCEPT !.status = "ANCHORED", !.receipt = @ \/ old.receipt]
      <4>1. batches' = [batches EXCEPT ![old.batch] = c]
        BY <3>1 DEF Finalize, Save
      <4>2. c.receipt = (old.copy.receipt \/ old.receipt)
        BY <2>3 DEF BatchFields
      <4> HIDE DEF c
      <4>. QED  BY <4>1, <4>2 DEF Held
    <3>2. CASE RecordFailure(i)
      <4> DEFINE exhausted == old.pc = "refuted" \/ old.copy.attempts >= MaxRetries
                 c == [old.copy EXCEPT !.status = IF exhausted THEN "FAILED" ELSE "PENDING"]
      <4>1. batches' = [batches EXCEPT ![old.batch] = c]
        BY <3>2 DEF RecordFailure, Save
      <4>2. c.receipt = old.copy.receipt
        BY <2>3 DEF BatchFields
      <4> HIDE DEF c
      <4>. QED  BY <4>1, <4>2 DEF Held
    <3>. QED  BY <1>10, <3>1, <3>2
  <2>5. stored
    BY <2>1, <2>4 DEF Receipts
  <2>. QED  BY <2>2, <2>5
<1>11. Begin(i) \/ DiscardItems(i) \/ NothingToAnchor(i) \/ Stop(i) => batches' = batches
  BY DEF Begin, DiscardItems, NothingToAnchor, Stop
<1>. QED  BY <1>1, <1>3, <1>4, <1>5, <1>6, <1>7, <1>8, <1>9, <1>10, <1>11
          DEF InstanceStep, InstanceFault

(* Every step keeps the receipts backed by the chain.                      *)
LEMMA ReceiptsStep ==
  ASSUME AnchoringInv, ChainShape, Receipts, [AnchoringNext]_anchorVars
  PROVE  Receipts'
<1>1. CASE UNCHANGED anchorVars
  BY <1>1 DEF anchorVars, Receipts, Busy, Held, ConfirmedOnChain, Confirmed
<1>2. CASE AnchoringNext
  <2>1. \A b : ConfirmedOnChain(b) => ConfirmedOnChain(b)'
    BY <1>2, ConfirmedStays
  <2>2. /\ \A b \in DOMAIN batches' : batches'[b].receipt => ConfirmedOnChain(b)
        /\ \A j \in Instances : Busy(j)' /\ Held(j)' => ConfirmedOnChain(work'[j].batch)
    <3>1. CASE \E i \in Instances : InstanceStep(i) \/ InstanceFault(i)
      BY <3>1, ReceiptEffects
    <3>2. CASE RecordClosure \/ Alter \/ Mine \/ Deepen \/ Reorg
      <4>1. batches' = batches /\ work' = work
        BY <3>2 DEF RecordClosure, Alter, Mine, Deepen, Reorg
      <4>. QED  BY <4>1 DEF Receipts, Busy, Held
    <3>. QED  BY <1>2, <3>1, <3>2 DEF AnchoringNext
  <2>3. \A b \in DOMAIN batches' : batches'[b].receipt => ConfirmedOnChain(b)'
    BY <2>1, <2>2
  <2>4. \A j \in Instances : Busy(j)' /\ Held(j)' => ConfirmedOnChain(work[j].batch)'
    <3>1. ASSUME NEW j \in Instances, Busy(j)', Held(j)'
          PROVE  ConfirmedOnChain(work[j].batch)'
      <4>1. PICK b : b = work'[j].batch
        OBVIOUS
      <4>2. ConfirmedOnChain(b)'
        BY <2>1, <2>2, <3>1, <4>1
      <4>. QED  BY <4>1, <4>2 DEF ConfirmedOnChain
    <3>. QED  BY <3>1
  <2>. QED  BY <2>3, <2>4 DEF Receipts
<1>. QED  BY <1>1, <1>2

(* For any number of instances, cases, faults and confirmations: a batch   *)
(* stored as ANCHORED with a receipt is on the chain with the              *)
(* confirmations asked for, for good, the lost lock, the second instance   *)
(* that writes its own copy back and the reorganisation included           *)
(* (EvmAnchorClient.anchorBatch, finalizeBatch, recordBatchFailure).       *)
THEOREM ReceiptIsConfirmedHolds == AnchoringSpec => []ReceiptIsConfirmed
<1> DEFINE Inv == AnchoringInv /\ ChainShape /\ Receipts
<1>1. AnchoringInit => Inv
  <2> SUFFICES ASSUME AnchoringInit  PROVE Inv
    OBVIOUS
  <2>1. << >> \in Seq({}) /\ DOMAIN << >> = {}
    OBVIOUS
  <2>2. ChainShape
    BY <2>1, SequenceIsList DEF AnchoringInit, ChainShape
  <2>3. Receipts
    BY <2>1 DEF AnchoringInit, Receipts, Busy, Idle
  <2>. QED  BY <2>2, <2>3, AnchoringInvInit
<1>2. Inv /\ [AnchoringNext]_anchorVars => Inv'
  BY AnchoringInvStep, ChainShapeStep, ReceiptsStep
<1>3. Inv => ReceiptIsConfirmed
  BY DEF Receipts, ReceiptIsConfirmed
<1>. QED  BY <1>1, <1>2, <1>3, PTL DEF AnchoringSpec
-----------------------------------------------------------------------------
(* Two finite sets with injections both ways have the same size.           *)
LEMMA SameSize ==
  ASSUME NEW S, NEW T, IsFiniteSet(S), IsFiniteSet(T),
         NEW f \in [S -> T], \A x, y \in S : f[x] = f[y] => x = y,
         NEW g \in [T -> S], \A x, y \in T : g[x] = g[y] => x = y
  PROVE  Cardinality(S) = Cardinality(T)
<1>1. ~(Cardinality(T) < Cardinality(S))
  BY FS_PigeonHole
<1>2. ~(Cardinality(S) < Cardinality(T))
  BY FS_PigeonHole
<1>3. Cardinality(S) \in Nat /\ Cardinality(T) \in Nat
  BY FS_CardinalityType
<1>. QED  BY <1>1, <1>2, <1>3

(* findOrCreateBatch numbers the closures it gathers without hole or       *)
(* repetition: the rank counts those created no later.                     *)
LEMMA GatheredRanks ==
  ASSUME Shapes
  PROVE  /\ IsFiniteSet(Gathered) /\ Cardinality(Gathered) \in Nat
         /\ {Rank(f) : f \in Gathered} = 1..Cardinality(Gathered)
         /\ \A f, g \in Gathered : Rank(f) = Rank(g) => f = g
         /\ Unclaimed # {} => Cardinality(Gathered) # 0
<1> DEFINE n == Len(facts)
           Under(f) == {g \in Unclaimed : g <= f}
           c == Cardinality(Unclaimed)
<1>1. n \in Nat /\ DOMAIN facts = 1..n
  BY ListFacts DEF Shapes
<1>2. Unclaimed \subseteq 1..n
  BY <1>1 DEF Unclaimed
<1>3. IsFiniteSet(Unclaimed) /\ c \in Nat
  <2>1. IsFiniteSet(1..n)
    BY <1>1, FS_Interval
  <2>. QED  BY <1>2, <2>1, FS_Subset, FS_CardinalityType
<1>4. \A f : Rank(f) = Cardinality(Under(f)) /\ Under(f) \in SUBSET Unclaimed
  BY DEF Rank
<1>5. \A f : IsFiniteSet(Under(f)) /\ Rank(f) \in Nat /\ Rank(f) <= c
  BY <1>3, <1>4, FS_Subset, FS_CardinalityType
<1>6. ASSUME NEW f \in Unclaimed
      PROVE  Rank(f) \in 1..c
  <2>1. f \in Under(f)
    BY <1>2
  <2>2. Cardinality(Under(f)) # 0
    BY <1>5, <2>1, FS_EmptySet
  <2>. QED  BY <1>3, <1>4, <1>5, <2>2
<1>7. ASSUME NEW f \in Unclaimed, NEW g \in Unclaimed, g < f
      PROVE  Rank(g) # Rank(f)
  <2>1. f \in Int /\ g \in Int /\ \A h \in Unclaimed : h \in Int
    BY <1>1, <1>2
  <2>2. Under(g) \in SUBSET Under(f) /\ f \in Under(f) /\ f \notin Under(g)
    <3>1. \A h \in Unclaimed : h <= g => h <= f
      BY <1>7, <2>1
    <3>2. f <= f /\ ~(f <= g)
      BY <1>7, <2>1
    <3>. QED  BY <3>1, <3>2
  <2>3. Cardinality(Under(f)) = Cardinality(Under(g)) => Under(f) = Under(g)
    BY <1>5, <2>2, FS_Subset
  <2>. QED  BY <1>4, <2>2, <2>3
<1> HIDE DEF c, Under
<1>8. \A f, g \in Unclaimed : Rank(f) = Rank(g) => f = g
  <2>1. \A f, g \in Unclaimed : f < g \/ g < f \/ f = g
    BY <1>1, <1>2
  <2>. QED  BY <1>7, <2>1
<1>9. IsFiniteSet(1..c) /\ Cardinality(1..c) = c
  BY <1>3, FS_Interval
<1>10. ASSUME NEW k \in 1..c, \A f \in Unclaimed : Rank(f) # k
       PROVE  FALSE
  <2> DEFINE T == (1..c) \ {k}
             r == [f \in Unclaimed |-> Rank(f)]
  <2>1. IsFiniteSet(T) /\ Cardinality(T) = c - 1
    BY <1>9, FS_RemoveElement
  <2>2. Cardinality(T) < Cardinality(Unclaimed)
    BY <1>3, <2>1 DEF c
  <2>3. r \in [Unclaimed -> T]
    BY <1>6, <1>10
  <2> HIDE DEF T, r
  <2>4. \E f, g \in Unclaimed : f # g /\ r[f] = r[g]
    BY <1>3, <2>1, <2>2, <2>3, FS_PigeonHole
  <2>. QED  BY <1>8, <2>4 DEF r
<1>12. \A k \in 1..c : \E f \in Unclaimed : Rank(f) = k
  BY <1>10
<1> DEFINE m == IF c <= BatchMaxSize THEN c ELSE BatchMaxSize
<1>13. BatchMaxSize \in Nat \ {0}
  BY AnchoringBounds
<1>14. m \in Nat /\ m <= c /\ m <= BatchMaxSize /\ \A k \in 1..c : k <= BatchMaxSize <=> k \in 1..m
  BY <1>3, <1>13
<1>15. \A f \in Gathered : f \in Unclaimed /\ Rank(f) \in 1..m
  BY <1>6, <1>14 DEF Gathered
<1>16. \A k \in 1..m : \E f \in Gathered : Rank(f) = k
  <2>1. \A k \in 1..m : k \in 1..c /\ k <= BatchMaxSize
    BY <1>3, <1>13, <1>14
  <2>. QED  BY <1>12, <2>1 DEF Gathered
<1>17. c # 0 => m # 0
  BY <1>13
<1> HIDE DEF m
<1>18. {Rank(f) : f \in Gathered} = 1..m
  BY <1>15, <1>16
<1>19. IsFiniteSet(1..m) /\ Cardinality(1..m) = m
  BY <1>14, FS_Interval
<1>20. IsFiniteSet(Gathered)
  BY <1>3, <1>15, FS_Subset
<1> DEFINE q == [f \in Gathered |-> Rank(f)]
           p == [k \in 1..m |-> CHOOSE f \in Gathered : Rank(f) = k]
<1>21. Cardinality(Gathered) = m
  <2>1. \A k \in 1..m : p[k] \in Gathered /\ Rank(p[k]) = k
    BY <1>16
  <2>2. q \in [Gathered -> 1..m] /\ \A f, g \in Gathered : q[f] = q[g] => f = g
    BY <1>8, <1>15
  <2>3. p \in [1..m -> Gathered] /\ \A j, k \in 1..m : p[j] = p[k] => j = k
    BY <2>1
  <2> HIDE DEF p, q
  <2>. QED  BY <1>19, <1>20, <2>2, <2>3, SameSize
<1>22. Unclaimed # {} => c # 0
  BY <1>3, FS_EmptySet DEF c
<1>23. \A f, g \in Gathered : Rank(f) = Rank(g) => f = g
  BY <1>8, <1>15
<1>. QED  BY <1>14, <1>17, <1>18, <1>20, <1>21, <1>22, <1>23

-----------------------------------------------------------------------------
(* A batch has as many members as it declares leaves, at places 1 to that  *)
(* number, and no copy that is written back declares another number.       *)
Members(b) == {f \in DOMAIN facts : facts[f].batchId = b}
Placed(b, n) == Cardinality(Members(b)) = n /\ {facts[f].leafIndex : f \in Members(b)} = 1..n

Committed ==
  /\ \A b \in DOMAIN batches : Placed(b, batches[b].leafCount)
  /\ \A i \in Instances : Busy(i) => work[i].copy.leafCount = batches[work[i].batch].leafCount

(* No fact changes its place: markItems, closeCase and an alteration.      *)
LEMMA PlacesKept ==
  ASSUME Shapes, DOMAIN facts \subseteq DOMAIN facts', NEW b, b # 0,
         \A f \in DOMAIN facts : /\ facts'[f].batchId = facts[f].batchId
                                 /\ facts'[f].leafIndex = facts[f].leafIndex,
         \A f \in DOMAIN facts' : f \in DOMAIN facts \/ facts'[f].batchId = 0,
         NEW n, Placed(b, n)
  PROVE  Placed(b, n)'
<1>1. Members(b)' = Members(b)
  BY DEF Members
<1>2. \A f \in Members(b) : facts'[f].leafIndex = facts[f].leafIndex
  BY DEF Members
<1>3. {facts'[f].leafIndex : f \in Members(b)} = {facts[f].leafIndex : f \in Members(b)}
  BY <1>2
<1>. QED  BY <1>1, <1>3 DEF Placed

(* The invariant after a step that leaves the places and numbers alone.    *)
LEMMA CommittedKept ==
  ASSUME AnchoringInv, Committed, DOMAIN facts \subseteq DOMAIN facts',
         \A f \in DOMAIN facts : /\ facts'[f].batchId = facts[f].batchId
                                 /\ facts'[f].leafIndex = facts[f].leafIndex,
         \A f \in DOMAIN facts' : f \in DOMAIN facts \/ facts'[f].batchId = 0,
         DOMAIN batches' = DOMAIN batches,
         \A b \in DOMAIN batches : batches'[b].leafCount = batches[b].leafCount,
         \A i \in Instances :
           Busy(i)' => /\ work'[i].batch \in DOMAIN batches
                       /\ work'[i].copy.leafCount = batches[work'[i].batch].leafCount
  PROVE  Committed'
<1>1. \A b \in DOMAIN batches : b # 0
  BY ListFacts DEF AnchoringInv, Shapes
<1>2. \A b \in DOMAIN batches : Placed(b, batches[b].leafCount)
  BY DEF Committed
<1>3. \A b \in DOMAIN batches : \A n : Placed(b, n) => Placed(b, n)'
  BY <1>1, PlacesKept DEF AnchoringInv
<1>4. ASSUME NEW b \in DOMAIN batches'
      PROVE  Placed(b, batches[b].leafCount)'
  <2>1. PICK n : n = batches[b].leafCount
    OBVIOUS
  <2>2. Placed(b, n)' /\ batches'[b].leafCount = n
    BY <1>2, <1>3, <2>1
  <2>. QED  BY <2>2 DEF Placed
<1>5. \A i \in Instances : Busy(i)' => work'[i].copy.leafCount = batches'[work'[i].batch].leafCount
  OBVIOUS
<1>. QED  BY <1>4, <1>5 DEF Committed
(* The new batch takes unclaimed facts, at the places 1 to its leaf count. *)
LEMMA ConstituteCommits ==
  ASSUME AnchoringInv, Committed, NEW i \in Instances, Constitute(i)
  PROVE  Committed'
<1> DEFINE n == Len(batches) + 1
           c == NewBatch(GatheredLeaves)
           w == [pc |-> "ready", batch |-> n, copy |-> c, receipt |-> FALSE]
           k == Cardinality(Gathered)
           taken(f) == [facts[f] EXCEPT !.batchId = n, !.leafIndex = Rank(f),
                                        !.merkleProof = GetProof(GatheredLeaves, Rank(f))]
<1>1. batches' = Append(batches, c) /\ work' = [work EXCEPT ![i] = w]
  BY DEF Constitute
<1>2. facts' = [f \in DOMAIN facts |-> IF f \in Gathered THEN taken(f) ELSE facts[f]]
  BY DEF Constitute
<1>3. /\ IsFiniteSet(Gathered) /\ k \in Nat /\ {Rank(f) : f \in Gathered} = 1..k
  BY GatheredRanks DEF AnchoringInv
<1>4. c.leafCount = k
  <2>1. Len(GatheredLeaves) = k
    BY <1>3 DEF GatheredLeaves
  <2>. QED  BY <2>1 DEF NewBatch
<1>5. w.batch = n /\ w.copy = c
  OBVIOUS
<1>6. \A f \in DOMAIN facts : taken(f).batchId = n /\ taken(f).leafIndex = Rank(f)
  BY DEF AnchoringInv, Shapes, FactFields
<1>7. \A f \in Gathered : f \in DOMAIN facts /\ facts[f].batchId = 0
  BY DEF Gathered, Unclaimed
<1> HIDE DEF c, w, taken
<1>8. /\ Len(batches) \in Nat /\ DOMAIN batches = 1..Len(batches)
      /\ DOMAIN batches' = 1..n
      /\ \A b \in DOMAIN batches : batches'[b] = batches[b]
      /\ batches'[n] = c
  BY <1>1, ListAppend, ListFacts DEF AnchoringInv, Shapes
<1>9. DOMAIN facts' = DOMAIN facts
      /\ \A f \in DOMAIN facts : facts'[f] = IF f \in Gathered THEN taken(f) ELSE facts[f]
  BY <1>2
<1>10. n \notin DOMAIN batches /\ n # 0 /\ \A b \in DOMAIN batches' : b = n \/ b \in DOMAIN batches
  BY <1>8
<1>11. \A f \in DOMAIN facts : facts[f].batchId # n
  <2>1. \A f \in DOMAIN facts : facts[f].batchId \in 0..Len(batches)
    BY DEF AnchoringInv, Shapes
  <2>. QED  BY <1>8, <2>1
<1>12. \A b \in DOMAIN batches : b # 0 /\ b # n
  BY <1>8
<1> HIDE DEF n, k
<1>13. PICK m, l : m = n /\ l = k
  OBVIOUS
<1>14. {facts'[f].leafIndex : f \in Gathered} = 1..l
  <2>1. \A f \in Gathered : facts'[f].leafIndex = Rank(f)
    BY <1>6, <1>7, <1>9
  <2>2. {facts'[f].leafIndex : f \in Gathered} = {Rank(f) : f \in Gathered}
    BY <2>1
  <2>. QED  BY <1>3, <1>13, <2>2
<1>15. Placed(m, l)'
  <2>1. Members(m)' = Gathered
    BY <1>6, <1>7, <1>9, <1>11, <1>13 DEF Members
  <2>2. Cardinality(Gathered) = l
    BY <1>13 DEF k
  <2>. QED  BY <1>14, <2>1, <2>2 DEF Placed
<1>16. ASSUME NEW b \in DOMAIN batches, NEW j, Placed(b, j)
       PROVE  Placed(b, j)'
  <2>1. Members(b)' = Members(b)
    BY <1>6, <1>7, <1>9, <1>12 DEF Members
  <2>2. \A f \in Members(b) : f \in DOMAIN facts /\ f \notin Gathered
    BY <1>7, <1>12 DEF Members
  <2>3. {facts'[f].leafIndex : f \in Members(b)} = {facts[f].leafIndex : f \in Members(b)}
    BY <1>9, <2>2
  <2>. QED  BY <1>16, <2>1, <2>3 DEF Placed
<1>17. ASSUME NEW b \in DOMAIN batches'
       PROVE  Placed(b, batches[b].leafCount)'
  <2>1. CASE b = n
    BY <1>4, <1>8, <1>13, <1>15, <2>1 DEF Placed
  <2>2. CASE b \in DOMAIN batches
    <3>1. PICK j : j = batches[b].leafCount
      OBVIOUS
    <3>2. Placed(b, j)' /\ batches'[b].leafCount = j
      BY <1>8, <1>16, <2>2, <3>1 DEF Committed
    <3>. QED  BY <3>2 DEF Placed
  <2>. QED  BY <1>10, <2>1, <2>2
<1>18. ASSUME NEW j \in Instances, Busy(j)'
       PROVE  work'[j].copy.leafCount = batches'[work'[j].batch].leafCount
  <2>1. CASE j = i
    BY <1>1, <1>5, <1>8, <2>1 DEF AnchoringInv, Shapes
  <2>2. CASE j # i
    <3>1. work'[j] = work[j] /\ Busy(j)
      BY <1>1, <1>18, <2>2 DEF Busy
    <3>2. work[j].batch \in DOMAIN batches
      BY <3>1 DEF AnchoringInv, Shapes
    <3>. QED  BY <1>8, <3>1, <3>2 DEF Committed
  <2>. QED  BY <2>1, <2>2
<1>. QED  BY <1>17, <1>18 DEF Committed

(* markItems moves no fact.                                                *)
LEMMA MarkPlaces ==
  ASSUME Shapes, NEW b, facts' = facts \/ \E s : facts' = MarkItems(b, s)
  PROVE  /\ DOMAIN facts' = DOMAIN facts
         /\ \A f \in DOMAIN facts : /\ facts'[f].batchId = facts[f].batchId
                                    /\ facts'[f].leafIndex = facts[f].leafIndex
<1>1. ASSUME NEW s, facts' = MarkItems(b, s)
      PROVE  /\ DOMAIN facts' = DOMAIN facts
             /\ \A f \in DOMAIN facts : /\ facts'[f].batchId = facts[f].batchId
                                        /\ facts'[f].leafIndex = facts[f].leafIndex
  <2>1. DOMAIN facts' = DOMAIN facts
    BY <1>1 DEF MarkItems
  <2>2. \A f \in DOMAIN facts :
          facts'[f] = IF f \in ItemsOf(b)
                      THEN [facts[f] EXCEPT !.anchorStatus = s, !.lineStatus = s]
                      ELSE facts[f]
    BY <1>1 DEF MarkItems
  <2>3. \A f \in DOMAIN facts : DOMAIN facts[f] = FactFields
    BY DEF Shapes
  <2>. QED  BY <2>1, <2>2, <2>3 DEF FactFields
<1>. QED  BY <1>1

(* A batch that is written back keeps its number of leaves.                *)
LEMMA SaveCommits ==
  ASSUME AnchoringInv, Committed, NEW i \in Instances, Busy(i), NEW c,
         c.leafCount = work[i].copy.leafCount,
         batches' = [batches EXCEPT ![work[i].batch] = c],
         NEW w, work' = [work EXCEPT ![i] = w],
         w.pc = "idle" \/ (w.batch = work[i].batch /\ w.copy = c),
         facts' = facts \/ \E s : facts' = MarkItems(work[i].batch, s)
  PROVE  Committed'
<1> DEFINE b == work[i].batch
<1>1. b \in DOMAIN batches /\ c.leafCount = batches[b].leafCount
  BY DEF AnchoringInv, Shapes, Committed
<1>2. /\ DOMAIN batches' = DOMAIN batches
      /\ \A k \in DOMAIN batches : batches'[k].leafCount = batches[k].leafCount
  BY <1>1
<1>3. \A j \in Instances :
        Busy(j)' => /\ work'[j].batch \in DOMAIN batches
                    /\ work'[j].copy.leafCount = batches[work'[j].batch].leafCount
  <2>1. \A j \in Instances : work'[j] = IF j = i THEN w ELSE work[j]
    BY DEF AnchoringInv, Shapes
  <2>. QED  BY <1>1, <2>1 DEF Busy, Committed, AnchoringInv, Shapes
<1>4. /\ DOMAIN facts' = DOMAIN facts
      /\ \A f \in DOMAIN facts : /\ facts'[f].batchId = facts[f].batchId
                                 /\ facts'[f].leafIndex = facts[f].leafIndex
  BY MarkPlaces DEF AnchoringInv
<1>. QED  BY <1>2, <1>3, <1>4, CommittedKept

(* Every step keeps a closure in at most one live batch.                   *)
LEMMA CommittedStep ==
  ASSUME AnchoringInv, Committed, [AnchoringNext]_anchorVars
  PROVE  Committed'
<1> DEFINE places == /\ DOMAIN facts' = DOMAIN facts
                     /\ \A f \in DOMAIN facts : /\ facts'[f].batchId = facts[f].batchId
                                                /\ facts'[f].leafIndex = facts[f].leafIndex
           numbers == /\ DOMAIN batches' = DOMAIN batches
                      /\ \A b \in DOMAIN batches : batches'[b].leafCount = batches[b].leafCount
<1>0. /\ DOMAIN work = Instances
      /\ \A i \in Instances : /\ DOMAIN work[i] = WorkFields
                              /\ Busy(i) => DOMAIN work[i].copy = BatchFields
                              /\ Busy(i) => work[i].batch \in DOMAIN batches
  BY DEF AnchoringInv, Shapes
<1>1. ASSUME places, numbers, NEW i \in Instances, NEW w, work' = [work EXCEPT ![i] = w],
             \/ w.pc \in {"idle", "claiming", "discarding"}
             \/ Busy(i) /\ w.batch = work[i].batch /\ w.copy = work[i].copy
             \/ w.batch \in DOMAIN batches /\ w.copy = batches[w.batch]
      PROVE  Committed'
  <2>1. \A j \in Instances : work'[j] = IF j = i THEN w ELSE work[j]
    BY <1>0, <1>1
  <2>2. \A j \in Instances :
           Busy(j)' => /\ work'[j].batch \in DOMAIN batches
                       /\ work'[j].copy.leafCount = batches[work'[j].batch].leafCount
    BY <1>0, <1>1, <2>1 DEF Busy, Committed
  <2>. QED  BY <1>1, <2>2, CommittedKept
<1>2. ASSUME DOMAIN facts \subseteq DOMAIN facts', batches' = batches, work' = work,
             \A f \in DOMAIN facts : /\ facts'[f].batchId = facts[f].batchId
                                     /\ facts'[f].leafIndex = facts[f].leafIndex,
             \A f \in DOMAIN facts' : f \in DOMAIN facts \/ facts'[f].batchId = 0
      PROVE  Committed'
  <2>1. \A j \in Instances :
           Busy(j)' => /\ work'[j].batch \in DOMAIN batches
                       /\ work'[j].copy.leafCount = batches[work'[j].batch].leafCount
    BY <1>0, <1>2 DEF Busy, Committed
  <2>. QED  BY <1>2, <2>1, CommittedKept
<1>3. CASE UNCHANGED anchorVars \/ Mine \/ Deepen \/ Reorg \/ \E i \in Instances : LoseLock(i)
  <2>1. facts' = facts /\ batches' = batches /\ work' = work
    BY <1>3 DEF anchorVars, Mine, Deepen, Reorg, LoseLock
  <2>. QED  BY <1>2, <2>1
<1>4. CASE RecordClosure
  <2> DEFINE e == [anchorStatus |-> "PENDING", lineStatus |-> "NOT_SEALED", batchId |-> 0,
                   leafIndex |-> 0, merkleProof |-> << >>, content |-> "sealed"]
  <2>1. facts' = Append(facts, e) /\ batches' = batches /\ work' = work
    BY <1>4 DEF RecordClosure
  <2>2. e.batchId = 0
    OBVIOUS
  <2> HIDE DEF e
  <2>3. /\ DOMAIN facts' = 1..(Len(facts) + 1) /\ Len(facts) \in Nat /\ DOMAIN facts = 1..Len(facts)
        /\ \A f \in DOMAIN facts : facts'[f] = facts[f]
        /\ facts'[Len(facts) + 1] = e
    BY <2>1, ListAppend, ListFacts DEF AnchoringInv, Shapes
  <2>4. /\ DOMAIN facts \subseteq DOMAIN facts'
        /\ \A f \in DOMAIN facts' : f \in DOMAIN facts \/ facts'[f] = e
    BY <2>3
  <2>. QED  BY <1>2, <2>1, <2>2, <2>3, <2>4
<1>5. CASE Alter
  <2>1. batches' = batches /\ work' = work
    BY <1>5 DEF Alter
  <2>2. PICK g \in DOMAIN facts, content \in {"altered", "erased"} :
          facts' = [facts EXCEPT ![g].content = content]
    BY <1>5 DEF Alter
  <2>3. DOMAIN facts' = DOMAIN facts
        /\ \A f \in DOMAIN facts : /\ facts'[f].batchId = facts[f].batchId
                                    /\ facts'[f].leafIndex = facts[f].leafIndex
    BY <2>2 DEF AnchoringInv, Shapes, FactFields
  <2>. QED  BY <1>2, <2>1, <2>3
<1>6. ASSUME NEW i \in Instances, Begin(i) \/ NothingToAnchor(i) \/ Stop(i) \/ DiscardItems(i)
      PROVE  Committed'
  <2>1. facts' = facts \/ \E s : facts' = MarkItems(work[i].batch, s)
    BY <1>6 DEF Begin, NothingToAnchor, Stop, DiscardItems
  <2>2. places
    BY <2>1, MarkPlaces DEF AnchoringInv
  <2>3. batches' = batches
    BY <1>6 DEF Begin, NothingToAnchor, Stop, DiscardItems
  <2>4. PICK w : work' = [work EXCEPT ![i] = w] /\ w.pc \in {"idle", "claiming"}
    <3>1. CASE Begin(i)
      <4>1. work' = [work EXCEPT ![i] = [work[i] EXCEPT !.pc = "claiming"]]
        BY <3>1 DEF Begin, To
      <4>2. [work[i] EXCEPT !.pc = "claiming"].pc = "claiming"
        BY <1>0 DEF WorkFields
      <4>. QED  BY <4>1, <4>2
    <3>2. CASE DiscardItems(i) \/ NothingToAnchor(i) \/ Stop(i)
      BY <3>2 DEF DiscardItems, NothingToAnchor, Stop, Leave, Idle
    <3>. QED  BY <1>6, <3>1, <3>2
  <2>. QED  BY <1>1, <2>2, <2>3, <2>4
<1>7. ASSUME NEW i \in Instances, Resume(i)
      PROVE  Committed'
  <2>1. PICK b \in DOMAIN batches :
          work' = [work EXCEPT ![i] =
                     [pc |-> FirstStep(b), batch |-> b, copy |-> batches[b], receipt |-> FALSE]]
    BY <1>7 DEF Resume
  <2> DEFINE w == [pc |-> FirstStep(b), batch |-> b, copy |-> batches[b], receipt |-> FALSE]
  <2>2. w.batch = b /\ w.copy = batches[b] /\ work' = [work EXCEPT ![i] = w]
    BY <2>1
  <2> HIDE DEF w
  <2>3. facts' = facts /\ batches' = batches
    BY <1>7 DEF Resume
  <2>. QED  BY <1>1, <2>2, <2>3
<1>8. ASSUME NEW i \in Instances, DiscardIncomplete(i)
      PROVE  Committed'
  <2>1. PICK b \in DOMAIN batches :
          /\ batches' = [batches EXCEPT ![b].status = "FAILED"]
          /\ work' = [work EXCEPT ![i] = [Idle EXCEPT !.pc = "discarding", !.batch = b]]
    BY <1>8 DEF DiscardIncomplete
  <2> DEFINE w == [Idle EXCEPT !.pc = "discarding", !.batch = b]
  <2>2. w.pc = "discarding" /\ work' = [work EXCEPT ![i] = w]
    BY <2>1 DEF Idle
  <2> HIDE DEF w
  <2>3. numbers
    BY <2>1 DEF AnchoringInv, Shapes, BatchFields
  <2>4. facts' = facts
    BY <1>8 DEF DiscardIncomplete
  <2>. QED  BY <1>1, <2>2, <2>3, <2>4
<1>9. ASSUME NEW i \in Instances, Read(i) \/ Send(i) \/ NodeFails(i) \/ Receive(i)
      PROVE  Committed'
  <2>1. Busy(i) /\ facts' = facts /\ batches' = batches
    BY <1>9 DEF Read, Send, NodeFails, Receive, Busy
  <2>2. PICK p, r : work' = [work EXCEPT ![i] = [work[i] EXCEPT !.pc = p, !.receipt = r]]
    <3>1. CASE Read(i) \/ Send(i) \/ NodeFails(i)
      <4>1. PICK p : work' = [work EXCEPT ![i].pc = p]
        BY <3>1 DEF Read, Send, NodeFails, To
      <4>2. [work[i] EXCEPT !.pc = p] = [work[i] EXCEPT !.pc = p, !.receipt = work[i].receipt]
        BY <1>0 DEF WorkFields
      <4>. QED  BY <4>1, <4>2
    <3>2. CASE Receive(i)
      BY <3>2 DEF Receive
    <3>. QED  BY <1>9, <3>1, <3>2
  <2> DEFINE w == [work[i] EXCEPT !.pc = p, !.receipt = r]
  <2>3. work' = [work EXCEPT ![i] = w] /\ w.batch = work[i].batch /\ w.copy = work[i].copy
    BY <1>0, <2>2 DEF WorkFields
  <2> HIDE DEF w
  <2>. QED  BY <1>1, <2>1, <2>3
<1>10. ASSUME NEW i \in Instances, Attempt(i)
       PROVE  Committed'
  <2> DEFINE c == Attempted(work[i].copy)
             w == [work[i] EXCEPT !.pc = "reading", !.copy = c]
  <2>1. /\ Busy(i) /\ batches' = [batches EXCEPT ![work[i].batch] = c]
        /\ work' = [work EXCEPT ![i] = w] /\ facts' = facts
    BY <1>10 DEF Attempt, Save, Busy
  <2>2. c.leafCount = work[i].copy.leafCount
    BY <1>0, <2>1 DEF Attempted, BatchFields
  <2>3. w.batch = work[i].batch /\ w.copy = c
    BY <1>0 DEF WorkFields
  <2> HIDE DEF c, w
  <2>. QED  BY <2>1, <2>2, <2>3, SaveCommits
<1>11. ASSUME NEW i \in Instances, Finalize(i) \/ RecordFailure(i)
       PROVE  Committed'
  <2>1. Busy(i) /\ work' = [work EXCEPT ![i] = Idle] /\ Idle.pc = "idle"
    BY <1>11 DEF Finalize, RecordFailure, Leave, Idle, Busy
  <2>2. facts' = facts \/ \E s : facts' = MarkItems(work[i].batch, s)
    BY <1>11 DEF Finalize, RecordFailure
  <2>3. PICK c : /\ batches' = [batches EXCEPT ![work[i].batch] = c]
                 /\ c.leafCount = work[i].copy.leafCount
    <3>1. CASE Finalize(i)
      <4> DEFINE c == [work[i].copy EXCEPT !.status = "ANCHORED", !.receipt = @ \/ work[i].receipt]
      <4>1. batches' = [batches EXCEPT ![work[i].batch] = c]
        BY <3>1 DEF Finalize, Save
      <4>2. c.leafCount = work[i].copy.leafCount
        BY <1>0, <2>1 DEF BatchFields
      <4> HIDE DEF c
      <4>. QED  BY <4>1, <4>2
    <3>2. CASE RecordFailure(i)
      <4> DEFINE exhausted == work[i].pc = "refuted" \/ work[i].copy.attempts >= MaxRetries
                 c == [work[i].copy EXCEPT !.status = IF exhausted THEN "FAILED" ELSE "PENDING"]
      <4>1. batches' = [batches EXCEPT ![work[i].batch] = c]
        BY <3>2 DEF RecordFailure, Save
      <4>2. c.leafCount = work[i].copy.leafCount
        BY <1>0, <2>1 DEF BatchFields
      <4> HIDE DEF c
      <4>. QED  BY <4>1, <4>2
    <3>. QED  BY <1>11, <3>1, <3>2
  <2>. QED  BY <2>1, <2>2, <2>3, SaveCommits
<1>. QED  BY <1>3, <1>4, <1>5, <1>6, <1>7, <1>8, <1>9, <1>10, <1>11, ConstituteCommits
          DEF AnchoringNext, InstanceStep, InstanceFault

(* For any number of instances, cases and faults, and for any maximum size *)
(* of a batch: a closure is committed by one batch at most, and every leaf *)
(* of a stored batch is a fact that points back at it, at its own place,   *)
(* lost locks and stale copies written back included (findOrCreateBatch).  *)
THEOREM CommittedOnceHolds == AnchoringSpec => []CommittedOnce
<1> DEFINE Inv == AnchoringInv /\ Committed
<1>1. AnchoringInit => Inv
  <2> SUFFICES ASSUME AnchoringInit  PROVE Inv
    OBVIOUS
  <2>1. DOMAIN << >> = {}
    OBVIOUS
  <2>2. Committed
    BY <2>1 DEF AnchoringInit, Committed, Busy, Idle
  <2>. QED  BY <2>2, AnchoringInvInit
<1>2. Inv /\ [AnchoringNext]_anchorVars => Inv'
  BY AnchoringInvStep, CommittedStep
<1>3. Inv => CommittedOnce
  BY DEF Committed, Placed, Members, CommittedOnce
<1>. QED  BY <1>1, <1>2, <1>3, PTL DEF AnchoringSpec
-----------------------------------------------------------------------------
(* How many transactions of a batch a list holds.                          *)
Places(s, b) == {t \in DOMAIN s : s[t].batch = b}
One(e, b) == IF e.batch = b THEN 1 ELSE 0

(* A batch has finitely many transactions in a list.                       *)
LEMMA PlacesFinite ==
  ASSUME NEW s, IsList(s), NEW b
  PROVE  IsFiniteSet(Places(s, b)) /\ Cardinality(Places(s, b)) \in Nat
<1>1. Len(s) \in Nat /\ DOMAIN s = 1..Len(s)
  BY ListFacts
<1>2. IsFiniteSet(1..Len(s))
  BY <1>1, FS_Interval
<1>3. Places(s, b) \in SUBSET (1..Len(s))
  BY <1>1 DEF Places
<1>. QED  BY <1>2, <1>3, FS_Subset, FS_CardinalityType

(* One place more, at the end ...                                          *)
LEMMA PlacesEnd ==
  ASSUME NEW s, IsList(s), NEW t, NEW e, DOMAIN t = 1..(Len(s) + 1),
         \A k \in DOMAIN s : t[k] = s[k], t[Len(s) + 1] = e, NEW b
  PROVE  Cardinality(Places(t, b)) = Cardinality(Places(s, b)) + One(e, b)
<1> DEFINE n == Len(s) + 1
           S == Places(s, b)
<1>1. Len(s) \in Nat /\ DOMAIN s = 1..Len(s)
  BY ListFacts
<1>2. IsFiniteSet(S) /\ Cardinality(S) \in Nat
  BY PlacesFinite
<1>3. n \notin DOMAIN s /\ DOMAIN t = DOMAIN s \union {n}
  BY <1>1
<1>4. n \notin S
  BY <1>3 DEF Places
<1>5. CASE e.batch = b
  <2>1. Places(t, b) = S \union {n}
    BY <1>3, <1>5 DEF Places
  <2>2. Cardinality(S \union {n}) = Cardinality(S) + 1
    BY <1>2, <1>4, FS_AddElement
  <2>. QED  BY <1>5, <2>1, <2>2 DEF One
<1>6. CASE e.batch # b
  <2>1. Places(t, b) = S
    BY <1>3, <1>6 DEF Places
  <2>. QED  BY <1>2, <1>6, <2>1 DEF One
<1>. QED  BY <1>5, <1>6

(* ... or at the start.                                                    *)
LEMMA PlacesStart ==
  ASSUME NEW s, IsList(s), NEW t, NEW e, Follows(t, e, s), NEW b
  PROVE  Cardinality(Places(t, b)) = Cardinality(Places(s, b)) + One(e, b)
<1> DEFINE n == Len(s)
           S == Places(s, b)
           T == Places(t, b)
           U == T \ {1}
<1>1. /\ n \in Nat /\ DOMAIN s = 1..n /\ IsList(t) /\ DOMAIN t = 1..(n + 1) /\ t[1] = e
      /\ \A k \in 1..n : t[k + 1] = s[k]
  BY ListFacts DEF Follows
<1>2. IsFiniteSet(S) /\ Cardinality(S) \in Nat /\ IsFiniteSet(T) /\ Cardinality(T) \in Nat
  BY <1>1, PlacesFinite
<1>3. IsFiniteSet(U) /\ Cardinality(U) = IF 1 \in T THEN Cardinality(T) - 1 ELSE Cardinality(T)
  BY <1>2, FS_RemoveElement
<1>4. 1 \in T <=> e.batch = b
  BY <1>1 DEF Places
<1> DEFINE f == [k \in S |-> k + 1]
           g == [k \in U |-> k - 1]
<1>5. \A k \in S : k \in 1..n /\ k + 1 \in U
  BY <1>1 DEF Places
<1>6. \A k \in U : k \in 2..(n + 1) /\ k - 1 \in S
  <2>1. ASSUME NEW k \in U
        PROVE  k \in 2..(n + 1) /\ k - 1 \in S
    <3>1. k \in 1..(n + 1) /\ k # 1 /\ t[k].batch = b
      BY <1>1 DEF Places
    <3>2. k - 1 \in 1..n /\ (k - 1) + 1 = k
      BY <1>1, <3>1
    <3>3. t[k] = s[k - 1]
      BY <1>1, <3>2
    <3>. QED  BY <1>1, <3>1, <3>2, <3>3 DEF Places
  <2>. QED  BY <2>1
<1> HIDE DEF S, T, U
<1>7. f \in [S -> U] /\ \A j, k \in S : f[j] = f[k] => j = k
  BY <1>1, <1>5
<1>8. g \in [U -> S] /\ \A j, k \in U : g[j] = g[k] => j = k
  BY <1>1, <1>6
<1> HIDE DEF f, g
<1>9. Cardinality(S) = Cardinality(U)
  BY <1>2, <1>3, <1>7, <1>8, SameSize
<1>10. Cardinality(T) = Cardinality(S) + One(e, b)
  BY <1>2, <1>3, <1>4, <1>9 DEF One
<1>. QED  BY <1>10 DEF S, T

(* All the transactions of a batch, mined or not.                          *)
Written(b) == Cardinality(Sent(b)) + Cardinality(InBlocks(b))

(* They are those of the mempool and those of the blocks.                  *)
LEMMA WrittenPlaces ==
  ASSUME ChainShape, NEW b
  PROVE  /\ Written(b) \in Nat
         /\ Cardinality(Places(mempool, b)) \in Nat /\ Cardinality(Places(blocks, b)) \in Nat
         /\ Written(b) = Cardinality(Places(mempool, b)) + Cardinality(Places(blocks, b))
<1>1. Sent(b) = Places(mempool, b) /\ InBlocks(b) = Places(blocks, b)
  BY DEF Sent, InBlocks, Places
<1>2. Cardinality(Places(mempool, b)) \in Nat /\ Cardinality(Places(blocks, b)) \in Nat
  BY PlacesFinite DEF ChainShape
<1>. QED  BY <1>1, <1>2 DEF Written

(* The chain moves transactions and makes none.                            *)
LEMMA ChainMoves ==
  ASSUME ChainShape, Mine \/ Deepen \/ Reorg, NEW b
  PROVE  Written(b)' = Written(b)
<1> DEFINE m == Cardinality(Places(mempool, b))
           k == Cardinality(Places(blocks, b))
           m1 == Cardinality(Places(mempool', b))
           k1 == Cardinality(Places(blocks', b))
<1>0. ChainShape'
  BY MineChain, DeepenChain, ReorgChain
<1>1. m \in Nat /\ k \in Nat /\ Written(b) = m + k
  BY WrittenPlaces
<1>2. m1 \in Nat /\ k1 \in Nat
  BY <1>0, PlacesFinite DEF ChainShape
<1>3. Written(b)' = m1 + k1
  <2>1. Sent(b)' = Places(mempool', b) /\ InBlocks(b)' = Places(blocks', b)
    BY DEF Sent, InBlocks, Places
  <2>. QED  BY <2>1 DEF Written
<1>4. IsList(mempool) /\ IsList(blocks) /\ IsList(mempool') /\ IsList(blocks')
  BY <1>0 DEF ChainShape
<1>5. CASE Mine
  <2>1. PICK e : /\ mempool # << >> /\ mempool' = Tail(mempool)
                 /\ blocks' = Append(blocks, e) /\ e.batch = Head(mempool).batch
    BY <1>5, MineChain
  <2>2. k1 = k + One(e, b)
    <3>1. /\ DOMAIN blocks' = 1..(Len(blocks) + 1) /\ \A t \in DOMAIN blocks : blocks'[t] = blocks[t]
          /\ blocks'[Len(blocks) + 1] = e
      BY <1>4, <2>1, ListAppend
    <3>. QED  BY <1>4, <3>1, PlacesEnd
  <2>3. m = m1 + One(Head(mempool), b)
    <3>1. Follows(mempool, Head(mempool), mempool')
      <4>1. /\ Len(mempool) \in Nat \ {0} /\ Len(mempool') = Len(mempool) - 1
            /\ \A j \in 1..(Len(mempool) - 1) : mempool'[j] = mempool[j + 1]
            /\ Head(mempool) = mempool[1] /\ DOMAIN mempool = 1..Len(mempool)
        BY <1>4, <2>1, ListTail, ListFacts
      <4>. QED  BY <1>4, <4>1 DEF Follows
    <3>. QED  BY <1>4, <3>1, PlacesStart
  <2>4. One(Head(mempool), b) = One(e, b) /\ One(e, b) \in Nat
    BY <2>1 DEF One
  <2> HIDE DEF m, k, m1, k1
  <2>. QED  BY <1>1, <1>2, <1>3, <2>2, <2>3, <2>4
<1>6. CASE Deepen
  <2>1. /\ mempool' = mempool /\ DOMAIN blocks' = DOMAIN blocks
        /\ \A t \in DOMAIN blocks : blocks'[t].batch = blocks[t].batch
    BY <1>6, DeepenChain
  <2>2. Places(blocks', b) = Places(blocks, b)
    BY <2>1 DEF Places
  <2>. QED  BY <1>1, <1>3, <2>1, <2>2
<1>7. CASE Reorg
  <2> DEFINE tx == blocks[Len(blocks)]
  <2>1. PICK e : /\ blocks # << >> /\ blocks' = SubSeq(blocks, 1, Len(blocks) - 1)
                 /\ mempool' = <<e>> \o mempool /\ e.batch = tx.batch
    BY <1>7, ReorgChain
  <2>2. m1 = m + One(e, b)
    <3>1. Follows(mempool', e, mempool)
      BY <1>4, <2>1, ListCons, Zenon
    <3>. QED  BY <1>4, <3>1, PlacesStart
  <2>3. k = k1 + One(tx, b)
    <3>0. blocks # << >> /\ blocks' = SubSeq(blocks, 1, Len(blocks) - 1) /\ IsList(blocks)
      BY <1>4, <2>1
    <3>1. /\ Len(blocks) \in Nat \ {0} /\ Len(blocks') = Len(blocks) - 1
          /\ DOMAIN blocks' = 1..(Len(blocks) - 1) /\ DOMAIN blocks = 1..Len(blocks)
          /\ \A j \in 1..(Len(blocks) - 1) : blocks'[j] = blocks[j]
      BY <3>0, ListFront, ListFacts
    <3>2. /\ DOMAIN blocks = 1..(Len(blocks') + 1) /\ \A t \in DOMAIN blocks' : blocks[t] = blocks'[t]
          /\ blocks[Len(blocks') + 1] = tx
      BY <3>1
    <3>. QED  BY <1>4, <3>2, PlacesEnd
  <2>4. One(tx, b) = One(e, b) /\ One(e, b) \in Nat
    BY <2>1 DEF One
  <2> HIDE DEF m, k, m1, k1, tx
  <2>. QED  BY <1>1, <1>2, <1>3, <2>2, <2>3, <2>4
<1>. QED  BY <1>5, <1>6, <1>7
-----------------------------------------------------------------------------
(* The contract accepts one transaction of a batch; and while no session   *)
(* of the lock is lost, a batch has no more transactions than attempts     *)
(* counted, and fewer before the one that an execution is about to send.   *)
AcceptedOnce ==
  \A t, u \in DOMAIN blocks :
    blocks[t].ok /\ blocks[u].ok /\ blocks[t].batch = blocks[u].batch => t = u

Within(attempts, written) == attempts \in 0..MaxRetries /\ written <= attempts

Fits(w, attempts, written) ==
  w.pc \notin {"idle", "claiming", "discarding"} =>
    /\ w.copy.attempts = attempts
    /\ w.pc = "ready" => attempts < MaxRetries
    /\ w.pc \in {"reading", "sending"} => written < attempts

Budgeted ==
  ~lockLost =>
    /\ \A b \in DOMAIN batches : Within(batches[b].attempts, Written(b))
    /\ \A i \in Instances : Fits(work[i], batches[work[i].batch].attempts, Written(work[i].batch))

(* No step makes the contract accept a batch a second time.                *)
LEMMA AcceptedOnceStep ==
  ASSUME ChainShape, AcceptedOnce, [AnchoringNext]_anchorVars
  PROVE  AcceptedOnce'
<1>0. IsList(blocks)
  BY DEF ChainShape
<1>1. CASE Mine
  <2>1. PICK e : blocks' = Append(blocks, e) /\ (e.ok = ~IsAnchored(e.batch) \/ e.ok = FALSE)
    BY <1>1, MineChain
  <2>2. e.ok => \A t \in DOMAIN blocks : ~(blocks[t].ok /\ blocks[t].batch = e.batch)
    BY <2>1 DEF IsAnchored
  <2>3. /\ DOMAIN blocks' = 1..(Len(blocks) + 1) /\ Len(blocks) \in Nat /\ DOMAIN blocks = 1..Len(blocks)
        /\ \A k \in DOMAIN blocks : blocks'[k] = blocks[k]
        /\ blocks'[Len(blocks) + 1] = e
    BY <1>0, <2>1, ListAppend, ListFacts
  <2>4. \A t \in DOMAIN blocks' : t \in DOMAIN blocks \/ t = Len(blocks) + 1
    BY <2>3
  <2>. QED  BY <2>2, <2>3, <2>4 DEF AcceptedOnce
<1>2. CASE Deepen
  BY <1>2, DeepenChain DEF AcceptedOnce
<1>3. CASE Reorg
  <2>1. blocks # << >> /\ blocks' = SubSeq(blocks, 1, Len(blocks) - 1)
    BY <1>3, ReorgChain
  <2>2. /\ DOMAIN blocks' = 1..(Len(blocks) - 1) /\ DOMAIN blocks = 1..Len(blocks)
        /\ Len(blocks) \in Nat /\ \A k \in 1..(Len(blocks) - 1) : blocks'[k] = blocks[k]
    BY <1>0, <2>1, ListFront, ListFacts
  <2>3. \A t \in DOMAIN blocks' : t \in DOMAIN blocks /\ blocks'[t] = blocks[t]
    BY <2>2
  <2>. QED  BY <2>3 DEF AcceptedOnce
<1>4. CASE blocks' = blocks
  BY <1>4 DEF AcceptedOnce
<1>5. ASSUME NEW i \in Instances, InstanceStep(i) \/ InstanceFault(i)
      PROVE  blocks' = blocks
  BY <1>5 DEF InstanceStep, InstanceFault, Begin, Resume, DiscardIncomplete, DiscardItems, Constitute,
              NothingToAnchor, Attempt, Read, Send, Receive, Finalize, RecordFailure,
              NodeFails, Stop, LoseLock
<1>6. CASE RecordClosure \/ Alter \/ UNCHANGED anchorVars
  BY <1>4, <1>6 DEF RecordClosure, Alter, anchorVars
<1>. QED  BY <1>1, <1>2, <1>3, <1>4, <1>5, <1>6 DEF AnchoringNext

(* Only one execution is under way while the lock is held.                 *)
LEMMA Alone ==
  ASSUME AnchoringInv, ~lockLost, NEW i \in Instances, work[i].pc # "idle",
         NEW j \in Instances, j # i
  PROVE  work[j].pc = "idle"
BY DEF AnchoringInv, Exclusive

(* The invariant after an execution, alone, changed its memory to w.       *)
LEMMA AloneFits ==
  ASSUME AnchoringInv, ~lockLost, NEW i \in Instances, work[i].pc # "idle",
         NEW w, work' = [work EXCEPT ![i] = w],
         Fits(w, batches'[w.batch].attempts, Written(w.batch)'),
         \A b \in DOMAIN batches' : Within(batches'[b].attempts, Written(b)')
  PROVE  Budgeted'
<1>1. DOMAIN work = Instances
  BY DEF AnchoringInv, Shapes
<1>2. \A j \in Instances : j # i => work'[j] = work[j] /\ work[j].pc = "idle"
  BY <1>1, Alone
<1>3. work'[i] = w
  BY <1>1
<1>4. ASSUME NEW j \in Instances
      PROVE  Fits(work'[j], batches'[work'[j].batch].attempts, Written(work[j].batch)')
  <2>1. CASE j = i
    <3>1. Written(work[i].batch)' = Written(w.batch)'
      BY <1>3 DEF Written, Sent, InBlocks
    <3>. QED  BY <1>3, <2>1, <3>1
  <2>2. CASE j # i
    BY <1>2, <2>2 DEF Fits
  <2>. QED  BY <2>1, <2>2
<1>. QED  BY <1>4 DEF Budgeted
(* What is known of the batch an execution works on.                       *)
LEMMA InBudget ==
  ASSUME AnchoringInv, ChainShape, Budgeted, ~lockLost, NEW i \in Instances, Busy(i)
  PROVE  /\ work[i].batch \in DOMAIN batches
         /\ work[i].copy.attempts = batches[work[i].batch].attempts
         /\ Within(work[i].copy.attempts, Written(work[i].batch))
         /\ work[i].pc = "ready" => work[i].copy.attempts < MaxRetries
         /\ work[i].pc \in {"reading", "sending"} => Written(work[i].batch) < work[i].copy.attempts
         /\ DOMAIN work[i] = WorkFields /\ DOMAIN work[i].copy = BatchFields
<1>1. /\ work[i].batch \in DOMAIN batches
      /\ DOMAIN work[i] = WorkFields /\ DOMAIN work[i].copy = BatchFields
  BY DEF AnchoringInv, Shapes
<1>2. /\ Within(batches[work[i].batch].attempts, Written(work[i].batch))
      /\ Fits(work[i], batches[work[i].batch].attempts, Written(work[i].batch))
  BY <1>1 DEF Budgeted
<1>. QED  BY <1>1, <1>2 DEF Fits, Busy

(* The steps that neither write a batch nor send.                          *)
LEMMA BudgetedQuietly ==
  ASSUME AnchoringInv, ChainShape, Budgeted, ~lockLost, NEW i \in Instances,
         \/ Resume(i) \/ DiscardItems(i) \/ NothingToAnchor(i) \/ Stop(i)
         \/ Read(i) \/ Receive(i) \/ NodeFails(i)
  PROVE  Budgeted'
<1>1. batches' = batches /\ mempool' = mempool /\ blocks' = blocks /\ work[i].pc # "idle"
  BY DEF Resume, DiscardItems, NothingToAnchor, Stop, Read, Receive, NodeFails
<1>2. \A b : Written(b)' = Written(b)
  BY <1>1 DEF Written, Sent, InBlocks
<1>3. \A b \in DOMAIN batches' : Within(batches'[b].attempts, Written(b)')
  BY <1>1, <1>2 DEF Budgeted
<1>4. ASSUME NEW w, work' = [work EXCEPT ![i] = w],
             Fits(w, batches[w.batch].attempts, Written(w.batch))
      PROVE  Budgeted'
  <2>1. Fits(w, batches'[w.batch].attempts, Written(w.batch)')
    BY <1>1, <1>2, <1>4
  <2>. QED  BY <1>1, <1>3, <1>4, <2>1, AloneFits
<1>5. CASE DiscardItems(i) \/ NothingToAnchor(i) \/ Stop(i)
  <2>1. PICK w : work' = [work EXCEPT ![i] = w] /\ w.pc \in {"idle", "claiming"}
    BY <1>5 DEF DiscardItems, NothingToAnchor, Stop, Leave, Idle
  <2>. QED  BY <1>4, <2>1 DEF Fits
<1>6. CASE Resume(i)
  <2>1. PICK b \in DOMAIN batches :
          work' = [work EXCEPT ![i] =
                     [pc |-> FirstStep(b), batch |-> b, copy |-> batches[b], receipt |-> FALSE]]
    BY <1>6 DEF Resume
  <2>2. PICK w : /\ work' = [work EXCEPT ![i] = w]
                 /\ w.pc = FirstStep(b) /\ w.batch = b /\ w.copy = batches[b]
    <3> DEFINE w == [pc |-> FirstStep(b), batch |-> b, copy |-> batches[b], receipt |-> FALSE]
    <3>1. /\ work' = [work EXCEPT ![i] = w]
          /\ w.pc = FirstStep(b) /\ w.batch = b /\ w.copy = batches[b]
      BY <2>1
    <3> HIDE DEF w
    <3>. QED  BY <3>1
  <2>3. batches[b].attempts \in 0..MaxRetries /\ MaxRetries \in Nat
    BY AnchoringBounds DEF Budgeted, Within
  <2>4. w.pc \in {"refuted", "lastReading", "ready"} /\ (w.pc = "ready" => ~(batches[b].attempts >= MaxRetries))
    BY <2>2 DEF FirstStep
  <2>5. w.pc = "ready" => batches[b].attempts < MaxRetries
    BY <2>3, <2>4
  <2>6. Fits(w, batches[w.batch].attempts, Written(w.batch))
    BY <2>2, <2>4, <2>5 DEF Fits
  <2>. QED  BY <1>4, <2>2, <2>6
<1>7. CASE Read(i) \/ Receive(i) \/ NodeFails(i)
  <2>1. Busy(i)
    BY <1>7 DEF Read, Receive, NodeFails, Busy
  <2>2. PICK w : /\ work' = [work EXCEPT ![i] = w]
                 /\ w.batch = work[i].batch /\ w.copy = work[i].copy
                 /\ \/ w.pc \in {"finalizing", "failing", "refuted"}
                    \/ w.pc = "sending" /\ work[i].pc = "reading"
    <3>0. DOMAIN work[i] = WorkFields
      BY DEF AnchoringInv, Shapes
    <3>1. CASE Read(i) \/ NodeFails(i)
      <4>1. Recovered(i) \in {"finalizing", "refuted"}
        BY DEF Recovered
      <4>2. PICK p : /\ work' = [work EXCEPT ![i].pc = p]
                     /\ \/ p \in {"finalizing", "failing", "refuted"}
                        \/ p = "sending" /\ work[i].pc = "reading"
        BY <3>1, <4>1 DEF Read, NodeFails, To
      <4> DEFINE w == [work[i] EXCEPT !.pc = p]
      <4>3. /\ work' = [work EXCEPT ![i] = w] /\ w.pc = p
            /\ w.batch = work[i].batch /\ w.copy = work[i].copy
        BY <3>0, <4>2 DEF WorkFields
      <4> HIDE DEF w
      <4>. QED  BY <4>2, <4>3
    <3>2. CASE Receive(i)
      <4>1. PICK t \in DOMAIN blocks :
              work' = [work EXCEPT ![i] =
                         [work[i] EXCEPT !.pc = IF blocks[t].ok THEN "finalizing" ELSE "failing",
                                         !.receipt = blocks[t].ok]]
        BY <3>2 DEF Receive
      <4> DEFINE p == IF blocks[t].ok THEN "finalizing" ELSE "failing"
                 w == [work[i] EXCEPT !.pc = p, !.receipt = blocks[t].ok]
      <4>2. /\ work' = [work EXCEPT ![i] = w] /\ w.pc = p
            /\ w.batch = work[i].batch /\ w.copy = work[i].copy
        BY <3>0, <4>1 DEF WorkFields
      <4> HIDE DEF w
      <4>. QED  BY <4>1, <4>2
    <3>. QED  BY <1>7, <3>1, <3>2
  <2>3. Fits(w, batches[w.batch].attempts, Written(w.batch))
    BY <2>1, <2>2, InBudget DEF Fits
  <2>. QED  BY <1>4, <2>2, <2>3
<1>. QED  BY <1>5, <1>6, <1>7

(* The steps that write a stored batch.                                    *)
LEMMA BudgetedWriting ==
  ASSUME AnchoringInv, ChainShape, Budgeted, ~lockLost, NEW i \in Instances,
         DiscardIncomplete(i) \/ Attempt(i) \/ Finalize(i) \/ RecordFailure(i)
  PROVE  Budgeted'
<1>1. mempool' = mempool /\ blocks' = blocks /\ work[i].pc # "idle"
  BY DEF DiscardIncomplete, Attempt, Finalize, RecordFailure
<1>2. \A b : Written(b)' = Written(b) /\ Written(b) \in Nat
  BY <1>1, WrittenPlaces DEF Written, Sent, InBlocks
<1>3. MaxRetries \in Nat
  BY AnchoringBounds
<1>4. ASSUME NEW w, work' = [work EXCEPT ![i] = w], NEW b \in DOMAIN batches, NEW c,
             batches' = [batches EXCEPT ![b] = c], Within(c.attempts, Written(b)),
             Fits(w, batches'[w.batch].attempts, Written(w.batch))
      PROVE  Budgeted'
  <2>1. \A k \in DOMAIN batches' : Within(batches'[k].attempts, Written(k)')
    BY <1>2, <1>4 DEF Budgeted
  <2>2. Fits(w, batches'[w.batch].attempts, Written(w.batch)')
    BY <1>2, <1>4
  <2>. QED  BY <1>1, <1>4, <2>1, <2>2, AloneFits
<1>5. CASE DiscardIncomplete(i)
  <2>1. PICK b \in DOMAIN batches :
          /\ batches' = [batches EXCEPT ![b].status = "FAILED"]
          /\ work' = [work EXCEPT ![i] = [Idle EXCEPT !.pc = "discarding", !.batch = b]]
    BY <1>5 DEF DiscardIncomplete
  <2>2. PICK w : work' = [work EXCEPT ![i] = w] /\ w.pc = "discarding"
    <3> DEFINE w == [Idle EXCEPT !.pc = "discarding", !.batch = b]
    <3>1. work' = [work EXCEPT ![i] = w] /\ w.pc = "discarding"
      BY <2>1 DEF Idle
    <3> HIDE DEF w
    <3>. QED  BY <3>1
  <2>3. PICK c : batches' = [batches EXCEPT ![b] = c] /\ c.attempts = batches[b].attempts
    <3> DEFINE c == [batches[b] EXCEPT !.status = "FAILED"]
    <3>1. batches' = [batches EXCEPT ![b] = c] /\ c.attempts = batches[b].attempts
      BY <2>1 DEF AnchoringInv, Shapes, BatchFields
    <3> HIDE DEF c
    <3>. QED  BY <3>1
  <2>4. Within(c.attempts, Written(b))
    BY <2>3 DEF Budgeted
  <2>. QED  BY <1>4, <2>2, <2>3, <2>4 DEF Fits
<1>6. CASE Attempt(i)
  <2>1. Busy(i) /\ work[i].pc = "ready"
    BY <1>6 DEF Attempt, Busy
  <2>2. /\ work[i].batch \in DOMAIN batches /\ work[i].copy.attempts < MaxRetries
        /\ Within(work[i].copy.attempts, Written(work[i].batch))
        /\ DOMAIN work[i] = WorkFields /\ DOMAIN work[i].copy = BatchFields
    BY <2>1, InBudget
  <2>3. PICK c : c = Attempted(work[i].copy)
    OBVIOUS
  <2>4. c.attempts = work[i].copy.attempts + 1
    BY <2>2, <2>3 DEF Attempted, BatchFields
  <2>5. PICK w : /\ work' = [work EXCEPT ![i] = w]
                 /\ w.pc = "reading" /\ w.batch = work[i].batch /\ w.copy = c
    <3> DEFINE w == [work[i] EXCEPT !.pc = "reading", !.copy = c]
    <3>1. /\ work' = [work EXCEPT ![i] = w]
          /\ w.pc = "reading" /\ w.batch = work[i].batch /\ w.copy = c
      BY <1>6, <2>2, <2>3 DEF Attempt, WorkFields
    <3> HIDE DEF w
    <3>. QED  BY <3>1
  <2>6. batches' = [batches EXCEPT ![work[i].batch] = c]
    BY <1>6, <2>3 DEF Attempt, Save
  <2>7. Within(c.attempts, Written(work[i].batch)) /\ Written(work[i].batch) < c.attempts
    BY <1>2, <1>3, <2>2, <2>4 DEF Within
  <2>8. Fits(w, batches'[w.batch].attempts, Written(w.batch))
    BY <2>2, <2>5, <2>6, <2>7 DEF Fits
  <2>. QED  BY <1>4, <2>2, <2>5, <2>6, <2>7, <2>8
<1>7. CASE Finalize(i) \/ RecordFailure(i)
  <2>1. Busy(i)
    BY <1>7 DEF Finalize, RecordFailure, Busy
  <2>2. /\ work[i].batch \in DOMAIN batches /\ Within(work[i].copy.attempts, Written(work[i].batch))
        /\ DOMAIN work[i].copy = BatchFields
    BY <2>1, InBudget
  <2>3. work' = [work EXCEPT ![i] = Idle] /\ Idle.pc = "idle"
    BY <1>7 DEF Finalize, RecordFailure, Leave, Idle
  <2>4. PICK c : /\ batches' = [batches EXCEPT ![work[i].batch] = c]
                 /\ c.attempts = work[i].copy.attempts
    <3>1. CASE Finalize(i)
      <4> DEFINE c == [work[i].copy EXCEPT !.status = "ANCHORED", !.receipt = @ \/ work[i].receipt]
      <4>1. batches' = [batches EXCEPT ![work[i].batch] = c] /\ c.attempts = work[i].copy.attempts
        BY <2>2, <3>1 DEF Finalize, Save, BatchFields
      <4> HIDE DEF c
      <4>. QED  BY <4>1
    <3>2. CASE RecordFailure(i)
      <4> DEFINE exhausted == work[i].pc = "refuted" \/ work[i].copy.attempts >= MaxRetries
                 c == [work[i].copy EXCEPT !.status = IF exhausted THEN "FAILED" ELSE "PENDING"]
      <4>1. batches' = [batches EXCEPT ![work[i].batch] = c]
        BY <3>2 DEF RecordFailure, Save
      <4>2. c.attempts = work[i].copy.attempts
        BY <2>2 DEF BatchFields
      <4> HIDE DEF c
      <4>. QED  BY <4>1, <4>2
    <3>. QED  BY <1>7, <3>1, <3>2
  <2>. QED  BY <1>4, <2>2, <2>3, <2>4 DEF Fits
<1>. QED  BY <1>5, <1>6, <1>7
(* A new batch has no transaction yet, and all its attempts.               *)
LEMMA BudgetedConstitute ==
  ASSUME AnchoringInv, ChainShape, Budgeted, ~lockLost, NEW i \in Instances, Constitute(i)
  PROVE  Budgeted'
<1> DEFINE n == Len(batches) + 1
<1>1. PICK c : c = NewBatch(GatheredLeaves)
  OBVIOUS
<1>2. c.attempts = 0
  BY <1>1 DEF NewBatch
<1>3. PICK w : work' = [work EXCEPT ![i] = w] /\ w.pc = "ready" /\ w.batch = n /\ w.copy = c
  <2> DEFINE w == [pc |-> "ready", batch |-> n, copy |-> c, receipt |-> FALSE]
  <2>1. work' = [work EXCEPT ![i] = w] /\ w.pc = "ready" /\ w.batch = n /\ w.copy = c
    BY <1>1 DEF Constitute
  <2> HIDE DEF w, n
  <2>. QED  BY <2>1
<1>4. batches' = Append(batches, c) /\ mempool' = mempool /\ blocks' = blocks /\ work[i].pc # "idle"
  BY <1>1 DEF Constitute
<1>5. /\ Len(batches) \in Nat /\ DOMAIN batches = 1..Len(batches) /\ DOMAIN batches' = 1..n
      /\ \A b \in DOMAIN batches : batches'[b] = batches[b]
      /\ batches'[n] = c
  BY <1>4, ListAppend, ListFacts DEF AnchoringInv, Shapes
<1>6. \A b \in DOMAIN batches' : b = n \/ b \in DOMAIN batches
  BY <1>5
<1>7. n \notin DOMAIN batches
  BY <1>5
<1> HIDE DEF n
<1>8. \A b : Written(b)' = Written(b)
  BY <1>4 DEF Written, Sent, InBlocks
<1>9. Written(n) = 0
  <2>1. Sent(n) = {} /\ InBlocks(n) = {}
    BY <1>7 DEF Sent, InBlocks, ChainShape
  <2>. QED  BY <2>1, FS_EmptySet DEF Written
<1>10. MaxRetries \in Nat \ {0}
  BY AnchoringBounds
<1>11. \A b \in DOMAIN batches' : Within(batches'[b].attempts, Written(b)')
  <2>1. \A b \in DOMAIN batches : Within(batches'[b].attempts, Written(b))
    BY <1>5 DEF Budgeted
  <2>2. Within(batches'[n].attempts, Written(n))
    BY <1>2, <1>5, <1>9, <1>10 DEF Within
  <2>. QED  BY <1>6, <1>8, <2>1, <2>2
<1>12. Fits(w, batches'[w.batch].attempts, Written(w.batch)')
  <2>1. w.copy.attempts = 0 /\ batches'[w.batch].attempts = 0 /\ 0 < MaxRetries
    BY <1>2, <1>3, <1>5, <1>10
  <2>. QED  BY <1>3, <2>1 DEF Fits
<1>. QED  BY <1>3, <1>4, <1>11, <1>12, AloneFits

(* The transaction of the attempt that was counted.                        *)
LEMMA BudgetedSend ==
  ASSUME AnchoringInv, ChainShape, ChainShape', Budgeted, ~lockLost, NEW i \in Instances, Send(i)
  PROVE  Budgeted'
<1>1. PICK e : e = Transaction(i)
  OBVIOUS
<1>2. e.batch = work[i].batch
  BY <1>1 DEF Transaction
<1>3. /\ mempool' = mempool \/ mempool' = Append(mempool, e)
      /\ batches' = batches /\ blocks' = blocks /\ work[i].pc = "sending" /\ Busy(i)
  BY <1>1 DEF Send, Busy
<1>4. /\ work[i].batch \in DOMAIN batches /\ work[i].copy.attempts = batches[work[i].batch].attempts
      /\ Within(work[i].copy.attempts, Written(work[i].batch))
      /\ Written(work[i].batch) < work[i].copy.attempts /\ DOMAIN work[i] = WorkFields
  BY <1>3, InBudget
<1>5. PICK w : /\ work' = [work EXCEPT ![i] = w] /\ w.pc \in {"waiting", "failing"}
               /\ w.batch = work[i].batch /\ w.copy = work[i].copy
  <2>1. PICK p \in {"waiting", "failing"} : work' = [work EXCEPT ![i].pc = p]
    BY DEF Send, To
  <2> DEFINE w == [work[i] EXCEPT !.pc = p]
  <2>2. /\ work' = [work EXCEPT ![i] = w] /\ w.pc = p
        /\ w.batch = work[i].batch /\ w.copy = work[i].copy
    BY <1>4, <2>1 DEF WorkFields
  <2> HIDE DEF w
  <2>. QED  BY <2>1, <2>2
<1>6. \A b : Written(b) \in Nat
  BY WrittenPlaces
<1>7. \A b : Written(b)' = Written(b) \/ Written(b)' = Written(b) + One(e, b)
  <2> SUFFICES ASSUME NEW b
               PROVE  Written(b)' = Written(b) \/ Written(b)' = Written(b) + One(e, b)
    OBVIOUS
  <2>1. CASE mempool' = mempool
    BY <1>3, <2>1 DEF Written, Sent, InBlocks
  <2>2. CASE mempool' = Append(mempool, e)
    <3> DEFINE m == Cardinality(Places(mempool, b))
               k == Cardinality(Places(blocks, b))
               m1 == Cardinality(Places(mempool', b))
    <3>1. m \in Nat /\ k \in Nat /\ Written(b) = m + k
      BY WrittenPlaces
    <3>2. Written(b)' = m1 + k
      <4>1. Sent(b)' = Places(mempool', b) /\ InBlocks(b)' = Places(blocks, b)
        BY <1>3 DEF Sent, InBlocks, Places
      <4>. QED  BY <4>1 DEF Written
    <3>3. m1 = m + One(e, b)
      <4>1. /\ DOMAIN mempool' = 1..(Len(mempool) + 1) /\ IsList(mempool)
            /\ \A t \in DOMAIN mempool : mempool'[t] = mempool[t]
            /\ mempool'[Len(mempool) + 1] = e
        BY <2>2, ListAppend DEF ChainShape
      <4>. QED  BY <4>1, PlacesEnd
    <3>4. One(e, b) \in Nat
      BY DEF One
    <3> HIDE DEF m, k, m1
    <3>. QED  BY <3>1, <3>2, <3>3, <3>4
  <2>. QED  BY <1>3, <2>1, <2>2
<1>8. ASSUME NEW b \in DOMAIN batches
      PROVE  Within(batches[b].attempts, Written(b)')
  <2>1. Within(batches[b].attempts, Written(b))
    BY DEF Budgeted
  <2>2. CASE b = work[i].batch
    <3>1. One(e, b) = 1
      BY <1>2, <2>2 DEF One
    <3>2. /\ batches[b].attempts \in 0..MaxRetries /\ Written(b) < batches[b].attempts
          /\ MaxRetries \in Nat
      BY <1>4, <2>1, <2>2, AnchoringBounds DEF Within
    <3>3. Written(b) + 1 <= batches[b].attempts
      BY <1>6, <3>2
    <3>. QED  BY <1>7, <2>1, <3>1, <3>3 DEF Within
  <2>3. CASE b # work[i].batch
    <3>1. One(e, b) = 0
      BY <1>2, <2>3 DEF One
    <3>2. Written(b)' = Written(b)
      BY <1>6, <1>7, <3>1
    <3>. QED  BY <2>1, <3>2
  <2>. QED  BY <2>2, <2>3
<1>9. \A b \in DOMAIN batches' : Within(batches'[b].attempts, Written(b)')
  BY <1>3, <1>8
<1>10. Fits(w, batches'[w.batch].attempts, Written(w.batch)')
  BY <1>3, <1>4, <1>5 DEF Fits
<1>. QED  BY <1>3, <1>5, <1>9, <1>10, AloneFits

(* While no lock session is lost, every step keeps the transactions of a   *)
(* batch within its attempts.                                              *)
LEMMA BudgetedStep ==
  ASSUME AnchoringInv, ChainShape, ChainShape', Budgeted, [AnchoringNext]_anchorVars
  PROVE  Budgeted'
<1>1. lockLost' => Budgeted'
  BY DEF Budgeted
<1>2. SUFFICES ASSUME ~lockLost  PROVE Budgeted'
  <2>1. lockLost => lockLost'
    BY DEF AnchoringNext, InstanceStep, InstanceFault, Begin, Resume, DiscardIncomplete, DiscardItems,
           Constitute, NothingToAnchor, Attempt, Read, Send, Receive, Finalize, RecordFailure,
           NodeFails, Stop, LoseLock, RecordClosure, Alter, Mine, Deepen, Reorg, NoFault, Fault,
           anchorVars
  <2>. QED  BY <1>1, <1>2, <2>1
<1>3. ASSUME batches' = batches, \A b : Written(b)' = Written(b), work' = work
      PROVE  Budgeted'
  <2>1. \A b \in DOMAIN batches' : Within(batches'[b].attempts, Written(b)')
    BY <1>2, <1>3 DEF Budgeted
  <2>2. ASSUME NEW j \in Instances
        PROVE  Fits(work'[j], batches'[work'[j].batch].attempts, Written(work[j].batch)')
    <3>1. Written(work[j].batch)' = Written(work[j].batch)
      <4>1. PICK b : b = work[j].batch
        OBVIOUS
      <4>2. Written(work[j].batch)' = Written(b)'
        BY <1>3, <4>1 DEF Written, Sent, InBlocks
      <4>. QED  BY <1>3, <4>1, <4>2
    <3>. QED  BY <1>2, <1>3, <3>1 DEF Budgeted
  <2>. QED  BY <2>1, <2>2 DEF Budgeted
<1>4. CASE Mine \/ Deepen \/ Reorg
  <2>1. \A b : Written(b)' = Written(b)
    BY <1>4, ChainMoves
  <2>2. batches' = batches /\ work' = work
    BY <1>4 DEF Mine, Deepen, Reorg
  <2>. QED  BY <1>3, <2>1, <2>2
<1>5. CASE RecordClosure \/ Alter \/ UNCHANGED anchorVars
  <2>1. batches' = batches /\ work' = work /\ mempool' = mempool /\ blocks' = blocks
    BY <1>5 DEF RecordClosure, Alter, anchorVars
  <2>2. \A b : Written(b)' = Written(b)
    BY <2>1 DEF Written, Sent, InBlocks
  <2>. QED  BY <1>3, <2>1, <2>2
<1>6. ASSUME NEW i \in Instances, LoseLock(i)
      PROVE  Budgeted'
  <2>1. lockLost'
    BY <1>6 DEF LoseLock, Fault
  <2>. QED  BY <1>1, <2>1
<1>7. ASSUME NEW i \in Instances, Begin(i)
      PROVE  Budgeted'
  <2>1. /\ batches' = batches /\ mempool' = mempool /\ blocks' = blocks
        /\ work' = [work EXCEPT ![i].pc = "claiming"] /\ lock = Nobody
    BY <1>7 DEF Begin, To
  <2>2. \A j \in Instances : work[j].pc = "idle"
    BY <1>2, <2>1, AnchoringBounds DEF AnchoringInv, Exclusive
  <2>3. \A j \in Instances : work'[j].pc \in {"idle", "claiming"}
    BY <2>1, <2>2 DEF AnchoringInv, Shapes, WorkFields
  <2>4. \A b : Written(b)' = Written(b)
    BY <2>1 DEF Written, Sent, InBlocks
  <2>5. \A b \in DOMAIN batches' : Within(batches'[b].attempts, Written(b)')
    BY <1>2, <2>1, <2>4 DEF Budgeted
  <2>. QED  BY <2>3, <2>5 DEF Budgeted, Fits
<1>8. ASSUME NEW i \in Instances, InstanceStep(i) \/ InstanceFault(i)
      PROVE  Budgeted'
  BY <1>2, <1>6, <1>7, <1>8, BudgetedQuietly, BudgetedWriting, BudgetedConstitute, BudgetedSend
  DEF InstanceStep, InstanceFault
<1>. QED  BY <1>4, <1>5, <1>8 DEF AnchoringNext

(* For any number of instances, cases and faults: the contract accepts one *)
(* transaction of a batch at most, lost locks and reorganisations          *)
(* included; and while no session of the lock is lost, a batch costs       *)
(* ANCHOR_MAX_RETRIES transactions at most, whatever stops between the     *)
(* count of an attempt and its sending (anchorBatchItems, AuditAnchor).    *)
THEOREM WritesWithinBudgetHolds == AnchoringSpec => []WritesWithinBudget
<1> DEFINE Inv == AnchoringInv /\ ChainShape /\ AcceptedOnce /\ Budgeted
<1>1. AnchoringInit => Inv
  <2> SUFFICES ASSUME AnchoringInit  PROVE Inv
    OBVIOUS
  <2>1. << >> \in Seq({}) /\ DOMAIN << >> = {}
    OBVIOUS
  <2>2. ChainShape /\ AcceptedOnce
    BY <2>1, SequenceIsList DEF AnchoringInit, ChainShape, AcceptedOnce
  <2>3. Budgeted
    BY <2>1 DEF AnchoringInit, Budgeted, Fits, Idle
  <2>. QED  BY <2>2, <2>3, AnchoringInvInit
<1>2. Inv /\ [AnchoringNext]_anchorVars => Inv'
  BY AnchoringInvStep, ChainShapeStep, AcceptedOnceStep, BudgetedStep
<1>3. Inv => WritesWithinBudget
  <2> SUFFICES ASSUME Inv, NEW b \in DOMAIN batches
               PROVE  /\ ~lockLost => Cardinality(Sent(b)) + Cardinality(InBlocks(b)) <= MaxRetries
                      /\ Cardinality({t \in InBlocks(b) : blocks[t].ok}) <= 1
    BY DEF WritesWithinBudget
  <2>1. ~lockLost => Cardinality(Sent(b)) + Cardinality(InBlocks(b)) <= MaxRetries
    <3>1. ~lockLost => batches[b].attempts \in 0..MaxRetries /\ Written(b) <= batches[b].attempts
      BY DEF Budgeted, Within
    <3>2. MaxRetries \in Nat /\ Written(b) \in Nat
      BY AnchoringBounds, WrittenPlaces
    <3>3. ~lockLost => Written(b) <= MaxRetries
      BY <3>1, <3>2
    <3>. QED  BY <3>3 DEF Written
  <2>2. Cardinality({t \in InBlocks(b) : blocks[t].ok}) <= 1
    <3> DEFINE S == {t \in InBlocks(b) : blocks[t].ok}
    <3>1. \A t, u \in S : t = u
      BY DEF AcceptedOnce, InBlocks
    <3> HIDE DEF S
    <3>2. CASE S = {}
      BY <3>2, FS_EmptySet DEF S
    <3>3. CASE S # {}
      <4>0. PICK t : t \in S
        BY <3>3
      <4>1. S = {t}
        BY <3>1, <4>0
      <4>2. Cardinality(S) = 1
        BY <4>1, FS_Singleton
      <4>. QED  BY <4>2 DEF S
    <3>. QED  BY <3>2, <3>3
  <2>. QED  BY <2>1, <2>2
<1>. QED  BY <1>1, <1>2, <1>3, PTL DEF AnchoringSpec
-----------------------------------------------------------------------------
(***************************************************************************)
(* The roots and the proofs                                                *)
(***************************************************************************)

(* A fact is sealed as long as no batch has it, and the proof stored with  *)
(* a fact of a batch leads from its sealed leaf to the root of the batch.  *)
SealedLeaf(f) == ToLeaf(<<f, "sealed">>)

Proven(f) ==
  LET b == facts[f].batchId
  IN  IF b = 0
      THEN facts[f].content = "sealed"
      ELSE /\ IsList(facts[f].merkleProof)
           /\ VerifyProof(SealedLeaf(f), facts[f].merkleProof, batches[b].merkleRoot)

FactsRooted == \A f \in DOMAIN facts : Proven(f)

(* A copy in memory and a transaction carry the root of the stored batch.  *)
CopyRooted(w) == w.copy.merkleRoot = batches[w.batch].merkleRoot

CopiesRooted == \A i \in Instances : Busy(i) => CopyRooted(work[i])

TxRooted(tx) == tx.merkleRoot = batches[tx.batch].merkleRoot

ChainRooted ==
  /\ \A t \in DOMAIN mempool : TxRooted(mempool[t])
  /\ \A t \in DOMAIN blocks : TxRooted(blocks[t])

(* No step changes the root of a stored batch.                             *)
RootsKept ==
  /\ DOMAIN batches \subseteq DOMAIN batches'
  /\ \A b \in DOMAIN batches : batches'[b].merkleRoot = batches[b].merkleRoot
(* What an execution writes back has the root it read.                     *)
LEMMA SaveRoots ==
  ASSUME AnchoringInv, CopiesRooted, NEW i \in Instances, Busy(i), NEW c,
         c.merkleRoot = work[i].copy.merkleRoot,
         batches' = [batches EXCEPT ![work[i].batch] = c]
  PROVE  RootsKept
<1> DEFINE b == work[i].batch
<1>1. b \in DOMAIN batches
  BY DEF AnchoringInv, Shapes
<1>2. c.merkleRoot = batches[b].merkleRoot
  BY DEF CopiesRooted, CopyRooted
<1> HIDE DEF b
<1>3. batches' = [batches EXCEPT ![b] = c]
  BY DEF b
<1>. QED  BY <1>1, <1>2, <1>3 DEF RootsKept

(* The copies after a step that keeps the roots and changes one memory.    *)
LEMMA CopiesAfter ==
  ASSUME AnchoringInv, CopiesRooted, RootsKept, NEW i \in Instances, NEW w,
         work' = [work EXCEPT ![i] = w],
         \/ w.pc \in {"idle", "claiming", "discarding"}
         \/ w.copy.merkleRoot = batches'[w.batch].merkleRoot
  PROVE  CopiesRooted'
<1>1. \A j \in Instances : work'[j] = IF j = i THEN w ELSE work[j]
  BY DEF AnchoringInv, Shapes
<1>2. ASSUME NEW j \in Instances, Busy(j)'
      PROVE  work'[j].copy.merkleRoot = batches'[work'[j].batch].merkleRoot
  <2>1. CASE j = i
    <3>1. work'[j] = w
      BY <1>1, <2>1
    <3>. QED  BY <1>2, <3>1 DEF Busy
  <2>2. CASE j # i
    <3>1. work'[j] = work[j]
      BY <1>1, <2>2
    <3>2. Busy(j)
      BY <1>2, <3>1 DEF Busy
    <3>3. work[j].batch \in DOMAIN batches /\ work[j].copy.merkleRoot = batches[work[j].batch].merkleRoot
      BY <3>2 DEF AnchoringInv, Shapes, CopiesRooted, CopyRooted
    <3>4. batches'[work[j].batch].merkleRoot = batches[work[j].batch].merkleRoot
      BY <3>3 DEF RootsKept
    <3>. QED  BY <3>1, <3>3, <3>4
  <2>. QED  BY <2>1, <2>2
<1>3. \A j \in Instances : Busy(j)' => work'[j].copy.merkleRoot = batches'[work'[j].batch].merkleRoot
  BY <1>2
<1>. QED  BY <1>3 DEF CopiesRooted, CopyRooted

(* Every step keeps the roots of the batches and of their copies.          *)
LEMMA RootsStep ==
  ASSUME AnchoringInv, CopiesRooted, [AnchoringNext]_anchorVars
  PROVE  RootsKept /\ CopiesRooted'
<1>0. /\ DOMAIN work = Instances
      /\ \A i \in Instances : /\ DOMAIN work[i] = WorkFields
                              /\ Busy(i) => DOMAIN work[i].copy = BatchFields
                              /\ Busy(i) => work[i].batch \in DOMAIN batches
                              /\ Busy(i) => work[i].copy.merkleRoot = batches[work[i].batch].merkleRoot
  BY DEF AnchoringInv, Shapes, CopiesRooted, CopyRooted
<1>1. batches' = batches => RootsKept
  BY DEF RootsKept
<1>2. CASE \/ UNCHANGED anchorVars \/ Mine \/ Deepen \/ Reorg \/ RecordClosure \/ Alter
           \/ \E i \in Instances : LoseLock(i)
  <2>1. batches' = batches /\ work' = work
    BY <1>2 DEF anchorVars, Mine, Deepen, Reorg, RecordClosure, Alter, LoseLock
  <2>. QED  BY <1>1, <2>1 DEF CopiesRooted, CopyRooted, Busy
<1>3. ASSUME NEW i \in Instances, Begin(i) \/ NothingToAnchor(i) \/ Stop(i) \/ DiscardItems(i)
      PROVE  RootsKept /\ CopiesRooted'
  <2>1. batches' = batches
    BY <1>3 DEF Begin, NothingToAnchor, Stop, DiscardItems
  <2>2. PICK w : work' = [work EXCEPT ![i] = w] /\ w.pc \in {"idle", "claiming"}
    <3>1. CASE Begin(i)
      <4>1. work' = [work EXCEPT ![i] = [work[i] EXCEPT !.pc = "claiming"]]
        BY <3>1 DEF Begin, To
      <4>2. [work[i] EXCEPT !.pc = "claiming"].pc = "claiming"
        BY <1>0 DEF WorkFields
      <4>. QED  BY <4>1, <4>2
    <3>2. CASE DiscardItems(i) \/ NothingToAnchor(i) \/ Stop(i)
      BY <3>2 DEF DiscardItems, NothingToAnchor, Stop, Leave, Idle
    <3>. QED  BY <1>3, <3>1, <3>2
  <2>. QED  BY <1>1, <2>1, <2>2, CopiesAfter
<1>4. ASSUME NEW i \in Instances, Resume(i)
      PROVE  RootsKept /\ CopiesRooted'
  <2>1. PICK b \in DOMAIN batches :
          work' = [work EXCEPT ![i] =
                     [pc |-> FirstStep(b), batch |-> b, copy |-> batches[b], receipt |-> FALSE]]
    BY <1>4 DEF Resume
  <2> DEFINE w == [pc |-> FirstStep(b), batch |-> b, copy |-> batches[b], receipt |-> FALSE]
  <2>2. w.batch = b /\ w.copy = batches[b] /\ work' = [work EXCEPT ![i] = w]
    BY <2>1
  <2> HIDE DEF w
  <2>3. batches' = batches
    BY <1>4 DEF Resume
  <2>4. w.copy.merkleRoot = batches'[w.batch].merkleRoot
    BY <2>2, <2>3
  <2>. QED  BY <1>1, <2>2, <2>3, <2>4, CopiesAfter
<1>5. ASSUME NEW i \in Instances, DiscardIncomplete(i)
      PROVE  RootsKept /\ CopiesRooted'
  <2>1. PICK b \in DOMAIN batches :
          /\ batches' = [batches EXCEPT ![b].status = "FAILED"]
          /\ work' = [work EXCEPT ![i] = [Idle EXCEPT !.pc = "discarding", !.batch = b]]
    BY <1>5 DEF DiscardIncomplete
  <2> DEFINE w == [Idle EXCEPT !.pc = "discarding", !.batch = b]
  <2>2. w.pc = "discarding" /\ work' = [work EXCEPT ![i] = w]
    BY <2>1 DEF Idle
  <2> HIDE DEF w
  <2>3. RootsKept
    BY <2>1 DEF AnchoringInv, Shapes, BatchFields, RootsKept
  <2>. QED  BY <2>2, <2>3, CopiesAfter
<1>6. ASSUME NEW i \in Instances, Read(i) \/ Send(i) \/ NodeFails(i) \/ Receive(i)
      PROVE  RootsKept /\ CopiesRooted'
  <2>1. Busy(i) /\ batches' = batches
    BY <1>6 DEF Read, Send, NodeFails, Receive, Busy
  <2>2. PICK p, r : work' = [work EXCEPT ![i] = [work[i] EXCEPT !.pc = p, !.receipt = r]]
    <3>1. CASE Read(i) \/ Send(i) \/ NodeFails(i)
      <4>1. PICK p : work' = [work EXCEPT ![i].pc = p]
        BY <3>1 DEF Read, Send, NodeFails, To
      <4>2. [work[i] EXCEPT !.pc = p] = [work[i] EXCEPT !.pc = p, !.receipt = work[i].receipt]
        BY <1>0 DEF WorkFields
      <4>. QED  BY <4>1, <4>2
    <3>2. CASE Receive(i)
      BY <3>2 DEF Receive
    <3>. QED  BY <1>6, <3>1, <3>2
  <2> DEFINE w == [work[i] EXCEPT !.pc = p, !.receipt = r]
  <2>3. work' = [work EXCEPT ![i] = w] /\ w.batch = work[i].batch /\ w.copy = work[i].copy
    BY <1>0, <2>2 DEF WorkFields
  <2> HIDE DEF w
  <2>4. w.copy.merkleRoot = batches'[w.batch].merkleRoot
    BY <1>0, <2>1, <2>3
  <2>. QED  BY <1>1, <2>1, <2>3, <2>4, CopiesAfter
<1>7. ASSUME NEW i \in Instances, Attempt(i)
      PROVE  RootsKept /\ CopiesRooted'
  <2> DEFINE c == Attempted(work[i].copy)
             w == [work[i] EXCEPT !.pc = "reading", !.copy = c]
  <2>1. /\ Busy(i) /\ batches' = [batches EXCEPT ![work[i].batch] = c]
        /\ work' = [work EXCEPT ![i] = w]
    BY <1>7 DEF Attempt, Save, Busy
  <2>2. c.merkleRoot = work[i].copy.merkleRoot
    BY <1>0, <2>1 DEF Attempted, BatchFields
  <2>3. w.batch = work[i].batch /\ w.copy = c
    BY <1>0 DEF WorkFields
  <2> HIDE DEF c, w
  <2>4. RootsKept
    BY <2>1, <2>2, SaveRoots
  <2>5. w.copy.merkleRoot = batches'[w.batch].merkleRoot
    BY <1>0, <2>1, <2>3
  <2>. QED  BY <2>1, <2>4, <2>5, CopiesAfter
<1>8. ASSUME NEW i \in Instances, Finalize(i) \/ RecordFailure(i)
      PROVE  RootsKept /\ CopiesRooted'
  <2>1. Busy(i) /\ work' = [work EXCEPT ![i] = Idle] /\ Idle.pc = "idle"
    BY <1>8 DEF Finalize, RecordFailure, Leave, Idle, Busy
  <2>2. PICK c : /\ batches' = [batches EXCEPT ![work[i].batch] = c]
                 /\ c.merkleRoot = work[i].copy.merkleRoot
    <3>1. CASE Finalize(i)
      <4> DEFINE c == [work[i].copy EXCEPT !.status = "ANCHORED", !.receipt = @ \/ work[i].receipt]
      <4>1. batches' = [batches EXCEPT ![work[i].batch] = c]
        BY <3>1 DEF Finalize, Save
      <4>2. c.merkleRoot = work[i].copy.merkleRoot
        BY <1>0, <2>1 DEF BatchFields
      <4> HIDE DEF c
      <4>. QED  BY <4>1, <4>2
    <3>2. CASE RecordFailure(i)
      <4> DEFINE exhausted == work[i].pc = "refuted" \/ work[i].copy.attempts >= MaxRetries
                 c == [work[i].copy EXCEPT !.status = IF exhausted THEN "FAILED" ELSE "PENDING"]
      <4>1. batches' = [batches EXCEPT ![work[i].batch] = c]
        BY <3>2 DEF RecordFailure, Save
      <4>2. c.merkleRoot = work[i].copy.merkleRoot
        BY <1>0, <2>1 DEF BatchFields
      <4> HIDE DEF c
      <4>. QED  BY <4>1, <4>2
    <3>. QED  BY <1>8, <3>1, <3>2
  <2>3. RootsKept
    BY <2>1, <2>2, SaveRoots
  <2>. QED  BY <2>1, <2>3, CopiesAfter
<1>9. ASSUME NEW i \in Instances, Constitute(i)
      PROVE  RootsKept /\ CopiesRooted'
  <2> DEFINE c == NewBatch(GatheredLeaves)
             n == Len(batches) + 1
             w == [pc |-> "ready", batch |-> n, copy |-> c, receipt |-> FALSE]
  <2>1. batches' = Append(batches, c) /\ work' = [work EXCEPT ![i] = w]
    BY <1>9 DEF Constitute
  <2>2. w.batch = n /\ w.copy = c
    OBVIOUS
  <2> HIDE DEF c, w
  <2>3. /\ DOMAIN batches' = 1..n /\ Len(batches) \in Nat /\ DOMAIN batches = 1..Len(batches)
        /\ \A k \in DOMAIN batches : batches'[k] = batches[k]
        /\ batches'[n] = c
    BY <2>1, ListAppend, ListFacts DEF AnchoringInv, Shapes
  <2>4. RootsKept
    BY <2>3 DEF RootsKept
  <2> HIDE DEF n
  <2>5. w.copy.merkleRoot = batches'[w.batch].merkleRoot
    BY <2>2, <2>3
  <2>. QED  BY <2>1, <2>4, <2>5, CopiesAfter
<1>. QED  BY <1>2, <1>3, <1>4, <1>5, <1>6, <1>7, <1>8, <1>9
          DEF AnchoringNext, InstanceStep, InstanceFault
(* The facts after a step that gives none a place: a proof stays where it  *)
(* is, and only a fact of a batch may be altered.                          *)
LEMMA ProofsStay ==
  ASSUME AnchoringInv, FactsRooted, RootsKept,
         \A f \in DOMAIN facts : /\ facts'[f].batchId = facts[f].batchId
                                 /\ facts'[f].merkleProof = facts[f].merkleProof
                                 /\ facts'[f].content = facts[f].content \/ facts[f].batchId # 0,
         \A f \in DOMAIN facts' : f \in DOMAIN facts \/ (/\ facts'[f].batchId = 0
                                                         /\ facts'[f].content = "sealed")
  PROVE  FactsRooted'
<1>1. ASSUME NEW f \in DOMAIN facts' PROVE Proven(f)'
  <2>1. CASE f \notin DOMAIN facts
    BY <2>1 DEF Proven
  <2>2. CASE f \in DOMAIN facts /\ facts[f].batchId = 0
    <3>1. facts[f].content = "sealed"
      BY <2>2 DEF FactsRooted, Proven
    <3>2. facts'[f].batchId = 0 /\ facts'[f].content = "sealed"
      BY <2>2, <3>1
    <3>. QED  BY <3>2 DEF Proven
  <2>3. CASE f \in DOMAIN facts /\ facts[f].batchId # 0
    <3>1. facts[f].batchId \in 0..Len(batches) /\ DOMAIN batches = 1..Len(batches) /\ Len(batches) \in Nat
      BY <2>3, ListFacts DEF AnchoringInv, Shapes
    <3>2. facts[f].batchId \in DOMAIN batches
      BY <2>3, <3>1
    <3>3. batches'[facts[f].batchId].merkleRoot = batches[facts[f].batchId].merkleRoot
      BY <3>2 DEF RootsKept
    <3>4. /\ IsList(facts[f].merkleProof)
          /\ VerifyProof(SealedLeaf(f), facts[f].merkleProof, batches[facts[f].batchId].merkleRoot)
      BY <2>3 DEF FactsRooted, Proven
    <3>5. facts'[f].batchId = facts[f].batchId /\ facts'[f].merkleProof = facts[f].merkleProof
      BY <2>3
    <3>6. /\ IsList(facts'[f].merkleProof)
          /\ VerifyProof(SealedLeaf(f), facts'[f].merkleProof, batches'[facts'[f].batchId].merkleRoot)
      BY <3>3, <3>4, <3>5
    <3>7. facts'[f].batchId # 0
      BY <2>3, <3>5
    <3>. QED  BY <3>6, <3>7 DEF Proven, SealedLeaf
  <2>. QED  BY <2>1, <2>2, <2>3
<1>. QED  BY <1>1 DEF FactsRooted

(* The proofs of a new batch: the leaf at the rank of a closure is its     *)
(* own, so the proof of that rank leads from it to the new root.           *)
LEMMA ConstituteProves ==
  ASSUME AnchoringInv, FactsRooted, RootsKept, NEW i \in Instances, Constitute(i)
  PROVE  FactsRooted'
<1> DEFINE n == Len(batches) + 1
           c == NewBatch(GatheredLeaves)
           k == Cardinality(Gathered)
           taken(f) == [facts[f] EXCEPT !.batchId = n, !.leafIndex = Rank(f),
                                        !.merkleProof = GetProof(GatheredLeaves, Rank(f))]
<1>1. batches' = Append(batches, c)
  BY DEF Constitute
<1>2. facts' = [f \in DOMAIN facts |-> IF f \in Gathered THEN taken(f) ELSE facts[f]]
  BY DEF Constitute
<1>3. /\ k \in Nat /\ {Rank(f) : f \in Gathered} = 1..k
      /\ \A f, g \in Gathered : Rank(f) = Rank(g) => f = g
  BY GatheredRanks DEF AnchoringInv
<1>4. IsList(GatheredLeaves) /\ Len(GatheredLeaves) = k
  <2> DEFINE s == GatheredLeaves
  <2>1. DOMAIN s = 1..k /\ s = [j \in DOMAIN s |-> s[j]]
    BY DEF GatheredLeaves
  <2> HIDE DEF s
  <2>2. IsList(s) /\ Len(s) = k
    BY <1>3, <2>1, FunctionIsList
  <2>. QED  BY <2>2 DEF s
<1>5. c.merkleRoot = Root(GatheredLeaves)
  BY DEF NewBatch
<1>6. \A f \in DOMAIN facts :
        taken(f).batchId = n /\ taken(f).merkleProof = GetProof(GatheredLeaves, Rank(f))
  BY DEF AnchoringInv, Shapes, FactFields
<1> HIDE DEF c, taken
<1>7. /\ Len(batches) \in Nat /\ DOMAIN batches = 1..Len(batches) /\ batches'[n] = c
  BY <1>1, ListAppend, ListFacts DEF AnchoringInv, Shapes
<1>8. n # 0
  BY <1>7
<1>9. DOMAIN facts' = DOMAIN facts
      /\ \A f \in DOMAIN facts : facts'[f] = IF f \in Gathered THEN taken(f) ELSE facts[f]
  BY <1>2
<1> HIDE DEF n, k
<1>10. ASSUME NEW f \in Gathered
       PROVE  /\ f \in DOMAIN facts
              /\ GatheredLeaves[Rank(f)] = SealedLeaf(f) /\ Rank(f) \in 1..k
  <2>1. f \in DOMAIN facts /\ facts[f].batchId = 0
    BY DEF Gathered, Unclaimed
  <2>2. facts[f].content = "sealed"
    BY <2>1 DEF FactsRooted, Proven
  <2>3. Rank(f) \in 1..k
    BY <1>3
  <2>4. GatheredLeaves[Rank(f)] = Leaf(CHOOSE g \in Gathered : Rank(g) = Rank(f))
    BY <2>3 DEF GatheredLeaves, k
  <2>5. (CHOOSE g \in Gathered : Rank(g) = Rank(f)) = f
    BY <1>3
  <2>6. Leaf(f) = SealedLeaf(f)
    BY <2>2 DEF Leaf, SealedLeaf
  <2>. QED  BY <2>1, <2>3, <2>4, <2>5, <2>6
<1>11. ASSUME NEW f \in DOMAIN facts' PROVE Proven(f)'
  <2>1. CASE f \in Gathered
    <3> DEFINE r == Rank(f)
               leaves == GatheredLeaves
               p == GetProof(leaves, r)
    <3>1. IsList(leaves) /\ r \in 1..Len(leaves) /\ leaves[r] = SealedLeaf(f)
      BY <1>4, <1>10, <2>1
    <3>2. facts'[f].batchId = n /\ facts'[f].merkleProof = p /\ batches'[n].merkleRoot = Root(leaves)
      BY <1>5, <1>6, <1>7, <1>9, <1>10, <2>1
    <3> HIDE DEF r, leaves
    <3>3. IsList(p) /\ VerifyProof(SealedLeaf(f), p, Root(leaves))
      BY <3>1, ProofLeadsToRoot
    <3> HIDE DEF p
    <3>4. /\ IsList(facts'[f].merkleProof) /\ facts'[f].batchId # 0
          /\ VerifyProof(SealedLeaf(f), facts'[f].merkleProof, batches'[facts'[f].batchId].merkleRoot)
      BY <1>8, <3>2, <3>3
    <3>. QED  BY <3>4 DEF Proven, SealedLeaf
  <2>2. CASE f \notin Gathered
    <3>1. facts'[f] = facts[f] /\ f \in DOMAIN facts
      BY <1>9, <2>2
    <3>2. CASE facts[f].batchId = 0
      <4>1. facts[f].content = "sealed"
        BY <3>1, <3>2 DEF FactsRooted, Proven
      <4>. QED  BY <3>1, <3>2, <4>1 DEF Proven
    <3>3. CASE facts[f].batchId # 0
      <4>1. facts[f].batchId \in 0..Len(batches)
        BY <3>1 DEF AnchoringInv, Shapes
      <4>2. facts[f].batchId \in DOMAIN batches
        BY <1>7, <3>3, <4>1
      <4>3. batches'[facts[f].batchId].merkleRoot = batches[facts[f].batchId].merkleRoot
        BY <4>2 DEF RootsKept
      <4>4. /\ IsList(facts[f].merkleProof)
            /\ VerifyProof(SealedLeaf(f), facts[f].merkleProof, batches[facts[f].batchId].merkleRoot)
        BY <3>1, <3>3 DEF FactsRooted, Proven
      <4>5. /\ IsList(facts'[f].merkleProof) /\ facts'[f].batchId # 0
            /\ VerifyProof(SealedLeaf(f), facts'[f].merkleProof, batches'[facts'[f].batchId].merkleRoot)
        BY <3>1, <3>3, <4>3, <4>4
      <4>. QED  BY <4>5 DEF Proven, SealedLeaf
    <3>. QED  BY <3>2, <3>3
  <2>. QED  BY <2>1, <2>2
<1>. QED  BY <1>11 DEF FactsRooted

(* Every step keeps the proofs.                                            *)
LEMMA FactsRootedStep ==
  ASSUME AnchoringInv, FactsRooted, RootsKept, [AnchoringNext]_anchorVars
  PROVE  FactsRooted'
<1> DEFINE kept == /\ DOMAIN facts' = DOMAIN facts
                   /\ \A f \in DOMAIN facts : /\ facts'[f].batchId = facts[f].batchId
                                              /\ facts'[f].merkleProof = facts[f].merkleProof
                                              /\ facts'[f].content = facts[f].content
<1>1. kept => FactsRooted'
  <2> SUFFICES ASSUME kept PROVE FactsRooted'
    OBVIOUS
  <2>. QED  BY ProofsStay
<1>2. ASSUME NEW b, NEW s, facts' = MarkItems(b, s) PROVE kept
  <2>1. DOMAIN facts' = DOMAIN facts
    BY <1>2 DEF MarkItems
  <2>2. \A f \in DOMAIN facts :
          facts'[f] = IF f \in ItemsOf(b)
                      THEN [facts[f] EXCEPT !.anchorStatus = s, !.lineStatus = s]
                      ELSE facts[f]
    BY <1>2 DEF MarkItems
  <2>3. \A f \in DOMAIN facts : DOMAIN facts[f] = FactFields
    BY DEF AnchoringInv, Shapes
  <2>. QED  BY <2>1, <2>2, <2>3 DEF FactFields
<1>3. CASE facts' = facts
  BY <1>1, <1>3
<1>4. ASSUME NEW i \in Instances, DiscardItems(i) \/ Finalize(i) \/ RecordFailure(i)
      PROVE  FactsRooted'
  <2>1. facts' = facts \/ \E s : facts' = MarkItems(work[i].batch, s)
    BY <1>4 DEF DiscardItems, Finalize, RecordFailure
  <2>. QED  BY <1>1, <1>2, <1>3, <2>1
<1>5. CASE RecordClosure
  <2> DEFINE e == [anchorStatus |-> "PENDING", lineStatus |-> "NOT_SEALED", batchId |-> 0,
                   leafIndex |-> 0, merkleProof |-> << >>, content |-> "sealed"]
  <2>1. facts' = Append(facts, e)
    BY <1>5 DEF RecordClosure
  <2>2. e.batchId = 0 /\ e.content = "sealed"
    OBVIOUS
  <2> HIDE DEF e
  <2>3. /\ DOMAIN facts' = 1..(Len(facts) + 1) /\ Len(facts) \in Nat /\ DOMAIN facts = 1..Len(facts)
        /\ \A f \in DOMAIN facts : facts'[f] = facts[f]
        /\ facts'[Len(facts) + 1] = e
    BY <2>1, ListAppend, ListFacts DEF AnchoringInv, Shapes
  <2>4. \A f \in DOMAIN facts' : f \in DOMAIN facts \/ facts'[f] = e
    BY <2>3
  <2>. QED  BY <2>2, <2>3, <2>4, ProofsStay
<1>6. CASE Alter
  <2>1. PICK g \in DOMAIN facts, content \in {"altered", "erased"} :
          facts[g].batchId # 0 /\ facts' = [facts EXCEPT ![g].content = content]
    BY <1>6 DEF Alter
  <2>2. DOMAIN facts' = DOMAIN facts
    BY <2>1
  <2>3. \A f \in DOMAIN facts : /\ facts'[f].batchId = facts[f].batchId
                                /\ facts'[f].merkleProof = facts[f].merkleProof
                                /\ facts'[f].content = facts[f].content \/ facts[f].batchId # 0
    BY <2>1 DEF AnchoringInv, Shapes, FactFields
  <2>. QED  BY <2>2, <2>3, ProofsStay
<1>7. CASE UNCHANGED anchorVars \/ Mine \/ Deepen \/ Reorg
  BY <1>3, <1>7 DEF anchorVars, Mine, Deepen, Reorg
<1>8. ASSUME NEW i \in Instances,
             \/ Begin(i) \/ Resume(i) \/ DiscardIncomplete(i) \/ NothingToAnchor(i)
             \/ Attempt(i) \/ Read(i) \/ Send(i) \/ Receive(i)
             \/ NodeFails(i) \/ Stop(i) \/ LoseLock(i)
      PROVE  FactsRooted'
  <2>1. facts' = facts
    BY <1>8 DEF Begin, Resume, DiscardIncomplete, NothingToAnchor, Attempt, Read, Send, Receive,
                NodeFails, Stop, LoseLock
  <2>. QED  BY <1>3, <2>1
<1>. QED  BY <1>4, <1>5, <1>6, <1>7, <1>8, ConstituteProves
          DEF AnchoringNext, InstanceStep, InstanceFault
(* Every step keeps the roots of the transactions: they are sent with the  *)
(* root of the copy, mined as they were sent and taken back as mined.      *)
LEMMA ChainRootedStep ==
  ASSUME AnchoringInv, ChainShape, CopiesRooted, ChainRooted, RootsKept, [AnchoringNext]_anchorVars
  PROVE  ChainRooted'
<1>1. ASSUME NEW b \in DOMAIN batches PROVE batches'[b].merkleRoot = batches[b].merkleRoot
  BY DEF RootsKept
<1>2. ASSUME NEW tx, tx.batch \in DOMAIN batches, tx.merkleRoot = batches[tx.batch].merkleRoot
      PROVE  tx.merkleRoot = batches'[tx.batch].merkleRoot
  BY <1>1, <1>2
<1>3. ASSUME NEW t \in DOMAIN mempool
      PROVE  /\ mempool[t].batch \in DOMAIN batches
             /\ mempool[t].merkleRoot = batches[mempool[t].batch].merkleRoot
             /\ mempool[t].merkleRoot = batches'[mempool[t].batch].merkleRoot
  <2>1. mempool[t].batch \in DOMAIN batches /\ mempool[t].merkleRoot = batches[mempool[t].batch].merkleRoot
    BY DEF ChainShape, ChainRooted, TxRooted
  <2>. QED  BY <1>1, <2>1
<1>4. ASSUME NEW t \in DOMAIN blocks
      PROVE  /\ blocks[t].batch \in DOMAIN batches
             /\ blocks[t].merkleRoot = batches[blocks[t].batch].merkleRoot
             /\ blocks[t].merkleRoot = batches'[blocks[t].batch].merkleRoot
  <2>1. blocks[t].batch \in DOMAIN batches /\ blocks[t].merkleRoot = batches[blocks[t].batch].merkleRoot
    BY DEF ChainShape, ChainRooted, TxRooted
  <2>. QED  BY <1>1, <2>1
<1> DEFINE sent == \A t \in DOMAIN mempool' : mempool'[t].merkleRoot = batches'[mempool'[t].batch].merkleRoot
           mined == \A t \in DOMAIN blocks' : blocks'[t].merkleRoot = batches'[blocks'[t].batch].merkleRoot
<1>5. SUFFICES sent /\ mined
  BY DEF ChainRooted, TxRooted
<1>6. mempool' = mempool => sent
  BY <1>3
<1>7. blocks' = blocks => mined
  BY <1>4
<1>8. IsList(mempool) /\ IsList(blocks)
  BY DEF ChainShape
<1>9. CASE Mine
  <2>1. PICK e : /\ blocks' = Append(blocks, e) /\ e.batch = Head(mempool).batch
                 /\ e.merkleRoot = Head(mempool).merkleRoot
    BY <1>9, MineChain
  <2>2. mempool # << >> /\ mempool' = Tail(mempool)
    BY <1>9, MineChain
  <2>3. Head(mempool) = mempool[1] /\ 1 \in DOMAIN mempool
    BY <1>8, <2>2, ListTail, ListFacts
  <2>4. e.merkleRoot = batches'[e.batch].merkleRoot
    BY <1>3, <2>1, <2>3
  <2>5. /\ DOMAIN blocks' = 1..(Len(blocks) + 1) /\ Len(blocks) \in Nat /\ DOMAIN blocks = 1..Len(blocks)
        /\ \A k \in DOMAIN blocks : blocks'[k] = blocks[k]
        /\ blocks'[Len(blocks) + 1] = e
    BY <1>8, <2>1, ListAppend, ListFacts
  <2>6. \A t \in DOMAIN blocks' : (t \in DOMAIN blocks /\ blocks'[t] = blocks[t]) \/ blocks'[t] = e
    BY <2>5
  <2>7. mined
    BY <1>4, <2>4, <2>6
  <2>8. /\ DOMAIN mempool' = 1..(Len(mempool) - 1) /\ Len(mempool) \in Nat
        /\ \A k \in DOMAIN mempool' : mempool'[k] = mempool[k + 1]
        /\ DOMAIN mempool = 1..Len(mempool)
    BY <1>8, <2>2, ListTail, ListFacts
  <2>9. \A k \in DOMAIN mempool' : k + 1 \in DOMAIN mempool
    BY <2>8
  <2>10. sent
    BY <1>3, <2>8, <2>9
  <2>. QED  BY <2>7, <2>10
<1>10. CASE Deepen
  <2>1. /\ mempool' = mempool /\ DOMAIN blocks' = DOMAIN blocks
        /\ \A t \in DOMAIN blocks : /\ blocks'[t].batch = blocks[t].batch
                                    /\ blocks'[t].merkleRoot = blocks[t].merkleRoot
    BY <1>10, DeepenChain
  <2>2. mined
    BY <1>4, <2>1
  <2>. QED  BY <1>6, <2>1, <2>2
<1>11. CASE Reorg
  <2>1. blocks # << >> /\ blocks' = SubSeq(blocks, 1, Len(blocks) - 1)
    BY <1>11, ReorgChain
  <2>2. PICK e : /\ mempool' = <<e>> \o mempool /\ e.batch = blocks[Len(blocks)].batch
                 /\ e.merkleRoot = blocks[Len(blocks)].merkleRoot
    BY <1>11, ReorgChain
  <2>3. /\ DOMAIN blocks' = 1..(Len(blocks) - 1) /\ Len(blocks) \in Nat \ {0}
        /\ \A k \in DOMAIN blocks' : blocks'[k] = blocks[k]
        /\ DOMAIN blocks = 1..Len(blocks)
    BY <1>8, <2>1, ListFront, ListFacts
  <2>4. Len(blocks) \in DOMAIN blocks /\ \A k \in DOMAIN blocks' : k \in DOMAIN blocks
    BY <2>3
  <2>5. mined
    BY <1>4, <2>3, <2>4
  <2>6. e.merkleRoot = batches'[e.batch].merkleRoot
    BY <1>4, <2>2, <2>4
  <2>7. Follows(mempool', e, mempool)
    BY <1>8, <2>2, ListCons, Zenon
  <2>8. /\ DOMAIN mempool' = 1..(Len(mempool) + 1) /\ Len(mempool) \in Nat
        /\ mempool'[1] = e /\ \A k \in 1..Len(mempool) : mempool'[k + 1] = mempool[k]
        /\ DOMAIN mempool = 1..Len(mempool)
    BY <1>8, <2>7, ListFacts DEF Follows
  <2>9. \A k \in DOMAIN mempool' :
          mempool'[k] = e \/ (k - 1 \in DOMAIN mempool /\ mempool'[k] = mempool[k - 1])
    <3>1. \A k \in DOMAIN mempool' : k = 1 \/ (k - 1 \in 1..Len(mempool) /\ (k - 1) + 1 = k)
      BY <2>8
    <3>. QED  BY <2>8, <3>1
  <2>10. sent
    BY <1>3, <2>6, <2>9
  <2>. QED  BY <2>5, <2>10
<1>12. ASSUME NEW i \in Instances, Send(i) PROVE sent /\ mined
  <2> DEFINE e == Transaction(i)
  <2>1. (mempool' = mempool \/ mempool' = Append(mempool, e)) /\ blocks' = blocks
    BY <1>12 DEF Send
  <2>2. e.batch = work[i].batch /\ e.merkleRoot = work[i].copy.merkleRoot
    BY DEF Transaction
  <2>3. Busy(i)
    BY <1>12 DEF Send, Busy
  <2>4. work[i].batch \in DOMAIN batches /\ work[i].copy.merkleRoot = batches[work[i].batch].merkleRoot
    BY <2>3 DEF AnchoringInv, Shapes, CopiesRooted, CopyRooted
  <2>5. e.merkleRoot = batches'[e.batch].merkleRoot
    BY <1>1, <2>2, <2>4
  <2> HIDE DEF e
  <2>6. CASE mempool' = Append(mempool, e)
    <3>1. /\ DOMAIN mempool' = 1..(Len(mempool) + 1)
          /\ \A k \in DOMAIN mempool : mempool'[k] = mempool[k]
          /\ mempool'[Len(mempool) + 1] = e /\ Len(mempool) \in Nat /\ DOMAIN mempool = 1..Len(mempool)
      BY <1>8, <2>6, ListAppend, ListFacts
    <3>2. \A t \in DOMAIN mempool' : (t \in DOMAIN mempool /\ mempool'[t] = mempool[t]) \/ mempool'[t] = e
      BY <3>1
    <3>3. sent
      BY <1>3, <2>5, <3>2
    <3>. QED  BY <1>7, <2>1, <3>3
  <2>. QED  BY <1>6, <1>7, <2>1, <2>6
<1>13. ASSUME NEW i \in Instances,
              \/ Begin(i) \/ Resume(i) \/ DiscardIncomplete(i) \/ DiscardItems(i) \/ NothingToAnchor(i)
              \/ Constitute(i) \/ Attempt(i) \/ Read(i) \/ Receive(i) \/ Finalize(i) \/ RecordFailure(i)
              \/ NodeFails(i) \/ Stop(i) \/ LoseLock(i)
       PROVE  mempool' = mempool /\ blocks' = blocks
  BY <1>13 DEF Begin, Resume, DiscardIncomplete, DiscardItems, NothingToAnchor, Constitute, Attempt,
               Read, Receive, Finalize, RecordFailure, NodeFails, Stop, LoseLock
<1>14. CASE RecordClosure \/ Alter \/ UNCHANGED anchorVars
  <2>1. mempool' = mempool /\ blocks' = blocks
    BY <1>14 DEF RecordClosure, Alter, anchorVars
  <2>. QED  BY <1>6, <1>7, <2>1
<1>. QED  BY <1>6, <1>7, <1>9, <1>10, <1>11, <1>12, <1>13, <1>14
          DEF AnchoringNext, InstanceStep, InstanceFault

(* What verifyAnchor answers on a confirmed batch: the line and the chain  *)
(* have one root, to which the stored proof leads from the sealed leaf and *)
(* from no other.                                                          *)
LEMMA VerdictOnFact ==
  ASSUME ChainShape, FactsRooted, ChainRooted, AnchoringInv, NEW f \in DOMAIN facts,
         ConfirmedOnChain(facts[f].batchId)
  PROVE  VerifyAnchor(f) <=> facts[f].content = "sealed"
<1> DEFINE b == facts[f].batchId
           Here(t) == blocks[t].ok /\ blocks[t].batch = b
           s == CHOOSE t \in DOMAIN blocks : Here(t)
           p == facts[f].merkleProof
           root == batches[b].merkleRoot
<1>1. \E t \in DOMAIN blocks : Here(t)
  BY DEF ConfirmedOnChain
<1>2. IsAnchored(b)
  BY <1>1 DEF IsAnchored
<1>3. s \in DOMAIN blocks /\ Here(s)
  <2> HIDE DEF Here
  <2>. QED  BY <1>1
<1>4. OnChain(b) = blocks[s]
  BY DEF OnChain
<1> HIDE DEF s
<1>5. b \in DOMAIN batches /\ OnChain(b).merkleRoot = root
  BY <1>3, <1>4 DEF ChainShape, ChainRooted, TxRooted
<1>6. b # 0
  BY <1>5, ListFacts DEF AnchoringInv, Shapes
<1>7. IsList(p) /\ VerifyProof(SealedLeaf(f), p, root)
  BY <1>6 DEF FactsRooted, Proven
<1>8. VerifyAnchor(f) <=> VerifyProof(Leaf(f), p, root)
  BY <1>2, <1>5 DEF VerifyAnchor
<1> HIDE DEF p, root
<1>9. ASSUME facts[f].content = "sealed" PROVE VerifyProof(Leaf(f), p, root)
  <2>1. Leaf(f) = SealedLeaf(f)
    BY <1>9 DEF Leaf, SealedLeaf
  <2>. QED  BY <1>7, <2>1
<1>10. ASSUME VerifyProof(Leaf(f), p, root) PROVE facts[f].content = "sealed"
  <2>1. Leaf(f) = SealedLeaf(f)
    BY <1>7, <1>10, ProofOfOneLeaf
  <2>. QED  BY <2>1 DEF Leaf, SealedLeaf, ToLeaf
<1>. QED  BY <1>8, <1>9, <1>10

(* For any number of instances, cases and faults, any maximum size of a    *)
(* batch and so any tree: once a batch is confirmed, verifyAnchor accepts  *)
(* the facts whose fingerprint is the sealed one and refuses the altered   *)
(* ones, through stale copies written back, transactions sent twice and    *)
(* reorganisations (EventChainVerificationService.verifyAnchor).           *)
THEOREM ProofsTellAlterationHolds == AnchoringSpec => []ProofsTellAlteration
<1> DEFINE Inv == AnchoringInv /\ ChainShape /\ FactsRooted /\ CopiesRooted /\ ChainRooted
<1>1. AnchoringInit => Inv
  <2> SUFFICES ASSUME AnchoringInit  PROVE Inv
    OBVIOUS
  <2>1. << >> \in Seq({}) /\ DOMAIN << >> = {}
    OBVIOUS
  <2>2. ChainShape
    BY <2>1, SequenceIsList DEF AnchoringInit, ChainShape
  <2>3. FactsRooted /\ ChainRooted
    BY <2>1 DEF AnchoringInit, FactsRooted, ChainRooted
  <2>4. CopiesRooted
    BY DEF AnchoringInit, CopiesRooted, Busy, Idle
  <2>. QED  BY <2>2, <2>3, <2>4, AnchoringInvInit
<1>2. Inv /\ [AnchoringNext]_anchorVars => Inv'
  BY AnchoringInvStep, ChainShapeStep, RootsStep, FactsRootedStep, ChainRootedStep
<1>3. Inv => ProofsTellAlteration
  BY VerdictOnFact DEF ProofsTellAlteration
<1>. QED  BY <1>1, <1>2, <1>3, PTL DEF AnchoringSpec
=============================================================================
