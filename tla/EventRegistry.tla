---------------------------- MODULE EventRegistry ---------------------------
(***************************************************************************)
(* The register of facts of one case at the granularity of SQL statements: *)
(* how record and closeCase (TransactionEventsService) obtain a rank, link *)
(* and seal under concurrency, how the closure is published, and what      *)
(* verify (EventChainVerificationService) concludes from rows that hands   *)
(* other than the gateway's may have altered.                              *)
(*                                                                         *)
(* The case is a payment whose refund is under way.  A writer is one SQL   *)
(* transaction (READ COMMITTED) that records the facts of its plan; its    *)
(* rows are its own until it commits, and a rival that inserts the same    *)
(* key waits.  The lock that an UPDATE of the line takes is left out:      *)
(* TypeORM issues none for a line that did not change.                     *)
(***************************************************************************)
EXTENDS Integers, Sequences, FiniteSets, ChainVerification

CONSTANTS
  Writers,              \* SQL transactions that record facts
  Plan,                 \* what each records, in order; CASE_CLOSED by closeCase
  MaxSequenceAttempts,  \* MAX_SEQUENCE_ATTEMPTS
  Auditors,             \* concurrent verifications
  MaxAlterations        \* bound: writes to the tables by other hands

ASSUME RegistryBounds ==
  /\ Plan \in [Writers -> Seq({"REFUND_REQUESTED", "REFUND_COMPLETED", "CASE_CLOSED"})]
  /\ MaxSequenceAttempts \in Nat \ {0}
  /\ MaxAlterations \in Nat

(* A refund that completes closes its case in the same SQL transaction     *)
(* (RefundsService.recordSuccess).                                         *)
ASSUME CompletionCloses ==
  \A w \in Writers :
    (\E i \in DOMAIN Plan[w] : Plan[w][i] = "REFUND_COMPLETED") =>
      \E i \in DOMAIN Plan[w] : Plan[w][i] = "CASE_CLOSED"

VARIABLES
  events,       \* committed rows of transaction_events
  line,         \* the line of the transaction: its parties and its refund
  batch,        \* root of its batch in anchor_batches, NoPrint: no batch
  published,    \* external: the roots that the contract holds
  writer,       \* what each writer holds: pc, item, attempt, draft, own rows
  auditor,      \* what each verification holds: pc, facts, parties, verdict
  guarded,      \* is the append-only trigger on transaction_events?
  alterations,  \* writes by other hands so far, at most MaxAlterations
  sealed        \* history: the documents up to the closure at each publication

registryVars ==
  <<events, line, batch, published, writer, auditor, guarded, alterations, sealed>>

-----------------------------------------------------------------------------
(* A hash is free of collisions: a fingerprint is the document it seals.   *)
NoPrint == << >>

(* Mutant: the state of the anchor is part of the document.                *)
DocumentWithAnchor(e) ==
  <<e.rank, e.type, e.content, e.parties, e.prev, e.count, e.head, e.anchored>>

(* build: what the fingerprint covers; the anchor columns are left out.    *)
Document(e) == <<e.rank, e.type, e.content, e.parties, e.prev, e.count, e.head>>

Seal(e) == [e EXCEPT !.fingerprint = Document(e)]

Before(rows, e) == {o \in rows : o.rank < e.rank}
Closures(rows) == {e \in rows : e.type = "CASE_CLOSED"}

(* findOne in order of descending sequence, in no row or one.              *)
Top(rows) == {e \in rows : \A o \in rows : o.rank <= e.rank}
LastRank(rows) == IF rows = {} THEN 0 ELSE (CHOOSE e \in Top(rows) : TRUE).rank
LastPrint(rows) == IF rows = {} THEN NoPrint ELSE (CHOOSE e \in Top(rows) : TRUE).fingerprint

(* Mutant: the closure does not count itself.                              *)
DraftCountingOthers(type, rows) ==
  Seal([rank |-> LastRank(rows) + 1, type |-> type, content |-> "as recorded",
        parties |-> IF type = "PAYMENT_INITIATED" THEN "as agreed" ELSE "none",
        prev |-> LastPrint(rows),
        count |-> IF type = "CASE_CLOSED" THEN LastRank(rows) ELSE 0,
        head |-> IF type = "CASE_CLOSED" THEN LastPrint(rows) ELSE NoPrint,
        fingerprint |-> NoPrint, anchored |-> FALSE])

(* The row that record drafts on the facts it sees: ranked and linked      *)
(* after the last; the opening carries the parties, the closure the total. *)
Draft(type, rows) ==
  Seal([rank |-> LastRank(rows) + 1, type |-> type, content |-> "as recorded",
        parties |-> IF type = "PAYMENT_INITIATED" THEN "as agreed" ELSE "none",
        prev |-> LastPrint(rows),
        count |-> IF type = "CASE_CLOSED" THEN LastRank(rows) + 1 ELSE 0,
        head |-> IF type = "CASE_CLOSED" THEN LastPrint(rows) ELSE NoPrint,
        fingerprint |-> NoPrint, anchored |-> FALSE])

Opening == Draft("PAYMENT_INITIATED", {})

Unread == [pc |-> "idle", facts |-> {}, parties |-> "none", verdict |-> "none"]
Idle == [pc |-> "idle", item |-> 1, attempt |-> 1, draft |-> Opening, own |-> {}]

(* The payment was initiated and its refund is owed; the trigger is there  *)
(* if the schema comes from the migrations, not if it was synchronised.    *)
RegistryInit ==
  /\ events = {Opening}
  /\ line = [parties |-> "as agreed", refundStatus |-> "REQUIRED"]
  /\ batch = NoPrint
  /\ published = {}
  /\ writer = [w \in Writers |-> Idle]
  /\ auditor = [a \in Auditors |-> Unread]
  /\ guarded \in BOOLEAN
  /\ alterations = 0
  /\ sealed = {}

-----------------------------------------------------------------------------
Visible(w) == events \union writer[w].own
Due(w) == Plan[w][writer[w].item]
Writes(w, fields) == writer' = [writer EXCEPT ![w] = fields]
Kept == UNCHANGED <<events, line, batch, published, auditor, guarded, alterations, sealed>>

(* The plan goes on with its next fact.                                    *)
Proceeds(w, own) ==
  Writes(w, [writer[w] EXCEPT !.pc = "due", !.item = @ + 1, !.own = own])

(* A service opens its SQL transaction.                                    *)
Begin(w) ==
  /\ writer[w].pc = "idle"
  /\ Writes(w, [writer[w] EXCEPT !.pc = "due"])
  /\ Kept

(* record starts; closeCase first looks for a closure, in the facts that   *)
(* its own transaction sees.                                               *)
StartFact(w) ==
  /\ writer[w].pc = "due"
  /\ writer[w].item <= Len(Plan[w])
  /\ IF Due(w) = "CASE_CLOSED" /\ Closures(Visible(w)) # {}
     THEN Proceeds(w, writer[w].own)
     ELSE Writes(w, [writer[w] EXCEPT !.pc = "top", !.attempt = 1])
  /\ Kept

(* record reads the top of the chain and drafts the row.                   *)
ReadTop(w) ==
  /\ writer[w].pc = "top"
  /\ Writes(w, [writer[w] EXCEPT !.pc = "insert", !.draft = Draft(Due(w), Visible(w))])
  /\ Kept

(* The unique constraints a row would break: on the rank, and the partial  *)
(* index on the closure.                                                   *)
RankTaken(e, rows) == \E o \in rows : o.rank = e.rank
ClosureTaken(e, rows) == e.type = "CASE_CLOSED" /\ Closures(rows) # {}

(* A row of a transaction in progress has the same key: PostgreSQL waits.  *)
Blocked(w) ==
  \E v \in Writers \ {w} :
    \/ RankTaken(writer[w].draft, writer[v].own)
    \/ ClosureTaken(writer[w].draft, writer[v].own)

Insert(w) ==
  /\ writer[w].pc = "insert"
  /\ ~Blocked(w)
  /\ ~RankTaken(writer[w].draft, Visible(w)) /\ ~ClosureTaken(writer[w].draft, Visible(w))
  /\ Proceeds(w, writer[w].own \union {writer[w].draft})
  /\ Kept

(* Mutant: the next attempt takes the next rank and keeps the rest.        *)
RenumberAfterCollision(w) ==
  /\ writer[w].pc = "insert"
  /\ ~Blocked(w)
  /\ RankTaken(writer[w].draft, Visible(w))
  /\ writer[w].attempt < MaxSequenceAttempts
  /\ Writes(w, [writer[w] EXCEPT !.attempt = @ + 1, !.draft = Seal([@ EXCEPT !.rank = @ + 1])])
  /\ Kept

(* isSequenceCollision: back to the savepoint, and the top is read again.  *)
Collide(w) ==
  /\ writer[w].pc = "insert"
  /\ ~Blocked(w)
  /\ RankTaken(writer[w].draft, Visible(w))
  /\ writer[w].attempt < MaxSequenceAttempts
  /\ Writes(w, [writer[w] EXCEPT !.pc = "top", !.attempt = @ + 1])
  /\ Kept

(* The attempts are used up, or the case was closed by another: record     *)
(* throws.  closeCase is content with a closure that exists; any other     *)
(* caller lets its transaction roll back.                                  *)
RecordThrows(w) ==
  /\ writer[w].pc = "insert"
  /\ ~Blocked(w)
  /\ \/ RankTaken(writer[w].draft, Visible(w)) /\ writer[w].attempt = MaxSequenceAttempts
     \/ ClosureTaken(writer[w].draft, Visible(w))
  /\ IF Due(w) = "CASE_CLOSED" /\ Closures(Visible(w)) # {}
     THEN Proceeds(w, writer[w].own)
     ELSE Writes(w, [Idle EXCEPT !.pc = "over"])
  /\ Kept

(* The facts and the line become visible together.  The lock that          *)
(* syncTransaction's UPDATE takes on the line is left out: without it more *)
(* orders of the transactions are possible, not fewer.                     *)
Commit(w) ==
  /\ writer[w].pc = "due"
  /\ writer[w].item > Len(Plan[w])
  /\ events' = Visible(w)
  /\ line' = IF \E i \in DOMAIN Plan[w] : Plan[w][i] = "REFUND_COMPLETED"
             THEN [line EXCEPT !.refundStatus = "COMPLETED"]
             ELSE line
  /\ Writes(w, [Idle EXCEPT !.pc = "over"])
  /\ UNCHANGED <<batch, published, auditor, guarded, alterations, sealed>>

(* A statement fails or the process stops.                                 *)
Rollback(w) ==
  /\ writer[w].pc \notin {"idle", "over"}
  /\ Writes(w, [Idle EXCEPT !.pc = "over"])
  /\ Kept

-----------------------------------------------------------------------------
(* Publication of the closure, see Anchoring: its fingerprint is the root  *)
(* of a batch of one.                                                      *)
Publish ==
  /\ batch = NoPrint
  /\ \E e \in Closures(events) :
       /\ batch' = e.fingerprint
       /\ published' = published \union {e.fingerprint}
       /\ events' = (events \ {e}) \union {[e EXCEPT !.anchored = TRUE]}
       /\ sealed' = sealed \union {{Document(o) : o \in {e} \union Before(events, e)}}
  /\ UNCHANGED <<line, writer, auditor, guarded, alterations>>

(* onModuleInit of AppendOnlyGuardInstaller: a missing trigger is created; *)
(* a failure is logged and leaves things as they are.                      *)
OnModuleInit ==
  /\ ~guarded
  /\ guarded' = TRUE
  /\ UNCHANGED <<events, line, batch, published, writer, auditor, alterations, sealed>>

-----------------------------------------------------------------------------
(* Writes by other hands, once the closure is published (before that a     *)
(* rebuilt chain cannot be told from another) and while no row waits for   *)
(* its commit.  The trigger refuses those that change a sealed column or   *)
(* delete a row; nothing protects the rest.                                *)
Rewritten(e) == [e EXCEPT !.content = "rewritten"]

(* The facts that are left, ranked, linked and sealed anew end to end.     *)
Rebuilt(rows) ==
  LET Nth(n) == CHOOSE e \in rows : Cardinality(Before(rows, e)) = n - 1
      first[n \in 0..Cardinality(rows)] ==
        IF n = 0 THEN {}
        ELSE first[n - 1] \union
               {Seal([Draft(Nth(n).type, first[n - 1]) EXCEPT
                        !.content = Nth(n).content, !.anchored = Nth(n).anchored])}
  IN first[Cardinality(rows)]

Others == UNCHANGED <<published, writer, auditor, guarded, sealed>>

AlterFact ==
  /\ ~guarded
  /\ \E e \in events :
       \/ events' = events \ {e}
       \/ events' = (events \ {e}) \union {Rewritten(e)}
       \/ events' = (events \ {e}) \union {Seal(Rewritten(e))}
       \/ events' = Rebuilt(events)
  /\ UNCHANGED <<line, batch>>
  /\ Others

AlterAnchorColumns ==
  /\ \E e \in events : events' = (events \ {e}) \union {[e EXCEPT !.anchored = ~@]}
  /\ UNCHANGED <<line, batch>>
  /\ Others

AlterRest ==
  /\ \/ line' = [line EXCEPT !.parties = "changed"] /\ UNCHANGED batch
     \/ line' = [line EXCEPT !.refundStatus = "REQUIRED"] /\ UNCHANGED batch
     \/ (\E e \in Top(events) : batch' = Document(e)) /\ UNCHANGED line
  /\ UNCHANGED events
  /\ Others

Alter ==
  /\ published # {}
  /\ \A w \in Writers : writer[w].own = {}
  /\ alterations < MaxAlterations
  /\ alterations' = alterations + 1
  /\ AlterFact \/ AlterAnchorColumns \/ AlterRest

-----------------------------------------------------------------------------
(* verifyEvent: the document gives the fingerprint again, and the link     *)
(* leads to the fact before it.                                            *)
FingerprintMatches(e) == e.fingerprint = Document(e)
(* Mutant: the link is not checked.                                        *)
ChainAssumedIntact(facts, e) == TRUE
ChainIntact(facts, e) == e.prev = LastPrint(Before(facts, e))

(* verifyAnchor: "null" when there is nothing to check or no node answers. *)
AnchorVerified(e, reachable) ==
  CASE ~e.anchored                          -> "null"
    [] e.anchored /\ e.fingerprint # batch   -> "false"
    [] OTHER -> IF reachable THEN IF batch \in published THEN "true" ELSE "false" ELSE "null"

(* The case as isClosureExpected reads it.                                 *)
LineState ==
  [paymentChannel |-> "MOBILE_MONEY", status |-> "FAILED", providerStatus |-> "CONFIRMED",
   reconciliationStatus |-> "MANUAL_REVIEW", refundStatus |-> line.refundStatus]

Types(facts) == [i \in 1..Cardinality(facts) |->
                   (CHOOSE e \in facts : Cardinality(Before(facts, e)) = i - 1).type]

ClosureSound(facts, e) ==
  /\ e.count = Cardinality(facts)
  /\ Before(facts, e) # {} => e.head = LastPrint(Before(facts, e))
  /\ e.rank = Cardinality(facts)

PartiesMatch(facts) == \A e \in facts : e.parties # "none" => e.parties = line.parties

Intact(facts, reachable) ==
  /\ \A e \in facts : /\ FingerprintMatches(e)
                      /\ ChainIntact(facts, e)
                      /\ AnchorVerified(e, reachable) # "false"
  /\ {e.rank : e \in facts} = 1..Cardinality(facts)
  /\ IF Closures(facts) # {}
     THEN \A e \in Closures(facts) : ClosureSound(facts, e)
     ELSE ~ClosureExpected(LineState, Types(facts))
  /\ PartiesMatch(facts)

(* The verdict of verify on the facts it read.                             *)
Verdict(facts, reachable) ==
  IF facts = {} THEN IF ClosureExpected(LineState, << >>) THEN "TAMPERED" ELSE "EMPTY"
  ELSE IF ~Intact(facts, reachable) THEN "TAMPERED"
  ELSE IF \E e \in facts : e.anchored /\ AnchorVerified(e, reachable) = "null"
  THEN "CHAIN_UNAVAILABLE"
  ELSE IF \E e \in Closures(facts) : AnchorVerified(e, reachable) = "true"
  THEN "VERIFIED"
  ELSE "PARTIALLY_ANCHORED"

Concludes(a, fields) ==
  /\ auditor' = [auditor EXCEPT ![a] = fields]
  /\ UNCHANGED <<events, line, batch, published, writer, guarded, alterations, sealed>>

(* verify reads the chain (findChain) ...                                  *)
ReadChain(a) ==
  /\ auditor[a].pc = "idle"
  /\ Concludes(a, [auditor[a] EXCEPT !.pc = "read", !.facts = events])

(* ... then the line, the batch and the contract, if its node answers.     *)
Conclude(a) ==
  /\ auditor[a].pc = "read"
  /\ \E reachable \in BOOLEAN :
       Concludes(a, [auditor[a] EXCEPT !.pc = "concluded", !.parties = line.parties,
                                       !.verdict = Verdict(auditor[a].facts, reachable)])

-----------------------------------------------------------------------------
WriterStep(w) ==
  \/ Begin(w) \/ StartFact(w) \/ ReadTop(w)
  \/ Insert(w) \/ Collide(w) \/ RecordThrows(w)
  \/ Commit(w) \/ Rollback(w)

RegistryNext ==
  \/ \E w \in Writers : WriterStep(w)
  \/ \E a \in Auditors : ReadChain(a) \/ Conclude(a)
  \/ Publish \/ OnModuleInit \/ Alter

RegistrySpec == RegistryInit /\ [][RegistryNext]_registryVars

-----------------------------------------------------------------------------
(***************************************************************************)
(* Whatever the order of concurrent records, collisions, rollbacks and     *)
(* stops, the facts of an unaltered case form one chain: ranks without a   *)
(* hole, each linked to the one before (record: "rechainer sur lui plutot  *)
(* que forcer une branche parallele").                                     *)
(***************************************************************************)
SingleChain ==
  alterations = 0 =>
    /\ \A e, o \in events : e.rank = o.rank => e = o
    /\ {e.rank : e \in events} = 1..Cardinality(events)
    /\ \A e \in events : e.prev = LastPrint(Before(events, e))

(***************************************************************************)
(* An unaltered case has one closure at most, which declares all the facts *)
(* up to itself and the head they had when it was recorded, and a refund   *)
(* that is complete has it (closeCase, the partial unique index).          *)
(***************************************************************************)
ClosureSealsTheCase ==
  alterations = 0 =>
    /\ \A e, o \in Closures(events) : e = o
    /\ \A e \in Closures(events) :
         e.count = Cardinality(Before(events, e)) + 1 /\ e.head = LastPrint(Before(events, e))
    /\ line.refundStatus = "COMPLETED" => Closures(events) # {}

(***************************************************************************)
(* A case is declared VERIFIED only if its facts are, to the last column,  *)
(* those that the closure ended when it was published, and its parties     *)
(* those of the opening (verify: "La cloture ancree engage tout            *)
(* l historique"), whatever was altered and resealed since.                *)
(***************************************************************************)
VerifiedIsGenuine ==
  \A a \in Auditors :
    auditor[a].verdict = "VERIFIED" =>
      /\ {Document(e) : e \in auditor[a].facts} \in sealed
      /\ \A e \in auditor[a].facts : e.parties \in {"none", auditor[a].parties}

(***************************************************************************)
(* TAMPERED is said of a case that only the gateway wrote in two cases     *)
(* only: the chain grew between the reads of the verification, or a fact   *)
(* was recorded behind the closure.                                        *)
(***************************************************************************)
AccusedOnlyForCause ==
  \A a \in Auditors :
    auditor[a].verdict = "TAMPERED" /\ alterations = 0 /\ auditor[a].facts = events =>
      \E e \in events, o \in Closures(events) : o.rank < e.rank
=============================================================================
