# Formal model of the banking / blockchain audit gateway

The gateway collects Mobile Money payments, instructs the bank for the
beneficiary, reconciles both legs, keeps an append-only chain of facts per
transaction ("case"), opens and settles the debts that a lost leg leaves behind,
keeps double-entry books of what it holds, sweeps the collected funds, publishes
the closed cases on a blockchain, and forwards classic transfers to the core
banking system over SOAP. This directory holds a TLA+ model
of the part of it where processes, messages, failures and retries interact, the
TLC runs that check it and the TLAPS proofs about it.

Source paths below are relative to `src/src/`.

## 1. The system

| Component | State it keeps | Operations | Called by / calls |
|---|---|---|---|
| State machine (`transactions/state`) | none | `assertTransition`, `assertInitialState` | every writer of a line |
| Payment requests and notifications (`mobile-money/mobile-money.service.ts`, `mobile-money-webhook.service.ts`) | `transactions`, `mobile_money_webhook_events` | `initiate`, `handle` (register, claim, load, one of three transactions, settle) | HTTP; aggregator; queue, chain |
| Bank queue (`mobile-money/bank-instruction.worker.ts`) | `bank_instructions` | `enqueue`, `drain` (claim with a lease, attempt, retry, dead letter) | timer; bank (SOAP), reconciliation, chain |
| Reconciliation (`mobile-money/reconciliation.service.ts`) | columns of `transactions` | `reconcile`, `runPending` | worker, late confirmation, operator; chain |
| Refunds (`refunds/`) | `refunds` | `requestRefund`, `reopenRefund`, `retryPending` | HTTP, timer; provider, chain |
| Case chain (`events/transaction-events.service.ts`) | `transaction_events` | `record`, `closeCase` | every service; accounting |
| Append-only guard (`events/append-only-guard.installer.ts`) | a trigger | `onModuleInit` | start-up |
| Chain verification (`events/event-chain-verification.service.ts`) | none | `verify` | HTTP; reads chain, line, batch, contract |
| Accounting (`accounting/`) | `journal_entries`, `journal_lines` | `post`, `trialBalance` | `record` |
| Treasury (`treasury/`) | facts and entries | `sweep` | operator |
| Anchoring (`blockchain/`, `contracts/AuditAnchor.sol`) | `anchor_batches`, anchor columns of facts and lines, the contract | `processPendingBatch` (lock, resumption or constitution, submission, finalisation or failure), `verifyAnchor` | timer, operator; EVM node |
| Restore control (`observability/restore-verification.service.ts`) | none | `verify` | operator; reads batches, facts, contract |
| Classic transfers (`transactions/transactions.service.ts`, `transactions.repository.ts`) | `transactions` | `initiateTransfer` and its processing | HTTP; SOAP, chain, audit log |
| SOAP client (`soap/`) | the shared client of a process | `getClient`, `invoke`, the mapping of envelopes | transfers, bank queue |
| Audit log (`audit/`) | `audit_logs` | `record` | transfers |
| Authentication, field encryption, XML, configuration, metrics, health, simulator | keys | not part of the control modelled here | |

What is hard about it:

* one payment is written by several processes: concurrent handlers of
  notifications, workers of several instances, replays by an operator, refund
  requests and their retry worker. Each SQL transaction is atomic, but most of
  them apply a decision to an entity that was **read before the transaction**, and
  the `save` of TypeORM writes every column that differs without comparing the
  `version` column;
* the calls to the bank and to the refund provider happen outside any SQL
  transaction, and a transport error says nothing of what the other side did;
* notifications are redelivered, arrive in any order and contradict one another;
* a claim (of an event, of an instruction) is a status and a date: a process that
  stops is replaced once its claim is stale, and so is one that is only slow;
* the closure of a case declares the number of its facts, so one more fact after
  it makes `verify` report an alteration;
* concurrent transactions draft the same rank of the same chain, and the loser must
  draft again on what the winner committed;
* a classic transfer lives in the memory of one request: what it wrote before a
  stop stays, and requests with one idempotency key race for one line;
* the books follow from facts that may be recorded twice;
* other hands can write to the tables, and a backup can bring back an older state,
  while the contract keeps what was published;
* a batch to anchor is held in memory across calls to a node that may not answer,
  under an advisory lock whose session is not the one that writes, for a chain
  that may take an unconfirmed block back.

What makes it correct, component by component: the bank is instructed only for a
conforming collection, together with the claim of the leg (requests); a taken leg
ends executed or owed, with one verdict (queue); a match closes the case, and nobody
comes to reconcile it after that (reconciliation); the payer is repaid once, an extinct debt stays
extinct (refunds); the journal puts the amount on the debt that the line names and
an ended case leaves nothing but the fee (accounting); funds are swept once and of
paid cases only (treasury); a key is one transfer, a final transfer is closed and
stays so, and line, trail and client say the same (transfers); the line
makes only legal moves (state machine); a case that only the gateway wrote is
never reported as altered without a cause, its facts are one chain, and only what
was published is VERIFIED (chain, verification); a closure is committed by one
batch, published within the budget, and an anchored case is so in every table and
on the chain (anchoring). The hazards of `PROJECT.json`
place these at their lines.

## 2. Modules

| Module | Content |
|---|---|
| `TransactionState` | transition tables, cross-dimension invariants, `AssertTransition`; pure |
| `PaymentStore` | the shared tables for one payment, `Initiate`, faults |
| `Webhooks` | notification handlers |
| `BankQueue` | workers, bank call, reconciliation and its replay |
| `ChainVerification` | the closure of a chain and what `verify` makes of it; pure |
| `MobileMoney` | composition of the above, its fairness and properties |
| `PaymentCase` | abstract specification: the fate of the money and the state of the case |
| `Refunds` | refund requests, retry worker, reopening, provider |
| `PaymentLifecycle` | `MobileMoney` and `Refunds` on the same line and chain, with properties |
| `Ledger` | accounts, posting rules, balance of an entry and of an account; pure |
| `Treasury` | `PaymentLifecycle` with concurrent sweeps and the books of the case |
| `SoapExchange` | how an exchange over SOAP is qualified: result, fault, unusable, communication; pure |
| `ClassicTransfer` | requests, processes, shared SOAP client, lines, facts and audit trail |
| `EventRegistry` | `record`, `closeCase`, the trigger, publication, alterations and `verify`, statement by statement |
| `RegistryRestore` | `EventRegistry` with a backup, a restoration and its control |
| `MerkleTree` | the sorted-pair tree: root, proof, verification, over symbolic digests; pure |
| `Anchoring` | instances of the gateway, registry, node and contract, with properties |
| `MobileMoneyTheorems`, `LeaseTheorems` | proofs about `MobileMoney`: for every schedule, and when no live worker outlasts its lease |
| `PaymentLifecycleTheorems`, `TreasuryTheorems` | proofs about refunds, and about refunds, sweeps, books and posting rules together |
| `ClassicTransferTheorems`, `EventRegistryTheorems`, `MerkleTreeTheorems`, `AnchoringTheorems` | proofs about the module of that name |
| `MCMobileMoney`, `MCPaymentLifecycle`, `MCTreasury`, `MCClassicTransfer`, `MCRegistry`, `MCRestore`, `MCAnchoring` | instances for TLC |

### State

`row` is the line of `transactions` reduced to its six status columns, its
channel and how the amount and currency the aggregator reported compare with the
order (`observed`). `chain` is the sequence of event types of `transaction_events`;
the rank of a fact is its position. `instr` is the line of `bank_instructions`
(status and attempts); `leaseExpired` stands for the comparison of its date with
`IN_FLIGHT_LEASE_MS`, as `claimExpired` does for a webhook event and
`STALE_CLAIM_MS`. `handler`, `worker`, `reconciler`, `agent` and `auditor` are the
local variables of running code, among them the copies of entities read earlier.
`refund` is the line of `refunds`. `paid` and `payouts` are what the bank and the
provider really did, which no code can read. One payment is modelled: payments
share no line.

The journal is not a variable: an entry is posted by the SQL transaction that
records its fact and is unique for it, so the balance of an account is computed
from `chain` (`Balance`). `sweeping` holds the sweeps that have selected the line.

`ClassicTransfer` keeps, by reference, the line of `transactions`, its facts and the
directions in its audit trail; `request` is what each request has in memory, `client`
the `clientPromise` of each process, `answers` what the calls of a line returned.

`EventRegistry` looks inside the chain that the modules above take as a sequence of
types: a row has a rank, a type, a content, the parties (opening), the link, the
declared total and head (closure), the fingerprint and its anchor column. `writer`
is one SQL transaction with the rows it has not committed; `auditor` one execution of
`verify`; `guarded` says whether the append-only trigger is there; `published` is what
the contract holds; `sealed` records what each publication committed to. A
fingerprint is the document it seals, so two are equal only for equal documents.

`Anchoring` stands apart from them, since it only reads closures. `facts` are the
`CASE_CLOSED` facts with their anchor columns and the anchor status of their line;
`batches` is `anchor_batches`; `work` is what each instance has in memory, its
copy of the batch included; `lock` is the holder of the advisory lock; `mempool` and
`blocks` are the chain, where a transaction has a depth in confirmations.
`lockLost` records that a lock session was lost, which some properties exclude.

### Actions

An SQL transaction is one step; a read, an external call and the next SQL
transaction are separate steps between which anything may happen. A database
fault rolls the transaction back and takes the `catch` the code has there; a crash
loses a process's memory and keeps the tables. A refusal of the state machine is a
branch of the action where it can happen (notifications, dead letter, refunds) and
a guard where it cannot: `AnswerAlwaysApplies` states, and a theorem proves, that
the answers of the bank and the verdicts are never refused.

Left out of the actions, with the reason: invalid signatures, unknown references
and conflicting payloads end a request before any effect; the branches of `reconcile` for legs that are not
done are unreachable, since every caller has both legs done; the delay before a
retry is time that passes before the claim; `SKIP LOCKED` is the atomicity of the
claim; the amount reported with a refusal is taken as the ordered one; collisions
of ranks in `record` are replayed inside the transaction and appear as an order of
steps, which `EventRegistry` justifies: unaltered facts are a single chain; the
search by idempotency key, the race for it and the attempts at a free reference in
`initiate`, since there is one payment (`ClassicTransfer` has their like); the
instruction whose transaction is not found (`bank-instruction.worker.ts:207`), since
the line is inserted first and never removed.

In `EventRegistry` each statement is a step: reading the top, inserting the row
(which waits while an uncommitted row has the same key), returning to the savepoint,
committing. The lock that `syncTransaction`'s UPDATE takes on the line
(`refunds.service.ts:523`) is left out: with it fewer orders remain. Writes
by other hands happen after the publication and are refused by the trigger when they
touch a sealed column; nothing protects the line, the batch and the anchor columns.

In `ClassicTransfer` the acceptance checks are one choice between a refusal and going
on; a SQL transaction ends committed or rolled back (`CommitFates`); an entry of the
audit log may be lost at every point and fails nobody; the client of a process is
created once and those who wait for it share its failure.

In `Anchoring` a crash and a failing SQL statement are one action (`Stop`): neither
is caught before the `finally` that frees the lock, not even in `finalizeBatch`, which
`anchorBatchItems` returns without awaiting. `Constitute` is one step because its rows
are selected `FOR UPDATE SKIP LOCKED` (`anchor.service.ts:186`): that two selections
never gather one fact is assumed, and `CommittedOnce` is about what happens afterwards.
The two statements by which `markItems` fails the items of an incomplete batch, facts
then lines, are one step. The errors of `orderedLeaves` (an index out of range, a
missing print or leaf) are left out: only a change of `leaf_index`, or of a print to
null, brings them about. The digests of `MerkleTree` are terms,
so two are equal only for equal contents, and pairs are unordered as the sorting of
the code makes them. `Confirmations` is at least 1: the configuration also allows 0,
for which `wait` gives no receipt and every submission is taken for a failure.

## 3. Runs

| Run | Instance | Checks |
|---|---|---|
| `confirmations` | conforming confirmation + diverging one + refusal, 2 handlers, 2 workers, 1 crash, 1 database fault, 2 attempts | types; instruction exactly when the leg is taken; the state machine refuses no answer; one bank verdict; debt exactly when a leg is lost; legal moves, but for a gap over a refusal; a settled instruction is over |
| `refusals` | confirmation + refusal, 2 handlers that may outlive their claim, 1 worker, 1 replay, 1 crash, 2 attempts | payment only on a conforming collection; refinement of `PaymentCase`; a second match only from a copy read before the first; behind a closure only what it sealed |
| `refunds` | confirmation + gap, 2 requests, 1 retry worker, 2 operators, 1 failed answer, 1 reopening, 2 sweeps, order 7, collection 5, fee 2 | repaid at most once, resolved only when repaid, refund and line agree, extinct debt is final; swept once and when paid; the journal carries the open debt; the books of an ended case |
| `progress` | 1 confirmation, 1 worker, 1 replay, 1 refund request, 1 retry worker, 1 crash, 1 fault, 1 failed answer, fairness | a taken leg settles, the queue drains, notifications are processed, an executed case closes if an operator replays reconciliations, a refund once asked settles |
| `transfers` | 3 requests on 2 processes, 2 of them with one key, 2 references, 2 SOAP attempts, 1 stop or database fault, fairness | one transfer per key; final exactly when closed; the line tells the exchange; the client is told what is recorded; terminal is final; a transfer settles unless interrupted |
| `registry` | 1 request and 2 completions of a refund as SQL transactions, 2 attempts at a rank, 1 verification, trigger present or not, 2 writes by other hands | one gapless linked chain; one closure that declares it; VERIFIED only of what was published; accused only for a cause |
| `anchoring` | 2 instances, 2 closures, batches of 2, 2 submissions, 2 confirmations, 2 faults of any of five kinds, fairness | one batch per closure; a receipt is a confirmed root; proofs tell an alteration; fact, batch and line agree; submissions within the budget, accepted once; anchored is final; every closure settles |

`MCAnchoring` also evaluates, for every tree of up to 7 leaves, that each leaf's proof
verifies against the root and that no proof verifies another leaf.

Five runs show a disagreement between the code and what its comments or
documentation say, each described under `findings`: a transfer whose answers are lost
is paid and owed (`paid_and_owed`); two agents book one repayment twice
(`refund_booked_twice`); the sweep of a matched payment always writes behind its
closure, and `verify` calls it altered (`swept_after_closure`); a batch found on the
chain is marked anchored before its block is confirmed (`recovered_unconfirmed`); the
control of a restoration finds nothing wrong with a backup older than the last
anchoring (`stale_restore`).

The passing runs delimit these: `confirmations` and `refusals` assume that no live
worker outlives its lease (`SlowWorkers` false), `confirmations` also that no handler
outlives its claim; `LegalRowMoves` names one move outside
the tables, a gap written over a refusal, and `AccusedOnlyForRepetition` what may be
recorded behind a closure; `KeepsPaymentCase` is checked where refusals meet no gap;
`refunds` has no database fault and no crash (a request that stops is, for a safety
property, one that takes no further step); `transfers` has commits that are
acknowledged; `OpenDebtIsBooked` asks for no positive balance, rather than none, once
nothing is owed; `AccusedOnlyForCause` names the two causes of an accusation;
`anchoring` states `AnchorViewsAgree`, `AnchoredIsFinal` and the budget for
behaviours in which no lock session is lost.
What holds without these limits is proved or is checked in `refusals`.

Other things seen while modelling that have no run of their own:

* a refusal handled twice (a crash before its event is saved) records
  `PROVIDER_FAILED` behind the closure, and `verify` calls it altered
  (`mobile-money.service.ts:394`); a replay of reconciliations that read the line before
  the worker matched it records the match again, with the same effect
  (`reconciliation.service.ts:124`). Both happen in `refusals`, where
  `AccusedOnlyForRepetition` and `MatchedByEarlierReaders` say that nothing worse does;
* a worker slower than its lease is doubled by another, and the chain tells both
  that the bank executed and that it failed (`bank-instruction.worker.ts:178`;
  `OneBankVerdict` with `SlowWorkers`);
* a request that read a refund before another recorded its rejection asks the
  provider again and makes it retryable without an approver (`refunds.service.ts:354`);
* a failure recorded on the last attempt whose acknowledgement fails is recorded
  again by the dead letter: the journal books the debt twice
  (`bank-instruction.worker.ts:308`; `OpenDebtIsBooked` with `MaxDbFaults = 1`,
  `MaxAttempts = 2`), and `REQUIRED` is written over a refund completed in between;
* a commit that is applied and whose acknowledgement is lost makes the failure path
  write FAILED over COMPLETED, behind the closure (`transactions.service.ts:411`,
  `559`; `TerminalIsFinal` with `"unacknowledged"` among `CommitFates`);
* the partial unique index on the closure decides no race of the `registry` run: every
  writer that closes a case first records a fact, whose rank makes the rival wait;
* facts recorded behind a closure can be removed again and the case is VERIFIED, and
  what is rewritten before the publication cannot be told from what happened;
* the collection of a gap in currency is posted in the currency of the order;
* the comment of `markAmountMismatch` (`mobile-money.service.ts:267`) says that the
  bank status stays `NOT_STARTED`, the code sets `BLOCKED`; it writes over a refusal
  recorded since it read the line, and its facts then follow the closure of the refusal
  (`mobile-money.service.ts:316`; the exception of `LegalRowMoves`);
* a `REQUIRED` refund left by a crash waits for another request;
* an unreachable node delays the publication, as the repository's README says, only
  until `maxRetries`, after which the batch is given up, even if one of its
  transactions is mined later; an instance whose lock session was lost may record its
  late failure over a batch that another has anchored; `tx.wait` has no timeout, so a
  transaction that is never mined holds the lock until the process stops.

### Bounds

Two handlers, two workers and two requests are enough for every overlap of two
writers on one line, which is what the hazards are about; no code waits for a
third. One crash and one fault put a single failure at every step; `MaxAttempts = 2`
distinguishes an attempt that is retried from the last one. `MaxPaid`,
`MaxFailures` and `MaxReopenings` bound what the environment may repeat.
Two closures make a batch of one, a batch of two and a second batch; two faults put,
for instance, a stop after a submission and a reorganisation of its block in one
behaviour. Two requests with one key and a third without one, on two processes, put
every pair of steps of two rivals and of two users of one SOAP client in one
behaviour; two references make a collision possible. Two attempts at a rank
distinguish a collision that is replayed from one that is given up; two writes by
other hands are what it takes to drop the mark of an anchor and rewrite the chain.
The amounts 7, 5 and 2 make every sum of the books different. A gap in amount and a
gap in currency take the same branch; the runs have the first. Symmetric sets are
used in safety runs only.

### Fairness

Weakly fair are: the first delivery and the redelivery of a notification until it
is acknowledged, the steps of a request that was received, the workers and retry
workers (`setInterval` in `onModuleInit`), time (claims expire), the steps of an
anchoring instance (its interval, and awaits that return), the steps of a classic
transfer that was taken and the creation of a SOAP client (both end by an answer or
by the configured timeout), and the chain's mining
and confirmation of what it was sent. Not fair:
crashes, faults, the operator's replay (an explicit hypothesis of
`ExecutedCaseCloses`), refund requests and reopenings.

## 4. Proofs

TLAPS checks every theorem below for any sets of handlers, notifications, workers,
replays, requests, processes, operators, sweeps, instances and batches, any bound on
attempts, crashes and faults, and any amounts. The assumptions on constants are the
named `ASSUME`s of the modules that declare them; a further hypothesis of a theorem
is in its statement. Every safety property that a passing run checks has a theorem.

| Theorems | Hypotheses |
|---|---|
| `TypeCorrect`, `Inductive`, `InstructionBacksLegHolds`, `PaidOnlyOnConformingCollectionHolds`, `AnswerAlwaysAppliesHolds` (`MobileMoneyTheorems`) | none: processes may outlive their claims |
| `OneBankVerdictHolds`, `DebtMatchesLostLegHolds`, `SettledInstructionIsOverHolds` (`LeaseTheorems`) | no live worker outlasts its lease |
| `LegalRowMovesHolds`, `MatchedByEarlierReadersHolds`, `AccusedOnlyForRepetitionHolds` (`LeaseTheorems`) | so: refusals, gaps, replays, crashes, faults and slow handlers are free |
| `KeepsPaymentCaseHolds` (`LeaseTheorems`) | so, and refusals do not meet gaps |
| `OneKeyInductive`, `RepaidAtMostOnceHolds` (`PaymentLifecycleTheorems`) | none |
| `ResolvedOnlyWhenRepaidHolds`, `SweptOnceWhenPaidHolds` (`TreasuryTheorems`) | no live worker outlasts its lease; crashes, failed SQL statements, replays, refusals and slow handlers are free |
| `RefundViewsAgreeHolds`, `ExtinctDebtIsFinalHolds`, `OpenDebtIsBookedHolds`, `BooksOfEndedCaseHolds` (`TreasuryTheorems`) | no live worker outlasts its lease, no SQL statement fails; crashes, replays, refusals and slow handlers are free |
| `TransferTypeCorrect`, `OneTransferPerKeyHolds` (`ClassicTransferTheorems`) | none: a commit may have any fate |
| `ClosedWhenFinalHolds`, `LineTellsExchangeHolds`, `ToldAsRecordedHolds`, `TerminalIsFinalHolds` (`ClassicTransferTheorems`) | commits that are applied are acknowledged |
| `SingleChainHolds`, `ClosureSealsTheCaseHolds`, `AccusedOnlyForCauseHolds`, `VerifiedIsGenuineHolds` (`EventRegistryTheorems`) | none |
| `AnchorViewsAgreeHolds`, `AnchoredIsFinalHolds`, `ReceiptIsConfirmedHolds`, `CommittedOnceHolds`, `WritesWithinBudgetHolds`, `ProofsTellAlterationHolds` (`AnchoringTheorems`) | none |
| `ProofLeadsToRoot`, `ProofOfOneLeaf`, `ProvenIsInTree` (`MerkleTreeTheorems`) | none beyond the model of keccak256 as free of collisions; the last one is about trees whose leaves are all made by `ToLeaf`, as those of the gateway are |
| `PostingBalanced` (`TreasuryTheorems`) | the fee is no more than the order and the collection (the rate is below 1 and a fee is frozen on conforming collections only) |

The hypotheses are those under which the code keeps the property; section 3 describes
what breaks it without them. A worker that outlasts its
lease is doubled, and both write the line. A refusal and a gap contradict each other,
and `markAmountMismatch` writes over the refusal, which no move of `PaymentCase` is.
A failure that is recorded on the last attempt, and whose acknowledgement
fails, is recorded again by the dead letter: the debt is booked twice and written over
its refund. An applied commit that looks failed makes a transfer fail after it was
completed.

### Arguments

None of the safety invariants is inductive: an action writes a copy read earlier, so
one must know what copies can look like.

* **Line and copies** (`MobileMoneyTheorems`). `Shape` says that the line is the
  initial row, the refused row, a blocked row or one of the rows an instructed leg goes
  through; that an instruction exists exactly for the last kind and was paid only then;
  that the facts of a refusal, of a divergence and of a confirmation exclude one another
  accordingly; and that the copies of workers and replays are rows of an instructed
  leg, whatever their age. The moves between those shapes are a finite analysis per
  action.
* **Leases** (`LeaseTheorems`). `LeaseInv` adds that one worker at most is at work, on
  a fresh claim; that its copy fits the line (it is the line, a change of it that a
  fault kept from being written, or older than a replay only); and that the chain
  tells what the line tells. `LeaseStep` shows that every step is then one of eight
  moves of line and chain (`StoreMove`), from which verdicts, debts, legal moves and
  the closure follow. `Closures` says what each kind of line has sealed and that
  only this outcome, or a gap behind a refusal, follows a closure; `Outcomes` that a
  recorded refusal has its closure; each of these moves keeps both (`ClosuresStep`,
  `OutcomesStep`). A match is recorded by the
  step that ends a worker's reconciliation or a replay, and after it none begins
  (`HandlersMatchNothing`, `WorkersMatchOnce`, `ReplaysMatchOnce`). The refinement of `PaymentCase` compares, for each of these
  moves, the abstract fate of the line before and after (`FateTable`).
* **One key** (`PaymentLifecycleTheorems`). Every agent past `findOrCreate` holds the
  key of the one line, and only that key was paid.
* **Debts** (`TreasuryTheorems`). `DebtInv` has two phases. Until a leg is lost
  (`Flowing`) nobody can ask for a refund, so the invariants of the flow hold as they
  are. When it is lost (`Quiet`, `QuietAtBirth`) the worker that lost it was the last
  to hold a copy, so that no step of the flow touches line or chain any more
  (`QuietStep`), and what remains is the refund: `Owing` ties the line, the refund and
  the payouts together, and each step of an agent keeps it because the state machine
  refuses to reopen a resolved case whatever the age of the copy (`ResolvedRefuses`).
  `Tally` counts the facts that move money: one of each kind for the leg that the line
  shows, at most one sweep, and payments back exactly when the refund is complete. A
  balance is then the sum of these counts times what each posting does to the account
  (`NetOf`, `BooksByLeg`). With failing statements the second phase is weaker (`Lost`): a
  worker may come to its catch with the copy of a lost leg and write it over the refund,
  but what it writes is a lost leg again (`LostStep`), which no sweep takes and no
  reconciliation matches; `Repaid` needs no more, since only a paid success resolves a
  case.
* **Transfers** (`ClassicTransferTheorems`). `TransferOwned`: each line has one request
  that inserted it, and one key one line. `TransferInv`: what that request has in
  memory is consistent with the line and with the answers of the service, and the line
  with its facts and trail. Nobody but the owner writes, and the owner ends.
* **Registry** (`EventRegistryTheorems`). While only the gateway wrote, `Unaltered`
  says that the committed facts form a chain from rank 1, that one transaction at most
  has uncommitted rows (the others wait for their rank), and that those rows continue
  the committed chain; `CompletionCloses` names what the callers of `closeCase` do. For
  `VerifiedIsGenuine`, `GenuineInv` follows instead what was published: a root is on
  the contract only if it seals a set of documents, and facts that link up to it are
  those documents. The gapless ranks need the least member of a set of naturals, and
  linked sets are compared through the first rank at which they differ.
* **Anchoring** (`AnchoringTheorems`). `AnchoringInv`: while no lock session is lost an
  instance that is not idle holds the lock, the batch it works on is not anchored, and
  a batch whose items are being discarded has failed. `Receipts`: a receipt in memory
  or in a table is that of a confirmed transaction. `Committed`: the facts that point
  at a batch number as many as its leaves and have the ranks from 1, which the claim of
  the items keeps because it takes only free ones. `AcceptedOnce` and `Budgeted`: the
  transactions of a batch are counted against its attempts, also in the steps between
  the counting and the submission. For `ProofsTellAlteration`, `FactsRooted` says that
  the proof stored with a fact leads from the leaf of the sealed digest to the root of
  the batch it points at, `CopiesRooted` that every copy of a batch in memory has the
  root of its line, and `ChainRooted` that what the contract holds for a batch, or the
  node has in flight for it, is that root; no step changes a stored root (`RootsKept`).
  The proof of a fact is made when the batch is constituted, for the rank at which its
  leaf stands (`ConstituteProves`), where `ProofLeadsToRoot` applies; a published digest
  that differs from the sealed one is a different leaf, which `ProofOfOneLeaf` refuses.
* **Merkle tree** (`MerkleTreeTheorems`). The levels, the ranks along a path and the
  digest computed from a proof are recursive functions; they are shown to exist by
  extending approximations of them one number at a time, and to satisfy their equations
  (`LayersDefined`, `IndicesDefined`, `PathDefined`, `ComputedDefined`). Inductions are
  stated as a set of naturals that holds 0 and the successor of each of its members
  (`NaturalsIn`, from the well-foundedness of the naturals). `ProofLeadsToRoot`: after
  `i` siblings the computed digest is the one at rank `Indices[i]` of level `i`
  (`ReachedAbove`), and the levels shrink to one digest. `ProofOfOneLeaf`: a pair's
  digest and one half of it determine the other half, so two leaves that one proof leads
  to one root are equal. `ProvenIsInTree` descends the levels instead: what a proof leads
  to the root is a node of the tree, and the second hash of `ToLeaf` keeps a leaf apart
  from the inner nodes.

`DebtInv` was also checked by TLC, on an instance of `refunds` with a crash, a replay
and two attempts, before it was proved; so were `Lost`, `Repaid` and the sweep's part
of `LossInv`, on one with two failing statements, a crash, a replay and two
attempts (8.4 million states), and `FactsRooted`, `CopiesRooted` and `ChainRooted`, on
the instance of `anchoring`.

Only model-checked: liveness (`TakenLegSettles`, `QueueDrains`,
`NotificationsProcessed`, `ExecutedCaseCloses`, `AskedRefundSettles`,
`TransferSettles`, `ClosureSettles`), which rests on fairness, out of reach of the
prover. `MCAnchoring` also evaluates the properties of the tree over every tree of up to
7 leaves, which the theorems now state for every tree.

## 5. Plan

Left to prove: the books and both views of a refund under failed SQL statements other
than the acknowledgement of a recorded failure, which breaks them; that a case is swept
once (though not that it stays matched) beside a worker that outlasts its lease.

## 6. Not modelled

Authentication and API keys, field encryption, XML text and XSD validation, metrics,
health, the simulator, configuration and migrations have no state that the control of
a payment depends on, or are conversions of data that no property tells apart. The
administration of the contract (submitters, ownership) is left out: the gateway never
calls it. The installer of the journal's triggers is not a step of the model: the
rules give balanced entries without them (`PostingBalanced`).
