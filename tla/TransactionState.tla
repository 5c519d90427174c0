-------------------------- MODULE TransactionState --------------------------
(***************************************************************************)
(* The state of a transaction reduced to its status dimensions, the table  *)
(* of legal moves of each dimension, the invariants between dimensions and *)
(* the state machine that every write of the gateway goes through          *)
(* (src/src/transactions/state).  Pure operators, no variables.            *)
(***************************************************************************)

TransactionStatus    == {"PENDING", "PROCESSING", "COMPLETED", "FAILED"}
ProviderStatus       == {"INITIATED", "PENDING", "CONFIRMED", "FAILED"}
BankProcessingStatus == {"NOT_STARTED", "PROCESSING", "COMPLETED", "FAILED", "BLOCKED"}
ReconciliationStatus == {"PENDING", "MATCHED", "MISMATCH", "AMOUNT_MISMATCH",
                         "CURRENCY_MISMATCH", "NOT_APPLICABLE", "MANUAL_REVIEW"}
RefundStatus         == {"NOT_REQUIRED", "REQUIRED", "REQUESTED", "COMPLETED", "FAILED"}
CaseStatus           == {"NONE", "MANUAL_REVIEW", "RESOLVED"}
PaymentChannel       == {"LEGACY_TRANSFER", "MOBILE_MONEY"}

(* A column the channel of the transaction does not use is SQL NULL.       *)
Null == "null"

(***************************************************************************)
(* TRANSITIONS: the moves each dimension admits.  A value that starts no   *)
(* pair is terminal.                                                       *)
(***************************************************************************)
StatusMoves ==
  {<<"PENDING", "PROCESSING">>, <<"PENDING", "COMPLETED">>, <<"PENDING", "FAILED">>,
   <<"PROCESSING", "COMPLETED">>, <<"PROCESSING", "FAILED">>}

ProviderMoves ==
  {<<"INITIATED", "PENDING">>, <<"INITIATED", "CONFIRMED">>, <<"INITIATED", "FAILED">>,
   <<"PENDING", "CONFIRMED">>, <<"PENDING", "FAILED">>}

BankMoves ==
  {<<"NOT_STARTED", "PROCESSING">>, <<"NOT_STARTED", "BLOCKED">>,
   <<"PROCESSING", "COMPLETED">>, <<"PROCESSING", "FAILED">>}

ReconciliationMoves ==
  ({"PENDING"} \X (ReconciliationStatus \ {"PENDING"}))
    \union ({"MANUAL_REVIEW"} \X {"MATCHED", "MISMATCH", "PENDING"})
    \union {<<"MISMATCH", "MANUAL_REVIEW">>}

RefundMoves ==
  {<<"NOT_REQUIRED", "REQUIRED">>}
    \union ({"REQUIRED"} \X {"REQUESTED", "COMPLETED", "FAILED"})
    \union ({"REQUESTED"} \X {"COMPLETED", "FAILED"})
    \union ({"FAILED"} \X {"REQUESTED", "REQUIRED", "COMPLETED"})

CaseMoves == {<<"NONE", "MANUAL_REVIEW">>, <<"MANUAL_REVIEW", "RESOLVED">>}

(* An identical rewrite is always tolerated, and a dimension that is null  *)
(* on either side is not a transition.                                     *)
LegalMove(moves, from, to) ==
  \/ from = to
  \/ to = Null
  \/ from = Null
  \/ <<from, to>> \in moves

NoIllegalMoves(before, after) ==
  /\ LegalMove(StatusMoves, before.status, after.status)
  /\ LegalMove(ProviderMoves, before.providerStatus, after.providerStatus)
  /\ LegalMove(BankMoves, before.bankStatus, after.bankStatus)
  /\ LegalMove(ReconciliationMoves, before.reconciliationStatus, after.reconciliationStatus)
  /\ LegalMove(RefundMoves, before.refundStatus, after.refundStatus)
  /\ LegalMove(CaseMoves, before.caseStatus, after.caseStatus)

(***************************************************************************)
(* INVARIANTS: one operator per rule.  The table carries the same rules as *)
(* CHECK constraints.                                                      *)
(***************************************************************************)
RefundEngaged == {"REQUIRED", "REQUESTED", "COMPLETED", "FAILED"}

BankRequiresProviderConfirmation(state) ==
  \/ state.paymentChannel # "MOBILE_MONEY"
  \/ state.bankStatus \in {Null, "NOT_STARTED"}
  \/ state.providerStatus = "CONFIRMED"

RefundRequiresCollection(state) ==
  \/ state.paymentChannel # "MOBILE_MONEY"
  \/ state.refundStatus \notin RefundEngaged
  \/ state.providerStatus = "CONFIRMED"

ResolvedCaseRequiresExtinctDebt(state) ==
  \/ state.caseStatus # "RESOLVED"
  \/ state.refundStatus \in {"COMPLETED", "NOT_REQUIRED", Null}

MatchedRequiresBothLegsDone(state) ==
  \/ state.reconciliationStatus # "MATCHED"
  \/ state.paymentChannel # "MOBILE_MONEY"
  \/ state.providerStatus = "CONFIRMED" /\ state.bankStatus = "COMPLETED"

BlockedBankImpliesDeclaredGap(state) ==
  \/ state.bankStatus # "BLOCKED"
  \/ state.reconciliationStatus \in {"AMOUNT_MISMATCH", "CURRENCY_MISMATCH"}

NoBrokenInvariants(state) ==
  /\ BankRequiresProviderConfirmation(state)
  /\ RefundRequiresCollection(state)
  /\ ResolvedCaseRequiresExtinctDebt(state)
  /\ MatchedRequiresBothLegsDone(state)
  /\ BlockedBankImpliesDeclaredGap(state)

(***************************************************************************)
(* TransactionStateMachine: a refused transition throws, and the exception *)
(* rolls back the SQL transaction it is raised in.                         *)
(***************************************************************************)
\* Mutant: the tables of moves are not consulted.
AssertTransitionSkipsMoves(before, after) == NoBrokenInvariants(after)

\* Mutant: the invariants between dimensions are not consulted.
AssertTransitionSkipsInvariants(before, after) == NoIllegalMoves(before, after)

AssertTransition(before, after) ==
  /\ NoIllegalMoves(before, after)
  /\ NoBrokenInvariants(after)

AssertInitialState(state) == NoBrokenInvariants(state)
=============================================================================
