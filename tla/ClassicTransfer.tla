-------------------------- MODULE ClassicTransfer ---------------------------
(***************************************************************************)
(* The classic transfer (TransactionsService.initiateTransfer): POST       *)
(* /transfers requests served by several processes of the gateway, the     *)
(* lines and facts they write, the SOAP client that the requests of one    *)
(* process share, and the audit log.                                       *)
(*                                                                         *)
(* A SQL transaction is one step; every statement outside one, every call  *)
(* to the SOAP service and every wait for the shared client is a step of   *)
(* its own.  The entity a request works on stays in its memory.            *)
(***************************************************************************)
EXTENDS Integers, Sequences, FiniteSets, TransactionState, ChainVerification, SoapExchange

CONSTANTS
  Requests,              \* POST /transfers requests
  Gateways,              \* processes of the gateway
  Home,                  \* the process that serves each request
  KeyOf,                 \* the Idempotency-Key of each request, or NoKey
  NoKey,
  References,            \* references the generator may draw
  NoRef,
  MaxSoapAttempts,       \* SOAP_MAX_RETRIES + 1
  MaxReferenceAttempts,  \* MAX_REFERENCE_ATTEMPTS
  CommitFates,           \* how a SQL transaction may end
  MaxFaults              \* abrupt stops and SQL errors in a behaviour

ASSUME TransferConstants ==
  /\ Home \in [Requests -> Gateways]
  /\ NoRef \notin References
  /\ MaxSoapAttempts \in Nat \ {0} /\ MaxReferenceAttempts \in Nat \ {0}
  /\ CommitFates \subseteq {"committed", "rolled back", "unacknowledged"}
  /\ MaxFaults \in Nat

VARIABLES
  line,      \* transactions, by reference; status "NONE": no line
  facts,     \* transaction_events, by reference
  trail,     \* audit_logs, by reference: the directions recorded
  answers,   \* what the calls made for a line were found to return
  request,   \* what each request has in memory
  client,    \* clientPromise of each process
  faults     \* abrupt stops and SQL errors so far, at most MaxFaults

tables == <<line, facts, trail>>
vars == <<line, facts, trail, answers, request, client, faults>>

Keys == {KeyOf[r] : r \in Requests} \union {NoKey}
Cause == {"none", "internal"} \union (Verdict \ {"result"})
Line == [status: TransactionStatus \union {"NONE"}, key: Keys, reason: Cause]
NoLine == [status |-> "NONE", key |-> NoKey, reason |-> "none"]

AuditDirection ==
  {"DOCUMENT_VALIDATED", "OUTBOUND_REQUEST", "INBOUND_RESPONSE", "INBOUND_FAULT",
   "COMMUNICATION_ERROR"}

(* Where a request is in initiateTransfer, processTransaction and          *)
(* handleProcessingFailure.                                                *)
Working ==
  {"persisting", "marking", "documenting", "connecting", "waiting", "calling", "tracing request",
   "tracing response", "completing", "failing", "reporting"}

(* What the client is told: the refusal of the request, the line of an     *)
(* earlier request, the outcome of its own transfer, or an internal error. *)
Told == {"nothing", "refused", "replay", "completed", "failed", "error"}

Request ==
  [pc: Working \union {"idle", "done", "lost"}, ref: References \union {NoRef},
   attempt: Nat, cause: Cause, told: Told]

TransferTypeOK ==
  /\ line \in [References -> Line]
  /\ facts \in [References -> Seq({"TRANSFER_INITIATED", "TRANSFER_COMPLETED",
                                   "TRANSFER_FAILED", "CASE_CLOSED"})]
  /\ trail \in [References -> SUBSET AuditDirection]
  /\ answers \in [References -> SUBSET Verdict]
  /\ request \in [Requests -> Request]
  /\ client \in [Gateways -> {"none", "creating", "ready"}]
  /\ faults \in 0..MaxFaults

Init ==
  /\ line = [ref \in References |-> NoLine]
  /\ facts = [ref \in References |-> << >>]
  /\ trail = [ref \in References |-> {}]
  /\ answers = [ref \in References |-> {}]
  /\ request = [r \in Requests |-> [pc |-> "idle", ref |-> NoRef, attempt |-> 1,
                                    cause |-> "none", told |-> "nothing"]]
  /\ client = [g \in Gateways |-> "none"]
  /\ faults = 0

-----------------------------------------------------------------------------
(* stateOf: a classic transfer uses the global status and the defaults.    *)
StateOf(status) ==
  [status |-> status, providerStatus |-> Null, bankStatus |-> Null,
   reconciliationStatus |-> Null, refundStatus |-> "NOT_REQUIRED", caseStatus |-> "NONE",
   paymentChannel |-> "LEGACY_TRANSFER"]

(* What the state machine is asked.  A request keeps the state its line    *)
(* had when it was inserted, and compares both outcomes with that state.   *)
OpeningAllowed    == AssertInitialState(StateOf("PENDING"))
CompletionAllowed == AssertTransition(StateOf("PENDING"), StateOf("COMPLETED"))
FailureAllowed    == AssertTransition(StateOf("PENDING"), StateOf("FAILED"))

(* The end of a SQL transaction: its effect is applied or rolled back, and *)
(* when the acknowledgement of the commit is lost the process sees an      *)
(* error although the effect was applied.                                  *)
Ends(fate) ==
  /\ fate # "committed" => faults < MaxFaults
  /\ faults' = IF fate = "committed" THEN faults ELSE faults + 1

Applied(fate, before, after) == IF fate = "rolled back" THEN before ELSE after

Exists(ref) == line[ref].status # "NONE"

(* Lines that hold an idempotency key: at most one, by the constraint      *)
(* UQ_transactions_idempotency_key.                                        *)
HoldersOf(key) == {ref \in References : key # NoKey /\ Exists(ref) /\ line[ref].key = key}

Turn(r, from) == request[r].pc = from

(* AuditService.record never throws: an entry that cannot be written is    *)
(* lost.                                                                   *)
Record(ref, direction) ==
  \E fate \in CommitFates :
    /\ Ends(fate)
    /\ trail' = Applied(fate, trail, [trail EXCEPT ![ref] = @ \union {direction}])

-----------------------------------------------------------------------------
(* The checks a request passes before anything is written: the business    *)
(* rules of assertBusinessRules, then the XSD of the canonical document.   *)
Dto == [currencyAllowed: BOOLEAN, withinLimit: BOOLEAN, distinctAccounts: BOOLEAN,
        matchesSchema: BOOLEAN]

AssertBusinessRules(dto) == dto.currencyAllowed /\ dto.withinLimit /\ dto.distinctAccounts

Acceptances ==
  {b \in BOOLEAN : \E dto \in Dto : b = (AssertBusinessRules(dto) /\ dto.matchesSchema)}

(* initiateTransfer up to the search for an earlier request with the key.  *)
InitiateTransfer(r) ==
  /\ Turn(r, "idle")
  /\ \E accepted \in Acceptances :
       request' = [request EXCEPT ![r] =
         IF ~accepted THEN [@ EXCEPT !.pc = "done", !.told = "refused"]
         ELSE IF HoldersOf(KeyOf[r]) # {}
         THEN [@ EXCEPT !.pc = "done", !.told = "replay",
                        !.ref = CHOOSE ref \in HoldersOf(KeyOf[r]) : TRUE]
         ELSE [@ EXCEPT !.pc = "persisting"]]
  /\ UNCHANGED <<tables, answers, client, faults>>

(* persistPendingTransaction, one attempt: the line and its opening fact.  *)
InsertPending(r, ref) ==
  /\ ~Exists(ref) /\ HoldersOf(KeyOf[r]) = {}
  /\ OpeningAllowed
  /\ \E fate \in CommitFates :
       /\ Ends(fate)
       /\ line' = Applied(fate, line, [line EXCEPT ![ref] =
                    [NoLine EXCEPT !.status = "PENDING", !.key = KeyOf[r]]])
       /\ facts' = Applied(fate, facts, [facts EXCEPT ![ref] = Append(@, "TRANSFER_INITIATED")])
       /\ request' = [request EXCEPT ![r] =
            IF fate = "committed" THEN [@ EXCEPT !.pc = "marking", !.ref = ref, !.attempt = 1]
            ELSE [@ EXCEPT !.pc = "done", !.told = "error"]]
  /\ UNCHANGED <<trail, answers, client>>

(* Mutant: the request that lost the race goes on with the winner's line.  *)
LosesKeyRaceAndProcesses(r) ==
  /\ HoldersOf(KeyOf[r]) # {}
  /\ request' = [request EXCEPT ![r] =
       [@ EXCEPT !.pc = "marking", !.ref = CHOOSE ref \in HoldersOf(KeyOf[r]) : TRUE]]
  /\ UNCHANGED <<tables, answers, client, faults>>

(* The key was taken since the search: the winner's line is returned.      *)
LosesKeyRace(r) ==
  /\ HoldersOf(KeyOf[r]) # {}
  /\ request' = [request EXCEPT ![r] =
       [@ EXCEPT !.pc = "done", !.told = "replay",
                 !.ref = CHOOSE ref \in HoldersOf(KeyOf[r]) : TRUE]]
  /\ UNCHANGED <<tables, answers, client, faults>>

(* The drawn reference exists: another is drawn, a few times.              *)
ReferenceCollision(r, ref) ==
  /\ Exists(ref)
  /\ request' = [request EXCEPT ![r] =
       IF @.attempt < MaxReferenceAttempts THEN [@ EXCEPT !.attempt = request[r].attempt + 1]
       ELSE [@ EXCEPT !.pc = "done", !.told = "error"]]
  /\ UNCHANGED <<tables, answers, client, faults>>

PersistPendingTransaction(r) ==
  /\ Turn(r, "persisting")
  /\ \E ref \in References :
       \/ InsertPending(r, ref)
       \/ LosesKeyRace(r)
       \/ ReferenceCollision(r, ref)

-----------------------------------------------------------------------------
(* processTransaction: the line becomes PROCESSING, outside any SQL        *)
(* transaction, without a fact and before the try: an error here leaves    *)
(* the line as it is.                                                      *)
MarkProcessing(r) ==
  /\ Turn(r, "marking")
  /\ \E fate \in CommitFates :
       /\ Ends(fate)
       /\ line' = Applied(fate, line, [line EXCEPT ![request[r].ref].status = "PROCESSING"])
       /\ request' = [request EXCEPT ![r] =
            IF fate = "committed" THEN [@ EXCEPT !.pc = "documenting"]
            ELSE [@ EXCEPT !.pc = "done", !.told = "error"]]
  /\ UNCHANGED <<facts, trail, answers, client>>

(* Entries of the audit log around the exchange: the canonical document    *)
(* before it, the request and the response after it.                       *)
Traces(r, from, direction, to) ==
  /\ Turn(r, from)
  /\ Record(request[r].ref, direction)
  /\ request' = [request EXCEPT ![r].pc = to]
  /\ UNCHANGED <<line, facts, answers, client>>

RecordDocument(r) == Traces(r, "documenting", "DOCUMENT_VALIDATED", "connecting")
RecordOutbound(r) == Traces(r, "tracing request", "OUTBOUND_REQUEST", "tracing response")
RecordInbound(r)  == Traces(r, "tracing response", "INBOUND_RESPONSE", "completing")

(* getClient: the requests of a process wait for one creation, and use     *)
(* the client it leaves.                                                   *)
GetClient(r) ==
  /\ Turn(r, "connecting")
  /\ LET g == Home[r] IN
       /\ client' = [client EXCEPT ![g] = IF @ = "none" THEN "creating" ELSE @]
       /\ request' = [request EXCEPT ![r].pc = IF client[g] = "ready" THEN "calling" ELSE "waiting"]
  /\ UNCHANGED <<tables, answers, faults>>

WaitingAt(g) == {r \in Requests : Home[r] = g /\ Turn(r, "waiting")}

ClientCreated(g) ==
  /\ client[g] = "creating"
  /\ client' = [client EXCEPT ![g] = "ready"]
  /\ request' = [r \in Requests |->
       IF r \in WaitingAt(g) THEN [request[r] EXCEPT !.pc = "calling"] ELSE request[r]]
  /\ UNCHANGED <<tables, answers, faults>>

(* invoke, the end of an attempt: a failed communication is tried again    *)
(* until the attempts are used up, any other failure is thrown at once.    *)
AfterAttempt(q, verdict) ==
  CASE verdict = "result" -> [q EXCEPT !.pc = "tracing request"]
    [] verdict \in Retryable /\ q.attempt < MaxSoapAttempts ->
         [q EXCEPT !.pc = "connecting", !.attempt = @ + 1]
    [] OTHER -> [q EXCEPT !.pc = "failing", !.cause = verdict]

\* Mutant: the creation that failed is forgotten with those who wait for it.
ClientFailedForgetsWaiters(g) ==
  /\ client[g] = "creating"
  /\ client' = [client EXCEPT ![g] = "none"]
  /\ UNCHANGED <<tables, answers, request, faults>>

(* createClient fails: every request that waits fails its attempt, and the *)
(* promise is not kept.                                                    *)
ClientFailed(g) ==
  /\ client[g] = "creating"
  /\ client' = [client EXCEPT ![g] = "none"]
  /\ request' = [r \in Requests |->
       IF r \in WaitingAt(g) THEN AfterAttempt(request[r], "communication") ELSE request[r]]
  /\ UNCHANGED <<tables, answers, faults>>

(* One call of convertAmountToWords.                                       *)
Call(r) ==
  /\ Turn(r, "calling")
  /\ \E verdict \in PossibleVerdicts :
       /\ answers' = [answers EXCEPT ![request[r].ref] = @ \union {verdict}]
       /\ request' = [request EXCEPT ![r] = AfterAttempt(@, verdict)]
  /\ UNCHANGED <<tables, client, faults>>

\* Mutant: the closure is left to a later transaction.
CompleteWithoutClosure(r) ==
  /\ Turn(r, "completing")
  /\ CompletionAllowed
  /\ \E fate \in CommitFates : LET ref == request[r].ref IN
       /\ Ends(fate)
       /\ line' = Applied(fate, line, [line EXCEPT ![ref].status = "COMPLETED"])
       /\ facts' = Applied(fate, facts, [facts EXCEPT ![ref] = Append(@, "TRANSFER_COMPLETED")])
       /\ request' = [request EXCEPT ![r] =
            IF fate = "committed" THEN [@ EXCEPT !.pc = "done", !.told = "completed"]
            ELSE [@ EXCEPT !.pc = "failing", !.cause = "internal"]]
  /\ UNCHANGED <<trail, answers, client>>

\* Mutant: an error of the last SQL transaction is ignored.
CompleteIgnoresError(r) ==
  /\ Turn(r, "completing")
  /\ \E fate \in CommitFates : LET ref == request[r].ref IN
       /\ Ends(fate)
       /\ line' = Applied(fate, line, [line EXCEPT ![ref].status = "COMPLETED"])
       /\ facts' = Applied(fate, facts, [facts EXCEPT ![ref] =
                    CloseCase(Append(@, "TRANSFER_COMPLETED"))])
       /\ request' = [request EXCEPT ![r] =
            [@ EXCEPT !.pc = "done", !.told = "completed"]]
  /\ UNCHANGED <<trail, answers, client>>

(* The last SQL transaction of a transfer that succeeded: line, fact and   *)
(* closure.  The state machine compares with the state read before the     *)
(* call; an error is handled like a failed exchange.                       *)
Complete(r) ==
  /\ Turn(r, "completing")
  /\ CompletionAllowed
  /\ \E fate \in CommitFates : LET ref == request[r].ref IN
       /\ Ends(fate)
       /\ line' = Applied(fate, line, [line EXCEPT ![ref].status = "COMPLETED"])
       /\ facts' = Applied(fate, facts, [facts EXCEPT ![ref] =
                    CloseCase(Append(@, "TRANSFER_COMPLETED"))])
       /\ request' = [request EXCEPT ![r] =
            IF fate = "committed" THEN [@ EXCEPT !.pc = "done", !.told = "completed"]
            ELSE [@ EXCEPT !.pc = "failing", !.cause = "internal"]]
  /\ UNCHANGED <<trail, answers, client>>

-----------------------------------------------------------------------------
(* handleProcessingFailure: persistFailedTransaction writes the failure,   *)
(* its fact and the closure; an error here goes to the client and leaves   *)
(* the line as it is.                                                      *)
PersistFailedTransaction(r) ==
  /\ Turn(r, "failing")
  /\ FailureAllowed
  /\ \E fate \in CommitFates : LET ref == request[r].ref q == request[r] IN
       /\ Ends(fate)
       /\ line' = Applied(fate, line, [line EXCEPT ![ref] =
                    [@ EXCEPT !.status = "FAILED", !.reason = q.cause]])
       /\ facts' = Applied(fate, facts, [facts EXCEPT ![ref] =
                    CloseCase(Append(@, "TRANSFER_FAILED"))])
       /\ request' = [request EXCEPT ![r] =
            IF fate # "committed" THEN [@ EXCEPT !.pc = "done", !.told = "error"]
            ELSE IF q.cause = "internal" THEN [@ EXCEPT !.pc = "done", !.told = "failed"]
            ELSE [@ EXCEPT !.pc = "reporting"]]
  /\ UNCHANGED <<trail, answers, client>>

(* ... then traces the failed exchange and answers the client.             *)
ReportFailure(r) ==
  /\ Turn(r, "reporting")
  /\ Record(request[r].ref,
            IF request[r].cause = "fault" THEN "INBOUND_FAULT" ELSE "COMMUNICATION_ERROR")
  /\ request' = [request EXCEPT ![r] = [@ EXCEPT !.pc = "done", !.told = "failed"]]
  /\ UNCHANGED <<line, facts, answers, client>>

(* A process stops: its requests and its client are gone.                  *)
Crash(g) ==
  /\ faults < MaxFaults
  /\ faults' = faults + 1
  /\ client' = [client EXCEPT ![g] = "none"]
  /\ request' = [r \in Requests |->
       IF Home[r] = g /\ request[r].pc \in Working THEN [request[r] EXCEPT !.pc = "lost"]
       ELSE request[r]]
  /\ UNCHANGED <<tables, answers>>

Serve(r) ==
  \/ PersistPendingTransaction(r)
  \/ MarkProcessing(r)
  \/ RecordDocument(r) \/ RecordOutbound(r) \/ RecordInbound(r)
  \/ GetClient(r)
  \/ Call(r)
  \/ Complete(r)
  \/ PersistFailedTransaction(r)
  \/ ReportFailure(r)

CreateClient(g) == ClientCreated(g) \/ ClientFailed(g)

Next ==
  \/ \E r \in Requests : InitiateTransfer(r) \/ Serve(r)
  \/ \E g \in Gateways : CreateClient(g) \/ Crash(g)

Spec == Init /\ [][Next]_vars

(* A request that was taken goes on by itself: its calls and the creation  *)
(* of the client end by a result or by the configured timeout.             *)
FairSpec ==
  /\ Spec
  /\ \A r \in Requests : WF_vars(Serve(r))
  /\ \A g \in Gateways : WF_vars(CreateClient(g))

-----------------------------------------------------------------------------
(* The request that created the line it works on.                          *)
Owns(r) == request[r].ref # NoRef /\ request[r].told # "replay"
Final == {"COMPLETED", "FAILED"}

(***************************************************************************)
(* Requests that carry one idempotency key, in whatever order and on       *)
(* whatever process, create one line, and one of them alone works on it:   *)
(* the others are given that line (initiateTransfer: "La rejouer emettrait *)
(* un second appel SOAP pour un seul virement").                           *)
(***************************************************************************)
OneTransferPerKey ==
  \A r1, r2 \in Requests :
    r1 # r2 /\ KeyOf[r1] = KeyOf[r2] /\ KeyOf[r1] # NoKey =>
      /\ ~(Owns(r1) /\ Owns(r2))
      /\ request[r1].ref # NoRef /\ request[r2].ref # NoRef => request[r1].ref = request[r2].ref

(***************************************************************************)
(* A verification at any moment between two SQL transactions finds no      *)
(* trace of tampering: a line is final exactly when its chain is closed by *)
(* the last fact (persistFailedTransaction: "Un echec consigne a moitie    *)
(* serait le pire des cas").                                               *)
(***************************************************************************)
ClosedWhenFinal ==
  \A ref \in References :
    Exists(ref) =>
      /\ ~Tampered(StateOf(line[ref].status), facts[ref])
      /\ Holds(facts[ref], "CASE_CLOSED") => line[ref].status \in Final

(***************************************************************************)
(* What a final line says is what the calls returned: COMPLETED after a    *)
(* result and no earlier answer of the service, FAILED with the verdict of *)
(* the last call, and "internal" exactly when the service had answered and *)
(* the line could not be completed.  The audit log holds no entry of a     *)
(* failed exchange for a line that is not FAILED, whichever entries were   *)
(* lost.                                                                   *)
(***************************************************************************)
LineTellsExchange ==
  \A ref \in References :
    /\ line[ref].status = "COMPLETED" =>
         "result" \in answers[ref] /\ answers[ref] \ {"result"} \subseteq {"communication"}
    /\ line[ref].status = "FAILED" =>
         /\ line[ref].reason = "internal" <=> "result" \in answers[ref]
         /\ line[ref].reason \in {"fault", "parsing"} => line[ref].reason \in answers[ref]
    /\ trail[ref] \intersect {"INBOUND_FAULT", "COMMUNICATION_ERROR"} # {} =>
         line[ref].status = "FAILED" /\ "INBOUND_RESPONSE" \notin trail[ref]

(***************************************************************************)
(* The client that is told an outcome of its transfer can read that same   *)
(* outcome from then on (handleProcessingFailure: "le client peut toujours *)
(* interroger GET /transfers/{reference}").                                *)
(***************************************************************************)
ToldAsRecorded ==
  \A r \in Requests :
    /\ request[r].told = "completed" => line[request[r].ref].status = "COMPLETED"
    /\ request[r].told = "failed" => line[request[r].ref].status = "FAILED"
    /\ request[r].told = "replay" => Exists(request[r].ref)

(***************************************************************************)
(* A transfer that reached a final status keeps it, and its chain stops    *)
(* growing (TERMINAL_STATUSES: "Etats a partir desquels aucune transition  *)
(* n'est plus possible").  The state machine cannot enforce it alone: it   *)
(* compares with the state the request read before its call.               *)
(***************************************************************************)
TerminalIsFinal ==
  [][\A ref \in References :
       line[ref].status \in Final => line'[ref] = line[ref] /\ facts'[ref] = facts[ref]]_vars

(***************************************************************************)
(* A transfer that was registered ends, COMPLETED or FAILED, unless its    *)
(* process stopped or an error of the database interrupted it: no request  *)
(* waits for ever for the service or for the client its process shares.    *)
(* Nothing resumes an interrupted transfer.                                *)
(***************************************************************************)
TransferSettles ==
  \A r \in Requests :
    Owns(r) ~> (request[r].pc = "lost" \/ request[r].told \in {"completed", "failed", "error"})
=============================================================================
