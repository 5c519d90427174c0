---------------------- MODULE ClassicTransferTheorems -----------------------
(***************************************************************************)
(* Proofs about ClassicTransfer, for any number of requests, processes,    *)
(* references, attempts and faults.                                        *)
(*                                                                         *)
(* What depends on who owns a line (TransferOwned) holds whatever becomes  *)
(* of a commit; what depends on how far its owner is (TransferInv) holds   *)
(* while the acknowledgement of a commit is not lost.                      *)
(***************************************************************************)
EXTENDS ClassicTransfer, TLAPS, SequenceTheorems

FactTypes == {"TRANSFER_INITIATED", "TRANSFER_COMPLETED", "TRANSFER_FAILED", "CASE_CLOSED"}

(* The steps of a request that has its line.                               *)
Active == Working \ {"persisting"}
Unsettled == {"PENDING", "PROCESSING"}

(* The line that a request names exists and has its key.                   *)
Named(r) ==
  request[r].ref # NoRef =>
    Exists(request[r].ref) /\ line[request[r].ref].key = KeyOf[r]

(* A request has a line from its insertion on, and an answer at its end.   *)
Placed(q) ==
  /\ q.pc \in {"idle", "persisting"} => q.ref = NoRef
  /\ q.pc \in Active => q.ref # NoRef
  /\ q.told = "nothing" <=> q.pc # "done"
  /\ q.told \in {"completed", "failed", "replay"} => q.ref # NoRef

UniqueOwner ==
  \A r1, r2 \in Requests :
    Owns(r1) /\ Owns(r2) /\ request[r1].ref = request[r2].ref => r1 = r2

(* UQ_transactions_idempotency_key.                                        *)
UniqueKey ==
  \A ref1, ref2 \in References :
    Exists(ref1) /\ Exists(ref2) /\ line[ref1].key = line[ref2].key /\ line[ref1].key # NoKey
      => ref1 = ref2

TransferOwned ==
  /\ TransferTypeOK
  /\ \A r \in Requests : Named(r) /\ Placed(request[r])
  /\ UniqueOwner
  /\ UniqueKey

(* What the line and the answers of the service are while a request is at  *)
(* a step, and once it has told its client.                                *)
Consistent(q, l, a) ==
  /\ q.pc \in Active \ {"reporting"} => l.status \in Unsettled
  /\ q.pc \in {"marking", "documenting"} => a = {}
  /\ q.pc \in {"connecting", "waiting", "calling"} => a \subseteq {"communication"}
  /\ q.pc \in {"tracing request", "tracing response", "completing"} =>
       "result" \in a /\ a \subseteq {"result", "communication"}
  /\ q.pc = "failing" =>
       /\ q.cause = "internal" <=> "result" \in a
       /\ q.cause \in {"fault", "parsing"} => q.cause \in a
  /\ q.pc = "reporting" => l.status = "FAILED" /\ l.reason = q.cause /\ q.cause # "internal"
  /\ q.told = "completed" => l.status = "COMPLETED"
  /\ q.told = "failed" => l.status = "FAILED"

(* The two shapes of a chain: opened, and ended by a fact and the closure. *)
Opened(f) == Len(f) = 1 /\ f[1] = "TRANSFER_INITIATED"
Ended(f, type) == Len(f) = 3 /\ f[1] = "TRANSFER_INITIATED" /\ f[2] = type /\ f[3] = "CASE_CLOSED"

FailureEntries == {"INBOUND_FAULT", "COMMUNICATION_ERROR"}

(* What the four tables say of one reference.                              *)
Recorded(l, f, t, a) ==
  /\ l.status = "NONE" => f = << >> /\ t = {} /\ a = {}
  /\ l.status \in Unsettled => Opened(f)
  /\ l.status = "COMPLETED" =>
       Ended(f, "TRANSFER_COMPLETED") /\ "result" \in a /\ a \subseteq {"result", "communication"}
  /\ l.status = "FAILED" =>
       /\ Ended(f, "TRANSFER_FAILED")
       /\ l.reason = "internal" <=> "result" \in a
       /\ l.reason \in {"fault", "parsing"} => l.reason \in a
  /\ t \intersect FailureEntries # {} => l.status = "FAILED" /\ l.reason # "internal"
  /\ "INBOUND_RESPONSE" \in t => "result" \in a

TransferInv ==
  /\ TransferOwned
  /\ \A r \in Requests :
       Owns(r) => Consistent(request[r], line[request[r].ref], answers[request[r].ref])
  /\ \A ref \in References : Recorded(line[ref], facts[ref], trail[ref], answers[ref])
-----------------------------------------------------------------------------
(* A chain that one fact is added to, and that is then closed.             *)
LEMMA CloseCaseType ==
  ASSUME NEW f \in Seq(FactTypes), NEW type \in FactTypes
  PROVE  CloseCase(Append(f, type)) \in Seq(FactTypes)
<1>1. Append(f, type) \in Seq(FactTypes)
  BY AppendProperties
<1>2. "CASE_CLOSED" \in FactTypes
  BY DEF FactTypes
<1>3. Append(Append(f, type), "CASE_CLOSED") \in Seq(FactTypes)
  BY <1>1, <1>2, AppendProperties
<1>. QED  BY <1>1, <1>3 DEF CloseCase

(* The end of a SQL transaction keeps the count of faults in its bound.    *)
LEMMA EndsType ==
  ASSUME NEW fate, Ends(fate), faults \in 0..MaxFaults
  PROVE  faults' \in 0..MaxFaults
<1>1. MaxFaults \in Nat
  BY TransferConstants
<1>. QED  BY <1>1 DEF Ends

(* An entry of the audit log.                                              *)
LEMMA RecordType ==
  ASSUME NEW ref, NEW d \in AuditDirection, Record(ref, d),
         trail \in [References -> SUBSET AuditDirection], faults \in 0..MaxFaults
  PROVE  trail' \in [References -> SUBSET AuditDirection] /\ faults' \in 0..MaxFaults
BY EndsType DEF Record, Applied

(* The end of an attempt.                                                  *)
LEMMA AfterAttemptType ==
  ASSUME NEW q \in Request, NEW v \in Verdict
  PROVE  /\ AfterAttempt(q, v) \in Request
         /\ AfterAttempt(q, v).ref = q.ref
         /\ AfterAttempt(q, v).told = q.told
         /\ AfterAttempt(q, v).pc \in {"tracing request", "connecting", "failing"}
<1>1. CASE v = "result"
  <2>1. AfterAttempt(q, v) = [q EXCEPT !.pc = "tracing request"]
    BY <1>1 DEF AfterAttempt, Retryable
  <2>. QED  BY <2>1 DEF Request, Working
<1>2. CASE v # "result" /\ v \in Retryable /\ q.attempt < MaxSoapAttempts
  <2>1. AfterAttempt(q, v) = [q EXCEPT !.pc = "connecting", !.attempt = @ + 1]
    BY <1>2 DEF AfterAttempt
  <2>2. q.attempt + 1 \in Nat
    BY DEF Request
  <2>. QED  BY <2>1, <2>2 DEF Request, Working
<1>3. CASE v # "result" /\ ~(v \in Retryable /\ q.attempt < MaxSoapAttempts)
  <2>1. v \in Cause
    BY <1>3 DEF Cause, Verdict
  <2>2. AfterAttempt(q, v) = [q EXCEPT !.pc = "failing", !.cause = v]
    BY <1>3 DEF AfterAttempt
  <2>. QED  BY <2>1, <2>2 DEF Request, Working
<1>. QED  BY <1>1, <1>2, <1>3

(* One request alone goes on: what the others have in memory stays.        *)
GoesOn(r) ==
  /\ request'[r] \in Request
  /\ request' = [request EXCEPT ![r] = request'[r]]

(* What each step of a request does.                                       *)
LEMMA InitiateEffect ==
  ASSUME TransferTypeOK, NEW r \in Requests, InitiateTransfer(r)
  PROVE  /\ UNCHANGED <<line, facts, trail, answers, client, faults>>
         /\ GoesOn(r)
         /\ request[r].pc = "idle"
         /\ LET q == request[r]  s == request'[r] IN
              \/ s.pc = "done" /\ s.told = "refused" /\ s.ref = q.ref
              \/ s.pc = "done" /\ s.told = "replay" /\ s.ref \in HoldersOf(KeyOf[r])
              \/ s.pc = "persisting" /\ s.told = q.told /\ s.ref = q.ref
<1>1. PICK accepted \in Acceptances :
        request' = [request EXCEPT ![r] =
          IF ~accepted THEN [@ EXCEPT !.pc = "done", !.told = "refused"]
          ELSE IF HoldersOf(KeyOf[r]) # {}
          THEN [@ EXCEPT !.pc = "done", !.told = "replay",
                         !.ref = CHOOSE ref \in HoldersOf(KeyOf[r]) : TRUE]
          ELSE [@ EXCEPT !.pc = "persisting"]]
  BY DEF InitiateTransfer
<1>2. request[r] \in Request /\ request[r].pc = "idle" /\ request \in [Requests -> Request]
  BY DEF TransferTypeOK, InitiateTransfer, Turn
<1>3. HoldersOf(KeyOf[r]) # {} =>
        /\ (CHOOSE ref \in HoldersOf(KeyOf[r]) : TRUE) \in HoldersOf(KeyOf[r])
        /\ (CHOOSE ref \in HoldersOf(KeyOf[r]) : TRUE) \in References
  BY DEF HoldersOf
<1>4. CASE ~accepted
  BY <1>1, <1>2, <1>4 DEF GoesOn, Request, Told, InitiateTransfer, tables
<1>5. CASE accepted /\ HoldersOf(KeyOf[r]) # {}
  BY <1>1, <1>2, <1>3, <1>5 DEF GoesOn, Request, Told, InitiateTransfer, tables
<1>6. CASE accepted /\ HoldersOf(KeyOf[r]) = {}
  BY <1>1, <1>2, <1>6 DEF GoesOn, Request, Working, InitiateTransfer, tables
<1>. QED  BY <1>4, <1>5, <1>6
(* What the insertion of a line changes (InsertPending).                   *)
LEMMA InsertEffect ==
  ASSUME TransferTypeOK, NEW r \in Requests, NEW ref \in References,
         Turn(r, "persisting"), InsertPending(r, ref)
  PROVE  /\ UNCHANGED <<trail, answers, client>> /\ GoesOn(r)
         /\ ~Exists(ref) /\ HoldersOf(KeyOf[r]) = {}
         /\ request[r].pc = "persisting"
         /\ \E fate \in CommitFates :
              /\ Ends(fate)
              /\ line' = Applied(fate, line, [line EXCEPT ![ref] =
                           [NoLine EXCEPT !.status = "PENDING", !.key = KeyOf[r]]])
              /\ facts' = Applied(fate, facts, [facts EXCEPT ![ref] = Append(@, "TRANSFER_INITIATED")])
              /\ fate = "committed" =>
                   request'[r].pc = "marking" /\ request'[r].ref = ref /\ request'[r].told = request[r].told
              /\ fate # "committed" =>
                   request'[r].pc = "done" /\ request'[r].ref = request[r].ref /\ request'[r].told = "error"
<1>1. PICK fate \in CommitFates :
        /\ Ends(fate)
        /\ line' = Applied(fate, line, [line EXCEPT ![ref] =
                     [NoLine EXCEPT !.status = "PENDING", !.key = KeyOf[r]]])
        /\ facts' = Applied(fate, facts, [facts EXCEPT ![ref] = Append(@, "TRANSFER_INITIATED")])
        /\ request' = [request EXCEPT ![r] =
             IF fate = "committed" THEN [@ EXCEPT !.pc = "marking", !.ref = ref, !.attempt = 1]
             ELSE [@ EXCEPT !.pc = "done", !.told = "error"]]
  BY DEF InsertPending
<1>2. request[r] \in Request /\ request[r].pc = "persisting" /\ request \in [Requests -> Request]
  BY DEF TransferTypeOK, Turn
<1>4. CASE fate = "committed"
  <2>1. /\ GoesOn(r)
        /\ request'[r].pc = "marking" /\ request'[r].ref = ref /\ request'[r].told = request[r].told
    BY <1>1, <1>2, <1>4 DEF GoesOn, Request, Working
  <2>. QED  BY <1>1, <1>2, <1>4, <2>1 DEF InsertPending
<1>5. CASE fate # "committed"
  <2>1. /\ GoesOn(r)
        /\ request'[r].pc = "done" /\ request'[r].ref = request[r].ref /\ request'[r].told = "error"
    BY <1>1, <1>2, <1>5 DEF GoesOn, Request, Told
  <2>. QED  BY <1>1, <1>2, <1>5, <2>1 DEF InsertPending
<1>. QED  BY <1>4, <1>5

(* What an attempt to persist changes: the insertion, or a lost race or a  *)
(* collision.                                                              *)
LEMMA PersistEffect ==
  ASSUME TransferTypeOK, NEW r \in Requests, PersistPendingTransaction(r)
  PROVE  \/ \E ref \in References : Turn(r, "persisting") /\ InsertPending(r, ref)
         \/ /\ UNCHANGED <<line, facts, trail, answers, client, faults>>
            /\ GoesOn(r)
            /\ request[r].pc = "persisting"
            /\ LET q == request[r]  s == request'[r] IN
                 \/ s.pc = "done" /\ s.told = "replay" /\ s.ref \in HoldersOf(KeyOf[r])
                 \/ s.pc = "persisting" /\ s.told = q.told /\ s.ref = q.ref
                 \/ s.pc = "done" /\ s.told = "error" /\ s.ref = q.ref
<1>1. request[r] \in Request /\ request[r].pc = "persisting" /\ request \in [Requests -> Request]
  BY DEF TransferTypeOK, PersistPendingTransaction, Turn
<1>2. CASE LosesKeyRace(r)
  <2>1. /\ (CHOOSE ref \in HoldersOf(KeyOf[r]) : TRUE) \in HoldersOf(KeyOf[r])
        /\ (CHOOSE ref \in HoldersOf(KeyOf[r]) : TRUE) \in References
    BY <1>2 DEF LosesKeyRace, HoldersOf
  <2>. QED  BY <1>1, <1>2, <2>1 DEF LosesKeyRace, GoesOn, Request, Told, tables
<1>3. ASSUME NEW ref \in References, ReferenceCollision(r, ref)
      PROVE  /\ UNCHANGED <<line, facts, trail, answers, client, faults>>
             /\ GoesOn(r)
             /\ LET q == request[r]  s == request'[r] IN
                  \/ s.pc = "persisting" /\ s.told = q.told /\ s.ref = q.ref
                  \/ s.pc = "done" /\ s.told = "error" /\ s.ref = q.ref
  <2>1. CASE request[r].attempt < MaxReferenceAttempts
    <3>1. request[r].attempt + 1 \in Nat
      BY <1>1 DEF Request
    <3>2. request' = [request EXCEPT ![r] = [request[r] EXCEPT !.attempt = request[r].attempt + 1]]
      BY <1>1, <1>3, <2>1 DEF ReferenceCollision
    <3>3. [request[r] EXCEPT !.attempt = request[r].attempt + 1] \in Request
      BY <1>1, <3>1 DEF Request
    <3>4. GoesOn(r) /\ request'[r] = [request[r] EXCEPT !.attempt = request[r].attempt + 1]
      BY <1>1, <3>2, <3>3 DEF GoesOn
    <3>. QED  BY <1>1, <1>3, <3>4 DEF ReferenceCollision, Request, tables
  <2>2. CASE ~(request[r].attempt < MaxReferenceAttempts)
    <3>1. request' = [request EXCEPT ![r] = [request[r] EXCEPT !.pc = "done", !.told = "error"]]
      BY <1>1, <1>3, <2>2 DEF ReferenceCollision
    <3>2. [request[r] EXCEPT !.pc = "done", !.told = "error"] \in Request
      BY <1>1 DEF Request, Told
    <3>3. GoesOn(r) /\ request'[r] = [request[r] EXCEPT !.pc = "done", !.told = "error"]
      BY <1>1, <3>1, <3>2 DEF GoesOn
    <3>. QED  BY <1>1, <1>3, <3>3 DEF ReferenceCollision, Request, tables
  <2>. QED  BY <2>1, <2>2
<1>. QED  BY <1>1, <1>2, <1>3 DEF PersistPendingTransaction

(* What saving PROCESSING changes (MarkProcessing).                        *)
LEMMA MarkEffect ==
  ASSUME TransferTypeOK, NEW r \in Requests, MarkProcessing(r)
  PROVE  /\ UNCHANGED <<facts, trail, answers, client>> /\ GoesOn(r)
         /\ request[r].pc = "marking" /\ request'[r].ref = request[r].ref
         /\ \E fate \in CommitFates :
              /\ Ends(fate)
              /\ line' = Applied(fate, line, [line EXCEPT ![request[r].ref].status = "PROCESSING"])
         /\ \/ request'[r].pc = "documenting" /\ request'[r].told = request[r].told
            \/ request'[r].pc = "done" /\ request'[r].told = "error"
<1>1. PICK fate \in CommitFates :
        /\ Ends(fate)
        /\ line' = Applied(fate, line, [line EXCEPT ![request[r].ref].status = "PROCESSING"])
        /\ request' = [request EXCEPT ![r] =
             IF fate = "committed" THEN [@ EXCEPT !.pc = "documenting"]
             ELSE [@ EXCEPT !.pc = "done", !.told = "error"]]
  BY DEF MarkProcessing
<1>2. request[r] \in Request /\ request[r].pc = "marking" /\ request \in [Requests -> Request]
  BY DEF TransferTypeOK, MarkProcessing, Turn
<1>3. CASE fate = "committed"
  BY <1>1, <1>2, <1>3 DEF GoesOn, Request, Working, MarkProcessing
<1>4. CASE fate # "committed"
  BY <1>1, <1>2, <1>4 DEF GoesOn, Request, Told, MarkProcessing
<1>. QED  BY <1>3, <1>4

(* What an entry of the audit log changes.                                 *)
LEMMA TraceEffect ==
  ASSUME TransferTypeOK, NEW r \in Requests, NEW from, NEW d, NEW to \in Working, Traces(r, from, d, to)
  PROVE  /\ UNCHANGED <<line, facts, answers, client>> /\ GoesOn(r)
         /\ request[r].pc = from /\ Record(request[r].ref, d)
         /\ request'[r].pc = to /\ request'[r].ref = request[r].ref /\ request'[r].told = request[r].told
<1>1. request[r] \in Request /\ request[r].pc = from /\ request \in [Requests -> Request]
  BY DEF TransferTypeOK, Traces, Turn
<1>. QED  BY <1>1 DEF GoesOn, Request, Traces

(* What waiting for the shared SOAP client changes (getClient).            *)
LEMMA GetClientEffect ==
  ASSUME TransferTypeOK, NEW r \in Requests, GetClient(r)
  PROVE  /\ UNCHANGED <<line, facts, trail, answers, faults>> /\ GoesOn(r)
         /\ client' \in [Gateways -> {"none", "creating", "ready"}]
         /\ request[r].pc = "connecting" /\ request'[r].pc \in {"calling", "waiting"}
         /\ request'[r].ref = request[r].ref /\ request'[r].told = request[r].told
<1>1. request[r] \in Request /\ request[r].pc = "connecting" /\ request \in [Requests -> Request]
  BY DEF TransferTypeOK, GetClient, Turn
<1>2. PICK p \in {"calling", "waiting"} : request' = [request EXCEPT ![r].pc = p]
  BY DEF GetClient
<1>3. p \in Working
  BY DEF Working
<1>4. client' \in [Gateways -> {"none", "creating", "ready"}]
  BY DEF GetClient, TransferTypeOK
<1>5. GoesOn(r) /\ request'[r] = [request[r] EXCEPT !.pc = p]
  BY <1>1, <1>2, <1>3 DEF GoesOn, Request
<1>. QED  BY <1>1, <1>2, <1>4, <1>5 DEF Request, GetClient, tables

(* What an exchange with the core changes (invoke).                        *)
LEMMA CallEffect ==
  ASSUME TransferTypeOK, NEW r \in Requests, Call(r)
  PROVE  /\ UNCHANGED <<line, facts, trail, client, faults>> /\ GoesOn(r)
         /\ request[r].pc = "calling"
         /\ \E v \in Verdict :
              /\ answers' = [answers EXCEPT ![request[r].ref] = @ \union {v}]
              /\ request'[r] = AfterAttempt(request[r], v)
<1>1. PICK v \in PossibleVerdicts :
        /\ answers' = [answers EXCEPT ![request[r].ref] = @ \union {v}]
        /\ request' = [request EXCEPT ![r] = AfterAttempt(@, v)]
  BY DEF Call
<1>2. request[r] \in Request /\ request[r].pc = "calling" /\ request \in [Requests -> Request]
  BY DEF TransferTypeOK, Call, Turn
<1>3. v \in Verdict
  BY DEF PossibleVerdicts
<1>4. AfterAttempt(request[r], v) \in Request
  BY <1>2, <1>3, AfterAttemptType
<1>. QED  BY <1>1, <1>2, <1>3, <1>4 DEF GoesOn, Call, tables
(* What the transaction of a completion changes.                           *)
LEMMA CompleteEffect ==
  ASSUME TransferTypeOK, NEW r \in Requests, Complete(r)
  PROVE  /\ UNCHANGED <<trail, answers, client>> /\ GoesOn(r)
         /\ request[r].pc = "completing" /\ request'[r].ref = request[r].ref
         /\ \E fate \in CommitFates :
              /\ Ends(fate)
              /\ line' = Applied(fate, line, [line EXCEPT ![request[r].ref].status = "COMPLETED"])
              /\ facts' = Applied(fate, facts, [facts EXCEPT ![request[r].ref] =
                           CloseCase(Append(@, "TRANSFER_COMPLETED"))])
              /\ fate = "committed" => request'[r].pc = "done" /\ request'[r].told = "completed"
              /\ fate # "committed" =>
                   /\ request'[r].pc = "failing" /\ request'[r].told = request[r].told
                   /\ request'[r].cause = "internal"
<1>1. PICK fate \in CommitFates :
        /\ Ends(fate)
        /\ line' = Applied(fate, line, [line EXCEPT ![request[r].ref].status = "COMPLETED"])
        /\ facts' = Applied(fate, facts, [facts EXCEPT ![request[r].ref] =
                     CloseCase(Append(@, "TRANSFER_COMPLETED"))])
        /\ request' = [request EXCEPT ![r] =
             IF fate = "committed" THEN [@ EXCEPT !.pc = "done", !.told = "completed"]
             ELSE [@ EXCEPT !.pc = "failing", !.cause = "internal"]]
  BY DEF Complete
<1>2. request[r] \in Request /\ request[r].pc = "completing" /\ request \in [Requests -> Request]
  BY DEF TransferTypeOK, Complete, Turn
<1>3. CASE fate = "committed"
  <2>1. /\ GoesOn(r) /\ request'[r].ref = request[r].ref
        /\ request'[r].pc = "done" /\ request'[r].told = "completed"
    BY <1>1, <1>2, <1>3 DEF GoesOn, Request, Told
  <2>. QED  BY <1>1, <1>2, <1>3, <2>1 DEF Complete
<1>4. CASE fate # "committed"
  <2>1. /\ GoesOn(r) /\ request'[r].ref = request[r].ref
        /\ request'[r].pc = "failing" /\ request'[r].told = request[r].told
        /\ request'[r].cause = "internal"
    BY <1>1, <1>2, <1>4 DEF GoesOn, Request, Working, Cause
  <2>. QED  BY <1>1, <1>2, <1>4, <2>1 DEF Complete
<1>. QED  BY <1>3, <1>4

(* What the transaction of a failure changes.                              *)
LEMMA FailEffect ==
  ASSUME TransferTypeOK, NEW r \in Requests, PersistFailedTransaction(r)
  PROVE  /\ UNCHANGED <<trail, answers, client>> /\ GoesOn(r)
         /\ request[r].pc = "failing"
         /\ request'[r].ref = request[r].ref /\ request'[r].cause = request[r].cause
         /\ \E fate \in CommitFates :
              /\ Ends(fate)
              /\ line' = Applied(fate, line, [line EXCEPT ![request[r].ref] =
                           [@ EXCEPT !.status = "FAILED", !.reason = request[r].cause]])
              /\ facts' = Applied(fate, facts, [facts EXCEPT ![request[r].ref] =
                           CloseCase(Append(@, "TRANSFER_FAILED"))])
              /\ fate # "committed" => request'[r].pc = "done" /\ request'[r].told = "error"
              /\ fate = "committed" =>
                   \/ request'[r].pc = "done" /\ request'[r].told = "failed"
                   \/ /\ request'[r].pc = "reporting" /\ request'[r].told = request[r].told
                      /\ request[r].cause # "internal"
<1>1. PICK fate \in CommitFates :
        /\ Ends(fate)
        /\ line' = Applied(fate, line, [line EXCEPT ![request[r].ref] =
                     [@ EXCEPT !.status = "FAILED", !.reason = request[r].cause]])
        /\ facts' = Applied(fate, facts, [facts EXCEPT ![request[r].ref] =
                     CloseCase(Append(@, "TRANSFER_FAILED"))])
        /\ request' = [request EXCEPT ![r] =
             IF fate # "committed" THEN [@ EXCEPT !.pc = "done", !.told = "error"]
             ELSE IF request[r].cause = "internal" THEN [@ EXCEPT !.pc = "done", !.told = "failed"]
             ELSE [@ EXCEPT !.pc = "reporting"]]
  BY DEF PersistFailedTransaction
<1>2. request[r] \in Request /\ request[r].pc = "failing" /\ request \in [Requests -> Request]
  BY DEF TransferTypeOK, PersistFailedTransaction, Turn
<1>3. CASE fate # "committed"
  <2>1. /\ GoesOn(r) /\ request'[r].ref = request[r].ref /\ request'[r].cause = request[r].cause
        /\ request'[r].pc = "done" /\ request'[r].told = "error"
    BY <1>1, <1>2, <1>3 DEF GoesOn, Request, Told
  <2>. QED  BY <1>1, <1>2, <1>3, <2>1 DEF PersistFailedTransaction
<1>4. CASE fate = "committed" /\ request[r].cause = "internal"
  <2>1. /\ GoesOn(r) /\ request'[r].ref = request[r].ref /\ request'[r].cause = request[r].cause
        /\ request'[r].pc = "done" /\ request'[r].told = "failed"
    BY <1>1, <1>2, <1>4 DEF GoesOn, Request, Told
  <2>. QED  BY <1>1, <1>2, <1>4, <2>1 DEF PersistFailedTransaction
<1>5. CASE fate = "committed" /\ request[r].cause # "internal"
  <2>1. /\ GoesOn(r) /\ request'[r].ref = request[r].ref /\ request'[r].cause = request[r].cause
        /\ request'[r].pc = "reporting" /\ request'[r].told = request[r].told
    BY <1>1, <1>2, <1>5 DEF GoesOn, Request, Working
  <2>. QED  BY <1>1, <1>2, <1>5, <2>1 DEF PersistFailedTransaction
<1>. QED  BY <1>3, <1>4, <1>5

(* What the answer to the caller changes.                                  *)
LEMMA ReportEffect ==
  ASSUME TransferTypeOK, NEW r \in Requests, ReportFailure(r)
  PROVE  /\ UNCHANGED <<line, facts, answers, client>> /\ GoesOn(r)
         /\ request[r].pc = "reporting" /\ request'[r].ref = request[r].ref
         /\ request'[r].pc = "done" /\ request'[r].told = "failed"
         /\ \E d \in FailureEntries : Record(request[r].ref, d)
<1>1. request[r] \in Request /\ request[r].pc = "reporting" /\ request \in [Requests -> Request]
  BY DEF TransferTypeOK, ReportFailure, Turn
<1>2. \E d \in FailureEntries : Record(request[r].ref, d)
  BY DEF ReportFailure, FailureEntries
<1>3. GoesOn(r) /\ request'[r] = [request[r] EXCEPT !.pc = "done", !.told = "failed"]
  BY <1>1 DEF ReportFailure, GoesOn, Request, Told
<1>. QED  BY <1>1, <1>2, <1>3 DEF ReportFailure, Request

(* The steps of a process: requests keep their line and what they told.    *)
LEMMA ProcessEffect ==
  ASSUME TransferTypeOK, NEW g \in Gateways, CreateClient(g) \/ Crash(g)
  PROVE  /\ UNCHANGED <<line, facts, trail, answers>>
         /\ client' \in [Gateways -> {"none", "creating", "ready"}]
         /\ faults' \in 0..MaxFaults
         /\ request' \in [Requests -> Request]
         /\ \A r \in Requests :
              /\ request'[r].ref = request[r].ref /\ request'[r].told = request[r].told
              /\ \/ request'[r] = request[r]
                 \/ request[r].pc = "waiting" /\ request'[r].pc = "calling"
                 \/ request[r].pc = "waiting" /\ request'[r] = AfterAttempt(request[r], "communication")
                 \/ request[r].pc \in Working /\ request'[r].pc = "lost"
<1>1. /\ request \in [Requests -> Request] /\ client \in [Gateways -> {"none", "creating", "ready"}]
      /\ faults \in 0..MaxFaults
  BY DEF TransferTypeOK
<1>2. CASE ClientCreated(g)
  <2>1. \A r \in Requests : request'[r] = IF r \in WaitingAt(g) THEN [request[r] EXCEPT !.pc = "calling"]
                                          ELSE request[r]
    BY <1>2 DEF ClientCreated
  <2>2. \A r \in Requests : r \in WaitingAt(g) => request[r].pc = "waiting"
    BY DEF WaitingAt, Turn
  <2>3. \A r \in Requests :
          /\ [request[r] EXCEPT !.pc = "calling"] \in Request
          /\ [request[r] EXCEPT !.pc = "calling"].ref = request[r].ref
          /\ [request[r] EXCEPT !.pc = "calling"].told = request[r].told
          /\ [request[r] EXCEPT !.pc = "calling"].pc = "calling"
    BY <1>1 DEF Request, Working
  <2>4. request' \in [Requests -> Request]
    BY <1>1, <1>2, <2>3 DEF ClientCreated
  <2>. QED  BY <1>1, <1>2, <2>1, <2>2, <2>3, <2>4 DEF ClientCreated, tables
<1>3. CASE ClientFailed(g)
  <2> DEFINE after(r) == AfterAttempt(request[r], "communication")
  <2>1. \A r \in Requests : request'[r] = IF r \in WaitingAt(g) THEN after(r) ELSE request[r]
    BY <1>3 DEF ClientFailed
  <2>2. \A r \in Requests : r \in WaitingAt(g) => request[r].pc = "waiting"
    BY DEF WaitingAt, Turn
  <2>3. \A r \in Requests : after(r) \in Request /\ after(r).ref = request[r].ref
                              /\ after(r).told = request[r].told
    BY <1>1, AfterAttemptType DEF Verdict
  <2>4. request' \in [Requests -> Request]
    BY <1>1, <1>3, <2>3 DEF ClientFailed
  <2>5. UNCHANGED <<line, facts, trail, answers, faults>>
    BY <1>3 DEF ClientFailed, tables
  <2>6. client' \in [Gateways -> {"none", "creating", "ready"}]
    BY <1>1, <1>3 DEF ClientFailed
  <2>. QED  BY <1>1, <2>1, <2>2, <2>3, <2>4, <2>5, <2>6
<1>4. CASE Crash(g)
  <2>1. \A r \in Requests :
          request'[r] = IF Home[r] = g /\ request[r].pc \in Working THEN [request[r] EXCEPT !.pc = "lost"]
                        ELSE request[r]
    BY <1>4 DEF Crash
  <2>2. \A r \in Requests :
          /\ [request[r] EXCEPT !.pc = "lost"] \in Request
          /\ [request[r] EXCEPT !.pc = "lost"].ref = request[r].ref
          /\ [request[r] EXCEPT !.pc = "lost"].told = request[r].told
          /\ [request[r] EXCEPT !.pc = "lost"].pc = "lost"
    BY <1>1 DEF Request
  <2>3. faults' \in 0..MaxFaults
    <3>1. MaxFaults \in Nat
      BY TransferConstants
    <3>. QED  BY <1>1, <1>4, <3>1 DEF Crash
  <2>4. request' \in [Requests -> Request]
    BY <1>1, <1>4, <2>2 DEF Crash
  <2>. QED  BY <1>1, <1>4, <2>1, <2>2, <2>3, <2>4 DEF Crash, tables
<1>. QED  BY <1>2, <1>3, <1>4 DEF CreateClient
(* The type invariant holds initially ...                                  *)
LEMMA TypeInit == Init => TransferTypeOK
<1> SUFFICES ASSUME Init PROVE TransferTypeOK
  OBVIOUS
<1>1. NoLine \in Line
  BY DEF NoLine, Line, Keys, Cause
<1>2. << >> \in Seq(FactTypes)
  OBVIOUS
<1>3. MaxFaults \in Nat
  BY TransferConstants
<1>4. [pc |-> "idle", ref |-> NoRef, attempt |-> 1, cause |-> "none", told |-> "nothing"] \in Request
  BY DEF Request, Cause, Told
<1>. QED  BY <1>1, <1>2, <1>3, <1>4 DEF Init, TransferTypeOK, FactTypes
(* Lines that change their status and reason only.                         *)
LEMMA LineForms ==
  ASSUME TransferTypeOK, NEW r \in Requests, NEW s \in TransactionStatus, NEW fate
  PROVE  /\ Applied(fate, line, [line EXCEPT ![request[r].ref].status = s]) \in [References -> Line]
         /\ Applied(fate, line, [line EXCEPT ![request[r].ref] =
              [@ EXCEPT !.status = s, !.reason = request[r].cause]]) \in [References -> Line]
<1>1. \A ref \in References : line[ref] \in Line
  BY DEF TransferTypeOK
<1>2. request[r].cause \in Cause
  BY DEF TransferTypeOK, Request
<1>3. \A ref \in References : /\ [line[ref] EXCEPT !.status = s] \in Line
                              /\ [line[ref] EXCEPT !.status = s, !.reason = request[r].cause] \in Line
  BY <1>1, <1>2 DEF Line
<1>. QED  BY <1>1, <1>3 DEF TransferTypeOK, Applied

(* Chains that one fact ends.                                              *)
LEMMA ChainForms ==
  ASSUME TransferTypeOK, NEW r \in Requests, NEW type \in FactTypes, NEW fate
  PROVE  Applied(fate, facts, [facts EXCEPT ![request[r].ref] = CloseCase(Append(@, type))])
           \in [References -> Seq(FactTypes)]
<1>1. facts \in [References -> Seq(FactTypes)]
  BY DEF TransferTypeOK, FactTypes
<1>2. \A ref \in References : CloseCase(Append(facts[ref], type)) \in Seq(FactTypes)
  BY <1>1, CloseCaseType
<1>. QED  BY <1>1, <1>2 DEF Applied

(* ... and every step keeps it.                                            *)
LEMMA TypeStep ==
  ASSUME TransferTypeOK, [Next]_vars
  PROVE  TransferTypeOK'
<1>0. ASSUME NEW r \in Requests, GoesOn(r)
      PROVE  request' \in [Requests -> Request]
  BY <1>0 DEF GoesOn, TransferTypeOK
<1>1. ASSUME NEW r \in Requests, InitiateTransfer(r)
      PROVE  TransferTypeOK'
  BY <1>0, <1>1, InitiateEffect DEF TransferTypeOK
<1>2. ASSUME NEW r \in Requests, PersistPendingTransaction(r)
      PROVE  TransferTypeOK'
  <2>1. ASSUME NEW ref \in References, Turn(r, "persisting"), InsertPending(r, ref)
        PROVE  TransferTypeOK'
    <3>1. PICK fate \in CommitFates :
            /\ Ends(fate)
            /\ line' = Applied(fate, line, [line EXCEPT ![ref] =
                         [NoLine EXCEPT !.status = "PENDING", !.key = KeyOf[r]]])
            /\ facts' = Applied(fate, facts, [facts EXCEPT ![ref] = Append(@, "TRANSFER_INITIATED")])
      BY <2>1, InsertEffect
    <3>2. [NoLine EXCEPT !.status = "PENDING", !.key = KeyOf[r]] \in Line
      BY DEF NoLine, Line, Keys, Cause, TransactionStatus
    <3>3. line' \in [References -> Line]
      BY <3>1, <3>2 DEF Applied, TransferTypeOK
    <3>4. facts \in [References -> Seq(FactTypes)]
      BY DEF TransferTypeOK, FactTypes
    <3>5. Append(facts[ref], "TRANSFER_INITIATED") \in Seq(FactTypes)
      BY <3>4, AppendProperties DEF FactTypes
    <3>6. facts' \in [References -> Seq(FactTypes)]
      BY <3>1, <3>4, <3>5 DEF Applied
    <3>7. faults' \in 0..MaxFaults
      BY <3>1, EndsType DEF TransferTypeOK
    <3>8. UNCHANGED <<trail, answers, client>> /\ request' \in [Requests -> Request]
      BY <1>0, <2>1, InsertEffect
    <3>. QED  BY <3>3, <3>6, <3>7, <3>8 DEF TransferTypeOK, FactTypes
  <2>. QED  BY <1>0, <1>2, <2>1, PersistEffect DEF TransferTypeOK
<1>3. ASSUME NEW r \in Requests, MarkProcessing(r)
      PROVE  TransferTypeOK'
  <2>1. PICK fate \in CommitFates :
          /\ Ends(fate)
          /\ line' = Applied(fate, line, [line EXCEPT ![request[r].ref].status = "PROCESSING"])
    BY <1>3, MarkEffect
  <2>2. line' \in [References -> Line]
    BY <2>1, LineForms DEF TransactionStatus
  <2>3. faults' \in 0..MaxFaults
    BY <2>1, EndsType DEF TransferTypeOK
  <2>. QED  BY <1>0, <1>3, <2>2, <2>3, MarkEffect DEF TransferTypeOK
<1>4. ASSUME NEW r \in Requests, NEW from, NEW d \in AuditDirection, NEW to \in Working,
             Traces(r, from, d, to)
      PROVE  TransferTypeOK'
  <2>1. trail' \in [References -> SUBSET AuditDirection] /\ faults' \in 0..MaxFaults
    BY <1>4, RecordType DEF Traces, TransferTypeOK
  <2>. QED  BY <1>0, <1>4, <2>1, TraceEffect DEF TransferTypeOK
<1>5. ASSUME NEW r \in Requests, RecordDocument(r) \/ RecordOutbound(r) \/ RecordInbound(r)
      PROVE  TransferTypeOK'
  BY <1>4, <1>5 DEF RecordDocument, RecordOutbound, RecordInbound, AuditDirection, Working
<1>6. ASSUME NEW r \in Requests, GetClient(r)
      PROVE  TransferTypeOK'
  BY <1>0, <1>6, GetClientEffect DEF TransferTypeOK
<1>7. ASSUME NEW r \in Requests, Call(r)
      PROVE  TransferTypeOK'
  <2>1. PICK v \in Verdict : answers' = [answers EXCEPT ![request[r].ref] = @ \union {v}]
    BY <1>7, CallEffect
  <2>2. answers' \in [References -> SUBSET Verdict]
    BY <2>1 DEF TransferTypeOK
  <2>. QED  BY <1>0, <1>7, <2>2, CallEffect DEF TransferTypeOK
<1>8. ASSUME NEW r \in Requests, Complete(r)
      PROVE  TransferTypeOK'
  <2>1. PICK fate \in CommitFates :
          /\ Ends(fate)
          /\ line' = Applied(fate, line, [line EXCEPT ![request[r].ref].status = "COMPLETED"])
          /\ facts' = Applied(fate, facts, [facts EXCEPT ![request[r].ref] =
                       CloseCase(Append(@, "TRANSFER_COMPLETED"))])
    BY <1>8, CompleteEffect
  <2>2. line' \in [References -> Line]
    BY <2>1, LineForms DEF TransactionStatus
  <2>3. facts' \in [References -> Seq(FactTypes)]
    BY <2>1, ChainForms DEF FactTypes
  <2>4. faults' \in 0..MaxFaults
    BY <2>1, EndsType DEF TransferTypeOK
  <2>. QED  BY <1>0, <1>8, <2>2, <2>3, <2>4, CompleteEffect DEF TransferTypeOK, FactTypes
<1>9. ASSUME NEW r \in Requests, PersistFailedTransaction(r)
      PROVE  TransferTypeOK'
  <2>1. PICK fate \in CommitFates :
          /\ Ends(fate)
          /\ line' = Applied(fate, line, [line EXCEPT ![request[r].ref] =
                       [@ EXCEPT !.status = "FAILED", !.reason = request[r].cause]])
          /\ facts' = Applied(fate, facts, [facts EXCEPT ![request[r].ref] =
                       CloseCase(Append(@, "TRANSFER_FAILED"))])
    BY <1>9, FailEffect
  <2>2. line' \in [References -> Line]
    BY <2>1, LineForms DEF TransactionStatus
  <2>3. facts' \in [References -> Seq(FactTypes)]
    BY <2>1, ChainForms DEF FactTypes
  <2>4. faults' \in 0..MaxFaults
    BY <2>1, EndsType DEF TransferTypeOK
  <2>. QED  BY <1>0, <1>9, <2>2, <2>3, <2>4, FailEffect DEF TransferTypeOK, FactTypes
<1>10. ASSUME NEW r \in Requests, ReportFailure(r)
       PROVE  TransferTypeOK'
  <2>1. PICK d \in FailureEntries : Record(request[r].ref, d)
    BY <1>10, ReportEffect
  <2>2. trail' \in [References -> SUBSET AuditDirection] /\ faults' \in 0..MaxFaults
    BY <2>1, RecordType DEF FailureEntries, AuditDirection, TransferTypeOK
  <2>. QED  BY <1>0, <1>10, <2>2, ReportEffect DEF TransferTypeOK
<1>11. ASSUME NEW g \in Gateways, CreateClient(g) \/ Crash(g)
       PROVE  TransferTypeOK'
  BY <1>11, ProcessEffect DEF TransferTypeOK
<1>12. CASE UNCHANGED vars
  BY <1>12 DEF vars, TransferTypeOK
<1>. QED  BY <1>1, <1>2, <1>3, <1>5, <1>6, <1>7, <1>8, <1>9, <1>10, <1>11, <1>12 DEF Next, Serve

(* The lines, facts, audit trail, requests and clients are at all times    *)
(* what their columns and their code allow: in particular the faults stay  *)
(* within their bound, and a cause is one that the exchange can have.      *)
THEOREM TransferTypeCorrect == Spec => []TransferTypeOK
<1>1. TransferTypeOK /\ [Next]_vars => TransferTypeOK'
  BY TypeStep
<1>. QED  BY <1>1, TypeInit, PTL DEF Spec
-----------------------------------------------------------------------------
(* Ownership is kept by a step that leaves each line its key, gives nobody *)
(* another line and makes nobody an owner.                                 *)
LEMMA KeepsOwnership ==
  ASSUME TransferOwned, TransferTypeOK',
         \A ref \in References : /\ line'[ref].key = line[ref].key
                                 /\ Exists(ref)' <=> Exists(ref),
         \A r \in Requests : /\ request'[r].ref = request[r].ref
                             /\ Owns(r)' => Owns(r)
                             /\ Placed(request'[r])
  PROVE  TransferOwned'
<1>1. \A r \in Requests : request[r].ref # NoRef => request[r].ref \in References
  BY DEF TransferOwned, TransferTypeOK, Request
<1>2. \A r \in Requests : Named(r)'
  BY <1>1 DEF TransferOwned, Named
<1>3. UniqueOwner'
  BY DEF TransferOwned, UniqueOwner
<1>4. UniqueKey'
  BY DEF TransferOwned, UniqueKey
<1>. QED  BY <1>2, <1>3, <1>4 DEF TransferOwned

(* The same for a step of one request.                                     *)
LEMMA KeepsOwnershipOf ==
  ASSUME TransferOwned, TransferTypeOK', NEW r \in Requests, GoesOn(r),
         \A ref \in References : /\ line'[ref].key = line[ref].key
                                 /\ Exists(ref)' <=> Exists(ref),
         request'[r].ref = request[r].ref, Placed(request'[r]), request[r].told # "replay"
  PROVE  TransferOwned'
<1>1. \A s \in Requests : s # r => request'[s] = request[s]
  BY DEF GoesOn, TransferOwned, TransferTypeOK
<1>2. \A s \in Requests : /\ request'[s].ref = request[s].ref
                          /\ Owns(s)' => Owns(s)
                          /\ Placed(request'[s])
  BY <1>1 DEF TransferOwned, Owns
<1>. QED  BY <1>2, KeepsOwnership

(* A request that is given the line of another with its key.               *)
LEMMA ReplayOwnership ==
  ASSUME TransferOwned, TransferTypeOK', NEW r \in Requests, GoesOn(r), line' = line,
         request'[r].pc = "done", request'[r].told = "replay",
         request'[r].ref \in HoldersOf(KeyOf[r])
  PROVE  TransferOwned'
<1>1. \A s \in Requests : s # r => request'[s] = request[s]
  BY DEF GoesOn, TransferOwned, TransferTypeOK
<1>2. /\ line'[request'[r].ref].status # "NONE" /\ line'[request'[r].ref].key = KeyOf[r]
      /\ request'[r].ref \in References
  BY DEF HoldersOf, Exists
<1>3. \A s \in Requests : Named(s)'
  BY <1>1, <1>2 DEF TransferOwned, Named, Exists
<1>4. NoRef \notin References
  BY TransferConstants
<1>5. \A s \in Requests : Placed(request'[s])
  BY <1>1, <1>2, <1>4 DEF TransferOwned, Placed, Active, Working
<1>6. UniqueOwner'
  BY <1>1 DEF TransferOwned, UniqueOwner, Owns
<1>7. UniqueKey'
  BY DEF TransferOwned, UniqueKey, Exists
<1>. QED  BY <1>3, <1>5, <1>6, <1>7 DEF TransferOwned

(* A request that inserts its line.                                        *)
LEMMA InsertOwnership ==
  ASSUME TransferOwned, TransferTypeOK', NEW r \in Requests, NEW ref \in References,
         Turn(r, "persisting"), InsertPending(r, ref)
  PROVE  TransferOwned'
<1>1. TransferTypeOK /\ Placed(request[r]) /\ NoRef \notin References
  BY TransferConstants DEF TransferOwned
<1>2. GoesOn(r) /\ ~Exists(ref) /\ HoldersOf(KeyOf[r]) = {} /\ request[r].pc = "persisting"
  BY <1>1, InsertEffect
<1>3. PICK fate \in CommitFates :
        /\ line' = Applied(fate, line, [line EXCEPT ![ref] =
                     [NoLine EXCEPT !.status = "PENDING", !.key = KeyOf[r]]])
        /\ fate = "committed" =>
             request'[r].pc = "marking" /\ request'[r].ref = ref /\ request'[r].told = request[r].told
        /\ fate # "committed" =>
             request'[r].pc = "done" /\ request'[r].ref = request[r].ref /\ request'[r].told = "error"
  BY <1>1, InsertEffect
<1>4. \A s \in Requests : s # r => request'[s] = request[s]
  BY <1>1, <1>2 DEF GoesOn, TransferTypeOK
<1>5. request[r].ref = NoRef /\ request[r].told = "nothing"
  BY <1>1, <1>2 DEF Placed
<1>6. CASE fate = "rolled back"
  <2>1. line' = line
    BY <1>3, <1>6 DEF Applied
  <2>2. Placed(request'[r])
    BY <1>3, <1>5, <1>6 DEF Placed, Active, Working
  <2>. QED  BY <1>2, <1>3, <1>5, <1>6, <2>1, <2>2, KeepsOwnershipOf DEF Exists
<1>7. CASE fate # "rolled back"
  <2>1. /\ \A o \in References : o # ref => line'[o] = line[o]
        /\ line'[ref].status = "PENDING" /\ line'[ref].key = KeyOf[r]
    BY <1>1, <1>3, <1>7 DEF Applied, NoLine, TransferTypeOK
  <2>2. \A o \in References : o # ref => (Exists(o)' <=> Exists(o))
    BY <2>1 DEF Exists
  <2>3. Exists(ref)'
    BY <2>1 DEF Exists
  <2>4. \A s \in Requests : request[s].ref # ref /\ (request[s].ref # NoRef => request[s].ref \in References)
    BY <1>1, <1>2 DEF TransferOwned, Named, TransferTypeOK, Request
  <2>5. \A s \in Requests : Named(s)'
    BY <1>3, <1>4, <1>5, <2>1, <2>2, <2>3, <2>4 DEF TransferOwned, Named
  <2>6. \A s \in Requests : Placed(request'[s])
    <3>1. Placed(request'[r])
      BY <1>1, <1>3, <1>5 DEF Placed, Active, Working
    <3>. QED  BY <1>4, <3>1 DEF TransferOwned
  <2>7. UniqueOwner'
    BY <1>3, <1>4, <1>5, <2>4 DEF TransferOwned, UniqueOwner, Owns
  <2>8. UniqueKey'
    <3>1. \A o \in References : Exists(o) /\ KeyOf[r] # NoKey => line[o].key # KeyOf[r]
      BY <1>2 DEF HoldersOf
    <3>. QED  BY <2>1, <2>2, <3>1 DEF TransferOwned, UniqueKey
  <2>. QED  BY <2>5, <2>6, <2>7, <2>8 DEF TransferOwned
<1>. QED  BY <1>6, <1>7
(* Lines that change their status only keep their keys.                    *)
LEMMA StatusOnly ==
  ASSUME TransferTypeOK, NEW r \in Requests, NEW s, s # "NONE", NEW fate, Exists(request[r].ref),
         \/ line' = Applied(fate, line, [line EXCEPT ![request[r].ref].status = s])
         \/ line' = Applied(fate, line, [line EXCEPT ![request[r].ref] =
                      [@ EXCEPT !.status = s, !.reason = request[r].cause]])
  PROVE  \A ref \in References : line'[ref].key = line[ref].key /\ (Exists(ref)' <=> Exists(ref))
<1>1. \A ref \in References : line[ref] \in Line
  BY DEF TransferTypeOK
<1>2. request[r].ref \in References => line[request[r].ref].status # "NONE"
  BY DEF Exists
<1>3. CASE line' = Applied(fate, line, [line EXCEPT ![request[r].ref].status = s])
  <2>1. \A ref \in References : line'[ref].key = line[ref].key
    BY <1>1, <1>3 DEF TransferTypeOK, Applied, Line
  <2>2. \A ref \in References : line'[ref].status \in {s, line[ref].status}
                               /\ (ref # request[r].ref => line'[ref] = line[ref])
    BY <1>1, <1>3 DEF TransferTypeOK, Applied, Line
  <2>. QED  BY <1>2, <2>1, <2>2 DEF Exists
<1>4. CASE line' = Applied(fate, line, [line EXCEPT ![request[r].ref] =
                     [@ EXCEPT !.status = s, !.reason = request[r].cause]])
  <2>1. \A ref \in References : line'[ref].key = line[ref].key
    BY <1>1, <1>4 DEF TransferTypeOK, Applied, Line
  <2>2. \A ref \in References : line'[ref].status \in {s, line[ref].status}
                               /\ (ref # request[r].ref => line'[ref] = line[ref])
    BY <1>1, <1>4 DEF TransferTypeOK, Applied, Line
  <2>. QED  BY <1>2, <2>1, <2>2 DEF Exists
<1>. QED  BY <1>3, <1>4

(* There is no line at the start, and no owner.                            *)
LEMMA OwnershipInit == Init => TransferOwned
<1> SUFFICES ASSUME Init PROVE TransferOwned
  OBVIOUS
<1>1. \A r \in Requests : Named(r) /\ Placed(request[r]) /\ ~Owns(r)
  BY DEF Init, Named, Placed, Active, Working, Owns
<1>2. UniqueKey
  BY DEF Init, UniqueKey, Exists, NoLine
<1>. QED  BY <1>1, <1>2, TypeInit DEF TransferOwned, UniqueOwner

(* Every step keeps each line owned by the request that inserted it.       *)
LEMMA OwnershipStep ==
  ASSUME TransferOwned, [Next]_vars
  PROVE  TransferOwned'
<1>0. TransferTypeOK /\ TransferTypeOK' /\ \A r \in Requests : Named(r) /\ Placed(request[r])
  BY TypeStep DEF TransferOwned
<1> USE <1>0
<1>1. ASSUME NEW r \in Requests, InitiateTransfer(r)
      PROVE  TransferOwned'
  <2> DEFINE q == request[r]  s == request'[r]
  <2>1. line' = line /\ GoesOn(r) /\ q.pc = "idle" /\ q.ref = NoRef /\ q.told = "nothing"
    BY <1>1, InitiateEffect DEF Placed
  <2>2. CASE s.pc = "done" /\ s.told = "replay" /\ s.ref \in HoldersOf(KeyOf[r])
    BY <2>1, <2>2, ReplayOwnership
  <2>3. CASE /\ s.ref = q.ref
             /\ \/ s.pc = "done" /\ s.told = "refused"
                \/ s.pc = "persisting" /\ s.told = q.told
    <3>1. Placed(s)
      BY <2>1, <2>3 DEF Placed, Active, Working
    <3>. QED  BY <2>1, <2>3, <3>1, KeepsOwnershipOf DEF Exists
  <2>4. \/ s.pc = "done" /\ s.told = "refused" /\ s.ref = q.ref
        \/ s.pc = "done" /\ s.told = "replay" /\ s.ref \in HoldersOf(KeyOf[r])
        \/ s.pc = "persisting" /\ s.told = q.told /\ s.ref = q.ref
    BY <1>1, InitiateEffect
  <2>. QED  BY <2>2, <2>3, <2>4
<1>2. ASSUME NEW r \in Requests, PersistPendingTransaction(r)
      PROVE  TransferOwned'
  <2> DEFINE q == request[r]  s == request'[r]
  <2>1. CASE \E ref \in References : Turn(r, "persisting") /\ InsertPending(r, ref)
    BY <2>1, InsertOwnership
  <2>2. CASE /\ line' = line /\ GoesOn(r) /\ q.pc = "persisting"
             /\ s.pc = "done" /\ s.told = "replay" /\ s.ref \in HoldersOf(KeyOf[r])
    BY <2>2, ReplayOwnership
  <2>3. CASE /\ line' = line /\ GoesOn(r) /\ q.pc = "persisting" /\ s.ref = q.ref
             /\ \/ s.pc = "persisting" /\ s.told = q.told
                \/ s.pc = "done" /\ s.told = "error"
    <3>1. Placed(s) /\ q.told = "nothing"
      BY <2>3 DEF Placed, Active, Working
    <3>. QED  BY <2>3, <3>1, KeepsOwnershipOf DEF Exists
  <2>4. \/ \E ref \in References : Turn(r, "persisting") /\ InsertPending(r, ref)
        \/ /\ line' = line /\ GoesOn(r) /\ q.pc = "persisting"
           /\ \/ s.pc = "done" /\ s.told = "replay" /\ s.ref \in HoldersOf(KeyOf[r])
              \/ s.pc = "persisting" /\ s.told = q.told /\ s.ref = q.ref
              \/ s.pc = "done" /\ s.told = "error" /\ s.ref = q.ref
    BY <1>2, PersistEffect
  <2>. QED  BY <2>1, <2>2, <2>3, <2>4
<1>3. ASSUME NEW r \in Requests, line' = line, GoesOn(r), request'[r].ref = request[r].ref,
             request[r].pc \in Active, request'[r].told = request[r].told, request'[r].pc \in Active
      PROVE  TransferOwned'
  <2>1. Placed(request'[r]) /\ request[r].told = "nothing"
    BY <1>3 DEF Placed, Active, Working
  <2>. QED  BY <1>3, <2>1, KeepsOwnershipOf DEF Exists
<1>4. ASSUME NEW r \in Requests, GoesOn(r), request'[r].ref = request[r].ref,
             request[r].pc \in Active,
             \/ request'[r].pc = "done" /\ request'[r].told \in {"error", "completed", "failed"}
             \/ request'[r].pc \in Active /\ request'[r].told = request[r].told,
             \A ref \in References : line'[ref].key = line[ref].key /\ (Exists(ref)' <=> Exists(ref))
      PROVE  TransferOwned'
  <2>1. Placed(request'[r]) /\ request[r].told = "nothing"
    BY <1>4 DEF Placed, Active, Working
  <2>. QED  BY <1>4, <2>1, KeepsOwnershipOf
<1>5. ASSUME NEW r \in Requests, request[r].pc \in Active
      PROVE  Exists(request[r].ref)
  BY <1>5 DEF Placed, Named
<1>6. ASSUME NEW r \in Requests, MarkProcessing(r)
      PROVE  TransferOwned'
  <2>1. PICK fate : line' = Applied(fate, line, [line EXCEPT ![request[r].ref].status = "PROCESSING"])
    BY <1>6, MarkEffect
  <2>2. request[r].pc \in Active /\ "documenting" \in Active
    BY <1>6, MarkEffect DEF Active, Working
  <2>3. \A ref \in References : line'[ref].key = line[ref].key /\ (Exists(ref)' <=> Exists(ref))
    BY <1>5, <2>1, <2>2, StatusOnly
  <2>. QED  BY <1>4, <1>6, <2>2, <2>3, MarkEffect
<1>7. ASSUME NEW r \in Requests, RecordDocument(r) \/ RecordOutbound(r) \/ RecordInbound(r)
      PROVE  TransferOwned'
  <2>1. ASSUME NEW from \in Active, NEW d, NEW to \in Active, Traces(r, from, d, to)
        PROVE  TransferOwned'
    <3>1. to \in Working
      BY DEF Active
    <3>. QED  BY <1>3, <2>1, <3>1, TraceEffect
  <2>. QED  BY <1>7, <2>1 DEF RecordDocument, RecordOutbound, RecordInbound, Active, Working
<1>8. ASSUME NEW r \in Requests, GetClient(r)
      PROVE  TransferOwned'
  BY <1>3, <1>8, GetClientEffect DEF Active, Working
<1>9. ASSUME NEW r \in Requests, Call(r)
      PROVE  TransferOwned'
  <2>1. PICK v \in Verdict : request'[r] = AfterAttempt(request[r], v)
    BY <1>9, CallEffect
  <2>2. request[r] \in Request
    BY DEF TransferTypeOK
  <2>3. /\ request'[r].ref = request[r].ref /\ request'[r].told = request[r].told
        /\ request'[r].pc \in {"tracing request", "connecting", "failing"}
    BY <2>1, <2>2, AfterAttemptType
  <2>. QED  BY <1>3, <1>9, <2>3, CallEffect DEF Active, Working
<1>10. ASSUME NEW r \in Requests, Complete(r)
       PROVE  TransferOwned'
  <2>1. PICK fate : line' = Applied(fate, line, [line EXCEPT ![request[r].ref].status = "COMPLETED"])
    BY <1>10, CompleteEffect
  <2>2. request[r].pc \in Active /\ "failing" \in Active
    BY <1>10, CompleteEffect DEF Active, Working
  <2>3. \A ref \in References : line'[ref].key = line[ref].key /\ (Exists(ref)' <=> Exists(ref))
    BY <1>5, <2>1, <2>2, StatusOnly
  <2>. QED  BY <1>4, <1>10, <2>2, <2>3, CompleteEffect
<1>11. ASSUME NEW r \in Requests, PersistFailedTransaction(r)
       PROVE  TransferOwned'
  <2>1. PICK fate : line' = Applied(fate, line, [line EXCEPT ![request[r].ref] =
                                [@ EXCEPT !.status = "FAILED", !.reason = request[r].cause]])
    BY <1>11, FailEffect
  <2>2. request[r].pc \in Active /\ "reporting" \in Active
    BY <1>11, FailEffect DEF Active, Working
  <2>3. \A ref \in References : line'[ref].key = line[ref].key /\ (Exists(ref)' <=> Exists(ref))
    BY <1>5, <2>1, <2>2, StatusOnly
  <2>. QED  BY <1>4, <1>11, <2>2, <2>3, FailEffect
<1>12. ASSUME NEW r \in Requests, ReportFailure(r)
       PROVE  TransferOwned'
  BY <1>4, <1>12, ReportEffect DEF Exists, Active, Working
<1>13. ASSUME NEW g \in Gateways, CreateClient(g) \/ Crash(g)
       PROVE  TransferOwned'
  <2>1. ASSUME NEW r \in Requests
        PROVE  Placed(request'[r]) /\ (Owns(r)' => Owns(r))
    <3>1. /\ request'[r].ref = request[r].ref /\ request'[r].told = request[r].told
          /\ \/ request'[r] = request[r]
             \/ request[r].pc = "waiting" /\ request'[r].pc = "calling"
             \/ request[r].pc = "waiting" /\ request'[r] = AfterAttempt(request[r], "communication")
             \/ request[r].pc \in Working /\ request'[r].pc = "lost"
      BY <1>13, ProcessEffect
    <3>2. AfterAttempt(request[r], "communication").pc \in {"tracing request", "connecting", "failing"}
      BY AfterAttemptType DEF TransferTypeOK, Verdict
    <3>3. Placed(request[r])
      OBVIOUS
    <3>. QED  BY <3>1, <3>2, <3>3 DEF Placed, Active, Working, Owns
  <2>. QED  BY <1>13, <2>1, ProcessEffect, KeepsOwnership DEF Exists
<1>14. CASE UNCHANGED vars
  BY <1>14, KeepsOwnership DEF vars, Exists, Owns
<1>. QED  BY <1>1, <1>2, <1>6, <1>7, <1>8, <1>9, <1>10, <1>11, <1>12, <1>13, <1>14 DEF Next, Serve

(* Requests that carry one Idempotency-Key create one line and one of them *)
(* alone works on it, for any number of requests, processes, stops and SQL *)
(* errors, lost acknowledgements of commits included.                      *)
THEOREM OneTransferPerKeyHolds == Spec => []OneTransferPerKey
<1>1. TransferOwned /\ [Next]_vars => TransferOwned'
  BY OwnershipStep
<1>2. TransferOwned => OneTransferPerKey
  BY DEF TransferOwned, TransferTypeOK, Request, Named, Owns, UniqueOwner, UniqueKey, OneTransferPerKey
<1>. QED  BY <1>1, <1>2, OwnershipInit, PTL DEF Spec
-----------------------------------------------------------------------------
(* The opening fact, and the last fact with the closure.                   *)
LEMMA OpenChain == Opened(Append(<< >>, "TRANSFER_INITIATED"))
<1>1. << >> \in Seq(FactTypes) /\ "TRANSFER_INITIATED" \in FactTypes /\ Len(<< >>) = 0
  BY DEF FactTypes
<1>. QED  BY <1>1, AppendProperties DEF Opened

(* A chain with one more fact keeps the earlier ones.                      *)
LEMMA AppendFact ==
  ASSUME NEW f \in Seq(FactTypes), NEW type \in FactTypes
  PROVE  /\ Append(f, type) \in Seq(FactTypes) /\ Len(Append(f, type)) = Len(f) + 1
         /\ Append(f, type)[Len(f) + 1] = type
         /\ \A i \in 1..Len(f) : Append(f, type)[i] = f[i]
BY AppendProperties

(* An opened chain that receives its last fact and the closure is ended.   *)
LEMMA EndChain ==
  ASSUME NEW f \in Seq(FactTypes), Opened(f), NEW type \in FactTypes, type # "CASE_CLOSED"
  PROVE  Ended(CloseCase(Append(f, type)), type)
<1> DEFINE g == Append(f, type)
           h == Append(g, "CASE_CLOSED")
<1>0. g \in Seq(FactTypes) /\ Len(g) = Len(f) + 1 /\ g[Len(f) + 1] = type
      /\ \A i \in 1..Len(f) : g[i] = f[i]
  BY AppendFact
<1>1. g \in Seq(FactTypes) /\ Len(g) = 2 /\ g[1] = "TRANSFER_INITIATED" /\ g[2] = type
  BY <1>0 DEF Opened
<1>2. DOMAIN g = 1..2
  BY <1>1
<1>3. ~Holds(g, "CASE_CLOSED") /\ g # << >>
  BY <1>1, <1>2 DEF Holds
<1>4. CloseCase(g) = h
  BY <1>3 DEF CloseCase
<1>5. "CASE_CLOSED" \in FactTypes
  BY DEF FactTypes
<1> HIDE DEF g
<1>6. Len(h) = Len(g) + 1 /\ h[Len(g) + 1] = "CASE_CLOSED" /\ \A i \in 1..Len(g) : h[i] = g[i]
  BY <1>1, <1>5, AppendFact
<1> HIDE DEF h
<1>7. Len(h) = 3 /\ h[1] = g[1] /\ h[2] = g[2] /\ h[3] = "CASE_CLOSED"
  BY <1>1, <1>6
<1>. QED  BY <1>1, <1>4, <1>7 DEF Ended, g

(* A chain that is open, and one that is ended, as verify sees them.       *)
LEMMA OpenUntampered ==
  ASSUME NEW f \in Seq(FactTypes), Opened(f), NEW s \in Unsettled
  PROVE  ~Tampered(StateOf(s), f) /\ ~Holds(f, "CASE_CLOSED")
<1>1. DOMAIN f = 1..1 /\ f[1] = "TRANSFER_INITIATED"
  BY DEF Opened
<1>2. ClosureRanks(f) = {} /\ ~Holds(f, "CASE_CLOSED")
  BY <1>1 DEF ClosureRanks, Holds
<1>3. ~ClosureExpected(StateOf(s), f)
  BY <1>1 DEF ClosureExpected, StateOf, Unsettled, Null
<1>. QED  BY <1>2, <1>3 DEF Tampered

(* verify finds no alteration in an ended chain.                           *)
LEMMA EndedUntampered ==
  ASSUME NEW f \in Seq(FactTypes), NEW type, type # "CASE_CLOSED", Ended(f, type), NEW s
  PROVE  ~Tampered(StateOf(s), f)
<1>1. DOMAIN f = 1..3 /\ Len(f) = 3
  BY DEF Ended
<1>2. ClosureRanks(f) = {3}
  BY <1>1 DEF ClosureRanks, Ended
<1>. QED  BY <1>1, <1>2 DEF Tampered

(* A step of the owner of a line that touches no other line.               *)
LEMMA OwnerStep ==
  ASSUME TransferInv, TransferOwned', NEW r \in Requests, Owns(r), GoesOn(r),
         request'[r].ref = request[r].ref,
         \A ref \in References : ref # request[r].ref =>
           /\ line'[ref] = line[ref] /\ facts'[ref] = facts[ref]
           /\ trail'[ref] = trail[ref] /\ answers'[ref] = answers[ref],
         Consistent(request'[r], line'[request[r].ref], answers'[request[r].ref]),
         Recorded(line'[request[r].ref], facts'[request[r].ref], trail'[request[r].ref],
                  answers'[request[r].ref])
  PROVE  TransferInv'
<1>1. \A s \in Requests : s # r => request'[s] = request[s]
  BY DEF GoesOn, TransferInv, TransferOwned, TransferTypeOK
<1>2. \A s \in Requests : Owns(s) => request[s].ref \in References
  BY DEF Owns, TransferInv, TransferOwned, TransferTypeOK, Request
<1>3. \A s \in Requests : s # r /\ Owns(s) => request[s].ref # request[r].ref
  BY DEF TransferInv, TransferOwned, UniqueOwner
<1>4. ASSUME NEW s \in Requests, Owns(s)'
      PROVE  Consistent(request'[s], line'[request'[s].ref], answers'[request'[s].ref])
  <2>1. CASE s = r
    BY <2>1
  <2>2. CASE s # r
    <3>1. Owns(s) /\ request'[s] = request[s]
      BY <1>1, <1>4, <2>2 DEF Owns
    <3>2. line'[request[s].ref] = line[request[s].ref] /\ answers'[request[s].ref] = answers[request[s].ref]
      BY <1>2, <1>3, <2>2, <3>1
    <3>3. Consistent(request[s], line[request[s].ref], answers[request[s].ref])
      BY <3>1 DEF TransferInv
    <3>. QED  BY <3>1, <3>2, <3>3
  <2>. QED  BY <2>1, <2>2
<1>5. \A ref \in References : Recorded(line'[ref], facts'[ref], trail'[ref], answers'[ref])
  BY DEF TransferInv
<1>. QED  BY <1>4, <1>5 DEF TransferInv

(* A step that writes nothing and gives nobody a line of its own.          *)
LEMMA StrangerStep ==
  ASSUME TransferInv, TransferOwned', NEW r \in Requests, GoesOn(r), ~Owns(r)',
         UNCHANGED <<line, facts, trail, answers>>
  PROVE  TransferInv'
<1>1. \A s \in Requests : s # r => request'[s] = request[s]
  BY DEF GoesOn, TransferInv, TransferOwned, TransferTypeOK
<1>2. ASSUME NEW s \in Requests, Owns(s)'
      PROVE  Consistent(request'[s], line'[request'[s].ref], answers'[request'[s].ref])
  <2>1. s # r /\ request'[s] = request[s] /\ Owns(s)
    BY <1>1, <1>2 DEF Owns
  <2>2. Consistent(request[s], line[request[s].ref], answers[request[s].ref])
    BY <2>1 DEF TransferInv
  <2>. QED  BY <2>1, <2>2
<1>. QED  BY <1>2 DEF TransferInv

(* The invariant holds at the start.                                       *)
LEMMA InvInit == Init => TransferInv
<1> SUFFICES ASSUME Init PROVE TransferInv
  OBVIOUS
<1>1. \A r \in Requests : ~Owns(r)
  BY DEF Init, Owns
<1>2. \A ref \in References : Recorded(line[ref], facts[ref], trail[ref], answers[ref])
  BY DEF Init, Recorded, NoLine, Unsettled
<1>. QED  BY <1>1, <1>2, OwnershipInit DEF TransferInv

(* The audit entries of a step: the trail of one line may gain one.        *)
LEMMA RecordEffect ==
  ASSUME TransferTypeOK, NEW ref, NEW d, Record(ref, d)
  PROVE  \A o \in References : \/ trail'[o] = trail[o]
                               \/ o = ref /\ trail'[o] = trail[o] \union {d}
BY DEF Record, Applied, TransferTypeOK

(* What a step of an owner may rely on.                                    *)
LEMMA OwnerFacts ==
  ASSUME TransferInv, NEW r \in Requests, request[r].pc \in Active
  PROVE  /\ Owns(r) /\ request[r].ref \in References /\ request[r].told = "nothing"
         /\ request[r] \in Request /\ line[request[r].ref] \in Line
         /\ facts[request[r].ref] \in Seq(FactTypes)
         /\ Consistent(request[r], line[request[r].ref], answers[request[r].ref])
         /\ Recorded(line[request[r].ref], facts[request[r].ref], trail[request[r].ref],
                     answers[request[r].ref])
<1>1. request[r].pc # "done" /\ request[r].ref # NoRef
  BY DEF TransferInv, TransferOwned, Placed, Active, Working
<1>2. request[r] \in Request /\ request[r].told = "nothing"
  BY <1>1 DEF TransferInv, TransferOwned, Placed, TransferTypeOK
<1>3. request[r].ref \in References /\ Owns(r)
  BY <1>1, <1>2 DEF Request, Owns
<1>. QED  BY <1>2, <1>3 DEF TransferInv, TransferOwned, TransferTypeOK, FactTypes

(* The steps that only trace or wait: the line, its facts and the answers  *)
(* stay.                                                                   *)
LEMMA TraceStep ==
  ASSUME TransferInv, TransferOwned', NEW r \in Requests, request[r].pc \in Active, GoesOn(r),
         request'[r].ref = request[r].ref, UNCHANGED <<line, facts, answers>>, NEW d,
         \A o \in References : \/ trail'[o] = trail[o]
                               \/ o = request[r].ref /\ trail'[o] = trail[o] \union {d},
         d \in FailureEntries =>
           line[request[r].ref].status = "FAILED" /\ line[request[r].ref].reason # "internal",
         d = "INBOUND_RESPONSE" => "result" \in answers[request[r].ref],
         Consistent(request'[r], line[request[r].ref], answers[request[r].ref])
  PROVE  TransferInv'
<1> DEFINE ref == request[r].ref
<1>1. /\ Owns(r) /\ ref \in References
      /\ Recorded(line[ref], facts[ref], trail[ref], answers[ref]) /\ Exists(ref)
  BY OwnerFacts DEF TransferInv, TransferOwned, Named, Owns
<1>2. Recorded(line'[ref], facts'[ref], trail'[ref], answers'[ref])
  BY <1>1 DEF Recorded, Exists
<1>3. Consistent(request'[r], line'[ref], answers'[ref])
  OBVIOUS
<1>. QED  BY <1>1, <1>2, <1>3, OwnerStep

(* Every step of a request or of a process keeps the invariant, as long as *)
(* commits are acknowledged.                                               *)
LEMMA InvStep ==
  ASSUME "unacknowledged" \notin CommitFates, TransferInv, [Next]_vars
  PROVE  TransferInv'
<1>0. /\ TransferOwned /\ TransferOwned' /\ TransferTypeOK
      /\ \A r \in Requests : Named(r) /\ Placed(request[r])
  BY OwnershipStep DEF TransferInv, TransferOwned
<1>a. \A fate \in CommitFates : fate \in {"committed", "rolled back"}
  BY TransferConstants
<1>b. NoRef \notin References
  BY TransferConstants
<1>1. ASSUME NEW r \in Requests, InitiateTransfer(r)
      PROVE  TransferInv'
  <2>1. ~Owns(r)'
    BY <1>0, <1>1, InitiateEffect DEF Owns, Placed
  <2>. QED  BY <1>0, <1>1, <2>1, InitiateEffect, StrangerStep
<1>2. ASSUME NEW r \in Requests, PersistPendingTransaction(r)
      PROVE  TransferInv'
  <2>1. ASSUME NEW ref \in References, Turn(r, "persisting"), InsertPending(r, ref)
        PROVE  TransferInv'
    <3>1. /\ UNCHANGED <<trail, answers>> /\ GoesOn(r) /\ ~Exists(ref)
          /\ request[r].ref = NoRef /\ request[r].told = "nothing"
      BY <1>0, <2>1, InsertEffect DEF Placed
    <3>2. PICK fate \in CommitFates :
            /\ line' = Applied(fate, line, [line EXCEPT ![ref] =
                         [NoLine EXCEPT !.status = "PENDING", !.key = KeyOf[r]]])
            /\ facts' = Applied(fate, facts, [facts EXCEPT ![ref] = Append(@, "TRANSFER_INITIATED")])
            /\ fate = "committed" =>
                 request'[r].pc = "marking" /\ request'[r].ref = ref /\ request'[r].told = request[r].told
            /\ fate # "committed" =>
                 request'[r].pc = "done" /\ request'[r].ref = request[r].ref /\ request'[r].told = "error"
      BY <1>0, <2>1, InsertEffect
    <3>3. CASE fate = "rolled back"
      BY <1>0, <3>1, <3>2, <3>3, StrangerStep DEF Owns, Applied
    <3>4. CASE fate = "committed"
      <4>1. \A s \in Requests : s # r => request'[s] = request[s]
        BY <1>0, <3>1 DEF GoesOn, TransferTypeOK
      <4>2. /\ \A o \in References : o # ref => line'[o] = line[o] /\ facts'[o] = facts[o]
            /\ line'[ref].status = "PENDING"
            /\ facts'[ref] = Append(facts[ref], "TRANSFER_INITIATED")
        BY <1>0, <3>2, <3>4 DEF Applied, NoLine, TransferTypeOK
      <4>3. line[ref].status = "NONE" /\ facts[ref] = << >> /\ trail[ref] = {} /\ answers[ref] = {}
        BY <3>1 DEF Exists, TransferInv, Recorded
      <4>4. Recorded(line'[ref], facts'[ref], trail'[ref], answers'[ref])
        BY <3>1, <4>2, <4>3, OpenChain DEF Recorded, Unsettled
      <4>5. \A o \in References : Recorded(line'[o], facts'[o], trail'[o], answers'[o])
        BY <3>1, <4>2, <4>4 DEF TransferInv
      <4>6. Consistent(request'[r], line'[ref], answers'[ref])
        BY <3>1, <3>2, <3>4, <4>2, <4>3 DEF Consistent, Active, Working, Unsettled
      <4>7. ASSUME NEW s \in Requests, Owns(s)'
            PROVE  Consistent(request'[s], line'[request'[s].ref], answers'[request'[s].ref])
        <5>1. CASE s = r
          BY <3>2, <3>4, <4>6, <5>1
        <5>2. CASE s # r
          <6>1. request'[s] = request[s] /\ Owns(s) /\ request[s].ref \in References
            BY <1>0, <4>1, <4>7, <5>2 DEF Owns, TransferTypeOK, Request
          <6>2. request[s].ref # ref
            BY <1>0, <3>1, <6>1 DEF Named, Owns
          <6>3. Consistent(request[s], line[request[s].ref], answers[request[s].ref])
            BY <6>1 DEF TransferInv
          <6>. QED  BY <3>1, <4>2, <6>1, <6>2, <6>3
        <5>. QED  BY <5>1, <5>2
      <4>. QED  BY <1>0, <4>5, <4>7 DEF TransferInv
    <3>. QED  BY <1>a, <3>3, <3>4
  <2>2. ASSUME UNCHANGED <<line, facts, trail, answers>>, GoesOn(r), request[r].pc = "persisting",
               \/ request'[r].told = "replay"
               \/ request'[r].ref = request[r].ref
        PROVE  TransferInv'
    BY <1>0, <2>2, StrangerStep DEF Owns, Placed
  <2>3. \/ \E ref \in References : Turn(r, "persisting") /\ InsertPending(r, ref)
        \/ /\ UNCHANGED <<line, facts, trail, answers>> /\ GoesOn(r) /\ request[r].pc = "persisting"
           /\ request'[r].told = "replay" \/ request'[r].ref = request[r].ref
    BY <1>0, <1>2, PersistEffect
  <2>. QED  BY <2>1, <2>2, <2>3
<1>3. ASSUME NEW r \in Requests, MarkProcessing(r)
      PROVE  TransferInv'
  <2> DEFINE ref == request[r].ref
  <2>1. PICK fate \in CommitFates :
          line' = Applied(fate, line, [line EXCEPT ![ref].status = "PROCESSING"])
    BY <1>0, <1>3, MarkEffect
  <2>2. /\ UNCHANGED <<facts, trail, answers>> /\ GoesOn(r) /\ request[r].pc = "marking"
        /\ request'[r].ref = ref
        /\ \/ request'[r].pc = "documenting" /\ request'[r].told = request[r].told
           \/ request'[r].pc = "done" /\ request'[r].told = "error"
    BY <1>0, <1>3, MarkEffect
  <2>3. request[r].pc \in Active
    BY <2>2 DEF Active, Working
  <2>4. /\ Owns(r) /\ ref \in References /\ request[r].told = "nothing" /\ line[ref] \in Line
        /\ Consistent(request[r], line[ref], answers[ref])
        /\ Recorded(line[ref], facts[ref], trail[ref], answers[ref])
    BY <2>3, OwnerFacts
  <2>5. /\ line[ref].status \in Unsettled /\ answers[ref] = {}
        /\ line'[ref].status \in Unsettled /\ line'[ref].reason = line[ref].reason
        /\ \A o \in References : o # ref => line'[o] = line[o]
    BY <1>0, <2>1, <2>2, <2>4 DEF Consistent, Active, Working, Unsettled, Applied, TransferTypeOK, Line
  <2>6. Recorded(line'[ref], facts'[ref], trail'[ref], answers'[ref])
    BY <2>2, <2>4, <2>5 DEF Recorded, Unsettled
  <2>7. Consistent(request'[r], line'[ref], answers'[ref])
    BY <2>2, <2>4, <2>5 DEF Consistent, Active, Working
  <2>. QED  BY <1>0, <2>2, <2>4, <2>5, <2>6, <2>7, OwnerStep
<1>4. ASSUME NEW r \in Requests, RecordDocument(r) \/ RecordOutbound(r) \/ RecordInbound(r)
      PROVE  TransferInv'
  <2> DEFINE ref == request[r].ref
  <2>1. CASE RecordDocument(r)
    <3>1. Traces(r, "documenting", "DOCUMENT_VALIDATED", "connecting")
      BY <2>1 DEF RecordDocument
    <3>2. /\ "documenting" \in Active /\ "connecting" \in Working
          /\ "DOCUMENT_VALIDATED" \in AuditDirection /\ "DOCUMENT_VALIDATED" \notin FailureEntries
      BY DEF Active, Working, AuditDirection, FailureEntries
    <3>3. /\ UNCHANGED <<line, facts, answers>> /\ GoesOn(r)
          /\ request[r].pc = "documenting" /\ Record(ref, "DOCUMENT_VALIDATED")
          /\ request'[r].pc = "connecting" /\ request'[r].ref = ref
          /\ request'[r].told = request[r].told
      BY <1>0, <3>1, <3>2, TraceEffect
    <3>4. request[r].pc \in Active
      BY <3>2, <3>3
    <3>5. request[r].told = "nothing" /\ Consistent(request[r], line[ref], answers[ref])
      BY <3>4, OwnerFacts
    <3>6. \A o \in References : \/ trail'[o] = trail[o]
                                \/ o = ref /\ trail'[o] = trail[o] \union {"DOCUMENT_VALIDATED"}
      BY <1>0, <3>3, RecordEffect
    <3>7. Consistent(request'[r], line[ref], answers[ref])
      BY <3>3, <3>5 DEF Consistent, Active, Working
    <3>. QED  BY <1>0, <3>2, <3>3, <3>4, <3>6, <3>7, TraceStep
  <2>2. CASE RecordOutbound(r)
    <3>1. Traces(r, "tracing request", "OUTBOUND_REQUEST", "tracing response")
      BY <2>2 DEF RecordOutbound
    <3>2. /\ "tracing request" \in Active /\ "tracing response" \in Working
          /\ "OUTBOUND_REQUEST" \in AuditDirection /\ "OUTBOUND_REQUEST" \notin FailureEntries
      BY DEF Active, Working, AuditDirection, FailureEntries
    <3>3. /\ UNCHANGED <<line, facts, answers>> /\ GoesOn(r)
          /\ request[r].pc = "tracing request" /\ Record(ref, "OUTBOUND_REQUEST")
          /\ request'[r].pc = "tracing response" /\ request'[r].ref = ref
          /\ request'[r].told = request[r].told
      BY <1>0, <3>1, <3>2, TraceEffect
    <3>4. request[r].pc \in Active
      BY <3>2, <3>3
    <3>5. request[r].told = "nothing" /\ Consistent(request[r], line[ref], answers[ref])
      BY <3>4, OwnerFacts
    <3>6. \A o \in References : \/ trail'[o] = trail[o]
                                \/ o = ref /\ trail'[o] = trail[o] \union {"OUTBOUND_REQUEST"}
      BY <1>0, <3>3, RecordEffect
    <3>7. Consistent(request'[r], line[ref], answers[ref])
      BY <3>3, <3>5 DEF Consistent, Active, Working
    <3>. QED  BY <1>0, <3>2, <3>3, <3>4, <3>6, <3>7, TraceStep
  <2>3. CASE RecordInbound(r)
    <3>1. Traces(r, "tracing response", "INBOUND_RESPONSE", "completing")
      BY <2>3 DEF RecordInbound
    <3>2. /\ "tracing response" \in Active /\ "completing" \in Working
          /\ "INBOUND_RESPONSE" \in AuditDirection /\ "INBOUND_RESPONSE" \notin FailureEntries
      BY DEF Active, Working, AuditDirection, FailureEntries
    <3>3. /\ UNCHANGED <<line, facts, answers>> /\ GoesOn(r)
          /\ request[r].pc = "tracing response" /\ Record(ref, "INBOUND_RESPONSE")
          /\ request'[r].pc = "completing" /\ request'[r].ref = ref
          /\ request'[r].told = request[r].told
      BY <1>0, <3>1, <3>2, TraceEffect
    <3>4. request[r].pc \in Active
      BY <3>2, <3>3
    <3>5. request[r].told = "nothing" /\ Consistent(request[r], line[ref], answers[ref])
      BY <3>4, OwnerFacts
    <3>6. \A o \in References : \/ trail'[o] = trail[o]
                                \/ o = ref /\ trail'[o] = trail[o] \union {"INBOUND_RESPONSE"}
      BY <1>0, <3>3, RecordEffect
    <3>7. Consistent(request'[r], line[ref], answers[ref])
      BY <3>3, <3>5 DEF Consistent, Active, Working
    <3>8. "result" \in answers[ref]
      BY <3>3, <3>5 DEF Consistent
    <3>. QED  BY <1>0, <3>2, <3>3, <3>4, <3>6, <3>7, <3>8, TraceStep
  <2>. QED  BY <1>4, <2>1, <2>2, <2>3
<1>5. ASSUME NEW r \in Requests, GetClient(r)
      PROVE  TransferInv'
  <2> DEFINE ref == request[r].ref
  <2>1. /\ UNCHANGED <<line, facts, trail, answers>> /\ GoesOn(r)
        /\ request[r].pc = "connecting" /\ request'[r].pc \in {"calling", "waiting"}
        /\ request'[r].ref = ref /\ request'[r].told = request[r].told
    BY <1>0, <1>5, GetClientEffect
  <2>2. request[r].pc \in Active
    BY <2>1 DEF Active, Working
  <2>3. request[r].told = "nothing" /\ Consistent(request[r], line[ref], answers[ref])
    BY <2>2, OwnerFacts
  <2>4. Consistent(request'[r], line[ref], answers[ref])
    BY <2>1, <2>3 DEF Consistent, Active, Working
  <2>5. \A o \in References : trail'[o] = trail[o]
    BY <2>1
  <2>6. "DOCUMENT_VALIDATED" \notin FailureEntries
    BY DEF FailureEntries
  <2>. QED  BY <1>0, <2>1, <2>2, <2>4, <2>5, <2>6, TraceStep
<1>6. ASSUME NEW r \in Requests, Call(r)
      PROVE  TransferInv'
  <2> DEFINE ref == request[r].ref
  <2>1. UNCHANGED <<line, facts, trail>> /\ GoesOn(r) /\ request[r].pc = "calling"
    BY <1>0, <1>6, CallEffect
  <2>2. PICK v \in Verdict : /\ answers' = [answers EXCEPT ![ref] = @ \union {v}]
                             /\ request'[r] = AfterAttempt(request[r], v)
    BY <1>0, <1>6, CallEffect
  <2>3. request[r].pc \in Active
    BY <2>1 DEF Active, Working
  <2>4. /\ Owns(r) /\ ref \in References /\ request[r].told = "nothing" /\ request[r] \in Request
        /\ Consistent(request[r], line[ref], answers[ref])
        /\ Recorded(line[ref], facts[ref], trail[ref], answers[ref])
    BY <2>3, OwnerFacts
  <2>5. /\ answers'[ref] = answers[ref] \union {v}
        /\ \A o \in References : o # ref => answers'[o] = answers[o]
    BY <1>0, <2>2, <2>4 DEF TransferTypeOK
  <2>6. line[ref].status \in Unsettled /\ answers[ref] \subseteq {"communication"}
    BY <2>1, <2>4 DEF Consistent, Active, Working
  <2>7. request'[r].ref = ref /\ request'[r].told = "nothing"
    <3>1. /\ AfterAttempt(request[r], v).ref = request[r].ref
          /\ AfterAttempt(request[r], v).told = request[r].told
      BY <2>4, AfterAttemptType
    <3>. QED  BY <2>2, <2>4, <3>1
  <2>8. \/ v = "result" /\ request'[r].pc = "tracing request"
        \/ v = "communication" /\ request'[r].pc = "connecting"
        \/ v # "result" /\ request'[r].pc = "failing" /\ request'[r].cause = v
    BY <2>2, <2>4 DEF AfterAttempt, Retryable, Request
  <2>9. Consistent(request'[r], line'[ref], answers'[ref])
    BY <2>1, <2>5, <2>6, <2>7, <2>8 DEF Consistent, Active, Working, Verdict
  <2>10. Recorded(line'[ref], facts'[ref], trail'[ref], answers'[ref])
    BY <2>1, <2>4, <2>5, <2>6 DEF Recorded, Unsettled
  <2>. QED  BY <1>0, <2>1, <2>4, <2>5, <2>7, <2>9, <2>10, OwnerStep
<1>7. ASSUME NEW r \in Requests, Complete(r)
      PROVE  TransferInv'
  <2> DEFINE ref == request[r].ref
  <2>1. /\ UNCHANGED <<trail, answers>> /\ GoesOn(r)
        /\ request[r].pc = "completing" /\ request'[r].ref = ref
    BY <1>0, <1>7, CompleteEffect
  <2>2. PICK fate \in CommitFates :
          /\ line' = Applied(fate, line, [line EXCEPT ![ref].status = "COMPLETED"])
          /\ facts' = Applied(fate, facts, [facts EXCEPT ![ref] =
                       CloseCase(Append(@, "TRANSFER_COMPLETED"))])
          /\ fate = "committed" => request'[r].pc = "done" /\ request'[r].told = "completed"
          /\ fate # "committed" =>
               /\ request'[r].pc = "failing" /\ request'[r].told = request[r].told
               /\ request'[r].cause = "internal"
    BY <1>0, <1>7, CompleteEffect
  <2>3. request[r].pc \in Active
    BY <2>1 DEF Active, Working
  <2>4. /\ Owns(r) /\ ref \in References /\ request[r].told = "nothing" /\ line[ref] \in Line
        /\ facts[ref] \in Seq(FactTypes)
        /\ Consistent(request[r], line[ref], answers[ref])
        /\ Recorded(line[ref], facts[ref], trail[ref], answers[ref])
    BY <2>3, OwnerFacts
  <2>5. /\ line[ref].status \in Unsettled
        /\ "result" \in answers[ref] /\ answers[ref] \subseteq {"result", "communication"}
    BY <2>1, <2>4 DEF Consistent, Active, Working
  <2>6. CASE fate = "rolled back"
    <3>1. line' = line /\ facts' = facts
      BY <2>2, <2>6 DEF Applied
    <3>2. Consistent(request'[r], line'[ref], answers'[ref])
      BY <2>1, <2>2, <2>4, <2>5, <2>6, <3>1 DEF Consistent, Active, Working
    <3>. QED  BY <1>0, <2>1, <2>4, <3>1, <3>2, OwnerStep
  <2>7. CASE fate = "committed"
    <3>1. /\ \A o \in References : o # ref => line'[o] = line[o] /\ facts'[o] = facts[o]
          /\ line'[ref].status = "COMPLETED"
          /\ facts'[ref] = CloseCase(Append(facts[ref], "TRANSFER_COMPLETED"))
      BY <1>0, <2>2, <2>4, <2>7 DEF Applied, TransferTypeOK, Line
    <3>2. Ended(facts'[ref], "TRANSFER_COMPLETED")
      <4>1. Opened(facts[ref])
        BY <2>4, <2>5 DEF Recorded
      <4>. QED  BY <2>4, <3>1, <4>1, EndChain DEF FactTypes
    <3>3. Recorded(line'[ref], facts'[ref], trail'[ref], answers'[ref])
      BY <2>1, <2>4, <2>5, <3>1, <3>2 DEF Recorded, Unsettled
    <3>4. Consistent(request'[r], line'[ref], answers'[ref])
      BY <2>2, <2>7, <3>1 DEF Consistent, Active, Working
    <3>. QED  BY <1>0, <2>1, <2>4, <3>1, <3>3, <3>4, OwnerStep
  <2>. QED  BY <1>a, <2>6, <2>7
<1>8. ASSUME NEW r \in Requests, PersistFailedTransaction(r)
      PROVE  TransferInv'
  <2> DEFINE ref == request[r].ref
  <2>1. /\ UNCHANGED <<trail, answers>> /\ GoesOn(r)
        /\ request[r].pc = "failing" /\ request'[r].ref = ref /\ request'[r].cause = request[r].cause
    BY <1>0, <1>8, FailEffect
  <2>2. PICK fate \in CommitFates :
          /\ line' = Applied(fate, line, [line EXCEPT ![ref] =
                       [@ EXCEPT !.status = "FAILED", !.reason = request[r].cause]])
          /\ facts' = Applied(fate, facts, [facts EXCEPT ![ref] =
                       CloseCase(Append(@, "TRANSFER_FAILED"))])
          /\ fate # "committed" => request'[r].pc = "done" /\ request'[r].told = "error"
          /\ fate = "committed" =>
               \/ request'[r].pc = "done" /\ request'[r].told = "failed"
               \/ /\ request'[r].pc = "reporting" /\ request'[r].told = request[r].told
                  /\ request[r].cause # "internal"
    BY <1>0, <1>8, FailEffect
  <2>3. request[r].pc \in Active
    BY <2>1 DEF Active, Working
  <2>4. /\ Owns(r) /\ ref \in References /\ request[r].told = "nothing" /\ line[ref] \in Line
        /\ facts[ref] \in Seq(FactTypes)
        /\ Consistent(request[r], line[ref], answers[ref])
        /\ Recorded(line[ref], facts[ref], trail[ref], answers[ref])
    BY <2>3, OwnerFacts
  <2>5. /\ line[ref].status \in Unsettled
        /\ request[r].cause = "internal" <=> "result" \in answers[ref]
        /\ request[r].cause \in {"fault", "parsing"} => request[r].cause \in answers[ref]
    BY <2>1, <2>4 DEF Consistent, Active, Working
  <2>6. CASE fate = "rolled back"
    <3>1. line' = line /\ facts' = facts
      BY <2>2, <2>6 DEF Applied
    <3>2. Consistent(request'[r], line'[ref], answers'[ref])
      BY <2>1, <2>2, <2>6, <3>1 DEF Consistent, Active, Working
    <3>. QED  BY <1>0, <2>1, <2>4, <3>1, <3>2, OwnerStep
  <2>7. CASE fate = "committed"
    <3>1. /\ \A o \in References : o # ref => line'[o] = line[o] /\ facts'[o] = facts[o]
          /\ line'[ref].status = "FAILED" /\ line'[ref].reason = request[r].cause
          /\ facts'[ref] = CloseCase(Append(facts[ref], "TRANSFER_FAILED"))
      BY <1>0, <2>2, <2>4, <2>7 DEF Applied, TransferTypeOK, Line
    <3>2. Ended(facts'[ref], "TRANSFER_FAILED")
      <4>1. Opened(facts[ref])
        BY <2>4, <2>5 DEF Recorded
      <4>. QED  BY <2>4, <3>1, <4>1, EndChain DEF FactTypes
    <3>3. trail[ref] \intersect FailureEntries = {}
      BY <2>4, <2>5 DEF Recorded, Unsettled
    <3>4. Recorded(line'[ref], facts'[ref], trail'[ref], answers'[ref])
      BY <2>1, <2>4, <2>5, <3>1, <3>2, <3>3 DEF Recorded, Unsettled
    <3>5. Consistent(request'[r], line'[ref], answers'[ref])
      BY <2>1, <2>2, <2>4, <2>7, <3>1 DEF Consistent, Active, Working
    <3>. QED  BY <1>0, <2>1, <2>4, <3>1, <3>4, <3>5, OwnerStep
  <2>. QED  BY <1>a, <2>6, <2>7
<1>9. ASSUME NEW r \in Requests, ReportFailure(r)
      PROVE  TransferInv'
  <2> DEFINE ref == request[r].ref
  <2>1. /\ UNCHANGED <<line, facts, answers>> /\ GoesOn(r)
        /\ request[r].pc = "reporting" /\ request'[r].ref = ref
        /\ request'[r].pc = "done" /\ request'[r].told = "failed"
    BY <1>0, <1>9, ReportEffect
  <2>2. PICK d \in FailureEntries : Record(ref, d)
    BY <1>0, <1>9, ReportEffect
  <2>3. request[r].pc \in Active
    BY <2>1 DEF Active, Working
  <2>4. Consistent(request[r], line[ref], answers[ref])
    BY <2>3, OwnerFacts
  <2>5. line[ref].status = "FAILED" /\ line[ref].reason # "internal"
    BY <2>1, <2>4 DEF Consistent
  <2>6. Consistent(request'[r], line[ref], answers[ref])
    BY <2>1, <2>5 DEF Consistent, Active, Working
  <2>7. \A o \in References : \/ trail'[o] = trail[o]
                              \/ o = ref /\ trail'[o] = trail[o] \union {d}
    BY <1>0, <2>2, RecordEffect
  <2>8. d # "INBOUND_RESPONSE"
    BY DEF FailureEntries
  <2>. QED  BY <1>0, <2>1, <2>3, <2>5, <2>6, <2>7, <2>8, TraceStep
<1>10. ASSUME NEW g \in Gateways, CreateClient(g) \/ Crash(g)
       PROVE  TransferInv'
  <2>1. UNCHANGED <<line, facts, trail, answers>>
    BY <1>0, <1>10, ProcessEffect
  <2>2. ASSUME NEW r \in Requests, Owns(r)'
        PROVE  Consistent(request'[r], line'[request'[r].ref], answers'[request'[r].ref])
    <3>1. /\ request'[r].ref = request[r].ref /\ request'[r].told = request[r].told
          /\ \/ request'[r] = request[r]
             \/ request[r].pc = "waiting" /\ request'[r].pc = "calling"
             \/ request[r].pc = "waiting" /\ request'[r] = AfterAttempt(request[r], "communication")
             \/ request[r].pc \in Working /\ request'[r].pc = "lost"
      BY <1>0, <1>10, ProcessEffect
    <3>2. Owns(r)
      BY <2>2, <3>1 DEF Owns
    <3>3. Consistent(request[r], line[request[r].ref], answers[request[r].ref])
      BY <3>2 DEF TransferInv
    <3>4. \/ AfterAttempt(request[r], "communication").pc = "connecting"
          \/ /\ AfterAttempt(request[r], "communication").pc = "failing"
             /\ AfterAttempt(request[r], "communication").cause = "communication"
      BY <1>0 DEF AfterAttempt, TransferTypeOK, Request
    <3>5. Consistent(request'[r], line[request[r].ref], answers[request[r].ref])
      BY <1>0, <3>1, <3>3, <3>4 DEF Consistent, Active, Working, Placed
    <3>. QED  BY <2>1, <3>1, <3>5
  <2>. QED  BY <1>0, <2>1, <2>2 DEF TransferInv
<1>11. CASE UNCHANGED vars
  BY <1>0, <1>11 DEF vars, TransferInv, Owns
<1>. QED  BY <1>1, <1>2, <1>3, <1>4, <1>5, <1>6, <1>7, <1>8, <1>9, <1>10, <1>11 DEF Next, Serve

(* With commits that are acknowledged, the invariant always holds.         *)
LEMMA TransferInductive ==
  ASSUME "unacknowledged" \notin CommitFates
  PROVE  Spec => []TransferInv
<1>1. TransferInv /\ [Next]_vars => TransferInv'
  BY InvStep
<1>. QED  BY <1>1, InvInit, PTL DEF Spec
(* Whatever is read between two SQL transactions, a line is final exactly  *)
(* when its chain is closed by its last fact, and no verification accuses  *)
(* anyone of tampering (ClosedWhenFinal), for every number of requests,    *)
(* processes, stops and SQL errors, when commits are acknowledged.         *)
THEOREM ClosedWhenFinalHolds ==
  ASSUME "unacknowledged" \notin CommitFates
  PROVE  Spec => []ClosedWhenFinal
<1>1. ASSUME TransferInv  PROVE ClosedWhenFinal
  <2>1. SUFFICES ASSUME NEW ref \in References, Exists(ref)
                 PROVE  /\ ~Tampered(StateOf(line[ref].status), facts[ref])
                        /\ Holds(facts[ref], "CASE_CLOSED") => line[ref].status \in Final
    BY DEF ClosedWhenFinal
  <2>2. /\ facts[ref] \in Seq(FactTypes)
        /\ line[ref].status \in Unsettled \/ line[ref].status = "COMPLETED" \/ line[ref].status = "FAILED"
        /\ Recorded(line[ref], facts[ref], trail[ref], answers[ref])
    BY <1>1, <2>1 DEF TransferInv, TransferOwned, TransferTypeOK, Line, TransactionStatus, Exists,
         Unsettled, FactTypes
  <2>3. CASE line[ref].status \in Unsettled
    <3>1. Opened(facts[ref])
      BY <2>2, <2>3 DEF Recorded
    <3>. QED  BY <2>2, <2>3, <3>1, OpenUntampered
  <2>4. CASE line[ref].status = "COMPLETED"
    <3>1. Ended(facts[ref], "TRANSFER_COMPLETED")
      BY <2>2, <2>4 DEF Recorded
    <3>. QED  BY <2>2, <2>4, <3>1, EndedUntampered DEF Final
  <2>5. CASE line[ref].status = "FAILED"
    <3>1. Ended(facts[ref], "TRANSFER_FAILED")
      BY <2>2, <2>5 DEF Recorded
    <3>. QED  BY <2>2, <2>5, <3>1, EndedUntampered DEF Final
  <2>. QED  BY <2>2, <2>3, <2>4, <2>5
<1>. QED  BY <1>1, TransferInductive, PTL

(* A final line says what the calls to the service returned, and the audit *)
(* log holds a failed exchange only for a line that FAILED                 *)
(* (LineTellsExchange), however retries, stops, lost audit entries and SQL *)
(* errors interleave.                                                      *)
THEOREM LineTellsExchangeHolds ==
  ASSUME "unacknowledged" \notin CommitFates
  PROVE  Spec => []LineTellsExchange
<1>1. ASSUME TransferInv  PROVE LineTellsExchange
  <2>1. SUFFICES ASSUME NEW ref \in References
        PROVE
          /\ line[ref].status = "COMPLETED" =>
               "result" \in answers[ref] /\ answers[ref] \ {"result"} \subseteq {"communication"}
          /\ line[ref].status = "FAILED" =>
               /\ line[ref].reason = "internal" <=> "result" \in answers[ref]
               /\ line[ref].reason \in {"fault", "parsing"} => line[ref].reason \in answers[ref]
          /\ trail[ref] \intersect {"INBOUND_FAULT", "COMMUNICATION_ERROR"} # {} =>
               line[ref].status = "FAILED" /\ "INBOUND_RESPONSE" \notin trail[ref]
    BY DEF LineTellsExchange
  <2>2. Recorded(line[ref], facts[ref], trail[ref], answers[ref])
    BY <1>1 DEF TransferInv
  <2>. QED  BY <2>2 DEF Recorded, FailureEntries
<1>. QED  BY <1>1, TransferInductive, PTL

(* The client that was told an outcome, or was given an earlier line, can  *)
(* read that outcome or that line from then on (ToldAsRecorded).           *)
THEOREM ToldAsRecordedHolds ==
  ASSUME "unacknowledged" \notin CommitFates
  PROVE  Spec => []ToldAsRecorded
<1>1. ASSUME TransferInv  PROVE ToldAsRecorded
  <2>1. ASSUME NEW r \in Requests, request[r].told \in {"completed", "failed"}
        PROVE  Consistent(request[r], line[request[r].ref], answers[request[r].ref])
    BY <1>1, <2>1 DEF TransferInv, TransferOwned, Placed, Owns
  <2>2. ASSUME NEW r \in Requests, request[r].told = "replay"
        PROVE  Exists(request[r].ref)
    BY <1>1, <2>2 DEF TransferInv, TransferOwned, Placed, Named
  <2>. QED  BY <2>1, <2>2 DEF ToldAsRecorded, Consistent
<1>. QED  BY <1>1, TransferInductive, PTL
-----------------------------------------------------------------------------
(* A step of the owner of an unsettled line touches no final line.         *)
LEMMA OwnerSparesFinal ==
  ASSUME TransferInv, NEW r \in Requests, request[r].pc \in Active \ {"reporting"},
         \A o \in References : o # request[r].ref => line'[o] = line[o] /\ facts'[o] = facts[o],
         NEW ref \in References, line[ref].status \in Final
  PROVE  line'[ref] = line[ref] /\ facts'[ref] = facts[ref]
<1>1. line[request[r].ref].status \in Unsettled
  BY OwnerFacts DEF Consistent
<1>. QED  BY <1>1 DEF Unsettled, Final

(* A transfer that reached a final status keeps it and its chain stops     *)
(* growing (TerminalIsFinal), although the state machine compares with a   *)
(* state read before the call: one request alone writes to a line, and it  *)
(* has nothing more to write once the line is final.                       *)
THEOREM TerminalIsFinalHolds ==
  ASSUME "unacknowledged" \notin CommitFates
  PROVE  Spec => TerminalIsFinal
<1>1. ASSUME TransferInv, Next, NEW ref \in References, line[ref].status \in Final
      PROVE  line'[ref] = line[ref] /\ facts'[ref] = facts[ref]
  <2>0. TransferTypeOK
    BY <1>1 DEF TransferInv, TransferOwned
  <2>1. ASSUME NEW r \in Requests, InitiateTransfer(r)
        PROVE  UNCHANGED <<line, facts>>
    BY <2>1 DEF InitiateTransfer, tables
  <2>2. ASSUME NEW r \in Requests, PersistPendingTransaction(r)
        PROVE  line'[ref] = line[ref] /\ facts'[ref] = facts[ref]
    <3>1. PICK o \in References :
            \/ InsertPending(r, o)
            \/ LosesKeyRace(r)
            \/ ReferenceCollision(r, o)
      BY <2>2 DEF PersistPendingTransaction
    <3>2. CASE InsertPending(r, o)
      <4>1. o # ref
        BY <1>1, <3>2 DEF InsertPending, Exists, Final
      <4>2. PICK fate \in CommitFates :
              /\ line' = Applied(fate, line, [line EXCEPT ![o] =
                           [NoLine EXCEPT !.status = "PENDING", !.key = KeyOf[r]]])
              /\ facts' = Applied(fate, facts, [facts EXCEPT ![o] = Append(@, "TRANSFER_INITIATED")])
        BY <3>2 DEF InsertPending
      <4>. QED  BY <2>0, <4>1, <4>2 DEF Applied, TransferTypeOK
    <3>3. CASE LosesKeyRace(r) \/ ReferenceCollision(r, o)
      BY <3>3 DEF LosesKeyRace, ReferenceCollision, tables
    <3>. QED  BY <3>1, <3>2, <3>3
  <2>3. ASSUME NEW r \in Requests, MarkProcessing(r)
        PROVE  line'[ref] = line[ref] /\ facts'[ref] = facts[ref]
    <3>1. PICK fate \in CommitFates :
            line' = Applied(fate, line, [line EXCEPT ![request[r].ref].status = "PROCESSING"])
      BY <2>3 DEF MarkProcessing
    <3>2. request[r].pc = "marking" /\ facts' = facts
      BY <2>3 DEF MarkProcessing, Turn
    <3>3. \A o \in References : o # request[r].ref => line'[o] = line[o] /\ facts'[o] = facts[o]
      BY <2>0, <3>1, <3>2 DEF Applied, TransferTypeOK
    <3>4. request[r].pc \in Active \ {"reporting"}
      BY <3>2 DEF Active, Working
    <3>. QED  BY <1>1, <3>3, <3>4, OwnerSparesFinal
  <2>4. ASSUME NEW r \in Requests,
               \/ RecordDocument(r) \/ RecordOutbound(r) \/ RecordInbound(r)
               \/ GetClient(r) \/ Call(r) \/ ReportFailure(r)
        PROVE  UNCHANGED <<line, facts>>
    BY <2>4 DEF RecordDocument, RecordOutbound, RecordInbound, Traces, GetClient, Call, ReportFailure,
         tables
  <2>5. ASSUME NEW r \in Requests, Complete(r)
        PROVE  line'[ref] = line[ref] /\ facts'[ref] = facts[ref]
    <3>1. PICK fate \in CommitFates :
            /\ line' = Applied(fate, line, [line EXCEPT ![request[r].ref].status = "COMPLETED"])
            /\ facts' = Applied(fate, facts, [facts EXCEPT ![request[r].ref] =
                         CloseCase(Append(@, "TRANSFER_COMPLETED"))])
      BY <2>5 DEF Complete
    <3>2. request[r].pc \in Active \ {"reporting"}
      BY <2>5 DEF Complete, Turn, Active, Working
    <3>3. \A o \in References : o # request[r].ref => line'[o] = line[o] /\ facts'[o] = facts[o]
      BY <2>0, <3>1 DEF Applied, TransferTypeOK
    <3>. QED  BY <1>1, <3>2, <3>3, OwnerSparesFinal
  <2>6. ASSUME NEW r \in Requests, PersistFailedTransaction(r)
        PROVE  line'[ref] = line[ref] /\ facts'[ref] = facts[ref]
    <3>1. PICK fate \in CommitFates :
            /\ line' = Applied(fate, line, [line EXCEPT ![request[r].ref] =
                         [@ EXCEPT !.status = "FAILED", !.reason = request[r].cause]])
            /\ facts' = Applied(fate, facts, [facts EXCEPT ![request[r].ref] =
                         CloseCase(Append(@, "TRANSFER_FAILED"))])
      BY <2>6 DEF PersistFailedTransaction
    <3>2. request[r].pc \in Active \ {"reporting"}
      BY <2>6 DEF PersistFailedTransaction, Turn, Active, Working
    <3>3. \A o \in References : o # request[r].ref => line'[o] = line[o] /\ facts'[o] = facts[o]
      BY <2>0, <3>1 DEF Applied, TransferTypeOK
    <3>. QED  BY <1>1, <3>2, <3>3, OwnerSparesFinal
  <2>7. ASSUME NEW g \in Gateways, CreateClient(g) \/ Crash(g)
        PROVE  UNCHANGED <<line, facts>>
    BY <2>7 DEF CreateClient, ClientCreated, ClientFailed, Crash, tables
  <2>. QED  BY <1>1, <2>1, <2>2, <2>3, <2>4, <2>5, <2>6, <2>7 DEF Next, Serve
<1>2. TransferInv /\ [Next]_vars =>
        [\A ref \in References :
           line[ref].status \in Final => line'[ref] = line[ref] /\ facts'[ref] = facts[ref]]_vars
  BY <1>1
<1>. QED  BY <1>2, TransferInductive, PTL DEF Spec, TerminalIsFinal
=============================================================================
