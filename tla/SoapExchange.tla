---------------------------- MODULE SoapExchange ----------------------------
(***************************************************************************)
(* How SoapClientService and SoapResponseMapper qualify the outcome of one *)
(* call to the SOAP service: the result of the operation, a fault, an      *)
(* unusable response, or a failure of the communication.  Pure operators.  *)
(***************************************************************************)

(* What the body of a response is to the mapper: refused by a guard of     *)
(* assertSafePayload, no envelope with a body, a fault, an envelope        *)
(* without the result of the operation, or with it.                        *)
Payload == {"unsafe", "misshapen", "fault", "no result", "result"}

(* A call that reached the service (resolved by node-soap, or rejected     *)
(* with the body it received), one the loaded WSDL does not describe, and  *)
(* one that no response ends: refused connection, HTTP error without body, *)
(* or silence until the timeout.  A body mentions "Fault" when the text    *)
(* occurs anywhere in it.                                                  *)
Resolved == [how: {"resolved"}, payload: Payload]
Rejected == {o \in [how: {"rejected"}, payload: Payload, mentionsFault: BOOLEAN] :
               o.payload = "fault" => o.mentionsFault}
Outcome  == Resolved \union Rejected
              \union [how: {"no operation", "unreachable", "silent"}]

(* parseEnvelope: the guards of assertSafePayload, then the envelope.      *)
ParseEnvelope(payload) == payload \notin {"unsafe", "misshapen"}

(* extractOperationResult: a fault first, then a result that is not empty. *)
ExtractOperationResult(payload) ==
  CASE payload = "fault" -> "fault"
    [] payload = "result" -> "result"
    [] OTHER -> "parsing"

(* normalizeError: a received body is qualified only when it mentions a    *)
(* fault; everything else is a failure of the communication.               *)
NormalizeError(o) ==
  CASE o.how \in {"silent", "unreachable"} -> "communication"
    [] o.how = "no operation" -> "parsing"
    [] o.how = "rejected" ->
         IF ~o.mentionsFault THEN "communication"
         ELSE IF ~ParseEnvelope(o.payload) THEN "parsing"
         ELSE IF o.payload = "fault" THEN "fault" ELSE "communication"

(* invoke, then the mapper on a response it was given.                     *)
Qualify(o) ==
  IF o.how = "resolved" THEN ExtractOperationResult(o.payload) ELSE NormalizeError(o)

Verdict == {"result", "fault", "parsing", "communication"}
PossibleVerdicts == {v \in Verdict : \E o \in Outcome : Qualify(o) = v}

(* Mutant: a fault is replayed as a failure of the communication would be. *)
RetryableIncludesFaults == {"communication", "fault"}

(* Only a failure of the communication is worth another attempt.           *)
Retryable == {"communication"}
=============================================================================
