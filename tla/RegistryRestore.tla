--------------------------- MODULE RegistryRestore --------------------------
(***************************************************************************)
(* The register restored from a backup while the contract keeps what was   *)
(* published since, and the control that an operator runs before going     *)
(* back on line (RestoreVerificationService).                              *)
(***************************************************************************)
EXTENDS EventRegistry

VARIABLES
  snapshot,   \* a consistent copy of the tables, none at first
  restored    \* were the tables restored from it?

restoreVars == <<registryVars, snapshot, restored>>

Tables == [events |-> events, line |-> line, batch |-> batch]

RestoreInit == RegistryInit /\ snapshot = Tables /\ restored = FALSE

Backup ==
  /\ ~restored
  /\ snapshot' = Tables
  /\ UNCHANGED <<registryVars, restored>>

(* The processes are stopped and the tables are those of the backup.       *)
Restore ==
  /\ ~restored
  /\ restored' = TRUE
  /\ events' = snapshot.events /\ line' = snapshot.line /\ batch' = snapshot.batch
  /\ writer' = [w \in Writers |-> Idle]
  /\ auditor' = [a \in Auditors |-> Unread]
  /\ UNCHANGED <<published, guarded, alterations, sealed, snapshot>>

RestoreNext ==
  \/ RegistryNext /\ UNCHANGED <<snapshot, restored>>
  \/ Backup
  \/ Restore

RestoreSpec == RestoreInit /\ [][RestoreNext]_restoreVars

-----------------------------------------------------------------------------
(* auditBatch, for a batch of one leaf: the rows that carry its identifier *)
(* are counted against what the contract declares.                         *)
RestoredLeafCount == Cardinality({e \in events : e.anchored})

AuditBatch(reachable) ==
  CASE ~reachable -> "CHAIN_UNAVAILABLE"
    [] reachable /\ batch \notin published -> "ROOT_MISMATCH"
    [] OTHER -> IF RestoredLeafCount = 1 THEN "COMPLETE" ELSE "INCOMPLETE"

Missing == IF RestoredLeafCount < 1 THEN 1 - RestoredLeafCount ELSE 0

(* verify examines the batches that the tables say are anchored.           *)
RestoreVerdict(reachable) ==
  IF batch = NoPrint THEN "CONSISTENT"
  ELSE IF \/ AuditBatch(reachable) = "ROOT_MISMATCH"
          \/ AuditBatch(reachable) = "INCOMPLETE" /\ Missing = 0
       THEN "CHAIN_MISMATCH"
  ELSE IF AuditBatch(reachable) = "INCOMPLETE" THEN "DATA_LOSS"
  ELSE IF AuditBatch(reachable) = "CHAIN_UNAVAILABLE" THEN "CHAIN_UNAVAILABLE"
  ELSE "CONSISTENT"

(***************************************************************************)
(* A restored base that the control calls CONSISTENT holds every fact that *)
(* was published ("la base contient tout ce qui a ete publie").            *)
(***************************************************************************)
ConsistentHoldsWhatWasPublished ==
  restored /\ RestoreVerdict(TRUE) = "CONSISTENT" =>
    \A print \in published : \E e \in events : e.fingerprint = print
=============================================================================
