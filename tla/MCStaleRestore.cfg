SPECIFICATION RestoreSpec
CONSTANTS
  Writers = {"w1"}
  Plan <- OneCompletion
  MaxSequenceAttempts = 2
  Auditors = {}
  MaxAlterations = 0
INVARIANTS
  ConsistentHoldsWhatWasPublished
CHECK_DEADLOCK FALSE
