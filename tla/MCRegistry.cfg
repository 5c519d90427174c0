SPECIFICATION RegistrySpec
CONSTANTS
  Writers = {"w1", "w2", "w3"}
  Plan <- RefundPlans
  MaxSequenceAttempts = 2
  Auditors = {a1}
  MaxAlterations = 2
INVARIANTS
  SingleChain
  ClosureSealsTheCase
  VerifiedIsGenuine
  AccusedOnlyForCause
CHECK_DEADLOCK FALSE
