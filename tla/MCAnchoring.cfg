SPECIFICATION FairAnchoringSpec
CONSTANTS
  Instances = {i1, i2}
  BatchMaxSize = 2
  MaxRetries = 2
  Confirmations = 2
  MaxCases = 2
  FaultKinds = {"stop", "node", "lock", "reorg", "alteration"}
  MaxFaults = 2
INVARIANTS
  CommittedOnce
  ReceiptIsConfirmed
  ProofsTellAlteration
  AnchorViewsAgree
  WritesWithinBudget
PROPERTIES
  AnchoredIsFinal
  ClosureSettles
