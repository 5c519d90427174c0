SPECIFICATION AnchoringSpec
CONSTANTS
  Instances = {i1}
  BatchMaxSize = 1
  MaxRetries = 2
  Confirmations = 2
  MaxCases = 1
  FaultKinds = {"stop"}
  MaxFaults = 1
INVARIANT
  AnchoredIsConfirmed
