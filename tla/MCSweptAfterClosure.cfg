SPECIFICATION TreasurySpec
CONSTANTS
  Handlers = {h1}
  Notifications = {"e1"}
  KindOf <- OneConfirmation
  SlowHandlers = FALSE
  Workers = {w1}
  Reconcilers = {}
  MaxAttempts = 1
  SlowWorkers = FALSE
  MaxPaid = 1
  MaxCrashes = 0
  MaxDbFaults = 0
  Requests = {q1}
  RetryRuns = {k1}
  Operators = {o1, o2}
  MaxFailures = 1
  MaxReopenings = 0
  Sweepers = {s1, s2}
  Ordered = 7
  Collected = 5
  FeeAmount = 2
SYMMETRY Symmetry
INVARIANTS
  NeverAccusedOfTampering
CHECK_DEADLOCK FALSE
