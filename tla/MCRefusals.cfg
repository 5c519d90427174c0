SPECIFICATION Spec
CONSTANTS
  Handlers = {h1, h2}
  Notifications = {"e1", "e2"}
  KindOf <- ConfirmationRefusal
  SlowHandlers = TRUE
  Workers = {w1}
  Reconcilers = {r1}
  MaxAttempts = 2
  SlowWorkers = FALSE
  MaxPaid = 1
  MaxCrashes = 1
  MaxDbFaults = 0
SYMMETRY Symmetry
INVARIANTS
  PaidOnlyOnConformingCollection
  AccusedOnlyForRepetition
PROPERTIES
  KeepsPaymentCase
  MatchedByEarlierReaders
CHECK_DEADLOCK FALSE
