SPECIFICATION Spec
CONSTANTS
  Handlers = {h1}
  Notifications = {"e1"}
  KindOf <- OneConfirmation
  SlowHandlers = FALSE
  Workers = {w1}
  Reconcilers = {}
  MaxAttempts = 2
  SlowWorkers = FALSE
  MaxPaid = 2
  MaxCrashes = 0
  MaxDbFaults = 0
INVARIANT OwedOnlyIfUnpaid
CHECK_DEADLOCK FALSE
