SPECIFICATION FairLifeSpec
CONSTANTS
  Handlers = {h1}
  Notifications = {"e1"}
  KindOf <- OneConfirmation
  SlowHandlers = FALSE
  Workers = {w1}
  Reconcilers = {r1}
  MaxAttempts = 2
  SlowWorkers = FALSE
  MaxPaid = 2
  MaxCrashes = 1
  MaxDbFaults = 1
  Requests = {q1}
  RetryRuns = {k1}
  Operators = {o1}
  MaxFailures = 1
  MaxReopenings = 0
PROPERTIES
  TakenLegSettles
  QueueDrains
  NotificationsProcessed
  ExecutedCaseCloses
  AskedRefundSettles
CHECK_DEADLOCK FALSE
