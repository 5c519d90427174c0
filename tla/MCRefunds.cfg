SPECIFICATION TreasurySpec
CONSTANTS
  Handlers = {h1}
  Notifications = {"e1", "e2"}
  KindOf <- ConfirmationOrGap
  SlowHandlers = FALSE
  Workers = {w1}
  Reconcilers = {}
  MaxAttempts = 1
  SlowWorkers = FALSE
  MaxPaid = 1
  MaxCrashes = 0
  MaxDbFaults = 0
  Requests = {q1, q2}
  RetryRuns = {k1}
  Operators = {o1, o2}
  MaxFailures = 1
  MaxReopenings = 1
  Sweepers = {s1, s2}
  Ordered = 7
  Collected = 5
  FeeAmount = 2
SYMMETRY Symmetry
INVARIANTS
  RepaidAtMostOnce
  ResolvedOnlyWhenRepaid
  RefundViewsAgree
  SweptOnceWhenPaid
  OpenDebtIsBooked
  BooksOfEndedCase
PROPERTIES
  ExtinctDebtIsFinal
CHECK_DEADLOCK FALSE
