SPECIFICATION Spec
CONSTANTS
  Handlers = {h1, h2}
  Notifications = {"e1", "e2", "e3"}
  KindOf <- AllKinds
  SlowHandlers = FALSE
  Workers = {w1, w2}
  Reconcilers = {}
  MaxAttempts = 2
  SlowWorkers = FALSE
  MaxPaid = 2
  MaxCrashes = 1
  MaxDbFaults = 1
SYMMETRY Symmetry
INVARIANTS
  TypeOK
  InstructionBacksLeg
  AnswerAlwaysApplies
  OneBankVerdict
  DebtMatchesLostLeg
PROPERTIES
  LegalRowMoves
  SettledInstructionIsOver
CHECK_DEADLOCK FALSE
