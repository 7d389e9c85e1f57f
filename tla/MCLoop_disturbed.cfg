\* Two tickets, lanes overruled by their receipts, a start and a resume, and any two
\* disturbances in any order.
\* A loop at rest waits for the user, so a state with no step is legitimate.
SPECIFICATION Spec
CONSTANTS
  t1 = t1
  t2 = t2
  t3 = t3
  f1 = f1
  f2 = f2
  Untenanted = Untenanted
  NoCeiling = NoCeiling
  Tickets = {t1, t2}
  Files = {f1, f2}
  Territory0 <- PairApart
  BlockedBy <- Unblocked
  QueueIds = {}
  Concurrency = 2
  MaxAttempts = 2
  MaxStreak = 3
  MaxTickets = NoCeiling
  MaxUsd = NoCeiling
  HasClock = FALSE
  Results <- ReceiptResults
  LaneStatuses = {}
  UserStatuses = {"backlog"}
  MaxRetained = 3
  MaxSpend = 0
  MaxStarts = 2
  MaxCrashes = 1
  MaxEdits = 1
  MaxResizes = 1
  MaxHalts = 1
  MaxWakes = 0
  MaxFaults = 1
  MaxDisturbances = 2
INVARIANTS
  LocksDisjoint
  LedgerMatchesLanes
  AttemptsMatchVerdicts
  RetryBudget
  ExecutionLedgersAddUp
PROPERTIES
  DrainedMeansHandedOver
  NoLaunchUnlessRunning
CHECK_DEADLOCK FALSE
