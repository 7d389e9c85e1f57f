\* A record that cannot be written fails the cycle under its other lanes.
\* A loop at rest waits for the user, so a state with no step is legitimate.
SPECIFICATION Spec
CONSTANTS
  t1 = t1
  t2 = t2
  t3 = t3
  f1 = f1
  f2 = f2
  Untenanted = Untenanted
  NoCeiling = NoCeiling
  Tickets = {t1, t2, t3}
  Files = {f1, f2}
  Territory0 <- Overlapping
  BlockedBy <- Unblocked
  QueueIds = {}
  Concurrency = 2
  MaxAttempts = 2
  MaxStreak = 3
  MaxTickets = NoCeiling
  MaxUsd = NoCeiling
  HasClock = FALSE
  Results <- SomeResults
  LaneStatuses = {"in_progress"}
  UserStatuses = {"done"}
  MaxRetained = 20
  MaxSpend = 0
  MaxStarts = 2
  MaxCrashes = 0
  MaxEdits = 0
  MaxResizes = 0
  MaxHalts = 0
  MaxWakes = 0
  MaxFaults = 1
  MaxDisturbances = 1
INVARIANTS
  LanesNeverOverlap
CHECK_DEADLOCK FALSE
