\* A fair host; where a property needs lanes to end it says so.
\* A loop at rest waits for the user, so a state with no step is legitimate.
SPECIFICATION SpecFair
CONSTANTS
  t1 = t1
  t2 = t2
  t3 = t3
  f1 = f1
  f2 = f2
  Untenanted = Untenanted
  NoCeiling = NoCeiling
  Tickets = {t1, t2}
  Files = {f1, f2}
  Territory0 <- PairApart
  BlockedBy <- SecondAfterFirst
  QueueIds = {}
  Concurrency = 2
  MaxAttempts = 2
  MaxStreak = 3
  MaxTickets = NoCeiling
  MaxUsd = NoCeiling
  HasClock = TRUE
  Results <- SomeResults
  LaneStatuses = {"in_progress"}
  UserStatuses = {"deleted"}
  MaxRetained = 20
  MaxSpend = 0
  MaxStarts = 2
  MaxCrashes = 1
  MaxEdits = 1
  MaxResizes = 0
  MaxHalts = 1
  MaxWakes = 1
  MaxFaults = 0
  MaxDisturbances = 2
PROPERTIES
  WakeIsHeard
  LoopComesToRest
  RestartReconciles
CHECK_DEADLOCK FALSE
