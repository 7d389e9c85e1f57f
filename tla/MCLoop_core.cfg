\* Three tickets, t2 without a territory, two slots, a queue of explicit ids, a ticket ceiling and a
\* spend ceiling, spend reported while lanes run, a start and a resume, a pause or a stop.
\* A loop at rest waits for the user, so a state with no step is legitimate.
SPECIFICATION Spec
CONSTANTS
  t1 = t1
  t2 = t2
  t3 = t3
  f1 = f1
  f2 = f2
  Untenanted = Untenanted
  NoCeiling = NoCeiling
  Tickets = {t1, t2, t3}
  Files = {f1, f2}
  Territory0 <- OneUntenanted
  BlockedBy <- Unblocked
  QueueIds = {t1, t2, t3}
  Concurrency = 2
  MaxAttempts = 2
  MaxStreak = 3
  MaxTickets = 3
  MaxUsd = 2
  HasClock = FALSE
  Results <- SomeResults
  LaneStatuses = {"in_progress"}
  UserStatuses = {"done"}
  MaxRetained = 2
  MaxSpend = 2
  MaxStarts = 2
  MaxCrashes = 0
  MaxEdits = 0
  MaxResizes = 0
  MaxHalts = 1
  MaxWakes = 0
  MaxFaults = 0
  MaxDisturbances = 1
INVARIANTS
  TypeOK
  LanesDisjoint
  StatusMatchesCycle
  TotalsAddUp
  TicketCeilingOvershoot
PROPERTIES
  NoLaunchPastSpend
CHECK_DEADLOCK FALSE
