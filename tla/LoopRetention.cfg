\* A window of three over histories of up to five iterations: every trim of one,
\* two or three iterations, settled or still open.
SPECIFICATION Spec
CONSTANTS
  Tickets = {t1}
  Files = {}
  MaxRetained = 3
  MaxHistory = 5
INVARIANTS
  StreakExactSinceSuccess
\* Every history ends at the bound.
CHECK_DEADLOCK FALSE
