\* Two slots; a and b keep arriving with a high score and c waits with a low one; d is large and
\* waits for c; x, y and z wait for each other.  Lanes succeed, park or collide; one event.
\* A loop that has settled waits for its user, so a state with no step is legitimate.
SPECIFICATION SpecFair
CONSTANTS
  a = a
  b = b
  c = c
  d = d
  x = x
  y = y
  z = z
  f1 = f1
  f2 = f2
  f3 = f3
  f4 = f4
  Untenanted = Untenanted
  Tickets = {a, b, c, d, x, y, z}
  Files = {f1, f2, f3, f4}
  Territory <- TheFiles
  BlockedBy <- TheLinks
  Children <- TheSubtasks
  Base <- TheBases
  Large = {d}
  Weight <- TheWeights
  Recurring = {a, b}
  Concurrency = 2
  MaxAttempts = 2
  Results <- SomeResults
  Boards <- SomeBoards
  Statuses = {"in_progress", "deleted"}
  HeldSets <- SomeClaims
  MaxEvents = 1
INVARIANTS
  LanesDisjoint
  WaitIsBounded
PROPERTIES
  BlockedForCause
  ReadyRuns
CHECK_DEADLOCK FALSE
