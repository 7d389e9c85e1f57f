\* Three tickets over one file, two of which keep arriving with a better score.
SPECIFICATION SpecFair
CONSTANTS
  a = a
  b = b
  c = c
  d = d
  x = x
  y = y
  z = z
  f1 = f1
  f2 = f2
  f3 = f3
  f4 = f4
  Untenanted = Untenanted
  Tickets = {a, b, c}
  Files = {f1, f2, f3, f4}
  Territory <- SameFile
  BlockedBy <- Unlinked
  Children <- Unlinked
  Base <- BaseOf
  Large = {}
  Weight <- TheWeights
  Recurring = {a, b}
  Concurrency = 2
  MaxAttempts = 2
  Results <- OkOnly
  Boards <- FreshBoard
  Statuses = {"in_progress"}
  HeldSets <- NoClaims
  MaxEvents = 0
PROPERTIES
  NeverStarved
CHECK_DEADLOCK FALSE
