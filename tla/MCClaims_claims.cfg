\* Two lanes that read, write, relocate, refactor and run shell commands in a directory with a file:
\* three calls, one change, a clock that runs past both leases, one change of the setting.
SPECIFICATION Spec
CONSTANTS
  a = a
  b = b
  dir = dir
  file = file
  Lanes = {a, b}
  Paths = {dir, file}
  Below <- InDir
  Lease = 0
  MaxLease = 1
  StartMode = "enforce"
  Kinds = {"read", "overwrite", "relocate", "refactor", "command"}
  MaxTime = 2
  MaxCalls = 3
  MaxChanges = 1
  MaxModes = 1
INVARIANTS
  ClaimsDisjoint
  ExclusiveWithinLease
  CoveredMeansReported
PROPERTIES
  NoStaleOverwrite
  CommandsNotMixed
SYMMETRY LaneSymmetry
CHECK_DEADLOCK FALSE
