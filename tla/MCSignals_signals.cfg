\* One dependency, two tickets; every disturbance, two at most and at most four with the
\* facts observed.  A file holds one signal, so rotations take signals that are pending, in
\* the batch, handed over or forgotten.
\* Nothing more may happen once every bound is used up.
SPECIFICATION SpecFair
CONSTANTS
  dep = dep
  tkt = tkt
  Tickets = {dep, tkt}
  Queue = {tkt}
  BlockedBy0 <- Chain
  GivenStatuses = {"open", "closed"}
  Capacity = 1
  MaxFacts = 3
  MaxEdits = 2
  MaxCrashes = 2
  MaxTorn = 1
  MaxModes = 1
  MaxFaults = 1
  MaxAges = 1
  MaxRounds = 1
  MaxDisturbances = 2
  MaxTrouble = 4
INVARIANTS
  TypeOK
  NothingSkipped
  FlagBeforeCursor
PROPERTIES
  HandedAgainOnlyByReplay
  OffersComeTrue
  RunningLoopRechecks
CHECK_DEADLOCK FALSE
