\* The conductor's answer arrives after the run was paused.
CONSTANTS
  a1 = a1
  q1 = q1
  d1 = d1
  Approvals <- OneApproval
  Questions <- OneQuestion
  Decisions <- OneDecision
  WhenBlocked <- DeferThenPause
  MaxIdle = 1
  MaxRuns = 2
  MaxOpening = 1
SPECIFICATION Spec
PROPERTIES
  ConductorObeysHold
