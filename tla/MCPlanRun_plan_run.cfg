\* Two runs of a plan, the first of which queues what waits for the user and the second pauses: an
\* approval, a question card, a decision, a turn that waits for its conversation, and every order of
\* turns, verdicts, answers, the user's buttons, alarms and reloads.
CONSTANTS
  a1 = a1
  q1 = q1
  d1 = d1
  Approvals <- OneApproval
  Questions <- OneQuestion
  Decisions <- OneDecision
  WhenBlocked <- DeferThenPause
  MaxIdle = 1
  MaxRuns = 2
  MaxOpening = 1
SPECIFICATION Spec
INVARIANTS
  PauseHasTurn
  NeedsUserForReason
  AnswersReachAgent
PROPERTIES
  AtWorkIsDriven
  LeftAsItWas
VIEW ButApproved
