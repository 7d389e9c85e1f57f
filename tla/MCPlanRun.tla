------------------------------ MODULE MCPlanRun ------------------------------
(* Instances of PlanRun for TLC: the first run queues what waits, the second pauses. *)
EXTENDS PlanRun

CONSTANTS a1, q1, d1

OneApproval == {a1}
OneQuestion == {q1}
OneDecision == {d1}
DeferThenPause == <<"defer", "pause">>

\* The view of plan_run.  An approval that is used changes nothing but `approved`, no other action
\* looks at it and no property of that run reads it, so states that differ in it only are alike.
ButApproved == <<run, plan, decisions, turn, open, armed, steers, notes, settled, opening, conductor>>

==============================================================================
