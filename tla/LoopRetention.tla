--------------------------- MODULE LoopRetention ---------------------------
(***************************************************************************)
(* The windowed history of src/loops/loop-store.ts beside the history it   *)
(* stands for.  rec is the record the store writes, trimmed to MaxRetained *)
(* iterations with the older ones folded into retired; history keeps every *)
(* iteration.  Lanes open and settle in any order, as concurrent lanes do. *)
(***************************************************************************)
EXTENDS LoopRecords

CONSTANT MaxHistory        \* iterations in all (bound)

VARIABLES rec, history

vars == <<rec, history>>

Init == rec = BeginExecution(NewRecord) /\ history = <<>>

\* A lane is launched: appendIteration.
Open(t) ==
  /\ Len(history) < MaxHistory
  /\ rec' = AppendIteration(rec, t)
  /\ history' = Append(history, [seq |-> Len(history) + 1, exec |-> 1, ticket |-> t,
                                 outcome |-> "running", usd |-> 0])

\* A lane settles: settleIteration finds its entry unless it was retired.
Settle(i, outcome, usd) ==
  /\ history[i].outcome = "running"
  /\ rec' = SettleIteration(rec, history[i].seq, outcome, usd)
  /\ history' = [history EXCEPT ![i].outcome = outcome, ![i].usd = usd]

Next ==
  \/ \E t \in Tickets : Open(t)
  \/ \E i \in DOMAIN history, outcome \in Outcomes \ {"running"}, usd \in 0 .. 1 :
       Settle(i, outcome, usd)

Spec == Init /\ [][Next]_vars

----------------------------------------------------------------------------
(* The code's pass over the window, one iteration after the other. *)

FoldIteration(totals, it) ==
  LET seen == [totals EXCEPT !.dispatched = @ + 1, !.usd = @ + it.usd]
  IN  CASE it.outcome = "succeeded" ->
             [seen EXCEPT !.succeeded = @ + 1, !.streak = 0]
        [] it.outcome = "failed" ->
             [seen EXCEPT !.failed = @ + 1, !.streak = @ + 1]
        [] it.outcome = "abandoned" -> [seen EXCEPT !.failed = @ + 1]
        [] it.outcome = "parked" -> [seen EXCEPT !.parked = @ + 1]
        [] OTHER -> seen

FoldPass(its) == FoldLeft(FoldIteration, EmptyTotals, its)

\* While the window still holds a success the streak is that of the pass over the whole history,
\* however much was trimmed: the failure ceiling counts from that success.
StreakExactSinceSuccess ==
  Ended(rec.iterations, {"succeeded"}) > 0 => TotalsOf(rec).streak = FoldPass(history).streak

============================================================================
