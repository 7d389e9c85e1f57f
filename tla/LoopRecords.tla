---------------------------- MODULE LoopRecords ----------------------------
(***************************************************************************)
(* The durable record of one ticket loop (src/loops/loop-store.ts) and the *)
(* mutations the store offers on it.  A record is what loops.json holds    *)
(* for the loop: the status the user sees, one ledger entry per start, the *)
(* retained window of lane iterations, the loop's own state about each     *)
(* ticket, and the totals of the iterations that aged out of the window.   *)
(* Every store call is one operator from record to record; the totals the  *)
(* code keeps beside the window are recomputed, as normalizeRecord does.   *)
(*                                                                         *)
(* A definition marked "mistake" is no part of the model: it is a          *)
(* plausible error in the definition that follows it, one that some        *)
(* property must notice.                                                   *)
(***************************************************************************)
EXTENDS Naturals, Sequences, FiniteSets, SequencesExt

CONSTANTS
  Tickets,        \* ticket ids on the board
  Files,          \* file paths a territory may name
  MaxRetained     \* iterations kept before the oldest are retired

ASSUME RetentionAssumption == MaxRetained \in Nat \ {0}

LoopStatus == {"draft", "running", "paused", "blocked", "drained", "stopped", "failed"}
Outcomes   == {"running", "succeeded", "failed", "parked", "abandoned"}

Totals == [dispatched : Nat, succeeded : Nat, failed : Nat, parked : Nat,
           usd : Nat, streak : Nat]

\* seq numbers an iteration within its loop, exec the execution it ran under
\* (0: no execution was open).  An iteration has ended iff its outcome is not
\* "running": the code writes endedAt and the outcome together.
Iteration == [seq : Nat, exec : Nat, ticket : Tickets, outcome : Outcomes,
              usd : Nat]

Execution == [status : LoopStatus, open : BOOLEAN, totals : Totals]

\* known: the loop has an entry for the ticket at all.
TicketState == [known : BOOLEAN, attempts : Nat, parked : BOOLEAN,
                touched : SUBSET Files]

LoopRecord == [status : LoopStatus, executions : Seq(Execution),
               iterations : Seq(Iteration), tstate : [Tickets -> TicketState],
               retired : Totals]

EmptyTotals == [dispatched |-> 0, succeeded |-> 0, failed |-> 0, parked |-> 0,
                usd |-> 0, streak |-> 0]

UnknownTicket == [known |-> FALSE, attempts |-> 0, parked |-> FALSE, touched |-> {}]

\* LoopStore.create: always a draft.
NewRecord == [status |-> "draft", executions |-> <<>>, iterations |-> <<>>,
              tstate |-> [t \in Tickets |-> UnknownTicket],
              retired |-> EmptyTotals]

----------------------------------------------------------------------------
(* Totals *)

\* mistake: a lane that was cut off counts nowhere.
ApplyVerdictsOnly(totals, outcome, usd) ==
  CASE outcome = "succeeded" -> [totals EXCEPT !.usd = @ + usd, !.succeeded = @ + 1, !.streak = 0]
    [] outcome = "failed" -> [totals EXCEPT !.usd = @ + usd, !.failed = @ + 1, !.streak = @ + 1]
    [] outcome = "parked" -> [totals EXCEPT !.usd = @ + usd, !.parked = @ + 1]
    [] OTHER -> [totals EXCEPT !.usd = @ + usd]

\* What one settled outcome adds to an execution's own ledger.
ApplyExecutionOutcome(totals, outcome, usd) ==
  LET paid == [totals EXCEPT !.usd = @ + usd]
  IN  CASE outcome = "succeeded" ->
             [paid EXCEPT !.succeeded = @ + 1, !.streak = 0]
        [] outcome \in {"failed", "abandoned"} ->
             [paid EXCEPT !.failed = @ + 1, !.streak = @ + 1]
        [] outcome = "parked" -> [paid EXCEPT !.parked = @ + 1]
        [] OTHER -> paid

\* The totals of a window, as the code's pass over it leaves them
\* (LoopRetention checks that pass against this).  Unlike an execution's own
\* ledger, a lane that was cut off says nothing about the failure streak, and
\* a lane still in flight has no verdict.
Ended(its, outcomes) == Cardinality({i \in DOMAIN its : its[i].outcome \in outcomes})

Streak(its) ==
  Cardinality({i \in DOMAIN its :
                 /\ its[i].outcome = "failed"
                 /\ \A j \in DOMAIN its : j > i => its[j].outcome # "succeeded"})

\* The sum of the usd fields: one pair per dollar.
Spent(its) == Cardinality(UNION {{i} \X (1 .. its[i].usd) : i \in DOMAIN its})

\* mistake: the totals leave out the lanes that were cut off.
FoldVerdictsOnly(its) ==
  [dispatched |-> Len(its), succeeded |-> Ended(its, {"succeeded"}),
   failed |-> Ended(its, {"failed"}), parked |-> Ended(its, {"parked"}),
   usd |-> Spent(its), streak |-> Streak(its)]

FoldIterations(its) ==
  [dispatched |-> Len(its),
   succeeded  |-> Ended(its, {"succeeded"}),
   failed     |-> Ended(its, {"failed", "abandoned"}),
   parked     |-> Ended(its, {"parked"}),
   usd        |-> Spent(its),
   streak     |-> Streak(its)]

\* Deliberately not summing the streak: `into` keeps its own.
AddTotals(into, from) ==
  [into EXCEPT !.dispatched = @ + from.dispatched,
               !.succeeded = @ + from.succeeded,
               !.failed = @ + from.failed,
               !.parked = @ + from.parked,
               !.usd = @ + from.usd]

\* The retired streak counts only while the window has no verdict of its own.
FoldTotals(its, retired) ==
  LET window  == FoldIterations(its)
      verdict == \E i \in DOMAIN its : its[i].outcome \in {"succeeded", "failed"}
  IN  [AddTotals(window, retired) EXCEPT
         !.streak = IF verdict THEN window.streak
                    ELSE retired.streak + window.streak]

TotalsOf(r) == FoldTotals(r.iterations, r.retired)

\* mistake: the trim retires the newest iterations.
TrimNewest(r) ==
  IF Len(r.iterations) <= MaxRetained THEN r
  ELSE [r EXCEPT
          !.iterations = SubSeq(r.iterations, 1, MaxRetained),
          !.retired = AddTotals(r.retired,
                        FoldIterations(SubSeq(r.iterations, MaxRetained + 1, Len(r.iterations))))]

\* Every write ends here: iterations past the window are folded into retired.
TrimIterations(r) ==
  LET over == Len(r.iterations) - MaxRetained
  IN  IF Len(r.iterations) <= MaxRetained THEN r
      ELSE [r EXCEPT
              !.iterations = SubSeq(r.iterations, over + 1, Len(r.iterations)),
              !.retired = AddTotals(r.retired,
                                    FoldIterations(SubSeq(r.iterations, 1, over)))]

----------------------------------------------------------------------------
(* Mutations *)

\* The newest execution still open, 0 if none.
OpenExecution(es) ==
  LET open == {i \in DOMAIN es : es[i].open}
  IN  IF open = {} THEN 0 ELSE CHOOSE i \in open : \A j \in open : j <= i

\* mistake: the open execution is not closed.
SetStatusLeavesOpen(r, status) ==
  IF r.status = status THEN r ELSE TrimIterations([r EXCEPT !.status = status])

\* LoopStore.setStatus.  Leaving "running" closes the open execution.
SetStatus(r, status) ==
  LET e == OpenExecution(r.executions)
  IN  IF r.status = status THEN r
      ELSE TrimIterations(
             [r EXCEPT
                !.status = status,
                !.executions = IF r.status = "running" /\ e # 0
                               THEN [@ EXCEPT ![e].status = status,
                                              ![e].open = FALSE]
                               ELSE @])

\* LoopStore.beginExecution: a new ledger entry and status running, one write.
BeginExecution(r) ==
  TrimIterations(
    [r EXCEPT !.status = "running",
              !.executions = Append(@, [status |-> "running", open |-> TRUE,
                                        totals |-> EmptyTotals])])

\* Highest seq in the window plus one.
NextSeq(r) ==
  LET seqs == {r.iterations[i].seq : i \in DOMAIN r.iterations}
  IN  IF seqs = {} THEN 1
      ELSE 1 + (CHOOSE n \in seqs : \A m \in seqs : m <= n)

\* The execution an iteration runs under counts it twice: when it is
\* dispatched and when it settles.
CountDispatch(es, e) ==
  IF e = 0 THEN es ELSE [es EXCEPT ![e].totals.dispatched = @ + 1]
CountOutcome(es, e, outcome, usd) ==
  IF e \notin DOMAIN es THEN es
  ELSE [es EXCEPT ![e].totals = ApplyExecutionOutcome(@, outcome, usd)]

\* LoopStore.appendIteration, as a launch calls it: opened, no verdict yet.
AppendIteration(r, ticket) ==
  LET e  == OpenExecution(r.executions)
      it == [seq |-> NextSeq(r), exec |-> e, ticket |-> ticket,
             outcome |-> "running", usd |-> 0]
  IN  TrimIterations([r EXCEPT !.iterations = Append(@, it),
                               !.executions = CountDispatch(@, e)])

\* Positions of the iteration with this seq: at most one, none once retired.
IterationAt(r, seq) == {i \in DOMAIN r.iterations : r.iterations[i].seq = seq}

\* mistake: the newest iteration is settled, whichever lane returned.
SettleNewest(r, seq, outcome, usd) ==
  IF IterationAt(r, seq) = {} THEN r
  ELSE LET i  == Len(r.iterations)
           it == r.iterations[i]
       IN  TrimIterations(
             [r EXCEPT
                !.iterations[i] = [it EXCEPT !.outcome = outcome, !.usd = usd],
                !.executions = IF it.outcome = "running"
                               THEN CountOutcome(@, it.exec, outcome, usd) ELSE @])

\* LoopStore.settleIteration with an outcome.  Unknown seq: nothing happens.
SettleIteration(r, seq, outcome, usd) ==
  IF IterationAt(r, seq) = {} THEN r
  ELSE LET i  == CHOOSE p \in IterationAt(r, seq) : TRUE
           it == r.iterations[i]
       IN  TrimIterations(
             [r EXCEPT
                !.iterations[i] = [it EXCEPT !.outcome = outcome, !.usd = usd],
                !.executions = IF it.outcome = "running"
                               THEN CountOutcome(@, it.exec, outcome, usd) ELSE @])

\* LoopSupervisor.restore writes the iteration directly, past settleIteration:
\* the execution's ledger does not hear of it.
AbandonIteration(r, i) ==
  TrimIterations([r EXCEPT !.iterations[i].outcome = "abandoned"])

\* LoopStore.updateTicketState: creates the entry on first touch.
UpdateTicketState(r, ticket, state) ==
  TrimIterations([r EXCEPT !.tstate[ticket] = [state EXCEPT !.known = TRUE]])

----------------------------------------------------------------------------
(* What every mutation keeps *)

\* Iterations are numbered upwards from 1 and stay in that order.
SeqsOrdered(its) ==
  /\ \A i \in DOMAIN its : its[i].seq > 0
  /\ \A i, j \in DOMAIN its : i < j => its[i].seq < its[j].seq

\* A running loop has one open execution, its newest; any other loop has none.
OnlyNewestOpen(r) ==
  \A e \in DOMAIN r.executions :
    r.executions[e].open <=> r.status = "running" /\ e = Len(r.executions)

WellFormed(r) == r \in LoopRecord /\ SeqsOrdered(r.iterations) /\ OnlyNewestOpen(r)

\* The window is the end of one unbroken numbering, no longer than it may be,
\* and the totals of what was retired come from as many iterations.
Windowed(r) ==
  /\ Len(r.iterations) <= MaxRetained
  /\ r.iterations = <<>> => r.retired.dispatched = 0
  /\ \A i \in DOMAIN r.iterations : r.iterations[i].seq = r.retired.dispatched + i
  /\ r.retired.succeeded + r.retired.failed + r.retired.parked <= r.retired.dispatched

============================================================================
