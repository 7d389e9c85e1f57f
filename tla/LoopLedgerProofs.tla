-------------------------- MODULE LoopLedgerProofs --------------------------
(***************************************************************************)
(* What the supervisor's record says of the lanes: the totals, the ledger  *)
(* of each execution, the attempts a ticket is charged, the ceilings and   *)
(* the retry budget, for every board, every window and every bound.        *)
(***************************************************************************)
EXTENDS LoopProofs

USE RetentionAssumption, LoopAssumption

----------------------------------------------------------------------------
(* How a step changes the record *)

Window(r) == {r.iterations[i] : i \in DOMAIN r.iterations}

\* A lane's iteration is written back, whole or not.
Returns(l, raw) == FinishLane(l, raw) \/ LaneRecordFails(l, raw) \/ CrashMidRecord(l, raw)

\* No iteration is written and no ticket is charged.
Quiet == /\ SameBooks(rec', rec)
         /\ \A t \in Tickets : rec'.tstate[t].attempts = rec.tstate[t].attempts

\* The iteration of this number gets its outcome, if the window still has it.
Settles(seq, outcome, usd) == ClosedIn(rec', rec, seq, outcome, usd)

Outcome(l, raw) == OutcomeOf(l, FromReceipt(raw))
Cost(l, raw)    == IF FromReceipt(raw).threw THEN 0 ELSE l.spent
Charge(l, raw)  == IF Outcome(l, raw) \in {"succeeded", "failed"} THEN 1 ELSE 0

LEMMA SameBooksItself ==
  ASSUME NEW q, NEW r, q.executions = r.executions, q.iterations = r.iterations,
         q.retired = r.retired, r \in LoopRecord
  PROVE  SameBooks(q, r)
<1>1. Len(r.executions) \in Nat
  BY DEF LoopRecord
<1> QED
  BY <1>1 DEF SameBooks, Accounted

LEMMA OutcomeEnds ==
  ASSUME NEW l, NEW raw
  PROVE  Outcome(l, raw) \in Outcomes \ {"running"}
  BY DEF Outcome, OutcomeOf, Outcomes

LEMMA AfterSettleLength ==
  ASSUME WellFormed(rec), Windowed(rec), NEW l \in Lane, NEW res \in LaneResult
  PROVE  Len(AfterSettle(l, res).iterations) <= MaxRetained
<1> DEFINE seq == l.seq
           o == OutcomeOf(l, res)
           c == IF res.threw THEN 0 ELSE l.spent
<1>1. seq \in Nat /\ c \in Nat /\ o \in Outcomes
  BY OutcomeOfType DEF Lane
<1>2. AfterSettle(l, res) = SettleIteration(rec, seq, o, c)
  BY DEF AfterSettle
<1> HIDE DEF seq, o, c
<1>3. ClosedIn(SettleIteration(rec, seq, o, c), rec, seq, o, c)
  BY <1>1, SettleBooks
<1> QED
  BY <1>2, <1>3 DEF Windowed, ClosedIn

\* What the ticket's state is after a lane: one attempt for a verdict.
LEMMA TicketStateBooks ==
  ASSUME Typed, Windowed(rec), NEW l \in lanes, NEW raw \in Results
  PROVE  LET q == AfterTicketState(l, FromReceipt(raw))
             p == AfterSettle(l, FromReceipt(raw))
         IN  /\ q.iterations = p.iterations /\ q.retired = p.retired
             /\ q.executions = p.executions /\ p.tstate = rec.tstate
             /\ \A t \in Tickets : q.tstate[t].attempts =
                  IF t = l.ticket THEN rec.tstate[t].attempts + Charge(l, raw)
                  ELSE rec.tstate[t].attempts
<1> DEFINE res == FromReceipt(raw)
           old == rec.tstate[l.ticket]
           new == [old EXCEPT !.touched = @ \cup res.touched,
                              !.parked = @ \/ res.parked,
                              !.attempts = IF res.parked \/ Cancelled(l, res)
                                           THEN @ ELSE @ + 1]
           p == AfterSettle(l, res)
           q == UpdateTicketState(p, l.ticket, new)
<1>1. l \in Lane /\ WellFormed(rec) /\ l.ticket \in Tickets /\ old \in TicketState
      /\ res \in LaneResult
  BY FromReceiptType DEF Typed, TypeOK, Lane, LoopRecord
<1>2. WellFormed(p) /\ p.tstate = rec.tstate
  BY <1>1, AfterSettleKeeps
<1>3. p \in LoopRecord /\ Len(p.iterations) <= MaxRetained
  BY <1>1, <1>2, AfterSettleLength DEF WellFormed
<1>4. new.attempts = old.attempts + Charge(l, raw)
  <2>1. (res.parked \/ Cancelled(l, res)) <=> OutcomeOf(l, res) \notin {"succeeded", "failed"}
    BY DEF OutcomeOf, Cancelled
  <2>2. new.attempts = IF res.parked \/ Cancelled(l, res)
                       THEN old.attempts ELSE old.attempts + 1
    <3> HIDE DEF old
    <3> QED
      BY <1>1 DEF TicketState
  <2>3. old.attempts \in Nat
    BY <1>1 DEF TicketState
  <2> HIDE DEF new, old
  <2> QED
    BY <2>1, <2>2, <2>3 DEF Charge, Outcome
<1>5. new \in TicketState
  <2> DEFINE touched  == old.touched \cup res.touched
             parked   == old.parked \/ res.parked
             attempts == IF res.parked \/ Cancelled(l, res)
                         THEN old.attempts ELSE old.attempts + 1
  <2>1. attempts \in Nat /\ touched \in SUBSET Files
    <3> HIDE DEF old
    <3> QED
      BY <1>1 DEF TicketState, LaneResult
  <2>2. parked \in BOOLEAN
    OBVIOUS
  <2>3. new = [old EXCEPT !.touched = touched, !.parked = parked, !.attempts = attempts]
    <3> HIDE DEF old
    <3> QED
      BY <1>1 DEF TicketState
  <2> HIDE DEF new, touched, parked, attempts, old
  <2> QED
    BY <1>1, <2>1, <2>2, <2>3 DEF TicketState
<1>6. AfterTicketState(l, res) = q
  BY DEF AfterTicketState
<1>7. rec.tstate \in [Tickets -> TicketState]
  BY <1>1 DEF WellFormed, LoopRecord
<1> HIDE DEF p, new, q, res
<1>8. /\ q.iterations = p.iterations /\ q.retired = p.retired /\ q.executions = p.executions
  BY <1>3, UpdateTicketStateBooks DEF q
<1>9. q.tstate = [p.tstate EXCEPT ![l.ticket] = [new EXCEPT !.known = TRUE]]
  BY <1>1, <1>2, <1>5, UpdateTicketStateKeeps DEF q
<1>10. [new EXCEPT !.known = TRUE].attempts = new.attempts
  BY <1>5 DEF TicketState
<1>11. \A t \in Tickets : q.tstate[t].attempts =
         IF t = l.ticket THEN rec.tstate[t].attempts + Charge(l, raw)
         ELSE rec.tstate[t].attempts
  BY <1>1, <1>2, <1>4, <1>7, <1>9, <1>10
<1> QED
  BY <1>2, <1>6, <1>8, <1>11 DEF p, res

\* A lane's return settles its iteration and charges its ticket; a write that
\* fails or a crash may drop either.
LEMMA ReturnBooks ==
  ASSUME Typed, Windowed(rec), NEW l \in lanes, NEW raw \in Results, Returns(l, raw)
  PROVE  /\ \/ Settles(l.seq, Outcome(l, raw), Cost(l, raw))
            \/ UNCHANGED rec /\ LaneRecordFails(l, raw)
         /\ \A t \in Tickets \ {l.ticket} : rec'.tstate[t].attempts = rec.tstate[t].attempts
         /\ \/ rec'.tstate[l.ticket].attempts = rec.tstate[l.ticket].attempts + Charge(l, raw)
            \/ /\ ~FinishLane(l, raw)
               /\ rec'.tstate[l.ticket].attempts = rec.tstate[l.ticket].attempts
<1> DEFINE o == Outcome(l, raw)
           c == Cost(l, raw)
           seq == l.seq
           p == AfterSettle(l, FromReceipt(raw))
           q == AfterTicketState(l, FromReceipt(raw))
<1>1. WellFormed(rec) /\ l \in Lane /\ seq \in Nat /\ o \in Outcomes /\ c \in Nat
  BY OutcomeEnds DEF Typed, TypeOK, Lane, Cost
<1>2. p = SettleIteration(rec, seq, o, c)
  BY DEF AfterSettle, Outcome, Cost
<1>3. /\ q.iterations = p.iterations /\ q.retired = p.retired
      /\ q.executions = p.executions /\ p.tstate = rec.tstate
      /\ \A t \in Tickets : q.tstate[t].attempts =
           IF t = l.ticket THEN rec.tstate[t].attempts + Charge(l, raw)
           ELSE rec.tstate[t].attempts
  BY TicketStateBooks
<1>4. \/ rec' \in {p, q}
      \/ UNCHANGED rec /\ LaneRecordFails(l, raw)
  BY DEF Returns, FinishLane, LaneRecordFails, CrashMidRecord
<1>5. FinishLane(l, raw) => rec' = q
  BY DEF FinishLane
<1> HIDE DEF o, c, seq, p, q
<1>6. rec' \in {p, q} => Settles(seq, o, c)
  <2>1. ClosedIn(p, rec, seq, o, c)
    BY <1>1, <1>2, SettleBooks
  <2> SUFFICES ASSUME rec' \in {p, q}
               PROVE  Settles(seq, o, c)
    OBVIOUS
  <2>2. rec'.iterations = p.iterations /\ rec'.retired = p.retired /\ rec'.executions = p.executions
    BY <1>3
  <2> QED
    BY <2>1, <2>2 DEF Settles, ClosedIn
<1>7. \A t \in Tickets \ {l.ticket} : rec'.tstate[t].attempts = rec.tstate[t].attempts
  BY <1>3, <1>4
<1>8. l.ticket \in Tickets
  BY <1>1 DEF Lane
<1>9. \/ rec'.tstate[l.ticket].attempts = rec.tstate[l.ticket].attempts + Charge(l, raw)
      \/ /\ ~FinishLane(l, raw)
         /\ rec'.tstate[l.ticket].attempts = rec.tstate[l.ticket].attempts
  BY <1>3, <1>4, <1>5, <1>8
<1> QED
  BY <1>4, <1>6, <1>7, <1>9 DEF o, c, seq

\* Every step but a launch, a lane's return and the repair after a crash leaves
\* the accounts alone.
LEMMA SettledQuiet ==
  ASSUME Typed, Windowed(rec), NEW s \in {"paused", "stopped", "drained", "blocked", "failed"},
         rec' = SetStatus(rec, s)
  PROVE  Quiet
<1>1. SetStatus(rec, s).tstate = rec.tstate
  BY SettledTyped
<1>2. SameBooks(SetStatus(rec, s), rec)
  BY StatusesType, SetStatusBooks DEF Typed
<1> QED
  BY <1>1, <1>2 DEF Quiet

LEMMA UntouchedQuiet ==
  ASSUME Typed, UNCHANGED rec
  PROVE  Quiet
<1>1. rec \in LoopRecord
  BY DEF Typed, TypeOK
<1> QED
  BY <1>1, SameBooksItself DEF Quiet

LEMMA CycleQuiet ==
  ASSUME Typed, Windowed(rec), Cycle, \A t \in Tickets : ~Launch(t)
  PROVE  Quiet
<1>1. CASE CycleBreaks \/ CycleHitsCeiling \/ CycleWaits \/ CycleResumes \/ CycleDispatches
  BY <1>1, UntouchedQuiet
     DEF CycleBreaks, CycleHitsCeiling, CycleWaits, CycleResumes, CycleDispatches
<1>2. CASE CycleDrained \/ CycleBlocked \/ CycleFails \/ CeilingSettles \/ LaunchFails
  BY <1>2, SettledQuiet
     DEF CycleDrained, CycleBlocked, CycleFails, CeilingSettles, LaunchFails, EndCycle
<1>3. CASE DrainEnds
  BY <1>3, UntouchedQuiet DEF DrainEnds, EndCycle
<1> QED
  BY <1>1, <1>2, <1>3 DEF Cycle

LEMMA UserQuiet ==
  ASSUME Typed, Windowed(rec), StatusFollows, UserStep
  PROVE  Quiet
<1>1. CASE Start
  <2>1. SameBooks(rec', rec)
    BY <1>1, BeginExecutionBooks DEF Start, Typed
  <2>2. rec'.tstate = rec.tstate
    BY <1>1, BeginExecutionKeeps DEF Start, StatusFollows, Typed
  <2> QED
    BY <2>1, <2>2 DEF Quiet
<1>2. CASE Pause \/ Stop
  BY <1>2, SettledQuiet DEF Pause, Stop
<1>3. CASE ClockRunsOut
  BY <1>3, UntouchedQuiet DEF ClockRunsOut
<1>4. ASSUME NEW t \in Tickets, ReleasePark(t)
      PROVE  Quiet
  <2> DEFINE old == rec.tstate[t]
             s   == [old EXCEPT !.parked = FALSE]
  <2>1. old \in TicketState /\ rec.tstate \in [Tickets -> TicketState] /\ rec \in LoopRecord
    BY DEF Typed, TypeOK, LoopRecord
  <2>2. s \in TicketState /\ s.attempts = old.attempts
    <3> HIDE DEF old
    <3> QED
      BY <2>1 DEF TicketState
  <2>3. rec' = UpdateTicketState(rec, t, s)
    BY <1>4 DEF ReleasePark
  <2> HIDE DEF s
  <2>4. rec'.tstate = [rec.tstate EXCEPT ![t] = [s EXCEPT !.known = TRUE]]
    BY <2>2, <2>3, UpdateTicketStateKeeps DEF Typed
  <2>5. [s EXCEPT !.known = TRUE].attempts = s.attempts
    BY <2>2 DEF TicketState
  <2>6. /\ rec'.iterations = rec.iterations /\ rec'.retired = rec.retired
        /\ rec'.executions = rec.executions
    BY <2>1, <2>3, UpdateTicketStateBooks DEF Windowed
  <2>7. SameBooks(rec', rec)
    BY <2>1, <2>6, SameBooksItself
  <2>8. \A u \in Tickets : rec'.tstate[u].attempts = rec.tstate[u].attempts
    BY <2>1, <2>2, <2>4, <2>5
  <2> QED
    BY <2>7, <2>8 DEF Quiet
<1>5. ASSUME NEW t \in Tickets, UserSetsStatus(t) \/ Resize(t)
      PROVE  Quiet
  BY <1>5, UntouchedQuiet DEF UserSetsStatus, Resize
<1> QED
  BY <1>1, <1>2, <1>3, <1>4, <1>5 DEF UserStep

LEMMA StepShape ==
  ASSUME Typed, Windowed(rec), StatusFollows, [Next]_vars
  PROVE  \/ Quiet
         \/ \E t \in Tickets : Launch(t)
         \/ \E l \in lanes : \E raw \in Results : Returns(l, raw)
         \/ RestoreIteration
<1>1. CASE Cycle
  BY <1>1, CycleQuiet
<1>2. CASE UserStep
  BY <1>2, UserQuiet
<1>3. CASE Wake \/ UNCHANGED vars
  BY <1>3, UntouchedQuiet DEF Wake, vars
<1>4. ASSUME NEW l \in lanes, LaneStep(l)
      PROVE  Quiet \/ \E raw \in Results : Returns(l, raw)
  BY <1>4, UntouchedQuiet DEF LaneStep, Spend, LaneMovesTicket, Returns
<1>5. CASE HostStep
  <2>1. CASE Crash \/ Restart
    BY <2>1, UntouchedQuiet DEF Crash, Restart
  <2>2. CASE RestoreStatus
    BY <2>2, UntouchedQuiet, SettledQuiet DEF RestoreStatus
  <2> QED
    BY <1>5, <2>1, <2>2 DEF HostStep, Returns
<1> QED
  BY <1>1, <1>2, <1>3, <1>4, <1>5 DEF Next

----------------------------------------------------------------------------
(* The window *)

\* What a step may do to the iterations of the window.
LEMMA SettleWindow ==
  ASSUME Typed, Windowed(rec), NEW seq \in Nat, NEW outcome \in Outcomes, NEW usd \in Nat,
         Settles(seq, outcome, usd)
  PROVE  /\ rec'.retired = rec.retired /\ Windowed(rec')
         /\ \A x \in Window(rec)' :
              \/ x \in Window(rec) /\ x.seq # seq
              \/ \E y \in Window(rec) : /\ y \in Iteration /\ y.seq = seq
                                        /\ x = Closed(y, outcome, usd)
         /\ Len(rec'.executions) = Len(rec.executions)
<1> DEFINE d == rec.retired.dispatched
           p == seq - d
           its == rec.iterations
           new == rec'.iterations
<1>1. /\ its \in Seq(Iteration) /\ d \in Nat /\ DOMAIN its = 1 .. Len(its) /\ Len(its) \in Nat
      /\ rec.executions \in Seq(Execution)
  BY WindowNext DEF Typed
<1>2. \A i \in DOMAIN its : its[i].seq = d + i
  BY DEF Windowed
<1>3. /\ rec'.retired = rec.retired /\ Len(new) = Len(its)
      /\ p \notin DOMAIN its => new = its /\ rec'.executions = rec.executions
      /\ p \in DOMAIN its =>
           /\ its[p] \in Iteration /\ new = [its EXCEPT ![p] = Closed(its[p], outcome, usd)]
           /\ \/ rec'.executions = rec.executions
              \/ rec'.executions = CountOutcome(rec.executions, its[p].exec, outcome, usd)
  BY DEF Settles, ClosedIn
<1>4. DOMAIN new = DOMAIN its
  BY <1>3
<1> HIDE DEF its, d, new
<1>5. \A i \in DOMAIN its : its[i].seq = seq <=> i = p
  BY <1>1, <1>2
<1>6. p \in DOMAIN its => /\ its[p].seq = seq /\ its[p] \in Iteration /\ its[p].exec \in Nat
                          /\ Closed(its[p], outcome, usd).seq = seq
  BY <1>3, <1>5, ClosedType DEF Iteration
<1>7. \A i \in DOMAIN its : new[i].seq = its[i].seq
  <2> HIDE DEF p
  <2>1. CASE p \in DOMAIN its
    BY <1>3, <1>6, <2>1
  <2>2. CASE p \notin DOMAIN its
    BY <1>3, <2>2
  <2> QED
    BY <2>1, <2>2
<1>8. Windowed(rec')
  <2>1. new = <<>> => its = <<>>
    BY <1>1, <1>3, EmptySeq
  <2> DEFINE sums(x) == x.succeeded + x.failed + x.parked <= x.dispatched
  <2>2. Len(its) <= MaxRetained /\ (its = <<>> => d = 0) /\ sums(rec.retired)
    BY DEF Windowed, its, d
  <2> HIDE DEF sums
  <2>6. sums(rec'.retired)
    BY <1>3, <2>2
  <2>3. rec'.retired.dispatched = d
    BY <1>3 DEF d
  <2>4. \A i \in DOMAIN new : new[i].seq = rec'.retired.dispatched + i
    BY <1>2, <1>4, <1>7, <2>3
  <2>5. Len(new) <= MaxRetained /\ (new = <<>> => rec'.retired.dispatched = 0)
    BY <1>3, <2>1, <2>2, <2>3
  <2> QED
    BY <2>4, <2>5, <2>6 DEF Windowed, new, sums
<1>9. ASSUME NEW i \in DOMAIN new
      PROVE  \/ new[i] \in Window(rec) /\ new[i].seq # seq
             \/ \E y \in Window(rec) : /\ y \in Iteration /\ y.seq = seq
                                       /\ new[i] = Closed(y, outcome, usd)
  <2>1. its[i] \in Window(rec) /\ i \in DOMAIN its
    BY <1>4 DEF Window, its
  <2>2. CASE i = p
    <3>1. new[i] = Closed(its[i], outcome, usd) /\ its[i].seq = seq /\ its[i] \in Iteration
      BY <1>3, <1>6, <2>1, <2>2
    <3> QED
      BY <2>1, <3>1
  <2>3. CASE i # p
    <3>1. new[i] = its[i]
      <4> HIDE DEF p
      <4> QED
        BY <1>3, <2>1, <2>3
    <3> QED
      BY <1>5, <2>1, <2>3, <3>1
  <2> QED
    BY <2>2, <2>3
<1>10. Len(rec'.executions) = Len(rec.executions)
  <2> HIDE DEF p
  <2>1. CASE rec'.executions = rec.executions
    BY <2>1
  <2>2. CASE p \in DOMAIN its /\ rec'.executions = CountOutcome(rec.executions, its[p].exec, outcome, usd)
    <3>1. its[p].exec \in Nat
      BY <1>6, <2>2
    <3> QED
      BY <1>1, <2>2, <3>1, CountOutcomeKeeps
  <2> QED
    BY <1>3, <2>1, <2>2
<1> QED
  BY <1>3, <1>8, <1>9, <1>10 DEF Window, new

LEMMA LaunchWindow ==
  ASSUME Typed, Windowed(rec), NEW t \in Tickets, Launch(t)
  PROVE  /\ Windowed(rec')
         /\ \A x \in Window(rec)' : x \in Window(rec) \/ x = Opened(rec, t)
         /\ Len(rec'.executions) = Len(rec.executions)
         /\ rec'.retired.dispatched \in Nat
         /\ rec'.retired.dispatched >= rec.retired.dispatched
         /\ \A u \in Tickets : rec'.tstate[u].attempts = rec.tstate[u].attempts
<1> DEFINE its == rec.iterations
           new == rec'.iterations
           longer == Append(its, Opened(rec, t))
           e == OpenExecution(rec.executions)
<1>1. WellFormed(rec) /\ rec \in LoopRecord /\ rec' = AppendIteration(rec, t)
  BY DEF Typed, WellFormed, Launch
<1>2. rec'.tstate = rec.tstate
  BY <1>1, AppendIterationKeeps
<1>3. /\ its \in Seq(Iteration) /\ DOMAIN its = 1 .. Len(its) /\ Len(its) \in Nat
      /\ rec.executions \in Seq(Execution) /\ rec.retired \in Totals
  BY <1>1, WindowNext DEF LoopRecord
<1>4. /\ longer \in Seq(Iteration)
      /\ Len(longer) = Len(its) + 1 /\ longer[Len(longer)] = Opened(rec, t)
      /\ \A i \in DOMAIN its : longer[i] = its[i]
      /\ rec'.executions = CountDispatch(rec.executions, e)
      /\ \/ new = longer /\ rec'.retired = rec.retired
         \/ /\ new \in Seq(Iteration)
            /\ Len(new) + 1 = Len(longer) /\ Len(its) > 0
            /\ \A i \in 1 .. Len(new) : new[i] = longer[i + 1]
            /\ rec'.retired = AddTotals(rec.retired, FoldIterations(SubSeq(longer, 1, 1)))
      /\ Windowed(rec')
  BY <1>1, AppendBooks
<1>5. Len(rec'.executions) = Len(rec.executions)
  <2>1. rec'.executions = rec.executions
          \/ \E x : rec'.executions = [rec.executions EXCEPT ![e] = x]
    BY <1>4 DEF CountDispatch
  <2>2. DOMAIN rec'.executions = DOMAIN rec.executions
    BY <2>1
  <2>3. rec'.executions \in Seq(Execution)
    <3>1. WellFormed(rec')
      BY <1>1, AppendIterationKeeps
    <3> QED
      BY <3>1 DEF WellFormed, LoopRecord
  <2> QED
    BY <1>3, <2>2, <2>3
<1>6. /\ rec'.retired.dispatched \in Nat
      /\ rec'.retired.dispatched >= rec.retired.dispatched
  <2>1. rec.retired.dispatched \in Nat
    BY <1>3 DEF Totals
  <2>2. CASE rec'.retired = rec.retired
    BY <2>1, <2>2
  <2>3. CASE rec'.retired = AddTotals(rec.retired, FoldIterations(SubSeq(longer, 1, 1)))
    <3>1. longer # <<>>
      BY <1>3, <1>4
    <3> HIDE DEF longer
    <3>2. rec'.retired.dispatched = rec.retired.dispatched + 1
      BY <1>3, <1>4, <2>3, <3>1, RetireOne
    <3> QED
      BY <2>1, <3>2
  <2> QED
    BY <1>4, <2>2, <2>3
<1>7. ASSUME NEW x \in Window(rec)'
      PROVE  x \in Window(rec) \/ x = Opened(rec, t)
  <2>1. PICK i \in DOMAIN new : x = new[i]
    BY <1>7 DEF Window
  <2>2. \E j \in DOMAIN longer : x = longer[j]
    <3> HIDE DEF longer, new
    <3>1. CASE new = longer
      BY <2>1, <3>1
    <3>2. CASE new \in Seq(Iteration) /\ Len(new) + 1 = Len(longer)
               /\ \A j \in 1 .. Len(new) : new[j] = longer[j + 1]
      BY <1>4, <2>1, <3>2
    <3> QED
      BY <1>4, <3>1, <3>2 DEF new
  <2>3. PICK j \in DOMAIN longer : x = longer[j]
    BY <2>2
  <2> HIDE DEF longer, its
  <2>4. j \in DOMAIN its \/ j = Len(longer)
    BY <1>3, <1>4, <2>3
  <2> QED
    BY <1>4, <2>3, <2>4 DEF Window, its
<1> QED
  BY <1>2, <1>4, <1>5, <1>6, <1>7

LEMMA RestoreWindow ==
  ASSUME Typed, Windowed(rec), RestoreIteration
  PROVE  /\ Windowed(rec') /\ rec'.retired = rec.retired /\ rec'.executions = rec.executions
         /\ rec'.tstate = rec.tstate
         /\ \E i \in OpenIterations : \E x \in Iteration :
              /\ rec.iterations[i] \in Iteration /\ i \in DOMAIN rec.iterations
              /\ x.outcome = "abandoned" /\ x.exec = rec.iterations[i].exec
              /\ x.usd = rec.iterations[i].usd /\ x.ticket = rec.iterations[i].ticket
              /\ rec'.iterations = [rec.iterations EXCEPT ![i] = x]
<1>1. PICK i \in OpenIterations : rec' = AbandonIteration(rec, i)
  BY DEF RestoreIteration
<1> DEFINE old == rec.iterations[i]
           x   == [old EXCEPT !.outcome = "abandoned"]
           its == rec.iterations
           new == rec'.iterations
<1>2. /\ i \in DOMAIN its /\ WellFormed(rec) /\ its \in Seq(Iteration)
      /\ DOMAIN its = 1 .. Len(its) /\ Len(its) \in Nat
  BY WindowNext DEF OpenIterations, Typed
<1>3. rec'.retired = rec.retired /\ rec'.executions = rec.executions
      /\ new = [its EXCEPT ![i] = x] /\ rec'.tstate = rec.tstate
  BY <1>1, <1>2, AbandonBooks, AbandonIterationKeeps
<1>4. old \in Iteration
  BY <1>2, ElementOfSeq
<1>5. /\ x \in Iteration /\ x.outcome = "abandoned" /\ x.exec = old.exec
      /\ x.usd = old.usd /\ x.ticket = old.ticket /\ x.seq = old.seq
  <2> HIDE DEF old
  <2> QED
    BY <1>4 DEF Iteration, Outcomes
<1> HIDE DEF x
<1>6. new \in Seq(Iteration) /\ Len(new) = Len(its) /\ DOMAIN new = DOMAIN its
      /\ \A j \in DOMAIN its : new[j].seq = its[j].seq
  <2>1. new \in Seq(Iteration) /\ DOMAIN new = DOMAIN its
    BY <1>2, <1>3, <1>5, ExceptSeq
  <2> QED
    BY <1>2, <1>3, <1>5, <2>1
<1>7. Windowed(rec')
  <2>1. new = <<>> => its = <<>>
    BY <1>2, <1>6
  <2> QED
    BY <1>3, <1>6, <2>1 DEF Windowed
<1> QED
  BY <1>2, <1>3, <1>4, <1>5, <1>7

----------------------------------------------------------------------------
(* The window and the lanes *)

\* No two lanes have the same number.
DistinctLanes == \A l, m \in lanes : l.seq = m.seq => l = m

\* The iteration of a lane that runs is open, as long as the window holds it.
LanesOpen ==
  \A l \in LiveLanes, x \in Window(rec) :
    x.seq = l.seq => x.outcome = "running" /\ x.ticket = l.ticket

\* A host that is down has died, and its lanes with it.
HostDown == pc \in {"down", "restoring"} => lanes = {} /\ used.crashes > 0

\* What is open has cost the record nothing yet.
OpenUnpaid == \A x \in Window(rec) : x.outcome = "running" => x.usd = 0

\* An iteration ran under an execution that was begun before it.
RanBefore == \A x \in Window(rec) : x.exec <= Len(rec.executions)

LedgerInv ==
  /\ KnownUntilTrouble /\ Windowed(rec)
  /\ DistinctLanes /\ LanesOpen /\ HostDown /\ OpenUnpaid /\ RanBefore

\* The live lanes after a step other than a launch are live lanes of before.
LEMMA OthersCarry ==
  ASSUME Typed, StatusFollows, [Next]_vars, \A t \in Tickets : ~Launch(t)
  PROVE  LanesCarry
<1>1. CASE Wake \/ UNCHANGED vars
  BY <1>1, SameLanesCarry DEF Wake, vars
<1> QED
  BY <1>1, CycleCarries, UserCarries, HostCarries, LaneCarries DEF Next

\* A lane that returns is gone or rejected, the others are as they were.
LEMMA ReturnLeaves ==
  ASSUME Typed, NEW l \in lanes, NEW raw \in Results, Returns(l, raw)
  PROVE  /\ l \in Lane /\ l.live /\ pc \in Await
         /\ \A m \in LiveLanes' : m \in LiveLanes \ {l}
         /\ UNCHANGED territory
<1>1. l \in Lane
  BY DEF Typed, TypeOK
<1>2. [l EXCEPT !.live = FALSE].live = FALSE
  BY <1>1 DEF Lane
<1>3. lanes' \subseteq (lanes \ {l}) \cup {[l EXCEPT !.live = FALSE]}
  BY DEF Returns, FinishLane, LaneRecordFails, CrashMidRecord, Dies
<1>4. l.live /\ pc \in Await /\ UNCHANGED territory
  BY DEF Returns, FinishLane, LaneRecordFails, CrashMidRecord, Dies, LaneReturns, board
<1> QED
  BY <1>1, <1>2, <1>3, <1>4 DEF LiveLanes

LEMMA StepDistinct ==
  ASSUME LocksInv, DistinctLanes, [Next]_vars
  PROVE  DistinctLanes'
<1>1. Typed /\ StatusFollows /\ SeqsBehind
  BY DEF LocksInv, Typed
<1>2. ASSUME NEW t \in Tickets, Launch(t)
      PROVE  DistinctLanes'
  <2> DEFINE new == [seq |-> NextSeq(rec), ticket |-> t, terr |-> TerritoryOf(t),
                     cycle |-> used.starts, aborted |-> FALSE, spent |-> 0, live |-> TRUE]
  <2>1. lanes' = lanes \cup {new} /\ new.seq = NextSeq(rec)
    BY <1>2 DEF Launch
  <2>2. \A l \in lanes : l.seq # NextSeq(rec)
    <3>1. NextSeq(rec) \in Nat /\ \A l \in lanes : l.seq \in Nat
      BY <1>1, NextSeqIsLast DEF Typed, WellFormed, TypeOK, Lane
    <3> QED
      BY <1>1, <3>1 DEF SeqsBehind
  <2> HIDE DEF new
  <2> QED
    BY <2>1, <2>2 DEF DistinctLanes
<1>3. CASE \A t \in Tickets : ~Launch(t)
  BY <1>1, <1>3, OthersCarry DEF LanesCarry, SameLane, DistinctLanes
<1> QED
  BY <1>2, <1>3

LEMMA StepHostDown ==
  ASSUME Typed, HostDown, [Next]_vars
  PROVE  HostDown'
<1>1. CASE Cycle
  BY <1>1 DEF Cycle, CycleBreaks, CycleHitsCeiling, CycleDrained, CycleBlocked,
              CycleDispatches, CycleWaits, CycleResumes, CycleFails, CeilingSettles,
              DrainEnds, LaunchFails, Launch, EndCycle, AwaitLanes, Passing, Unaborted,
              HostDown
<1>2. CASE Wake
  BY <1>2 DEF Wake, Running, HostDown
<1>3. CASE UserStep
  BY <1>3 DEF UserStep, Start, Pause, Stop, ClockRunsOut, ReleasePark, UserSetsStatus,
              Resize, memory, Await, HostDown
<1>4. ASSUME Dies
      PROVE  HostDown'
  <2>1. used.crashes \in Nat /\ used'.crashes = used.crashes + 1
    BY <1>4 DEF Typed, TypeOK, Counters, Dies, Count
  <2> QED
    BY <1>4, <2>1 DEF Dies, HostDown
<1>5. CASE HostStep
  BY <1>4, <1>5 DEF HostStep, Crash, CrashMidRecord, Restart, RestoreIteration,
                    RestoreStatus, memory, HostDown
<1>6. ASSUME NEW l \in lanes, LaneStep(l)
      PROVE  HostDown'
  BY <1>6 DEF LaneStep, Spend, LaneMovesTicket, FinishLane, LaneRecordFails, LaneReturns,
              memory, Await, HostDown
<1>7. CASE UNCHANGED vars
  BY <1>7 DEF vars, HostDown
<1> QED
  BY <1>1, <1>2, <1>3, <1>5, <1>6, <1>7 DEF Next

\* What every step does to the window keeps it whole and in step with the lanes.
LEMMA StepWindow ==
  ASSUME LedgerInv, [Next]_vars
  PROVE  /\ Windowed(rec') /\ LanesOpen' /\ OpenUnpaid' /\ RanBefore'
         /\ Len(rec'.executions) >= Len(rec.executions)
<1> USE DEF LedgerInv
<1>1. /\ LocksInv /\ Typed /\ StatusFollows /\ SeqsBehind /\ WellFormed(rec)
      /\ Len(rec.executions) \in Nat
      /\ \A i \in DOMAIN rec.iterations : rec.iterations[i] \in Iteration
  <2>1. LocksInv /\ Typed /\ StatusFollows /\ SeqsBehind /\ WellFormed(rec)
    BY DEF KnownUntilTrouble, LocksInv, Typed
  <2>2. rec.executions \in Seq(Execution) /\ rec.iterations \in Seq(Iteration)
    BY <2>1, WindowNext
  <2> QED
    BY <2>1, <2>2, ElementOfSeq
<1>2. Window(rec) \subseteq Iteration
  BY <1>1 DEF Window
<1>3. CASE Quiet
  <2>1. /\ rec'.iterations = rec.iterations /\ rec'.retired = rec.retired
        /\ Len(rec'.executions) >= Len(rec.executions) /\ Windowed(rec')
    BY <1>3, SameBooksWindowed DEF Quiet, SameBooks, Accounted
  <2>2. Window(rec)' = Window(rec)
    BY <2>1 DEF Window
  <2>3. \A t \in Tickets : ~Launch(t)
    <3> SUFFICES ASSUME NEW t \in Tickets, Launch(t)
                 PROVE  FALSE
      OBVIOUS
    <3>1. NextSeq(rec') = NextSeq(rec) + 1 /\ NextSeq(rec) \in Nat
      BY <1>1, AppendIterationKeeps, NextSeqIsLast DEF Launch, WellFormed
    <3>2. NextSeq(rec') = NextSeq(rec)
      BY <2>1 DEF NextSeq
    <3> QED
      BY <3>1, <3>2
  <2>4. LanesOpen'
    <3>1. LanesCarry
      BY <1>1, <2>3, OthersCarry
    <3> QED
      BY <2>2, <3>1 DEF LanesOpen, LiveLanes, LanesCarry, SameLane
  <2>5. Len(rec'.executions) \in Nat
    <3>1. WellFormed(rec')
      BY <1>1, StepTyped DEF Typed
    <3> QED
      BY <3>1 DEF WellFormed, LoopRecord
  <2>6. RanBefore'
    <3>1. \A x \in Window(rec) : x.exec \in Nat
      BY <1>2 DEF Iteration
    <3> QED
      BY <1>1, <2>1, <2>2, <2>5, <3>1 DEF RanBefore
  <2> QED
    BY <2>1, <2>2, <2>4, <2>6 DEF OpenUnpaid
<1>4. ASSUME NEW t \in Tickets, Launch(t)
      PROVE  /\ Windowed(rec') /\ LanesOpen' /\ OpenUnpaid' /\ RanBefore'
             /\ Len(rec'.executions) >= Len(rec.executions)
  <2> DEFINE x == Opened(rec, t)
             new == [seq |-> NextSeq(rec), ticket |-> t, terr |-> TerritoryOf(t),
                     cycle |-> used.starts, aborted |-> FALSE, spent |-> 0, live |-> TRUE]
  <2>1. /\ Windowed(rec') /\ Len(rec'.executions) = Len(rec.executions)
        /\ \A y \in Window(rec)' : y \in Window(rec) \/ y = x
    BY <1>1, <1>4, LaunchWindow
  <2>2. /\ x.seq = NextSeq(rec) /\ x.ticket = t /\ x.outcome = "running" /\ x.usd = 0
        /\ x.exec = OpenExecution(rec.executions)
    BY DEF Opened
  <2>3. lanes' = lanes \cup {new}
    BY <1>4 DEF Launch
  <2>4. new.seq = NextSeq(rec) /\ new.ticket = t /\ new.live
    OBVIOUS
  <2>5. /\ NextSeq(rec) \in Nat
        /\ \A y \in Window(rec) : y.seq \in Nat /\ y.seq < NextSeq(rec)
    BY <1>1, NextSeqIsLast DEF WellFormed, Window, Iteration
  <2>6. \A l \in lanes : l.seq \in Nat /\ l.seq < NextSeq(rec)
    BY <1>1 DEF SeqsBehind, Typed, TypeOK, Lane
  <2>7. x.exec <= Len(rec.executions)
    <3>1. OpenExecution(rec.executions) = 0
            \/ OpenExecution(rec.executions) = Len(rec.executions)
      BY <1>1, OpenExecutionType DEF WellFormed
    <3> QED
      BY <1>1, <2>2, <3>1
  <2> HIDE DEF x, new
  <2>8. LanesOpen'
    <3> SUFFICES ASSUME NEW l \in lanes', l.live, NEW y \in Window(rec)', y.seq = l.seq
                 PROVE  y.outcome = "running" /\ y.ticket = l.ticket
      BY DEF LanesOpen, LiveLanes
    <3>1. CASE l = new
      <4>1. y = x
        BY <2>1, <2>4, <2>5, <3>1
      <4> QED
        BY <2>2, <2>4, <3>1, <4>1
    <3>2. CASE l \in lanes
      <4>1. y # x
        BY <2>2, <2>6, <3>2
      <4>2. y \in Window(rec)
        BY <2>1, <4>1
      <4> QED
        BY <3>2, <4>2 DEF LanesOpen, LiveLanes
    <3> QED
      BY <2>3, <3>1, <3>2
  <2> QED
    BY <1>1, <2>1, <2>2, <2>7, <2>8 DEF OpenUnpaid, RanBefore
<1>5. ASSUME NEW l \in lanes, NEW raw \in Results, Returns(l, raw)
      PROVE  /\ Windowed(rec') /\ LanesOpen' /\ OpenUnpaid' /\ RanBefore'
             /\ Len(rec'.executions) >= Len(rec.executions)
  <2> DEFINE o == Outcome(l, raw)
             c == Cost(l, raw)
             n == l.seq
  <2>1. n \in Nat /\ o \in Outcomes \ {"running"} /\ c \in Nat /\ l.live
    BY <1>1, <1>5, ReturnLeaves, OutcomeEnds DEF Lane, Cost
  <2>2. \A m \in LiveLanes' : m \in LiveLanes /\ m # l
    BY <1>1, <1>5, ReturnLeaves
  <2>3. \A m \in LiveLanes' : m.seq # n
    BY <2>2 DEF DistinctLanes, LiveLanes
  <2>4. UNCHANGED rec \/ Settles(n, o, c)
    BY <1>1, <1>5, ReturnBooks
  <2> HIDE DEF o, c, n
  <2>5. CASE UNCHANGED rec
    BY <1>1, <2>2, <2>5 DEF LanesOpen, OpenUnpaid, RanBefore, Window
  <2>6. CASE Settles(n, o, c)
    <3>1. /\ Windowed(rec') /\ Len(rec'.executions) = Len(rec.executions)
          /\ \A x \in Window(rec)' :
               \/ x \in Window(rec) /\ x.seq # n
               \/ \E y \in Window(rec) : /\ y \in Iteration /\ y.seq = n
                                         /\ x = Closed(y, o, c)
      BY <1>1, <2>1, <2>6, SettleWindow
    <3>2. \A x \in Window(rec)' :
            \/ x \in Window(rec)
            \/ /\ x.seq = n /\ x.outcome # "running"
               /\ \E y \in Window(rec) : x.exec = y.exec
      <4> SUFFICES ASSUME NEW x \in Window(rec)', NEW y \in Window(rec), y \in Iteration,
                          y.seq = n, x = Closed(y, o, c)
                   PROVE  x.seq = n /\ x.outcome # "running" /\ x.exec = y.exec
        BY <3>1
      <4> QED
        BY <2>1, ClosedType
    <3>3. LanesOpen'
      BY <2>2, <2>3, <3>2 DEF LanesOpen
    <3> QED
      BY <1>1, <3>1, <3>2, <3>3 DEF OpenUnpaid, RanBefore
  <2> QED
    BY <2>4, <2>5, <2>6
<1>6. CASE RestoreIteration
  <2>1. /\ Windowed(rec') /\ rec'.executions = rec.executions
        /\ \E i \in OpenIterations : \E x \in Iteration :
             /\ i \in DOMAIN rec.iterations /\ x.outcome = "abandoned"
             /\ x.exec = rec.iterations[i].exec
             /\ rec'.iterations = [rec.iterations EXCEPT ![i] = x]
    BY <1>1, <1>6, RestoreWindow
  <2>2. PICK i \in DOMAIN rec.iterations, x \in Iteration :
             /\ x.outcome = "abandoned" /\ x.exec = rec.iterations[i].exec
             /\ rec'.iterations = [rec.iterations EXCEPT ![i] = x]
    BY <2>1
  <2>3. \A y \in Window(rec)' : \/ y \in Window(rec)
                               \/ /\ y.outcome = "abandoned"
                                  /\ \E z \in Window(rec) : y.exec = z.exec
    BY <2>2 DEF Window
  <2>4. lanes' = {}
    BY <1>6 DEF RestoreIteration, HostDown
  <2>5. LanesOpen'
    BY <2>4 DEF LanesOpen, LiveLanes
  <2> QED
    BY <1>1, <2>1, <2>3, <2>5 DEF OpenUnpaid, RanBefore
<1> QED
  BY <1>1, <1>3, <1>4, <1>5, <1>6, StepShape

\* The window holds the newest iterations, in step with the lanes, in every
\* reachable state.
THEOREM LedgerInvariant == Spec => []LedgerInv
<1>1. Init => LedgerInv
  <2> SUFFICES ASSUME Init
               PROVE  LedgerInv
    OBVIOUS
  <2>1. rec = NewRecord /\ lanes = {} /\ pc = "idle"
    BY DEF Init
  <2>2. /\ rec.iterations = <<>> /\ rec.retired = EmptyTotals
    BY <2>1 DEF NewRecord
  <2>3. Windowed(rec)
    BY <2>2 DEF Windowed, EmptyTotals
  <2>4. Window(rec) = {}
    BY <2>2 DEF Window
  <2>5. KnownUntilTrouble
    BY <2>1, InitLocks DEF KnownUntilTrouble, LanesKnown, Running
  <2> QED
    BY <2>1, <2>3, <2>4, <2>5
       DEF LedgerInv, DistinctLanes, LanesOpen, HostDown, OpenUnpaid, RanBefore, LiveLanes
<1>2. LedgerInv /\ [Next]_vars => LedgerInv'
  <2> SUFFICES ASSUME LedgerInv, [Next]_vars
               PROVE  LedgerInv'
    OBVIOUS
  <2>1. KnownUntilTrouble /\ LocksInv /\ Typed /\ DistinctLanes /\ HostDown
    BY DEF LedgerInv, KnownUntilTrouble, LocksInv, Typed
  <2> QED
    BY <2>1, StepKnown, StepDistinct, StepHostDown, StepWindow DEF LedgerInv
<1> QED
  BY <1>1, <1>2, PTL DEF Spec

----------------------------------------------------------------------------
(* The totals *)

\* The totals of a loop, heading by heading.
LEMMA TotalsAre ==
  ASSUME NEW r, WellFormed(r)
  PROVE  LET its == r.iterations
             all == TotalsOf(r)
         IN  /\ all.dispatched = Len(its) + r.retired.dispatched
             /\ all.succeeded = Ended(its, {"succeeded"}) + r.retired.succeeded
             /\ all.failed = Ended(its, {"failed", "abandoned"}) + r.retired.failed
             /\ all.parked = Ended(its, {"parked"}) + r.retired.parked
             /\ all.usd = Spent(its) + r.retired.usd
<1> DEFINE window == FoldIterations(r.iterations)
           sum    == AddTotals(window, r.retired)
<1>1. window \in Totals /\ r.retired \in Totals /\ r.iterations \in Seq(Iteration)
  BY FoldIterationsType DEF WellFormed, LoopRecord
<1>2. sum \in Totals
  BY <1>1, AddTotalsType
<1>3. \E s : TotalsOf(r) = [sum EXCEPT !.streak = s]
  BY DEF TotalsOf, FoldTotals
<1>4. /\ sum.dispatched = window.dispatched + r.retired.dispatched
      /\ sum.succeeded = window.succeeded + r.retired.succeeded
      /\ sum.failed = window.failed + r.retired.failed
      /\ sum.parked = window.parked + r.retired.parked
      /\ sum.usd = window.usd + r.retired.usd
  <2> HIDE DEF window
  <2> QED
    BY <1>1 DEF AddTotals, Totals
<1>5. /\ window.dispatched = Len(r.iterations)
      /\ window.succeeded = Ended(r.iterations, {"succeeded"})
      /\ window.failed = Ended(r.iterations, {"failed", "abandoned"})
      /\ window.parked = Ended(r.iterations, {"parked"})
      /\ window.usd = Spent(r.iterations)
  BY DEF FoldIterations
<1> HIDE DEF window, sum
<1>6. LET all == TotalsOf(r)
      IN  /\ all.dispatched = sum.dispatched /\ all.succeeded = sum.succeeded
          /\ all.failed = sum.failed /\ all.parked = sum.parked /\ all.usd = sum.usd
  BY <1>2, <1>3 DEF Totals
<1> QED
  BY <1>4, <1>5, <1>6

LEMMA OpenIsEnded ==
  Cardinality(OpenIterations) = Ended(rec.iterations, {"running"})
<1>1. OpenIterations = {i \in DOMAIN rec.iterations : rec.iterations[i].outcome \in {"running"}}
  BY DEF OpenIterations
<1> QED
  BY <1>1 DEF Ended

\* Every dispatch ever made is counted once: it has ended under one heading, is
\* still open, or was retired open, whatever the window has dropped.
THEOREM TotalsAlwaysAddUp == Spec => []TotalsAddUp
<1>1. LedgerInv => TotalsAddUp
  <2> SUFFICES ASSUME LedgerInv
               PROVE  TotalsAddUp
    OBVIOUS
  <2> DEFINE its == rec.iterations
             ret == rec.retired
             all == TotalsOf(rec)
  <2>1. WellFormed(rec) /\ Windowed(rec)
    BY DEF LedgerInv, KnownUntilTrouble, LocksInv
  <2>2. /\ NextSeq(rec) = ret.dispatched + Len(its) + 1
        /\ its \in Seq(Iteration) /\ Len(its) \in Nat /\ ret \in Totals
    BY <2>1, WindowNext DEF WellFormed, LoopRecord
  <2> DEFINE s == Ended(its, {"succeeded"})
             f == Ended(its, {"failed", "abandoned"})
             p == Ended(its, {"parked"})
             o == Ended(its, {"running"})
  <2>3. s \in Nat /\ f \in Nat /\ p \in Nat /\ o \in Nat /\ Len(its) = s + f + p + o
    BY <2>2, EndedType, WindowAddsUp
  <2>4. /\ all.dispatched = Len(its) + ret.dispatched
        /\ all.succeeded = s + ret.succeeded /\ all.failed = f + ret.failed
        /\ all.parked = p + ret.parked
    BY <2>1, TotalsAre
  <2>5. Cardinality(OpenIterations) = o
    BY OpenIsEnded
  <2>6. /\ ret.dispatched \in Nat /\ ret.succeeded \in Nat /\ ret.failed \in Nat
        /\ ret.parked \in Nat
    BY <2>2 DEF Totals
  <2> HIDE DEF its, ret, all, s, f, p, o
  <2>7. all.dispatched = NextSeq(rec) - 1
    BY <2>2, <2>4, <2>6
  <2>8. Unended(all) = Cardinality(OpenIterations) + Unended(ret)
    <3>1. Unended(all) = all.dispatched - (all.succeeded + all.failed + all.parked)
      BY DEF Unended
    <3>2. Unended(ret) = ret.dispatched - (ret.succeeded + ret.failed + ret.parked)
      BY DEF Unended
    <3> DEFINE a == ret.succeeded
               b == ret.failed
               c == ret.parked
               d == ret.dispatched
    <3>3. a \in Nat /\ b \in Nat /\ c \in Nat /\ d \in Nat
      BY <2>6
    <3>4. s + f + p + o + d - ((s + a) + (f + b) + (p + c)) = o + (d - (a + b + c))
      <4> HIDE DEF a, b, c, d
      <4> QED
        BY <2>3, <3>3
    <3>5. /\ all.dispatched = s + f + p + o + d /\ all.succeeded = s + a
          /\ all.failed = f + b /\ all.parked = p + c
      BY <2>3, <2>4
    <3> HIDE DEF a, b, c, d
    <3>6. Unended(all) = s + f + p + o + d - ((s + a) + (f + b) + (p + c))
      BY <2>3, <3>1, <3>3, <3>5
    <3>7. Unended(ret) = d - (a + b + c)
      BY <3>2 DEF a, b, c, d
    <3> QED
      BY <2>5, <3>4, <3>6, <3>7
  <2> QED
    BY <2>7, <2>8 DEF TotalsAddUp, all, ret
<1> QED
  BY <1>1, LedgerInvariant, PTL

----------------------------------------------------------------------------
(* The ticket ceiling *)

\* What has been dispatched and what the pass has yet to launch stay within one
\* pass of the ceiling.
CeilInv ==
  MaxTickets # NoCeiling =>
    NextSeq(rec) - 1 + (IF pc = "launch" THEN Cardinality(todo) ELSE 0)
      <= MaxTickets + Concurrency - 1

LEMMA DispatchesFit ==
  ASSUME NEW D \in Dispatches
  PROVE  IsFiniteSet(D) /\ Cardinality(D) \in Nat /\ Cardinality(D) <= Concurrency
<1>1. IsFiniteSet(Tickets) /\ D \subseteq Tickets /\ Concurrency \in Nat \ {0}
  BY DispatchesType DEF LoopAssumption
<1>2. IsFiniteSet(D) /\ Cardinality(D) \in Nat
  BY <1>1, FS_Subset, FS_CardinalityType
<1>3. Cardinality(D) <= FreeSlots
  <2>1. PICK S \in ReadySets : \/ D = S /\ Cardinality(S) <= FreeSlots
                               \/ Cardinality(S) > FreeSlots /\ Cardinality(D) = FreeSlots
    BY DEF Dispatches
  <2> QED
    BY <1>2, <2>1
<1>4. SlotsTaken \in Nat
  <2>1. IsFiniteSet({t \in Tickets : inFlight[t] # 0})
    BY <1>1, FS_Subset
  <2> QED
    BY <2>1, FS_CardinalityType DEF SlotsTaken
<1>5. FreeSlots \in Nat /\ FreeSlots <= Concurrency
  BY <1>1, <1>4 DEF FreeSlots
<1> QED
  BY <1>1, <1>2, <1>3, <1>5

LEMMA StepCeil ==
  ASSUME LedgerInv, CeilInv, [Next]_vars
  PROVE  CeilInv'
<1> SUFFICES ASSUME MaxTickets # NoCeiling
             PROVE  CeilInv'
  BY DEF CeilInv
<1> DEFINE n == NextSeq(rec)
           top == MaxTickets + Concurrency - 1
<1>1. /\ LocksInv /\ Typed /\ StatusFollows /\ WellFormed(rec) /\ Windowed(rec)
      /\ n \in Nat /\ MaxTickets \in Nat /\ Concurrency \in Nat \ {0} /\ top \in Nat
  BY NextSeqIsLast DEF LedgerInv, KnownUntilTrouble, LocksInv, Typed, WellFormed, LoopAssumption
<1>2. IsFiniteSet(todo) /\ Cardinality(todo) \in Nat
  <2>1. todo \subseteq Tickets /\ IsFiniteSet(Tickets)
    BY <1>1 DEF Typed, TypeOK, LoopAssumption
  <2> QED
    BY <2>1, FS_Subset, FS_CardinalityType
<1>3. n - 1 + (IF pc = "launch" THEN Cardinality(todo) ELSE 0) <= top
  BY DEF CeilInv
<1>4. ASSUME NEW t \in Tickets, Launch(t)
      PROVE  CeilInv'
  <2>1. NextSeq(rec') = n + 1
    BY <1>1, <1>4, AppendIterationKeeps DEF Launch
  <2>2. /\ pc = "launch" /\ t \in todo /\ todo' = todo \ {t}
        /\ pc' = IF todo' = {} THEN "top" ELSE "launch"
    BY <1>4 DEF Launch
  <2>3. Cardinality(todo') = Cardinality(todo) - 1
    BY <1>2, <2>2, FS_RemoveElement
  <2> HIDE DEF n, top
  <2>4. n + Cardinality(todo') <= top /\ n <= top
    <3>1. Cardinality(todo') \in Nat
      BY <1>2, <2>2, FS_RemoveElement, FS_CardinalityType
    <3> QED
      BY <1>1, <1>2, <1>3, <2>2, <2>3, <3>1
  <2>5. NextSeq(rec') - 1 = n
    BY <1>1, <2>1
  <2> QED
    BY <1>1, <2>2, <2>4, <2>5 DEF CeilInv, top
<1>5. CASE \A t \in Tickets : ~Launch(t)
  <2>1. NextSeq(rec') = n
    BY <1>1, <1>5, OthersCarry DEF LanesCarry
  <2>2. CASE CycleDispatches
    <3>1. PICK D \in Dispatches : todo' = D
      BY <2>2 DEF CycleDispatches
    <3>2. Cardinality(todo') \in Nat /\ Cardinality(todo') <= Concurrency
      BY <3>1, DispatchesFit
    <3>3. n - 1 < MaxTickets
      <4>1. TotalsOf(rec).dispatched < MaxTickets
        <5>1. TotalsOf(rec).dispatched = n - 1
          BY <1>1, TotalsAre, WindowNext
        <5>2. ~(TotalsOf(rec).dispatched >= MaxTickets)
          BY <2>2 DEF CycleDispatches, Passing, CeilingTripped
        <5> QED
          BY <1>1, <5>1, <5>2
      <4> QED
        BY <1>1, <4>1, TotalsAre, WindowNext
    <3> HIDE DEF n
    <3> QED
      BY <1>1, <2>1, <3>2, <3>3 DEF CeilInv
  <2>3. CASE ~CycleDispatches
    <3>1. pc' = "launch" => pc = "launch" /\ todo' = todo
      <4>1. CASE Wake \/ UNCHANGED vars
        BY <4>1 DEF Wake, vars
      <4> QED
        BY <1>1, <1>5, <2>3, <4>1, CycleCarries, UserCarries, HostCarries, LaneCarries DEF Next
    <3> HIDE DEF n, top
    <3>2. n - 1 + (IF pc' = "launch" THEN Cardinality(todo') ELSE 0) <= top
      BY <1>1, <1>2, <1>3, <3>1
    <3> QED
      BY <2>1, <3>2 DEF CeilInv, top
  <2> QED
    BY <2>2, <2>3
<1> QED
  BY <1>4, <1>5

\* However many slots a loop has, it dispatches past its ticket ceiling no more
\* than the other slots of the pass that reached it.
THEOREM CeilingOvershootsOnePass == Spec => []TicketCeilingOvershoot
<1>1. Init => CeilInv
  <2> SUFFICES ASSUME Init, MaxTickets # NoCeiling
               PROVE  CeilInv
    BY DEF CeilInv
  <2>1. NextSeq(rec) = 1 /\ pc # "launch"
    <3>1. rec.iterations = <<>>
      BY DEF Init, NewRecord
    <3>2. {rec.iterations[i].seq : i \in DOMAIN rec.iterations} = {}
      BY <3>1
    <3> QED
      BY <3>2 DEF NextSeq, Init
  <2>2. MaxTickets \in Nat /\ Concurrency \in Nat \ {0}
    BY DEF LoopAssumption
  <2> QED
    BY <2>1, <2>2 DEF CeilInv
<1>2. LedgerInv /\ CeilInv /\ [Next]_vars => CeilInv'
  BY StepCeil
<1>3. LedgerInv /\ CeilInv => TicketCeilingOvershoot
  <2> SUFFICES ASSUME LedgerInv, CeilInv, MaxTickets # NoCeiling
               PROVE  TotalsOf(rec).dispatched <= MaxTickets + Concurrency - 1
    BY DEF TicketCeilingOvershoot
  <2>1. Typed /\ WellFormed(rec) /\ Windowed(rec)
    BY DEF LedgerInv, KnownUntilTrouble, LocksInv, Typed
  <2>2. TotalsOf(rec).dispatched = NextSeq(rec) - 1
    BY <2>1, TotalsAre, WindowNext
  <2>3. IsFiniteSet(todo) /\ Cardinality(todo) \in Nat
    <3>1. todo \subseteq Tickets /\ IsFiniteSet(Tickets)
      BY <2>1 DEF Typed, TypeOK, LoopAssumption
    <3> QED
      BY <3>1, FS_Subset, FS_CardinalityType
  <2>4. NextSeq(rec) \in Nat /\ MaxTickets \in Nat /\ Concurrency \in Nat
    BY <2>1, NextSeqIsLast DEF WellFormed, LoopAssumption
  <2> QED
    BY <2>2, <2>3, <2>4 DEF CeilInv
<1> QED
  BY <1>1, <1>2, <1>3, LedgerInvariant, PTL DEF Spec

----------------------------------------------------------------------------
(* What is open and who works on it *)

\* Nothing that happened is ever taken back.
LEMMA UsedGrows ==
  ASSUME Typed, [Next]_vars
  PROVE  /\ used'.crashes >= used.crashes /\ used'.halts >= used.halts
         /\ used'.faults >= used.faults /\ used'.resizes >= used.resizes
<1> DEFINE names == {"starts", "crashes", "edits", "resizes", "halts", "wakes", "faults"}
           grown == /\ used'.crashes >= used.crashes /\ used'.halts >= used.halts
                    /\ used'.faults >= used.faults /\ used'.resizes >= used.resizes
<1>1. ASSUME NEW c \in names, Count(c)
      PROVE  grown
  BY <1>1 DEF Count, Typed, TypeOK, Counters
<1>2. ASSUME UNCHANGED used
      PROVE  grown
  BY <1>2 DEF Typed, TypeOK, Counters
<1>3. UNCHANGED used \/ \E c \in names : Count(c)
  <2>1. ASSUME Cycle
        PROVE  UNCHANGED used \/ Count("faults")
    BY <2>1 DEF Cycle, CycleBreaks, CycleHitsCeiling, CycleDrained, CycleBlocked,
                CycleDispatches, CycleWaits, CycleResumes, CycleFails, CeilingSettles,
                DrainEnds, LaunchFails, Launch
  <2>2. ASSUME UserStep \/ Wake
        PROVE  \/ UNCHANGED used \/ Count("starts") \/ Count("halts") \/ Count("edits")
               \/ Count("resizes") \/ Count("wakes")
    BY <2>2 DEF UserStep, Wake, Start, Pause, Stop, ClockRunsOut, ReleasePark,
                UserSetsStatus, Resize
  <2>3. ASSUME HostStep
        PROVE  UNCHANGED used \/ Count("crashes")
    BY <2>3 DEF HostStep, Crash, CrashMidRecord, Dies, Restart, RestoreIteration, RestoreStatus
  <2>4. ASSUME NEW l \in lanes, LaneStep(l)
        PROVE  UNCHANGED used \/ Count("faults")
    BY <2>4 DEF LaneStep, Spend, LaneMovesTicket, FinishLane, LaneRecordFails
  <2>5. UNCHANGED vars => UNCHANGED used
    BY DEF vars
  <2> HIDE DEF Count
  <2> QED
    BY <2>1, <2>2, <2>3, <2>4, <2>5 DEF Next
<1> QED
  BY <1>1, <1>2, <1>3

\* Until the loop runs into trouble, and unless the host dies on a loop that was
\* told to stop, whatever is open has its lane, or died with a loop shown running.
Orderly == Untroubled /\ (used.crashes = 0 \/ used.halts = 0)

OpenAreWorked ==
  Orderly =>
    /\ HostUp => OpenSeqs \subseteq LiveSeqs
    /\ ~HostUp /\ OpenIterations # {} => rec.status = "running"
    /\ used.halts = 0 /\ Running => rec.status = "running"

LEMMA OrderlyStays ==
  ASSUME Typed, [Next]_vars, Orderly'
  PROVE  Orderly
<1>1. Untroubled
  BY TroubleStays DEF Orderly
<1>2. /\ used'.crashes >= used.crashes /\ used'.halts >= used.halts
      /\ used.crashes \in Nat /\ used.halts \in Nat
      /\ used'.crashes = 0 \/ used'.halts = 0
  BY UsedGrows DEF Typed, TypeOK, Counters, Orderly
<1>3. used.crashes = 0 \/ used.halts = 0
  BY <1>2
<1> QED
  BY <1>1, <1>3 DEF Orderly

LEMMA OpenSeqsAre ==
  OpenSeqs = {x.seq : x \in {y \in Window(rec) : y.outcome = "running"}}
  BY DEF OpenSeqs, OpenIterations, Window

LEMMA OpenIn ==
  OpenIterations # {} <=> OpenSeqs # {}
  BY DEF OpenSeqs

\* A quiet step of a host that stays up takes no lane away.
LEMMA QuietKeepsLanes ==
  ASSUME Known, Untroubled', [Next]_vars, \A t \in Tickets : ~Launch(t),
         \A l \in lanes, raw \in Results : ~Returns(l, raw), ~Crash
  PROVE  LiveSeqs \subseteq LiveSeqs'
<1>1. Typed /\ \A l \in lanes : l \in Lane /\ l.live
  BY DEF Known, LocksInv, LanesKnown, Typed, TypeOK
<1>2. ASSUME UNCHANGED lanes
      PROVE  LiveSeqs \subseteq LiveSeqs'
  BY <1>2 DEF LiveSeqs, LiveLanes
<1>3. CASE Cycle
  <2>1. ASSUME NEW r, EndCycle(r)
        PROVE  UNCHANGED lanes
    BY <1>1, <2>1 DEF EndCycle
  <2>2. UNCHANGED lanes
    BY <1>3, <2>1 DEF Cycle, CycleBreaks, CycleHitsCeiling, CycleDrained, CycleBlocked,
              CycleDispatches, CycleWaits, CycleResumes, CycleFails, CeilingSettles,
              DrainEnds, LaunchFails
  <2> QED
    BY <1>2, <2>2
<1>4. CASE UserStep
  <2>1. CASE Stop
    <3> DEFINE cut(l) == [l EXCEPT !.aborted = l.aborted \/ (Running /\ l.cycle = used.starts)]
    <3>1. lanes' = {cut(l) : l \in lanes}
      BY <2>1 DEF Stop
    <3>2. \A l \in lanes : cut(l).seq = l.seq /\ cut(l).live = l.live
      BY <1>1 DEF Lane
    <3> HIDE DEF cut
    <3> QED
      BY <3>1, <3>2 DEF LiveSeqs, LiveLanes
  <2>2. CASE ~Stop
    BY <1>2, <1>4, <2>2 DEF UserStep, Start, Pause, ClockRunsOut, ReleasePark,
                            UserSetsStatus, Resize
  <2> QED
    BY <2>1, <2>2
<1>5. ASSUME NEW l \in lanes, LaneStep(l)
      PROVE  LiveSeqs \subseteq LiveSeqs'
  <2>1. CASE Spend(l)
    <3> DEFINE x == [l EXCEPT !.spent = @ + 1]
    <3>1. x.seq = l.seq /\ x.live = l.live /\ lanes' = (lanes \ {l}) \cup {x}
      BY <1>1, <2>1 DEF Lane, Spend
    <3> HIDE DEF x
    <3> QED
      BY <3>1 DEF LiveSeqs, LiveLanes
  <2>2. CASE LaneMovesTicket(l)
    BY <1>2, <2>2 DEF LaneMovesTicket
  <2> QED
    BY <1>5, <2>1, <2>2 DEF LaneStep, Returns
<1>6. CASE HostStep
  BY <1>2, <1>6 DEF HostStep, Returns, Restart, RestoreIteration, RestoreStatus
<1>7. CASE Wake \/ UNCHANGED vars
  BY <1>2, <1>7 DEF Wake, vars
<1> QED
  BY <1>3, <1>4, <1>5, <1>6, <1>7 DEF Next

\* A loop that is running, and that nobody told to stop, is shown as running.
LEMMA StaysRunning ==
  ASSUME Typed, StatusFollows, [Next]_vars, used'.halts = 0, Running',
         Running => rec.status = "running"
  PROVE  rec'.status = "running"
<1>1. CASE Start
  BY <1>1, BeginExecutionKeeps DEF Start, Typed, StatusFollows
<1>2. CASE Pause \/ Stop
  BY <1>2 DEF Pause, Stop, Count, Typed, TypeOK, Counters
<1>3. CASE Cycle
  <2>1. Running
    BY <1>3 DEF Cycle, CycleBreaks, CycleHitsCeiling, CycleDrained, CycleBlocked,
              CycleDispatches, CycleWaits, CycleResumes, CycleFails, CeilingSettles,
              DrainEnds, LaunchFails, Launch, Passing, Unaborted, Running
  <2>2. CASE UNCHANGED rec
    BY <2>1, <2>2
  <2>3. ASSUME NEW t \in Tickets, Launch(t)
        PROVE  rec'.status = rec.status
    BY <2>3, AppendIterationKeeps DEF Launch, Typed
  <2>4. ASSUME NEW r, EndCycle(r)
        PROVE  FALSE
    BY <2>4 DEF EndCycle, Running
  <2> QED
    BY <1>3, <2>1, <2>2, <2>3, <2>4
       DEF Cycle, CycleBreaks, CycleHitsCeiling, CycleDrained, CycleBlocked,
           CycleDispatches, CycleWaits, CycleResumes, CycleFails, CeilingSettles,
           DrainEnds, LaunchFails
<1>4. CASE UserStep /\ ~Start /\ ~Pause /\ ~Stop
  <2>1. rec'.status = rec.status /\ UNCHANGED pc
    BY <1>4, ReleaseKeeps DEF UserStep, ClockRunsOut, UserSetsStatus, Resize, ReleasePark,
                              memory, Typed
  <2> QED
    BY <2>1 DEF Running
<1>5. CASE HostStep
  BY <1>5 DEF HostStep, Crash, CrashMidRecord, Dies, Restart, RestoreIteration,
              RestoreStatus, memory, Running
<1>6. ASSUME NEW l \in lanes, LaneStep(l)
      PROVE  rec'.status = "running"
  <2>1. l \in Lane
    BY DEF Typed, TypeOK
  <2>2. rec'.status = rec.status
    <3>1. ASSUME NEW raw \in Results, FinishLane(l, raw) \/ LaneRecordFails(l, raw)
          PROVE  rec'.status = rec.status
      BY <2>1, <3>1, FromReceiptType, AfterTicketStateKeeps, AfterSettleKeeps
         DEF FinishLane, LaneRecordFails, Typed
    <3> QED
      BY <1>6, <3>1 DEF LaneStep, Spend, LaneMovesTicket
  <2>3. UNCHANGED pc
    BY <1>6 DEF LaneStep, Spend, LaneMovesTicket, FinishLane, LaneRecordFails, memory
  <2> QED
    BY <2>2, <2>3 DEF Running
<1>7. CASE Wake \/ UNCHANGED vars
  BY <1>7 DEF Wake, vars, Running
<1> QED
  BY <1>1, <1>2, <1>3, <1>4, <1>5, <1>6, <1>7 DEF Next

\* What may happen to a host that is down, and what takes it down.
LEMMA DownSteps ==
  ASSUME ~HostUp, lanes = {}, [Next]_vars
  PROVE  \/ RestoreStatus \/ RestoreIteration
         \/ UNCHANGED rec /\ ~HostUp'
<1> USE DEF HostUp
<1>1. ~Cycle
  BY DEF Cycle, CycleBreaks, CycleHitsCeiling, CycleDrained, CycleBlocked,
         CycleDispatches, CycleWaits, CycleResumes, CycleFails, CeilingSettles,
         DrainEnds, LaunchFails, Launch, Passing, Unaborted
<1>2. ~Wake
  BY DEF Wake, Running
<1>3. ~UserStep
  BY DEF UserStep, Start, Pause, Stop, ClockRunsOut, ReleasePark, UserSetsStatus, Resize, Await
<1>4. CASE HostStep
  BY <1>4 DEF HostStep, Crash, Dies, Restart
<1>5. CASE UNCHANGED vars
  BY <1>5 DEF vars
<1> QED
  BY <1>1, <1>2, <1>3, <1>4, <1>5 DEF Next

LEMMA GoingDown ==
  ASSUME HostUp, ~HostUp', [Next]_vars
  PROVE  Crash \/ \E l \in lanes : \E raw \in Results : Returns(l, raw)
<1> USE DEF HostUp
<1>1. CASE Cycle
  BY <1>1 DEF Cycle, CycleBreaks, CycleHitsCeiling, CycleDrained, CycleBlocked,
              CycleDispatches, CycleWaits, CycleResumes, CycleFails, CeilingSettles,
              DrainEnds, LaunchFails, Launch, EndCycle, AwaitLanes
<1>2. CASE Wake \/ UNCHANGED vars
  BY <1>2 DEF Wake, vars
<1>3. CASE UserStep
  BY <1>3 DEF UserStep, Start, Pause, Stop, ClockRunsOut, ReleasePark, UserSetsStatus, Resize,
              memory
<1>4. CASE HostStep
  BY <1>4 DEF HostStep, Returns, Restart, RestoreIteration, RestoreStatus
<1>5. ASSUME NEW l \in lanes, LaneStep(l)
      PROVE  \E raw \in Results : Returns(l, raw)
  BY <1>5 DEF LaneStep, Returns, Spend, LaneMovesTicket, memory
<1> QED
  BY <1>1, <1>2, <1>3, <1>4, <1>5 DEF Next

LEMMA StepOpen ==
  ASSUME LedgerInv, OpenAreWorked, [Next]_vars
  PROVE  OpenAreWorked'
<1> USE DEF LedgerInv
<1>1. LocksInv /\ Typed /\ StatusFollows /\ WellFormed(rec)
  BY DEF KnownUntilTrouble, LocksInv, Typed
<1> SUFFICES ASSUME Orderly'
             PROVE  /\ HostUp' => OpenSeqs' \subseteq LiveSeqs'
                    /\ ~HostUp' /\ OpenIterations' # {} => rec'.status = "running"
                    /\ used'.halts = 0 /\ Running' => rec'.status = "running"
  BY DEF OpenAreWorked
<1>2. /\ Orderly /\ Untroubled' /\ Known
      /\ used'.halts = 0 => used.halts = 0
      /\ used'.crashes > 0 => used'.halts = 0
  <2>1. Orderly
    BY <1>1, OrderlyStays
  <2>2. used'.halts = 0 => used.halts = 0
    BY <1>1, UsedGrows DEF Typed, TypeOK, Counters
  <2> QED
    BY <1>1, <2>1, <2>2 DEF Orderly, KnownUntilTrouble, Known
<1>3. /\ HostUp => OpenSeqs \subseteq LiveSeqs
      /\ ~HostUp /\ OpenSeqs # {} => rec.status = "running"
      /\ used.halts = 0 /\ Running => rec.status = "running"
  BY <1>2, OpenIn DEF OpenAreWorked
<1>4. used'.halts = 0 /\ Running' => rec'.status = "running"
  BY <1>1, <1>2, <1>3, StaysRunning
<1>5. ASSUME HostUp, ~HostUp', OpenSeqs # {}
      PROVE  rec.status = "running"
  <2>1. used'.crashes > 0
    BY <1>1, <1>5, StepHostDown DEF HostDown, HostUp
  <2>2. lanes # {}
    BY <1>3, <1>5 DEF LiveSeqs, LiveLanes
  <2>3. Running
    BY <1>2, <2>2 DEF Known, LanesKnown
  <2> QED
    BY <1>2, <1>3, <2>1, <2>3
<1>6. ASSUME NEW t \in Tickets, Launch(t)
      PROVE  HostUp' /\ OpenSeqs' \subseteq LiveSeqs'
  <2> DEFINE x == Opened(rec, t)
             new == [seq |-> NextSeq(rec), ticket |-> t, terr |-> TerritoryOf(t),
                     cycle |-> used.starts, aborted |-> FALSE, spent |-> 0, live |-> TRUE]
  <2>1. HostUp /\ HostUp'
    BY <1>6 DEF Launch, HostUp
  <2>2. lanes' = lanes \cup {new} /\ new.seq = NextSeq(rec) /\ new.live
    BY <1>6 DEF Launch
  <2>3. x.seq = NextSeq(rec)
    BY DEF Opened
  <2>4. \A y \in Window(rec)' : y \in Window(rec) \/ y = x
    BY <1>1, <1>6, LaunchWindow
  <2> HIDE DEF x, new
  <2>5. NextSeq(rec) \in LiveSeqs' /\ LiveSeqs \subseteq LiveSeqs'
    BY <2>2 DEF LiveSeqs, LiveLanes
  <2>6. OpenSeqs' = {y.seq : y \in {z \in Window(rec)' : z.outcome = "running"}}
    BY DEF OpenSeqs, OpenIterations, Window
  <2>7. OpenSeqs' \subseteq OpenSeqs \cup {NextSeq(rec)}
    BY <2>3, <2>4, <2>6, OpenSeqsAre
  <2> QED
    BY <1>3, <2>1, <2>5, <2>7
<1>7. ASSUME NEW l \in lanes, NEW raw \in Results, Returns(l, raw)
      PROVE  /\ HostUp' => OpenSeqs' \subseteq LiveSeqs'
             /\ ~HostUp' /\ OpenSeqs' # {} => rec'.status = "running"
  <2> DEFINE o == Outcome(l, raw)
             c == Cost(l, raw)
             n == l.seq
  <2>1. /\ n \in Nat /\ o \in Outcomes \ {"running"} /\ c \in Nat /\ l.live /\ HostUp
        /\ l \in Lane
    BY <1>1, <1>7, ReturnLeaves, OutcomeEnds DEF Lane, Cost, Await, HostUp
  <2>2. Settles(n, o, c)
    <3>1. ~LaneRecordFails(l, raw)
      BY <1>1, <1>2 DEF LaneRecordFails, Count, Untroubled, Typed, TypeOK, Counters
    <3> QED
      BY <1>1, <1>7, <3>1, ReturnBooks
  <2> HIDE DEF o, c, n
  <2>3. \A x \in Window(rec)' :
               \/ x \in Window(rec) /\ x.seq # n
               \/ \E y \in Window(rec) : /\ y \in Iteration /\ y.seq = n
                                         /\ x = Closed(y, o, c)
    BY <1>1, <2>1, <2>2, SettleWindow
  <2>4. \A x \in Window(rec)' : x.outcome = "running" => x \in Window(rec) /\ x.seq # n
    BY <2>1, <2>3, ClosedType
  <2>5. OpenSeqs' = {y.seq : y \in {z \in Window(rec)' : z.outcome = "running"}}
    BY DEF OpenSeqs, OpenIterations, Window
  <2>6. OpenSeqs' \subseteq OpenSeqs \ {n}
    BY <2>4, <2>5, OpenSeqsAre
  <2>7. ASSUME HostUp'
        PROVE  OpenSeqs' \subseteq LiveSeqs'
    <3>1. FinishLane(l, raw)
      <4>1. ~LaneRecordFails(l, raw)
        BY <1>1, <1>2 DEF LaneRecordFails, Count, Untroubled, Typed, TypeOK, Counters
      <4>2. ~CrashMidRecord(l, raw)
        BY <2>7 DEF CrashMidRecord, Dies, HostUp
      <4> QED
        BY <1>7, <4>1, <4>2 DEF Returns
    <3>2. lanes' = lanes \ {l}
      BY <3>1 DEF FinishLane
    <3>3. LiveSeqs \ {n} \subseteq LiveSeqs'
      BY <3>2 DEF LiveSeqs, LiveLanes, n
    <3> QED
      BY <1>3, <2>1, <2>6, <3>3
  <2>8. ASSUME ~HostUp', OpenSeqs' # {}
        PROVE  rec'.status = "running"
    <3>1. rec.status = "running"
      BY <1>5, <2>1, <2>6, <2>8
    <3>2. rec'.status = rec.status
      BY <1>1, <1>7, <2>1, FromReceiptType, AfterTicketStateKeeps, AfterSettleKeeps
         DEF Returns, FinishLane, LaneRecordFails, CrashMidRecord
    <3> QED
      BY <3>1, <3>2
  <2> QED
    BY <2>7, <2>8
<1>8. CASE RestoreIteration
  <2>1. ~HostUp'
    BY <1>8 DEF RestoreIteration, HostUp, memory
  <2>2. rec'.status = "running"
    BY <1>1, <1>8, AbandonIterationKeeps DEF RestoreIteration, OpenIterations
  <2> QED
    BY <1>4, <2>1, <2>2
<1>9. ASSUME Quiet, ~RestoreIteration, \A t \in Tickets : ~Launch(t),
             \A l \in lanes, raw \in Results : ~Returns(l, raw)
      PROVE  /\ HostUp' => OpenSeqs' \subseteq LiveSeqs'
             /\ ~HostUp' /\ OpenSeqs' # {} => rec'.status = "running"
  <2>1. OpenSeqs' = OpenSeqs
    BY <1>9 DEF Quiet, SameBooks, OpenSeqs, OpenIterations
  <2>2. CASE HostUp /\ HostUp'
    <3>1. ~Crash
      BY <2>2 DEF Crash, Dies, HostUp
    <3> QED
      BY <1>2, <1>3, <1>9, <2>1, <2>2, <3>1, QuietKeepsLanes
  <2>3. CASE HostUp /\ ~HostUp'
    <3>1. UNCHANGED rec
      BY <1>9, <2>3, GoingDown DEF Crash
    <3> QED
      BY <1>5, <2>1, <2>3, <3>1
  <2>4. CASE ~HostUp
    <3>1. lanes = {}
      BY <2>4 DEF HostDown, HostUp
    <3>2. CASE RestoreStatus
      <4>1. OpenSeqs = {}
        BY <1>3, <2>4, <3>2, OpenIn DEF RestoreStatus
      <4> QED
        BY <2>1, <4>1
    <3>3. CASE UNCHANGED rec /\ ~HostUp'
      BY <1>3, <2>1, <2>4, <3>3
    <3> QED
      BY <1>9, <2>4, <3>1, <3>2, <3>3, DownSteps
  <2> QED
    BY <2>2, <2>3, <2>4
<1>10. OpenIterations' # {} <=> OpenSeqs' # {}
  BY DEF OpenSeqs
<1> QED
  BY <1>1, <1>4, <1>6, <1>7, <1>8, <1>9, <1>10, StepShape

\* While the host is up, every lane that runs has its iteration open in the
\* record unless the window dropped it; and without trouble nothing else is open.
THEOREM LedgerFollowsLanes == Spec => []LedgerMatchesLanes
<1>1. Init => OpenAreWorked
  BY DEF Init, NewRecord, OpenAreWorked, OpenSeqs, OpenIterations, HostUp, Running
<1>2. LedgerInv /\ OpenAreWorked /\ [Next]_vars => OpenAreWorked'
  BY StepOpen
<1>3. LedgerInv /\ OpenAreWorked => LedgerMatchesLanes
  <2> SUFFICES ASSUME LedgerInv, OpenAreWorked, HostUp
               PROVE  /\ {n \in LiveSeqs : Retained(n)} \subseteq OpenSeqs
                      /\ Untroubled /\ (used.crashes = 0 \/ used.halts = 0)
                           => OpenSeqs \subseteq LiveSeqs
    BY DEF LedgerMatchesLanes
  <2>1. /\ WellFormed(rec) /\ Windowed(rec) /\ LanesOpen /\ Typed /\ SeqsBehind
    BY DEF LedgerInv, KnownUntilTrouble, LocksInv, Typed
  <2>2. ASSUME NEW l \in LiveLanes, Retained(l.seq)
        PROVE  l.seq \in OpenSeqs
    <3>1. l.seq \in Nat /\ l.seq < NextSeq(rec) /\ l.seq > rec.retired.dispatched
      BY <2>1, <2>2 DEF LiveLanes, Typed, TypeOK, Lane, SeqsBehind, Retained
    <3>2. PICK i \in DOMAIN rec.iterations : rec.iterations[i].seq = l.seq
      BY <2>1, <3>1, PlaceOf DEF IterationAt
    <3>3. rec.iterations[i] \in Window(rec)
      BY DEF Window
    <3>4. rec.iterations[i].outcome = "running"
      BY <2>1, <3>2, <3>3 DEF LanesOpen
    <3> QED
      BY <3>2, <3>4 DEF OpenSeqs, OpenIterations
  <2>3. {n \in LiveSeqs : Retained(n)} \subseteq OpenSeqs
    BY <2>2 DEF LiveSeqs
  <2> QED
    BY <2>3 DEF OpenAreWorked, Orderly
<1> QED
  BY <1>1, <1>2, <1>3, LedgerInvariant, PTL DEF Spec

----------------------------------------------------------------------------
(* How a step changes what the window counts *)

\* The iterations of a ticket that ended with a verdict on the work.
VerdictOn(t) == {x \in Iteration : x.ticket = t /\ x.outcome \in {"succeeded", "failed"}}

\* The iterations that ran under execution e and ended so.
Under(e, outcomes) == {x \in Iteration : x.exec = e /\ x.outcome \in outcomes}

LEMMA VerdictsAre ==
  ASSUME NEW its \in Seq(Iteration), NEW t
  PROVE  /\ Those(its, VerdictOn(t)) = Cardinality({i \in DOMAIN its :
                /\ its[i].ticket = t /\ its[i].outcome \in {"succeeded", "failed"}})
         /\ Those(its, VerdictOn(t)) \in Nat
<1>1. \A i \in DOMAIN its : its[i] \in Iteration
  BY ElementOfSeq
<1>2. {i \in DOMAIN its : its[i].ticket = t /\ its[i].outcome \in {"succeeded", "failed"}}
        = {i \in DOMAIN its : its[i] \in VerdictOn(t)}
  BY <1>1 DEF VerdictOn
<1> QED
  BY <1>2, ThoseType DEF Those

LEMMA UnderAre ==
  ASSUME NEW its \in Seq(Iteration), NEW e, NEW outcomes
  PROVE  /\ Those(its, Under(e, outcomes)) = Cardinality({i \in DOMAIN its :
                its[i].exec = e /\ its[i].outcome \in outcomes})
         /\ Those(its, Under(e, outcomes)) \in Nat
<1>1. \A i \in DOMAIN its : its[i] \in Iteration
  BY ElementOfSeq
<1>2. {i \in DOMAIN its : its[i].exec = e /\ its[i].outcome \in outcomes}
        = {i \in DOMAIN its : its[i] \in Under(e, outcomes)}
  BY <1>1 DEF Under
<1> QED
  BY <1>2, ThoseType DEF Those

LEMMA ThoseNone ==
  ASSUME NEW its, NEW S, \A i \in DOMAIN its : its[i] \notin S
  PROVE  Those(its, S) = 0
<1>1. {i \in DOMAIN its : its[i] \in S} = {}
  OBVIOUS
<1> QED
  BY <1>1, FS_EmptySet DEF Those

\* A launch adds its iteration and may lose the oldest.
LEMMA LaunchCounts ==
  ASSUME Typed, Windowed(rec), NEW t \in Tickets, Launch(t), NEW S
  PROVE  LET before == Those(rec.iterations, S)
             after  == Those(rec'.iterations, S)
             one    == One(Opened(rec, t), S)
         IN  /\ before \in Nat /\ after \in Nat /\ after <= before + one
             /\ Untrimmed' => after = before + one
<1> DEFINE its == rec.iterations
           new == rec'.iterations
           x   == Opened(rec, t)
           longer == Append(its, x)
           before == Those(its, S)
           after  == Those(new, S)
           one    == One(x, S)
<1>1. WellFormed(rec) /\ rec' = AppendIteration(rec, t) /\ rec.retired \in Totals
  BY DEF Typed, WellFormed, LoopRecord, Launch
<1>2. its \in Seq(Iteration)
  BY <1>1, WindowNext
<1>3. /\ x \in Iteration /\ longer \in Seq(Iteration) /\ Len(longer) = Len(its) + 1
      /\ \/ new = longer
         \/ /\ new \in Seq(Iteration)
            /\ Len(new) + 1 = Len(longer)
            /\ \A i \in 1 .. Len(new) : new[i] = longer[i + 1]
            /\ rec'.retired = AddTotals(rec.retired, FoldIterations(SubSeq(longer, 1, 1)))
  BY <1>1, AppendBooks
<1>4. Those(longer, S) = before + one
  BY <1>2, <1>3, ThoseAppend
<1>5. before \in Nat /\ Those(longer, S) \in Nat /\ one \in {0, 1}
  BY <1>2, <1>3, ThoseType DEF One
<1>6. CASE new = longer
  BY <1>4, <1>5, <1>6
<1>7. CASE new \in Seq(Iteration) /\ Len(new) + 1 = Len(longer)
           /\ (\A i \in 1 .. Len(new) : new[i] = longer[i + 1])
           /\ rec'.retired = AddTotals(rec.retired, FoldIterations(SubSeq(longer, 1, 1)))
  <2> HIDE DEF longer, new, x
  <2>1. after + One(longer[1], S) = Those(longer, S)
    BY <1>3, <1>7, ThoseDrop
  <2>2. after \in Nat /\ One(longer[1], S) \in {0, 1}
    BY <1>7, ThoseType DEF One
  <2>3. ~Untrimmed'
    <3>1. longer # <<>>
      BY <1>2, <1>3, LenProperties, EmptySeq
    <3>2. rec'.retired.dispatched = rec.retired.dispatched + 1
      BY <1>1, <1>3, <1>7, <3>1, RetireOne
    <3>3. rec.retired.dispatched \in Nat
      BY <1>1 DEF Totals
    <3> QED
      BY <3>2, <3>3 DEF Untrimmed
  <2> HIDE DEF before, after, one
  <2> QED
    BY <1>4, <1>5, <2>1, <2>2, <2>3 DEF before, after, one, new, x
<1> QED
  BY <1>3, <1>6, <1>7

\* The iteration the window has of a lane, if any, was open and is closed.
SettlesOne(l, o, c) ==
  \/ /\ rec'.iterations = rec.iterations /\ rec'.executions = rec.executions
     /\ rec'.retired = rec.retired /\ ~Retained(l.seq)
  \/ /\ rec'.retired = rec.retired /\ Retained(l.seq)
     /\ \E old \in Iteration :
          /\ old.seq = l.seq /\ old.outcome = "running" /\ old.ticket = l.ticket
          /\ old \in Window(rec)
          /\ Closed(old, o, c) \in Iteration
          /\ \E p \in DOMAIN rec.iterations :
               /\ rec.iterations[p] = old
               /\ rec'.iterations = [rec.iterations EXCEPT ![p] = Closed(old, o, c)]
          /\ rec'.executions = CountOutcome(rec.executions, old.exec, o, c)
          /\ \A S : Those(rec'.iterations, S) + One(old, S)
                      = Those(rec.iterations, S) + One(Closed(old, o, c), S)

\* A lane that returns closes its own open iteration, if the window has it.
LEMMA SettleCounts ==
  ASSUME LedgerInv, NEW l \in LiveLanes, NEW o \in Outcomes, NEW c \in Nat,
         Settles(l.seq, o, c)
  PROVE  SettlesOne(l, o, c)
<1> USE DEF SettlesOne
<1> DEFINE its == rec.iterations
           d   == rec.retired.dispatched
           p   == l.seq - d
           old == its[p]
<1>1. /\ Typed /\ WellFormed(rec) /\ Windowed(rec) /\ LanesOpen /\ SeqsBehind
      /\ l \in lanes /\ l.seq \in Nat /\ l.seq < NextSeq(rec)
  BY DEF LedgerInv, KnownUntilTrouble, LocksInv, Typed, TypeOK, Lane, LiveLanes, SeqsBehind
<1>2. its \in Seq(Iteration) /\ d \in Nat
  BY <1>1, WindowNext
<1>3. /\ rec'.retired = rec.retired
      /\ p \notin DOMAIN its =>
           rec'.iterations = its /\ rec'.executions = rec.executions
      /\ p \in DOMAIN its =>
           /\ old \in Iteration
           /\ rec'.iterations = [its EXCEPT ![p] = Closed(old, o, c)]
           /\ rec'.executions = IF old.outcome = "running"
                                THEN CountOutcome(rec.executions, old.exec, o, c)
                                ELSE rec.executions
  BY DEF Settles, ClosedIn
<1>4. p \in DOMAIN its <=> Retained(l.seq)
  BY <1>1, PlaceOf DEF Retained
<1>5. CASE p \notin DOMAIN its
  BY <1>3, <1>4, <1>5
<1>6. CASE p \in DOMAIN its
  <2>1. old.seq = l.seq
    <3>1. old.seq = d + p
      BY <1>1, <1>6 DEF Windowed
    <3> QED
      BY <1>1, <1>2, <3>1
  <2>2. old \in Window(rec)
    BY <1>6 DEF Window
  <2>3. old.outcome = "running" /\ old.ticket = l.ticket
    <3> HIDE DEF old
    <3> QED
      BY <1>1, <2>1, <2>2 DEF LanesOpen
  <2>4. Closed(old, o, c) \in Iteration
    BY <1>3, <1>6, ClosedType
  <2> HIDE DEF p, its
  <2>5. \A S : Those([its EXCEPT ![p] = Closed(old, o, c)], S) + One(its[p], S)
                 = Those(its, S) + One(Closed(old, o, c), S)
    BY <1>2, <1>6, ThoseRewrite
  <2>6. rec'.iterations = [its EXCEPT ![p] = Closed(old, o, c)]
    BY <1>3, <1>6
  <2>7. rec'.executions = CountOutcome(rec.executions, old.exec, o, c)
    BY <1>3, <1>6, <2>3
  <2>8. old \in Iteration /\ rec'.retired = rec.retired
    BY <1>3, <1>6
  <2>9. \A S : Those(rec'.iterations, S) + One(old, S)
                 = Those(rec.iterations, S) + One(Closed(old, o, c), S)
    BY <2>5, <2>6 DEF its
  <2> HIDE DEF old
  <2>10. \E q \in DOMAIN rec.iterations :
           /\ rec.iterations[q] = old
           /\ rec'.iterations = [rec.iterations EXCEPT ![q] = Closed(old, o, c)]
    BY <1>6, <2>6 DEF its, old
  <2> QED
    BY <1>4, <1>6, <2>1, <2>2, <2>3, <2>4, <2>7, <2>8, <2>9, <2>10
<1> QED
  BY <1>5, <1>6

----------------------------------------------------------------------------
(* Attempts *)

\* What a ticket was charged and the verdicts the window shows of it.
AttemptsInv ==
  \A t \in Tickets :
    LET charged  == rec.tstate[t].attempts
        verdicts == Those(rec.iterations, VerdictOn(t))
    IN  /\ used.crashes + used.faults = 0 => charged >= verdicts
        /\ Untrimmed => charged <= verdicts

LEMMA OpenNoVerdict ==
  ASSUME NEW x, x.outcome \notin {"succeeded", "failed"}, NEW t
  PROVE  One(x, VerdictOn(t)) = 0
  BY DEF One, VerdictOn

LEMMA CardVerdicts ==
  ASSUME Typed, NEW t
  PROVE  Cardinality(Verdicts(t)) = Those(rec.iterations, VerdictOn(t))
<1>1. rec.iterations \in Seq(Iteration)
  BY DEF Typed, TypeOK, LoopRecord
<1> QED
  BY <1>1, VerdictsAre DEF Verdicts

\* The verdicts a lane's return adds for a ticket: its own, if the window still
\* holds the iteration.
LEMMA ReturnVerdicts ==
  ASSUME LedgerInv, NEW l \in LiveLanes, NEW raw \in Results,
         Settles(l.seq, Outcome(l, raw), Cost(l, raw)), NEW t \in Tickets
  PROVE  /\ rec'.retired = rec.retired
         /\ Those(rec'.iterations, VerdictOn(t)) = Those(rec.iterations, VerdictOn(t))
              + (IF Retained(l.seq) /\ t = l.ticket THEN Charge(l, raw) ELSE 0)
<1> DEFINE o == Outcome(l, raw)
           c == Cost(l, raw)
           S == VerdictOn(t)
           plus == IF t = l.ticket THEN Charge(l, raw) ELSE 0
<1>1. l \in Lane /\ o \in Outcomes /\ c \in Nat /\ rec.iterations \in Seq(Iteration)
  BY OutcomeEnds
     DEF LedgerInv, KnownUntilTrouble, LocksInv, TypeOK, LiveLanes, Lane, Cost, LoopRecord
<1>2. Those(rec.iterations, S) \in Nat
  BY <1>1, ThoseType
<1>3. CASE rec'.iterations = rec.iterations /\ rec'.retired = rec.retired /\ ~Retained(l.seq)
  BY <1>2, <1>3
<1>4. ASSUME rec'.retired = rec.retired, Retained(l.seq), NEW old \in Iteration,
             old.outcome = "running", old.ticket = l.ticket, Closed(old, o, c) \in Iteration,
             rec'.iterations \in Seq(Iteration),
             \A T : Those(rec'.iterations, T) + One(old, T)
                      = Those(rec.iterations, T) + One(Closed(old, o, c), T)
      PROVE  Those(rec'.iterations, S) = Those(rec.iterations, S) + plus
  <2>1. One(old, S) = 0
    BY <1>4, OpenNoVerdict
  <2>2. Closed(old, o, c).ticket = l.ticket /\ Closed(old, o, c).outcome = o
    BY <1>1, <1>4, ClosedType
  <2>3. One(Closed(old, o, c), S) = plus
    BY <1>4, <2>2 DEF One, VerdictOn, Charge
  <2>4. Those(rec'.iterations, S) \in Nat /\ plus \in Nat
    BY <1>4, ThoseType DEF Charge
  <2>5. Those(rec'.iterations, S) + One(old, S)
          = Those(rec.iterations, S) + One(Closed(old, o, c), S)
    BY <1>4
  <2> HIDE DEF S, plus
  <2> QED
    BY <1>2, <2>1, <2>3, <2>4, <2>5
<1>5. Settles(l.seq, o, c)
  OBVIOUS
<1> HIDE DEF o, c
<1>6. \/ /\ rec'.iterations = rec.iterations /\ rec'.executions = rec.executions
         /\ rec'.retired = rec.retired /\ ~Retained(l.seq)
      \/ /\ rec'.retired = rec.retired /\ Retained(l.seq)
         /\ \E old \in Iteration :
              /\ old.seq = l.seq /\ old.outcome = "running" /\ old.ticket = l.ticket
              /\ old \in Window(rec)
              /\ Closed(old, o, c) \in Iteration
              /\ \E p \in DOMAIN rec.iterations :
                   /\ rec.iterations[p] = old
                   /\ rec'.iterations = [rec.iterations EXCEPT ![p] = Closed(old, o, c)]
              /\ rec'.executions = CountOutcome(rec.executions, old.exec, o, c)
              /\ \A T : Those(rec'.iterations, T) + One(old, T)
                          = Those(rec.iterations, T) + One(Closed(old, o, c), T)
  BY <1>1, <1>5, SettleCounts DEF SettlesOne
<1>7. CASE Retained(l.seq)
  <2>1. PICK old \in Iteration :
              /\ old.outcome = "running" /\ old.ticket = l.ticket
              /\ Closed(old, o, c) \in Iteration
              /\ \E p \in DOMAIN rec.iterations :
                   rec'.iterations = [rec.iterations EXCEPT ![p] = Closed(old, o, c)]
              /\ \A T : Those(rec'.iterations, T) + One(old, T)
                          = Those(rec.iterations, T) + One(Closed(old, o, c), T)
    BY <1>6, <1>7
  <2>2. rec'.iterations \in Seq(Iteration)
    BY <1>1, <2>1, ExceptSeq
  <2>3. rec'.retired = rec.retired
    BY <1>6
  <2> QED
    BY <1>4, <1>7, <2>1, <2>2, <2>3
<1> QED
  BY <1>3, <1>6, <1>7

\* The window holds every verdict as long as nothing was retired.
LEMMA AllRetained ==
  ASSUME LedgerInv, NEW l \in lanes, Untrimmed
  PROVE  Retained(l.seq)
<1>1. l.seq > 0
  BY DEF LedgerInv, KnownUntilTrouble, LocksInv, SeqsBehind
<1> QED
  BY <1>1 DEF Untrimmed, Retained

LEMMA StepAttempts ==
  ASSUME LedgerInv, AttemptsInv, [Next]_vars
  PROVE  AttemptsInv'
<1> DEFINE V(t)  == Those(rec.iterations, VerdictOn(t))
           W(t)  == Those(rec'.iterations, VerdictOn(t))
           A(t)  == rec.tstate[t].attempts
           B(t)  == rec'.tstate[t].attempts
           whole == used.crashes + used.faults = 0
           fine  == used'.crashes + used'.faults = 0
<1>1. /\ Typed /\ StatusFollows /\ Windowed(rec) /\ WellFormed(rec)
      /\ rec.iterations \in Seq(Iteration)
  <2>1. Typed /\ StatusFollows /\ Windowed(rec) /\ WellFormed(rec)
    BY DEF LedgerInv, KnownUntilTrouble, LocksInv, Typed
  <2> QED
    BY <2>1, WindowNext
<1>2. \A t \in Tickets : V(t) \in Nat /\ A(t) \in Nat
  <2>1. \A t \in Tickets : A(t) \in Nat
    BY <1>1 DEF Typed, TypeOK, LoopRecord, TicketState
  <2> QED
    BY <1>1, <2>1, ThoseType
<1>3. fine => whole /\ used'.crashes = 0 /\ used'.faults = 0
  <2>1. /\ used'.crashes >= used.crashes /\ used'.faults >= used.faults
        /\ used.crashes \in Nat /\ used.faults \in Nat
    BY <1>1, UsedGrows DEF Typed, TypeOK, Counters
  <2>2. used'.crashes \in Nat /\ used'.faults \in Nat
    <3>1. Typed'
      BY <1>1, StepTyped
    <3> QED
      BY <3>1 DEF Typed, TypeOK, Counters
  <2> QED
    BY <2>1, <2>2
<1>4. \A t \in Tickets : (whole => A(t) >= V(t)) /\ (Untrimmed => A(t) <= V(t))
  BY DEF AttemptsInv
<1>5. SUFFICES ASSUME NEW t \in Tickets
               PROVE  (fine => B(t) >= W(t)) /\ (Untrimmed' => B(t) <= W(t))
  BY DEF AttemptsInv
<1>6. CASE Quiet
  <2>1. W(t) = V(t) /\ B(t) = A(t) /\ (Untrimmed' <=> Untrimmed)
    BY <1>6 DEF Quiet, SameBooks, Untrimmed
  <2> QED
    BY <1>3, <1>4, <2>1
<1>7. ASSUME NEW u \in Tickets, Launch(u)
      PROVE  (fine => B(t) >= W(t)) /\ (Untrimmed' => B(t) <= W(t))
  <2>1. One(Opened(rec, u), VerdictOn(t)) = 0
    BY OpenNoVerdict DEF Opened
  <2>2. W(t) \in Nat /\ W(t) <= V(t) + 0 /\ (Untrimmed' => W(t) = V(t) + 0)
    BY <1>1, <1>7, <2>1, LaunchCounts
  <2>3. /\ rec.retired.dispatched \in Nat /\ B(t) = A(t) /\ rec'.retired.dispatched \in Nat
        /\ rec'.retired.dispatched >= rec.retired.dispatched
    BY <1>1, <1>7, LaunchWindow, WindowNext
  <2>4. Untrimmed' => Untrimmed
    BY <2>3 DEF Untrimmed
  <2> HIDE DEF V, W, A, B, fine, whole
  <2> QED
    BY <1>2, <1>3, <1>4, <2>2, <2>3, <2>4
<1>8. ASSUME NEW l \in lanes, NEW raw \in Results, Returns(l, raw)
      PROVE  (fine => B(t) >= W(t)) /\ (Untrimmed' => B(t) <= W(t))
  <2> DEFINE plus == Charge(l, raw)
  <2>1. l \in LiveLanes /\ l.ticket \in Tickets /\ plus \in {0, 1}
    BY <1>1, <1>8, ReturnLeaves DEF LiveLanes, Lane, Charge
  <2>2. \/ Settles(l.seq, Outcome(l, raw), Cost(l, raw))
        \/ UNCHANGED rec /\ LaneRecordFails(l, raw)
    BY <1>1, <1>8, ReturnBooks
  <2>3. /\ t # l.ticket => B(t) = A(t)
        /\ t = l.ticket => \/ B(t) = A(t) + plus
                           \/ ~FinishLane(l, raw) /\ B(t) = A(t)
    <3>1. /\ \A s \in Tickets \ {l.ticket} : B(s) = A(s)
          /\ \/ B(l.ticket) = A(l.ticket) + plus
             \/ ~FinishLane(l, raw) /\ B(l.ticket) = A(l.ticket)
      BY <1>1, <1>8, ReturnBooks
    <3> HIDE DEF B, A, plus
    <3> QED
      BY <3>1
  <2>4. fine => FinishLane(l, raw)
    <3>1. ASSUME fine
          PROVE  ~LaneRecordFails(l, raw) /\ ~CrashMidRecord(l, raw)
      <4>1. used.crashes = 0 /\ used.faults = 0 /\ used'.crashes = 0 /\ used'.faults = 0
        <5>1. used.crashes \in Nat /\ used.faults \in Nat
          BY <1>1 DEF Typed, TypeOK, Counters
        <5> QED
          BY <1>3, <3>1, <5>1
      <4>2. used \in Counters
        BY <1>1 DEF Typed, TypeOK
      <4>3. ~Count("faults")
        BY <4>1, <4>2 DEF Count, Counters
      <4>4. ~Count("crashes")
        BY <4>1, <4>2 DEF Count, Counters
      <4> QED
        BY <4>3, <4>4 DEF LaneRecordFails, CrashMidRecord, Dies
    <3> QED
      BY <1>8, <3>1 DEF Returns
  <2>5. CASE UNCHANGED rec
    BY <1>3, <1>4, <2>5 DEF Untrimmed
  <2>6. CASE Settles(l.seq, Outcome(l, raw), Cost(l, raw))
    <3>1. /\ rec'.retired = rec.retired
          /\ W(t) = V(t) + (IF Retained(l.seq) /\ t = l.ticket THEN plus ELSE 0)
      BY <2>1, <2>6, ReturnVerdicts
    <3>2. /\ Untrimmed' => Untrimmed
          /\ Untrimmed => Retained(l.seq)
      BY <3>1, AllRetained DEF Untrimmed
    <3> HIDE DEF V, W, A, B, fine, whole, plus
    <3> QED
      BY <1>2, <1>3, <1>4, <2>1, <2>3, <2>4, <3>1, <3>2
  <2> QED
    BY <2>2, <2>5, <2>6
<1>9. CASE RestoreIteration
  <2>1. ~fine
    <3>1. used.crashes > 0 /\ UNCHANGED used
      BY <1>9 DEF RestoreIteration, LedgerInv, HostDown
    <3> QED
      BY <1>3, <3>1
  <2>2. /\ rec'.retired = rec.retired /\ rec'.tstate = rec.tstate
        /\ \E i \in OpenIterations : \E x \in Iteration :
              /\ rec.iterations[i] \in Iteration /\ i \in DOMAIN rec.iterations
              /\ x.outcome = "abandoned" /\ x.exec = rec.iterations[i].exec
              /\ x.usd = rec.iterations[i].usd /\ x.ticket = rec.iterations[i].ticket
              /\ rec'.iterations = [rec.iterations EXCEPT ![i] = x]
    BY <1>1, <1>9, RestoreWindow
  <2>3. PICK i \in DOMAIN rec.iterations : \E x \in Iteration :
              /\ rec.iterations[i].outcome = "running" /\ x.outcome = "abandoned"
              /\ rec'.iterations = [rec.iterations EXCEPT ![i] = x]
    BY <2>2 DEF OpenIterations
  <2>4. PICK x \in Iteration :
              /\ rec.iterations[i].outcome = "running" /\ x.outcome = "abandoned"
              /\ rec'.iterations = [rec.iterations EXCEPT ![i] = x]
    BY <2>3
  <2>5. W(t) + One(rec.iterations[i], VerdictOn(t)) = V(t) + One(x, VerdictOn(t))
    BY <1>1, <2>4, ThoseRewrite
  <2>6. One(rec.iterations[i], VerdictOn(t)) = 0 /\ One(x, VerdictOn(t)) = 0
    BY <2>4, OpenNoVerdict
  <2>7. W(t) \in Nat
    <3>1. rec'.iterations \in Seq(Iteration)
      BY <1>1, <2>4, ExceptSeq
    <3> QED
      BY <3>1, ThoseType
  <2>8. W(t) = V(t) /\ B(t) = A(t) /\ (Untrimmed' <=> Untrimmed)
    <3>1. W(t) = V(t)
      <4> HIDE DEF V, W
      <4> QED
        BY <1>2, <2>5, <2>6, <2>7
    <3> QED
      BY <2>2, <3>1 DEF Untrimmed
  <2> QED
    BY <1>4, <2>1, <2>8
<1> QED
  BY <1>1, <1>6, <1>7, <1>8, <1>9, StepShape

LEMMA AttemptsInvariant == Spec => []AttemptsInv
<1>1. Init => AttemptsInv
  <2> SUFFICES ASSUME Init, NEW t \in Tickets
               PROVE  /\ rec.tstate[t].attempts = 0
                      /\ Those(rec.iterations, VerdictOn(t)) = 0
    BY DEF AttemptsInv
  <2>1. rec.iterations = <<>> /\ rec.tstate[t].attempts = 0
    BY DEF Init, NewRecord, UnknownTicket
  <2> QED
    BY <2>1, ThoseNone
<1>2. LedgerInv /\ AttemptsInv /\ [Next]_vars => AttemptsInv'
  BY StepAttempts
<1> QED
  BY <1>1, <1>2, LedgerInvariant, PTL DEF Spec

\* While every lane's record is written whole, a ticket is charged for at least
\* the verdicts the window shows of it, and for no more while it shows them all.
THEOREM AttemptsFollowVerdicts == Spec => []AttemptsMatchVerdicts
<1>1. LedgerInv /\ AttemptsInv => AttemptsMatchVerdicts
  <2> SUFFICES ASSUME LedgerInv, AttemptsInv, used.crashes + used.faults = 0,
                      NEW t \in Tickets
               PROVE  /\ rec.tstate[t].attempts >= Cardinality(Verdicts(t))
                      /\ Untrimmed => rec.tstate[t].attempts = Cardinality(Verdicts(t))
    BY DEF AttemptsMatchVerdicts
  <2>1. Typed
    BY DEF LedgerInv, KnownUntilTrouble, LocksInv, Typed
  <2>2. Cardinality(Verdicts(t)) = Those(rec.iterations, VerdictOn(t))
    BY <2>1, CardVerdicts
  <2>3. rec.tstate[t].attempts \in Nat /\ Those(rec.iterations, VerdictOn(t)) \in Nat
    BY <2>1, ThoseType DEF Typed, TypeOK, LoopRecord, TicketState
  <2> QED
    BY <2>2, <2>3 DEF AttemptsInv
<1> QED
  BY <1>1, AttemptsInvariant, LedgerInvariant, PTL

----------------------------------------------------------------------------
(* The executions' own ledgers *)

Headings  == {"dispatched", "succeeded", "failed", "parked"}
Counts(h) == CASE h = "dispatched" -> Outcomes
               [] h = "failed"     -> {"failed", "abandoned"}
               [] OTHER            -> {h}

\* What closing an open iteration adds to a heading: nothing to the dispatches.
Adds(h, outcome) == IF h # "dispatched" /\ outcome \in Counts(h) THEN 1 ELSE 0

\* What an execution counted and what the window shows of it.
ExecInv == used.crashes = 0 =>
  \A e \in DOMAIN rec.executions, h \in Headings :
    LET counted == rec.executions[e].totals[h]
        shown   == Those(rec.iterations, Under(e, Counts(h)))
    IN  counted >= shown /\ (Untrimmed => counted = shown)

LEMMA HeadingsAre ==
  ASSUME NEW totals \in Totals, NEW h \in Headings
  PROVE  /\ totals[h] \in Nat
         /\ h = "dispatched" => totals[h] = totals.dispatched
         /\ h = "succeeded" => totals[h] = totals.succeeded
         /\ h = "failed" => totals[h] = totals.failed
         /\ h = "parked" => totals[h] = totals.parked
<1>1. /\ totals.succeeded \in Nat /\ totals.failed \in Nat /\ totals.parked \in Nat
      /\ totals.dispatched \in Nat
  BY DEF Totals
<1>2. h \in {"dispatched", "succeeded", "failed", "parked"}
  BY DEF Headings
<1> QED
  BY <1>1, <1>2

LEMMA AppliedCounts ==
  ASSUME NEW totals \in Totals, NEW o \in Outcomes \ {"running"}, NEW usd \in Nat,
         NEW h \in Headings
  PROVE  /\ totals[h] \in Nat
         /\ ApplyExecutionOutcome(totals, o, usd)[h] = totals[h] + Adds(h, o)
<1> DEFINE raised == [totals EXCEPT !.usd = @ + usd]
           new  == ApplyExecutionOutcome(totals, o, usd)
<1>1. /\ raised \in Totals /\ raised.succeeded = totals.succeeded /\ raised.failed = totals.failed
      /\ raised.parked = totals.parked /\ raised.dispatched = totals.dispatched
      /\ raised.streak = totals.streak
  BY DEF Totals
<1>2. /\ totals.succeeded \in Nat /\ totals.failed \in Nat /\ totals.parked \in Nat
      /\ totals.dispatched \in Nat /\ totals.streak \in Nat
  BY DEF Totals
<1>3. /\ new.dispatched = totals.dispatched
      /\ new.succeeded = totals.succeeded + (IF o = "succeeded" THEN 1 ELSE 0)
      /\ new.failed = totals.failed + (IF o \in {"failed", "abandoned"} THEN 1 ELSE 0)
      /\ new.parked = totals.parked + (IF o = "parked" THEN 1 ELSE 0)
  <2>1. CASE o = "succeeded"
    <3>1. new = [raised EXCEPT !.succeeded = raised.succeeded + 1, !.streak = 0]
      BY <2>1 DEF ApplyExecutionOutcome
    <3> HIDE DEF raised, new
    <3> QED
      BY <1>1, <1>2, <2>1, <3>1 DEF Totals
  <2>2. CASE o \in {"failed", "abandoned"}
    <3>1. new = [raised EXCEPT !.failed = raised.failed + 1, !.streak = raised.streak + 1]
      BY <2>2 DEF ApplyExecutionOutcome
    <3> HIDE DEF raised, new
    <3> QED
      BY <1>1, <1>2, <2>2, <3>1 DEF Totals
  <2>3. CASE o = "parked"
    <3>1. new = [raised EXCEPT !.parked = raised.parked + 1]
      BY <2>3 DEF ApplyExecutionOutcome
    <3> HIDE DEF raised, new
    <3> QED
      BY <1>1, <1>2, <2>3, <3>1 DEF Totals
  <2> QED
    BY <2>1, <2>2, <2>3 DEF Outcomes
<1>4. new \in Totals
  BY ApplyExecutionOutcomeType
<1>5. Adds(h, o) = CASE h = "dispatched" -> 0
                     [] h = "succeeded" -> IF o = "succeeded" THEN 1 ELSE 0
                     [] h = "failed" -> IF o \in {"failed", "abandoned"} THEN 1 ELSE 0
                     [] h = "parked" -> IF o = "parked" THEN 1 ELSE 0
  BY DEF Adds, Counts, Headings
<1>6. h \in {"dispatched", "succeeded", "failed", "parked"}
  BY DEF Headings
<1> HIDE DEF new
<1> QED
  <2>1. totals[h] \in Nat
    BY HeadingsAre
  <2>2. CASE h = "dispatched"
    BY <1>2, <1>3, <1>5, <2>2 DEF new
  <2>3. CASE h = "succeeded"
    BY <1>2, <1>3, <1>5, <2>3 DEF new
  <2>4. CASE h = "failed"
    BY <1>2, <1>3, <1>5, <2>4 DEF new
  <2>5. CASE h = "parked"
    BY <1>2, <1>3, <1>5, <2>5 DEF new
  <2> QED
    BY <1>6, <2>1, <2>2, <2>3, <2>4, <2>5

LEMMA ClosedUnder ==
  ASSUME NEW old \in Iteration, old.outcome = "running",
         NEW o \in Outcomes \ {"running"}, NEW c \in Nat, NEW e, NEW h \in Headings
  PROVE  LET S == Under(e, Counts(h))
         IN  /\ One(old, S) \in Nat
             /\ One(Closed(old, o, c), S)
                  = One(old, S) + (IF e = old.exec THEN Adds(h, o) ELSE 0)
<1> DEFINE x == Closed(old, o, c)
<1>1. x \in Iteration /\ x.outcome = o /\ x.exec = old.exec
  BY ClosedType
<1> HIDE DEF x
<1>2. One(old, Under(e, Counts(h))) = IF e = old.exec /\ "running" \in Counts(h) THEN 1 ELSE 0
  BY DEF One, Under
<1>3. One(x, Under(e, Counts(h))) = IF e = old.exec /\ o \in Counts(h) THEN 1 ELSE 0
  BY <1>1 DEF One, Under
<1>4. "running" \in Counts(h) <=> h = "dispatched"
  BY DEF Counts, Headings, Outcomes
<1>5. h = "dispatched" => o \in Counts(h)
  BY DEF Counts
<1> QED
  BY <1>2, <1>3, <1>4, <1>5 DEF Adds, x

LEMMA StepExec ==
  ASSUME LedgerInv, ExecInv, [Next]_vars
  PROVE  ExecInv'
<1> DEFINE its == rec.iterations
           es  == rec.executions
           Shown(e, h) == Those(rec.iterations, Under(e, Counts(h)))
           After(e, h) == Those(rec'.iterations, Under(e, Counts(h)))
           Goal(e, h)  == /\ rec'.executions[e].totals[h] >= After(e, h)
                          /\ Untrimmed' => rec'.executions[e].totals[h] = After(e, h)
<1>1. /\ Typed /\ StatusFollows /\ Windowed(rec) /\ WellFormed(rec) /\ RanBefore
      /\ its \in Seq(Iteration) /\ es \in Seq(Execution) /\ HostDown
  <2>1. Typed /\ StatusFollows /\ Windowed(rec) /\ WellFormed(rec) /\ RanBefore /\ HostDown
    BY DEF LedgerInv, KnownUntilTrouble, LocksInv, Typed
  <2> QED
    BY <2>1, WindowNext DEF WellFormed, LoopRecord
<1>2. \A e \in DOMAIN es, h \in Headings : es[e].totals[h] \in Nat /\ es[e].totals \in Totals
                                            /\ es[e] \in Execution
  <2>1. \A e \in DOMAIN es : es[e] \in Execution
    BY <1>1, ElementOfSeq
  <2>2. \A e \in DOMAIN es : es[e].totals \in Totals
    BY <2>1 DEF Execution
  <2> HIDE DEF es
  <2> QED
    BY <2>1, <2>2, HeadingsAre
<1>3. \A e, h : Shown(e, h) \in Nat
  BY <1>1, ThoseType
<1>4. used'.crashes = 0 => used.crashes = 0
  <2>1. used.crashes \in Nat /\ used'.crashes >= used.crashes
    BY <1>1, UsedGrows DEF Typed, TypeOK, Counters
  <2>2. used'.crashes \in Nat
    <3>1. Typed'
      BY <1>1, StepTyped
    <3> QED
      BY <3>1 DEF Typed, TypeOK, Counters
  <2> QED
    BY <2>1, <2>2
<1>5. SUFFICES ASSUME used'.crashes = 0, NEW e \in DOMAIN rec'.executions, NEW h \in Headings
               PROVE  Goal(e, h)
  BY DEF ExecInv
<1>6. \A d \in DOMAIN es, k \in Headings :
        es[d].totals[k] >= Shown(d, k) /\ (Untrimmed => es[d].totals[k] = Shown(d, k))
  BY <1>4, <1>5 DEF ExecInv
<1>7. CASE Quiet
  <2>1. /\ After(e, h) = Shown(e, h) /\ (Untrimmed' <=> Untrimmed)
        /\ rec'.executions[e].totals = IF e \in DOMAIN es THEN es[e].totals ELSE EmptyTotals
    BY <1>5, <1>7 DEF Quiet, SameBooks, Untrimmed, Accounted
  <2>2. CASE e \in DOMAIN es
    BY <1>6, <2>1, <2>2
  <2>3. CASE e \notin DOMAIN es
    <3>1. e > Len(es)
      <4>1. Typed'
        BY <1>1, StepTyped
      <4>2. rec'.executions \in Seq(Execution)
        BY <4>1 DEF Typed, WellFormed, LoopRecord
      <4> QED
        BY <1>1, <1>5, <2>3, <4>2
    <3>2. \A i \in DOMAIN its : its[i] \notin Under(e, Counts(h))
      <4>1. SUFFICES ASSUME NEW i \in DOMAIN its
                     PROVE  its[i].exec # e
        BY DEF Under
      <4>2. its[i] \in Iteration /\ its[i].exec <= Len(es)
        BY <1>1, <4>1, ElementOfSeq DEF RanBefore, Window
      <4>3. its[i].exec \in Nat /\ Len(es) \in Nat
        BY <1>1, <4>2 DEF Iteration
      <4> QED
        BY <3>1, <4>2, <4>3
    <3>3. Shown(e, h) = 0
      BY <3>2, ThoseNone
    <3>4. rec'.executions[e].totals[h] = 0
      BY <2>1, <2>3 DEF EmptyTotals, Headings
    <3> QED
      BY <2>1, <3>3, <3>4
  <2> QED
    BY <2>2, <2>3
<1>8. ASSUME NEW t \in Tickets, Launch(t)
      PROVE  Goal(e, h)
  <2> DEFINE o  == OpenExecution(es)
             S  == Under(e, Counts(h))
             one == One(Opened(rec, t), S)
  <2>1. After(e, h) \in Nat /\ After(e, h) <= Shown(e, h) + one
        /\ (Untrimmed' => After(e, h) = Shown(e, h) + one)
    BY <1>1, <1>8, LaunchCounts
  <2>2. /\ rec.retired.dispatched \in Nat /\ rec'.retired.dispatched \in Nat
        /\ rec'.retired.dispatched >= rec.retired.dispatched
    BY <1>1, <1>8, LaunchWindow, WindowNext
  <2>3. Untrimmed' => Untrimmed
    BY <2>2 DEF Untrimmed
  <2>4. rec'.executions = CountDispatch(es, o) /\ Opened(rec, t) \in Iteration
    BY <1>1, <1>8, AppendBooks DEF Launch, Typed
  <2>5. o \in Nat /\ (o # 0 => o \in DOMAIN es)
    <3>1. rec \in LoopRecord /\ OnlyNewestOpen(rec)
      BY <1>1 DEF WellFormed
    <3> QED
      BY <3>1, OpenExecutionType
  <2>6. one = IF e = o /\ h = "dispatched" THEN 1 ELSE 0
    <3>1. "running" \in Counts(h) <=> h = "dispatched"
      BY DEF Counts, Headings, Outcomes
    <3> HIDE DEF o
    <3>2. Opened(rec, t).exec = o /\ Opened(rec, t).outcome = "running"
      BY DEF Opened, o
    <3> QED
      BY <2>4, <3>1, <3>2 DEF One, Under
  <2>7. e \in DOMAIN es /\ rec'.executions[e].totals[h] = es[e].totals[h] + one
    <3>1. CASE o = 0
      <4>1. e \in DOMAIN es
        BY <1>5, <2>4, <3>1 DEF CountDispatch
      <4>2. e # 0
        BY <1>1, <4>1
      <4>3. rec'.executions = es
        BY <2>4, <3>1 DEF CountDispatch
      <4> QED
        BY <1>2, <2>6, <3>1, <4>1, <4>2, <4>3
    <3>2. CASE o # 0
      <4>1. o \in DOMAIN es
        BY <2>5, <3>2
      <4> DEFINE x == [es[o] EXCEPT !.totals = [es[o].totals EXCEPT
                                                  !.dispatched = es[o].totals.dispatched + 1]]
      <4>2. rec'.executions = [es EXCEPT ![o] = x]
        <5> HIDE DEF o
        <5> QED
          BY <1>2, <2>4, <3>2, <4>1 DEF CountDispatch, Execution, Totals
      <4>3. x.totals = [es[o].totals EXCEPT !.dispatched = es[o].totals.dispatched + 1]
        <5>1. es[o] \in Execution
          BY <1>2, <4>1 DEF Headings
        <5> HIDE DEF o
        <5> QED
          BY <5>1 DEF Execution
      <4>4. x.totals[h] = es[o].totals[h] + (IF h = "dispatched" THEN 1 ELSE 0)
        <5>1. es[o].totals \in Totals /\ es[o].totals[h] \in Nat
          BY <1>2, <4>1
        <5> HIDE DEF o, x
        <5> QED
          BY <4>3, <5>1 DEF Totals, Headings
      <4>5. e \in DOMAIN es
        BY <1>5, <4>2
      <4> HIDE DEF x, o
      <4>6. CASE e = o
        BY <2>6, <4>1, <4>2, <4>4, <4>6
      <4>7. CASE e # o
        BY <1>2, <2>6, <4>2, <4>5, <4>7
      <4> QED
        BY <4>5, <4>6, <4>7
    <3> QED
      BY <3>1, <3>2
  <2>8. one \in Nat
    BY <2>6
  <2> HIDE DEF one, Shown, After, S
  <2> QED
    BY <1>2, <1>3, <1>6, <2>1, <2>3, <2>7, <2>8
<1>9. ASSUME NEW l \in lanes, NEW raw \in Results, Returns(l, raw)
      PROVE  Goal(e, h)
  <2> DEFINE o == Outcome(l, raw)
             c == Cost(l, raw)
             S == Under(e, Counts(h))
  <2>1. l \in LiveLanes /\ o \in Outcomes \ {"running"} /\ c \in Nat
    BY <1>1, <1>9, ReturnLeaves, OutcomeEnds DEF LiveLanes, Cost, Lane
  <2>2. CASE UNCHANGED rec
    BY <1>5, <1>6, <2>2 DEF Untrimmed
  <2>3. CASE Settles(l.seq, o, c)
    <3> HIDE DEF o, c
    <3>1. \/ /\ rec'.iterations = rec.iterations /\ rec'.executions = rec.executions
             /\ rec'.retired = rec.retired
          \/ /\ rec'.retired = rec.retired
             /\ \E old \in Iteration :
                  /\ old.outcome = "running"
                  /\ rec'.executions = CountOutcome(rec.executions, old.exec, o, c)
                  /\ \A T : Those(rec'.iterations, T) + One(old, T)
                              = Those(rec.iterations, T) + One(Closed(old, o, c), T)
                  /\ \E p \in DOMAIN rec.iterations :
                        rec'.iterations = [rec.iterations EXCEPT ![p] = Closed(old, o, c)]
      <4>1. SettlesOne(l, o, c)
        BY <2>1, <2>3, SettleCounts
      <4> QED
        BY <4>1 DEF SettlesOne
    <3>2. CASE UNCHANGED <<rec.iterations, rec.executions, rec.retired>>
      BY <1>5, <1>6, <3>2 DEF Untrimmed
    <3>3. ASSUME NEW old \in Iteration, old.outcome = "running", rec'.retired = rec.retired,
                 rec'.executions = CountOutcome(rec.executions, old.exec, o, c),
                 \A T : Those(rec'.iterations, T) + One(old, T)
                          = Those(rec.iterations, T) + One(Closed(old, o, c), T),
                 NEW p \in DOMAIN rec.iterations,
                 rec'.iterations = [rec.iterations EXCEPT ![p] = Closed(old, o, c)]
          PROVE  Goal(e, h)
      <4> DEFINE plus == IF e = old.exec THEN Adds(h, o) ELSE 0
      <4>1. /\ One(old, S) \in Nat /\ plus \in Nat
            /\ One(Closed(old, o, c), S) = One(old, S) + plus
        BY <2>1, <3>3, ClosedUnder DEF Adds
      <4>2. After(e, h) + One(old, S) = Shown(e, h) + One(Closed(old, o, c), S)
        BY <3>3
      <4>3. After(e, h) \in Nat
        <5>1. Closed(old, o, c) \in Iteration
          BY <2>1, <3>3, ClosedType
        <5>2. rec'.iterations \in Seq(Iteration)
          BY <1>1, <3>3, <5>1, ExceptSeq
        <5> QED
          BY <5>2, ThoseType
      <4>4. old.exec \in Nat
        BY <3>3 DEF Iteration
      <4>5. e \in DOMAIN es
        BY <1>1, <1>5, <2>1, <3>3, <4>4, CountOutcomeKeeps
      <4>6. rec'.executions[e].totals[h] = es[e].totals[h] + plus
        <5>1. CASE e = old.exec
          <6>1. rec'.executions[e].totals = ApplyExecutionOutcome(es[e].totals, o, c)
            <7>1. es[e] \in Execution
              BY <1>2, <4>5
            <7> HIDE DEF es
            <7> QED
              BY <3>3, <4>5, <5>1, <7>1 DEF CountOutcome, Execution, es
          <6>2. es[e].totals \in Totals
            BY <1>2, <4>5
          <6> QED
            BY <2>1, <5>1, <6>1, <6>2, AppliedCounts
        <5>2. CASE e # old.exec
          <6>1. rec'.executions[e] = es[e]
            BY <3>3, <4>5, <5>2 DEF CountOutcome
          <6>2. es[e].totals[h] \in Nat
            BY <1>2, <4>5
          <6> QED
            BY <5>2, <6>1, <6>2
        <5> QED
          BY <5>1, <5>2
      <4>7. Untrimmed' <=> Untrimmed
        BY <3>3 DEF Untrimmed
      <4> DEFINE was == One(old, S)
                 is  == One(Closed(old, o, c), S)
      <4>8. /\ was \in Nat /\ is = was + plus /\ After(e, h) + was = Shown(e, h) + is
            /\ plus \in Nat
        BY <4>1, <4>2
      <4> HIDE DEF was, is, plus, Shown, After
      <4>9. After(e, h) = Shown(e, h) + plus
        BY <1>3, <4>3, <4>8
      <4> QED
        BY <1>2, <1>3, <1>6, <4>5, <4>6, <4>7, <4>8, <4>9
    <3> QED
      BY <3>1, <3>2, <3>3
  <2> QED
    BY <1>1, <1>9, <2>2, <2>3, ReturnBooks
<1>10. CASE RestoreIteration
  <2>1. used.crashes > 0 /\ UNCHANGED used
    BY <1>1, <1>10 DEF RestoreIteration, HostDown
  <2> QED
    BY <1>5, <2>1
<1> QED
  BY <1>1, <1>7, <1>8, <1>9, <1>10, StepShape

LEMMA ExecInvariant == Spec => []ExecInv
<1>1. Init => ExecInv
  BY DEF Init, ExecInv, NewRecord
<1>2. LedgerInv /\ ExecInv /\ [Next]_vars => ExecInv'
  BY StepExec
<1> QED
  BY <1>1, <1>2, LedgerInvariant, PTL DEF Spec

\* In whatever order lanes return, what each execution counted for itself is
\* what the window shows of it and what has aged out: exactly the window as long
\* as nothing was retired, while the host lives.
THEOREM ExecutionLedgersFollow == Spec => []ExecutionLedgersAddUp
<1>1. LedgerInv /\ ExecInv => ExecutionLedgersAddUp
  <2> SUFFICES ASSUME LedgerInv, ExecInv, used.crashes = 0
               PROVE  ExecutionLedgersHold
    BY DEF ExecutionLedgersAddUp
  <2>1. rec.iterations \in Seq(Iteration)
    BY WindowNext DEF LedgerInv, KnownUntilTrouble, LocksInv, Typed
  <2>2. \A e \in DOMAIN rec.executions, h \in Headings :
          /\ rec.executions[e].totals[h] >= RanUnder(e, Counts(h))
          /\ Untrimmed => rec.executions[e].totals[h] = RanUnder(e, Counts(h))
    BY <2>1, UnderAre DEF ExecInv, RanUnder
  <2>3. /\ Counts("dispatched") = Outcomes /\ Counts("succeeded") = {"succeeded"}
        /\ Counts("failed") = {"failed", "abandoned"} /\ Counts("parked") = {"parked"}
    BY DEF Counts
  <2>4. ASSUME NEW e \in DOMAIN rec.executions
        PROVE  LET totals == rec.executions[e].totals
               IN  \A counted \in {<<totals.dispatched, Outcomes>>,
                                    <<totals.succeeded, {"succeeded"}>>,
                                    <<totals.failed, {"failed", "abandoned"}>>,
                                    <<totals.parked, {"parked"}>>} :
                     /\ counted[1] >= RanUnder(e, counted[2])
                     /\ Untrimmed => counted[1] = RanUnder(e, counted[2])
    <3> DEFINE totals == rec.executions[e].totals
               Fits(n, S) == n >= RanUnder(e, S) /\ (Untrimmed => n = RanUnder(e, S))
    <3>1. /\ Fits(totals.dispatched, Outcomes) /\ Fits(totals.succeeded, {"succeeded"})
          /\ Fits(totals.failed, {"failed", "abandoned"}) /\ Fits(totals.parked, {"parked"})
      BY <2>2, <2>3, <2>4 DEF Headings
    <3>2. ASSUME NEW counted \in {<<totals.dispatched, Outcomes>>,
                                   <<totals.succeeded, {"succeeded"}>>,
                                   <<totals.failed, {"failed", "abandoned"}>>,
                                   <<totals.parked, {"parked"}>>}
          PROVE  Fits(counted[1], counted[2])
      <4>1. CASE counted = <<totals.dispatched, Outcomes>>
        BY <3>1, <4>1
      <4>2. CASE counted = <<totals.succeeded, {"succeeded"}>>
        BY <3>1, <4>2
      <4>3. CASE counted = <<totals.failed, {"failed", "abandoned"}>>
        BY <3>1, <4>3
      <4>4. CASE counted = <<totals.parked, {"parked"}>>
        BY <3>1, <4>4
      <4> QED
        BY <3>2, <4>1, <4>2, <4>3, <4>4
    <3> QED
      BY <3>2
  <2> QED
    BY <2>4 DEF ExecutionLedgersHold
<1> QED
  BY <1>1, LedgerInvariant, ExecInvariant, PTL

----------------------------------------------------------------------------
(* Spend *)

\* A lane whose iteration aged out of the window was retired open; what the
\* record and the running lanes spent is what the lanes really spent, and a pass
\* launches only below the ceiling.
KeptInWindow == Unended(rec.retired) = 0 => \A l \in LiveLanes : Retained(l.seq)

Unspent == \A t \in Tickets : (\A l \in lanes : l.ticket # t) => liveUsd[t] = 0

SpendInv ==
  /\ KeptInWindow
  /\ SpendKept =>
       /\ paid = TotalsOf(rec).usd + LiveSpend
       /\ Unspent
       /\ \A l \in lanes : liveUsd[l.ticket] = l.spent
       /\ pc = "launch" /\ MaxUsd # NoCeiling => paid < MaxUsd

LEMMA UnendedNat ==
  ASSUME NEW r, WellFormed(r), Windowed(r)
  PROVE  Unended(r.retired) \in Nat
<1> DEFINE n == r.retired.dispatched
           s == r.retired.succeeded
           f == r.retired.failed
           p == r.retired.parked
<1>1. n \in Nat /\ s \in Nat /\ f \in Nat /\ p \in Nat /\ s + f + p <= n
  <2>1. r.retired \in Totals
    BY DEF WellFormed, LoopRecord
  <2> QED
    BY <2>1 DEF Totals, Windowed
<1>2. Unended(r.retired) = n - (s + f + p)
  BY DEF Unended
<1> HIDE DEF n, s, f, p
<1> QED
  BY <1>1, <1>2

LEMMA UsdOf ==
  ASSUME NEW r, WellFormed(r)
  PROVE  /\ TotalsOf(r).usd = Spent(r.iterations) + r.retired.usd
         /\ Spent(r.iterations) \in Nat /\ r.retired.usd \in Nat /\ TotalsOf(r).usd \in Nat
<1>1. r.iterations \in Seq(Iteration) /\ r.retired \in Totals
  BY DEF WellFormed, LoopRecord
<1>2. Spent(r.iterations) \in Nat /\ r.retired.usd \in Nat
  BY <1>1, SpentType DEF Totals
<1>3. TotalsOf(r).usd = Spent(r.iterations) + r.retired.usd
  BY TotalsAre
<1> QED
  BY <1>2, <1>3

\* A launch moves no money, and an iteration it retires while its lane still runs
\* is retired open.
LEMMA LaunchMoney ==
  ASSUME LedgerInv, NEW t \in Tickets, Launch(t)
  PROVE  /\ TotalsOf(rec').usd = TotalsOf(rec).usd
         /\ Unended(rec'.retired) >= Unended(rec.retired)
         /\ NextSeq(rec) > rec'.retired.dispatched
         /\ \A l \in LiveLanes : Retained(l.seq) /\ ~(l.seq > rec'.retired.dispatched)
              => Unended(rec'.retired) # 0
<1> DEFINE its == rec.iterations
           new == rec'.iterations
           x   == Opened(rec, t)
           longer == Append(its, x)
           ret  == rec.retired
           ret2 == rec'.retired
           d   == rec.retired.dispatched
<1>1. /\ WellFormed(rec) /\ rec' = AppendIteration(rec, t) /\ ret \in Totals
      /\ Windowed(rec) /\ Typed /\ StatusFollows /\ LanesOpen
  BY DEF LedgerInv, KnownUntilTrouble, LocksInv, Typed, WellFormed, LoopRecord, Launch
<1>2. its \in Seq(Iteration) /\ d \in Nat /\ NextSeq(rec) = d + Len(its) + 1 /\ Len(its) \in Nat
  BY <1>1, WindowNext
<1>3. /\ x \in Iteration /\ longer \in Seq(Iteration) /\ Len(longer) = Len(its) + 1
      /\ \A i \in DOMAIN its : longer[i] = its[i]
      /\ \/ new = longer /\ ret2 = ret
         \/ /\ new \in Seq(Iteration)
            /\ Len(new) + 1 = Len(longer) /\ Len(its) > 0
            /\ \A i \in 1 .. Len(new) : new[i] = longer[i + 1]
            /\ ret2 = AddTotals(ret, FoldIterations(SubSeq(longer, 1, 1)))
  BY <1>1, AppendBooks
<1>4. WellFormed(rec')
  BY <1>1, AppendIterationKeeps
<1>5. /\ TotalsOf(rec).usd = Spent(its) + ret.usd
      /\ TotalsOf(rec').usd = Spent(new) + ret2.usd
      /\ Spent(its) \in Nat /\ ret.usd \in Nat /\ Spent(new) \in Nat
  BY <1>1, <1>4, UsdOf
<1>6. Spent(longer) = Spent(its)
  <2>1. Spent(longer) = Spent(its) + x.usd
    BY <1>2, <1>3, SpentAppend
  <2>2. x.usd = 0
    BY DEF Opened
  <2> QED
    BY <1>5, <2>1, <2>2
<1>7. Unended(ret) \in Nat
  BY <1>1, UnendedNat
<1>8. CASE new = longer /\ ret2 = ret
  <2>1. TotalsOf(rec').usd = TotalsOf(rec).usd
    BY <1>5, <1>6, <1>8
  <2>2. NextSeq(rec) > ret2.dispatched
    BY <1>2, <1>8
  <2> QED
    BY <1>7, <1>8, <2>1, <2>2 DEF Retained
<1>9. CASE new \in Seq(Iteration) /\ Len(new) + 1 = Len(longer) /\ Len(its) > 0
           /\ (\A i \in 1 .. Len(new) : new[i] = longer[i + 1])
           /\ ret2 = AddTotals(ret, FoldIterations(SubSeq(longer, 1, 1)))
  <2> DEFINE y == longer[1]
             s == One(y, Ending({"succeeded"}))
             f == One(y, Ending({"failed", "abandoned"}))
             p == One(y, Ending({"parked"}))
  <2>1. longer # <<>> /\ 1 \in DOMAIN its /\ y = its[1]
    <3>1. 1 \in DOMAIN its
      BY <1>2, <1>9
    <3> QED
      BY <1>2, <1>3, <3>1
  <2>2. y \in Iteration /\ y \in Window(rec) /\ y.seq = d + 1
    BY <1>1, <1>2, <2>1, ElementOfSeq DEF Window, Windowed
  <2>3. /\ ret2.dispatched = ret.dispatched + 1
        /\ ret2.succeeded = ret.succeeded + s /\ ret2.failed = ret.failed + f
        /\ ret2.parked = ret.parked + p /\ ret2.usd = ret.usd + y.usd
    <3> HIDE DEF longer, ret, ret2
    <3> QED
      BY <1>1, <1>3, <1>9, <2>1, RetireOne
  <2>4. Spent(new) + y.usd = Spent(longer)
    BY <1>3, <1>9, SpentDrop
  <2>5. /\ s \in {0, 1} /\ f \in {0, 1} /\ p \in {0, 1} /\ s + f + p <= 1
        /\ y.outcome = "running" => s + f + p = 0
    BY DEF One, Ending
  <2>6. TotalsOf(rec').usd = TotalsOf(rec).usd
    <3>1. y.usd \in Nat
      BY <2>2 DEF Iteration
    <3> HIDE DEF y, new, longer, its, ret, ret2
    <3> QED
      BY <1>5, <1>6, <2>3, <2>4, <3>1
  <2>7. Unended(ret2) = Unended(ret) + (1 - (s + f + p))
    <3> DEFINE a == ret.dispatched
               b == ret.succeeded
               c == ret.failed
               e == ret.parked
    <3>1. a \in Nat /\ b \in Nat /\ c \in Nat /\ e \in Nat
      BY <1>1 DEF Totals
    <3>2. Unended(ret) = a - (b + c + e)
      BY DEF Unended
    <3>3. Unended(ret2) = (a + 1) - ((b + s) + (c + f) + (e + p))
      BY <2>3 DEF Unended
    <3>4. s \in Nat /\ f \in Nat /\ p \in Nat
      BY <2>5
    <3> DEFINE u == Unended(ret)
               v == Unended(ret2)
    <3>5. u = a - (b + c + e) /\ v = (a + 1) - ((b + s) + (c + f) + (e + p))
      BY <3>2, <3>3
    <3> HIDE DEF a, b, c, e, s, f, p, u, v
    <3>6. v = u + (1 - (s + f + p))
      BY <3>1, <3>4, <3>5
    <3> QED
      BY <3>6 DEF u, v
  <2>8. ASSUME NEW l \in LiveLanes, Retained(l.seq), ~(l.seq > ret2.dispatched)
        PROVE  Unended(ret2) # 0
    <3>1. l.seq = d + 1
      <4>1. l.seq \in Nat
        BY <1>1 DEF Typed, TypeOK, Lane, LiveLanes
      <4>2. ret2.dispatched = d + 1 /\ l.seq > d
        BY <2>3, <2>8 DEF Retained
      <4> HIDE DEF d, ret2
      <4> QED
        BY <1>2, <2>8, <4>1, <4>2
    <3>2. y.outcome = "running"
      <4> HIDE DEF y
      <4> QED
        BY <1>1, <2>2, <3>1 DEF LanesOpen
    <3> HIDE DEF s, f, p, y, ret, ret2
    <3> QED
      BY <1>7, <2>5, <2>7, <3>2
  <2>9. NextSeq(rec) > ret2.dispatched
    <3> HIDE DEF ret2
    <3> QED
      BY <1>2, <1>9, <2>3
  <2>10. Unended(ret2) >= Unended(ret)
    <3> HIDE DEF s, f, p, y, ret, ret2
    <3> QED
      BY <1>7, <2>5, <2>7
  <2> QED
    BY <2>6, <2>8, <2>9, <2>10
<1> QED
  BY <1>3, <1>8, <1>9

\* What was retired is touched by a launch only.
LEMMA RetiredStays ==
  ASSUME LedgerInv, [Next]_vars, \A t \in Tickets : ~Launch(t)
  PROVE  rec'.retired = rec.retired
<1>1. Typed /\ Windowed(rec) /\ StatusFollows
  BY DEF LedgerInv, KnownUntilTrouble, LocksInv, Typed
<1>2. CASE Quiet
  BY <1>2 DEF Quiet, SameBooks
<1>3. ASSUME NEW l \in lanes, NEW raw \in Results, Returns(l, raw)
      PROVE  rec'.retired = rec.retired
  BY <1>1, <1>3, ReturnBooks DEF Settles, ClosedIn
<1>4. CASE RestoreIteration
  BY <1>1, <1>4, RestoreWindow
<1> QED
  BY <1>1, <1>2, <1>3, <1>4, StepShape

LEMMA StepKeptInWindow ==
  ASSUME LedgerInv, KeptInWindow, [Next]_vars
  PROVE  KeptInWindow' /\ Unended(rec'.retired) >= Unended(rec.retired)
<1>1. Typed /\ Windowed(rec) /\ StatusFollows /\ WellFormed(rec)
  BY DEF LedgerInv, KnownUntilTrouble, LocksInv, Typed
<1>2. Unended(rec.retired) \in Nat
  BY <1>1, UnendedNat
<1>3. CASE \A t \in Tickets : ~Launch(t)
  <2>1. rec'.retired = rec.retired
    BY <1>3, RetiredStays
  <2>2. \A m \in LiveLanes' : \E l \in LiveLanes : m.seq = l.seq
    BY <1>1, <1>3, OthersCarry DEF LanesCarry, SameLane, LiveLanes
  <2> QED
    BY <1>2, <2>1, <2>2 DEF KeptInWindow, Retained
<1>4. ASSUME NEW t \in Tickets, Launch(t)
      PROVE  KeptInWindow' /\ Unended(rec'.retired) >= Unended(rec.retired)
  <2> DEFINE new == [seq |-> NextSeq(rec), ticket |-> t, terr |-> TerritoryOf(t),
                     cycle |-> used.starts, aborted |-> FALSE, spent |-> 0, live |-> TRUE]
  <2>1. lanes' = lanes \cup {new} /\ new.seq = NextSeq(rec)
    BY <1>4 DEF Launch
  <2> HIDE DEF new
  <2>2. /\ Unended(rec'.retired) >= Unended(rec.retired)
        /\ NextSeq(rec) > rec'.retired.dispatched
        /\ \A l \in LiveLanes : Retained(l.seq) /\ ~(l.seq > rec'.retired.dispatched)
              => Unended(rec'.retired) # 0
    BY <1>4, LaunchMoney
  <2>3. Unended(rec'.retired) = 0 => Unended(rec.retired) = 0
    <3>1. Unended(rec'.retired) \in Nat
      <4>1. WellFormed(rec') /\ Windowed(rec')
        BY <1>1, StepTyped, StepWindow DEF Typed
      <4> QED
        BY <4>1, UnendedNat
    <3> QED
      BY <1>2, <2>2, <3>1
  <2>4. KeptInWindow'
    <3> SUFFICES ASSUME Unended(rec'.retired) = 0, NEW l \in lanes', l.live
                 PROVE  l.seq > rec'.retired.dispatched
      BY DEF KeptInWindow, LiveLanes, Retained
    <3>1. CASE l = new
      BY <2>1, <2>2, <3>1
    <3>2. CASE l \in lanes
      BY <2>2, <2>3, <3>2 DEF KeptInWindow, LiveLanes
    <3> QED
      BY <2>1, <3>1, <3>2
  <2> QED
    BY <2>2, <2>4
<1> QED
  BY <1>3, <1>4

LEMMA SpendKeptStays ==
  ASSUME LedgerInv, KeptInWindow, [Next]_vars, SpendKept'
  PROVE  SpendKept /\ Untroubled' /\ Untroubled /\ used'.crashes = 0
<1>1. Typed /\ Windowed(rec) /\ StatusFollows /\ WellFormed(rec)
  BY DEF LedgerInv, KnownUntilTrouble, LocksInv, Typed
<1>2. Untroubled' /\ used'.crashes = 0 /\ Unended(rec'.retired) = 0
      /\ \A res \in Results : ~res.threw
  BY DEF SpendKept
<1>3. Untroubled
  BY <1>1, <1>2, TroubleStays
<1>4. used.crashes = 0
  <2>1. used.crashes \in Nat /\ used'.crashes >= used.crashes
    BY <1>1, UsedGrows DEF Typed, TypeOK, Counters
  <2> QED
    BY <1>2, <2>1
<1>5. Unended(rec.retired) = 0
  <2>1. Unended(rec.retired) \in Nat /\ Unended(rec'.retired) >= Unended(rec.retired)
    BY <1>1, UnendedNat, StepKeptInWindow
  <2> QED
    BY <1>2, <2>1
<1> QED
  BY <1>2, <1>3, <1>4, <1>5 DEF SpendKept

\* Steps that cost nothing: a pass, an edit, a pause, a stop, the end of a cycle
\* that has no lane left.
Free ==
  /\ Quiet /\ UNCHANGED paid
  /\ liveUsd' = liveUsd \/ (lanes = {} /\ liveUsd' = [t \in Tickets |-> 0])
  /\ \A m \in lanes' : \E l \in lanes : m.ticket = l.ticket /\ m.spent = l.spent
  /\ \A l \in lanes : \E m \in lanes' : m.ticket = l.ticket
  /\ pc' = "launch" => pc = "launch" \/ CycleDispatches

LEMMA SpendShape ==
  ASSUME LedgerInv, Untroubled, Untroubled', used'.crashes = 0, [Next]_vars
  PROVE  \/ \E t \in Tickets : Launch(t)
         \/ \E l \in lanes : \E raw \in Results : FinishLane(l, raw)
         \/ \E l \in lanes : Spend(l)
         \/ Free
<1>1. /\ Typed /\ Windowed(rec) /\ StatusFollows /\ WellFormed(rec) /\ LanesKnown /\ Known
      /\ HostDown /\ used \in Counters
  BY DEF LedgerInv, KnownUntilTrouble, LocksInv, Typed, Known, TypeOK
<1>2. SUFFICES ASSUME \A t \in Tickets : ~Launch(t)
               PROVE  \/ \E l \in lanes : \E raw \in Results : FinishLane(l, raw)
                      \/ \E l \in lanes : Spend(l)
                      \/ Free
  OBVIOUS
<1>3. CASE Cycle
  <2>1. Quiet /\ LanesKnown'
    BY <1>1, <1>2, <1>3, CycleQuiet, CycleKnown
  <2>2. CASE CycleBreaks \/ CycleHitsCeiling \/ CycleWaits \/ CycleResumes \/ CycleDispatches
    <3>1. UNCHANGED <<lanes, liveUsd, paid>>
      BY <2>2 DEF CycleBreaks, CycleHitsCeiling, CycleWaits, CycleResumes, CycleDispatches
    <3>2. pc' = "launch" => CycleDispatches
      BY <2>2 DEF CycleBreaks, CycleHitsCeiling, CycleWaits, CycleResumes, AwaitLanes,
                  Passing, Unaborted
    <3> QED
      BY <2>1, <3>1, <3>2 DEF Free
  <2>3. ASSUME NEW r, EndCycle(r)
        PROVE  Free
    <3>1. /\ pc' = "idle" /\ lanes' = {l \in lanes : l.live} /\ UNCHANGED paid
          /\ liveUsd' = [t \in Tickets |-> 0]
      BY <2>3 DEF EndCycle
    <3>2. lanes' = {} /\ lanes' = lanes
      BY <1>1, <2>1, <3>1 DEF LanesKnown, Running
    <3> QED
      BY <2>1, <3>1, <3>2 DEF Free
  <2> QED
    BY <1>2, <1>3, <2>2, <2>3
       DEF Cycle, CycleDrained, CycleBlocked, CycleFails, CeilingSettles, DrainEnds, LaunchFails
<1>4. CASE UserStep
  <2>1. Quiet
    BY <1>1, <1>4, UserQuiet
  <2>2. CASE Start
    <3>1. lanes = {}
      BY <1>1, <2>2 DEF Start, LanesKnown, Running
    <3> QED
      BY <2>1, <2>2, <3>1 DEF Start, Free
  <2>3. CASE Stop
    <3> DEFINE cut(l) == [l EXCEPT !.aborted = @ \/ (Running /\ l.cycle = used.starts)]
    <3>1. lanes' = {cut(l) : l \in lanes} /\ UNCHANGED <<liveUsd, paid, pc>> /\ pc \in Await
      BY <2>3 DEF Stop
    <3>2. \A l \in lanes : cut(l).ticket = l.ticket /\ cut(l).spent = l.spent
      BY <1>1 DEF Typed, TypeOK, Lane
    <3> HIDE DEF cut
    <3> QED
      BY <2>1, <3>1, <3>2 DEF Free
  <2>4. CASE Pause \/ ClockRunsOut \/ \E t \in Tickets : ReleasePark(t) \/ UserSetsStatus(t) \/ Resize(t)
    <3>1. UNCHANGED <<lanes, liveUsd, paid, pc>>
      BY <2>4 DEF Pause, ClockRunsOut, ReleasePark, UserSetsStatus, Resize, memory
    <3> QED
      BY <2>1, <3>1 DEF Free
  <2> QED
    BY <1>4, <2>2, <2>3, <2>4 DEF UserStep
<1>5. CASE Wake \/ UNCHANGED vars
  <2>1. UNCHANGED <<lanes, liveUsd, paid, pc>> /\ Quiet
    BY <1>1, <1>5, UntouchedQuiet DEF Wake, vars
  <2> QED
    BY <2>1 DEF Free
<1>6. CASE HostStep
  <2>1. ~Crash /\ \A l \in lanes : \A raw \in Results : ~CrashMidRecord(l, raw)
    BY <1>1 DEF Crash, CrashMidRecord, Dies, Count, Counters
  <2>2. ~Restart /\ ~RestoreIteration /\ ~RestoreStatus
    <3>1. UNCHANGED used /\ pc \in {"down", "restoring"} => FALSE
      BY <1>1 DEF HostDown, Counters
    <3> QED
      BY <3>1 DEF Restart, RestoreIteration, RestoreStatus
  <2> QED
    BY <1>6, <2>1, <2>2 DEF HostStep
<1>7. ASSUME NEW l \in lanes, LaneStep(l)
      PROVE  \/ \E m \in lanes : \E raw \in Results : FinishLane(m, raw)
             \/ \E m \in lanes : Spend(m)
             \/ Free
  <2>1. \A raw \in Results : ~LaneRecordFails(l, raw)
    BY <1>1 DEF LaneRecordFails, Count, Untroubled, Counters
  <2>2. CASE LaneMovesTicket(l)
    <3>1. UNCHANGED <<lanes, liveUsd, paid, pc>> /\ Quiet
      BY <1>1, <2>2, UntouchedQuiet DEF LaneMovesTicket, memory
    <3> QED
      BY <3>1 DEF Free
  <2> QED
    BY <1>7, <2>1, <2>2 DEF LaneStep
<1> QED
  BY <1>2, <1>3, <1>4, <1>5, <1>6, <1>7 DEF Next

LEMMA LiveIsCoins ==
  ASSUME Typed
  PROVE  /\ LiveSpend = Coins(Tickets, liveUsd) /\ LiveSpend \in Nat
         /\ IsFiniteSet(Tickets) /\ \A t \in Tickets : liveUsd[t] \in Nat
<1>1. IsFiniteSet(Tickets) /\ \A t \in Tickets : liveUsd[t] \in Nat
  BY DEF LoopAssumption, Typed, TypeOK
<1>2. LiveSpend = Coins(Tickets, liveUsd)
  BY DEF LiveSpend, Coins, Heap
<1> QED
  BY <1>1, <1>2, HeapFinite

LEMMA StepSpend ==
  ASSUME LedgerInv, SpendInv, [Next]_vars
  PROVE  SpendInv'
<1> DEFINE T  == TotalsOf(rec).usd
           T2 == TotalsOf(rec').usd
           L  == Coins(Tickets, liveUsd)
           L2 == Coins(Tickets, liveUsd')
           Books == /\ paid' = T2 + L2
                    /\ Unspent'
                    /\ \A l \in lanes' : liveUsd'[l.ticket] = l.spent
                    /\ pc' = "launch" /\ MaxUsd # NoCeiling => paid' < MaxUsd
<1>1. KeptInWindow /\ KeptInWindow'
  BY StepKeptInWindow DEF SpendInv
<1>2. SUFFICES ASSUME SpendKept'
               PROVE  Books
  BY <1>1 DEF SpendInv, LiveSpend, Coins, Heap
<1>3. SpendKept /\ Untroubled' /\ Untroubled /\ used'.crashes = 0
  BY <1>1, <1>2, SpendKeptStays
<1>4. /\ Typed /\ Typed' /\ WellFormed(rec) /\ WellFormed(rec') /\ StatusFollows
      /\ Windowed(rec) /\ LanesKnown /\ Known /\ OpenUnpaid
  <2>1. Typed /\ WellFormed(rec) /\ StatusFollows /\ Windowed(rec) /\ LanesKnown /\ Known
        /\ OpenUnpaid
    BY <1>3 DEF LedgerInv, KnownUntilTrouble, LocksInv, Typed, Known
  <2>2. Typed'
    BY <2>1, StepTyped
  <2> QED
    BY <2>1, <2>2 DEF Typed
<1>5. LiveSpend = L /\ L \in Nat /\ IsFiniteSet(Tickets) /\ \A t \in Tickets : liveUsd[t] \in Nat
  BY <1>4, LiveIsCoins
<1>6. /\ paid = T + L /\ Unspent
      /\ \A l \in lanes : liveUsd[l.ticket] = l.spent
      /\ pc = "launch" /\ MaxUsd # NoCeiling => paid < MaxUsd
  BY <1>3, <1>5 DEF SpendInv
<1>7. /\ T = Spent(rec.iterations) + rec.retired.usd /\ T \in Nat
      /\ T2 = Spent(rec'.iterations) + rec'.retired.usd /\ T2 \in Nat
      /\ Spent(rec.iterations) \in Nat /\ rec.retired.usd \in Nat
      /\ Spent(rec'.iterations) \in Nat
  BY <1>4, UsdOf
<1>8. liveUsd \in [Tickets -> Nat] /\ \A l \in lanes : l \in Lane /\ l.ticket \in Tickets
  BY <1>4 DEF Typed, TypeOK, Lane
<1>9. CASE Free
  <2>1. T2 = T
    BY <1>7, <1>9 DEF Free, Quiet, SameBooks
  <2>2. liveUsd' = liveUsd
    <3>1. lanes = {} => liveUsd = [t \in Tickets |-> 0]
      BY <1>6, <1>8 DEF Unspent
    <3> QED
      BY <1>9, <3>1 DEF Free
  <2>3. paid' = paid /\ L2 = L
    BY <1>9, <2>2 DEF Free
  <2>4. Unspent'
    BY <1>6, <1>9, <2>2 DEF Free, Unspent
  <2>5. \A m \in lanes' : liveUsd'[m.ticket] = m.spent
    BY <1>6, <1>9, <2>2 DEF Free
  <2>6. pc' = "launch" /\ MaxUsd # NoCeiling => paid' < MaxUsd
    <3>1. CASE pc = "launch"
      BY <1>6, <2>3, <3>1
    <3>2. CASE CycleDispatches /\ MaxUsd # NoCeiling
      <4>1. ~(T + L >= MaxUsd)
        BY <1>5, <3>2 DEF CycleDispatches, Passing, CeilingTripped
      <4>2. MaxUsd \in Nat
        BY <3>2 DEF LoopAssumption
      <4> HIDE DEF T, L
      <4> QED
        BY <1>5, <1>6, <1>7, <2>3, <4>1, <4>2
    <3> QED
      BY <1>9, <3>1, <3>2 DEF Free
  <2> QED
    BY <1>6, <2>1, <2>3, <2>4, <2>5, <2>6
<1>10. ASSUME NEW t \in Tickets, Launch(t)
       PROVE  Books
  <2> DEFINE new == [seq |-> NextSeq(rec), ticket |-> t, terr |-> TerritoryOf(t),
                     cycle |-> used.starts, aborted |-> FALSE, spent |-> 0, live |-> TRUE]
  <2>1. /\ lanes' = lanes \cup {new} /\ new.ticket = t /\ new.spent = 0
        /\ UNCHANGED <<liveUsd, paid>> /\ pc = "launch" /\ t \in todo
    BY <1>10 DEF Launch
  <2> HIDE DEF new
  <2>2. \A l \in lanes : l.ticket # t
    <3> SUFFICES ASSUME NEW l \in lanes, l.ticket = t
                 PROVE  FALSE
      OBVIOUS
    <3>1. l \in InFlight /\ l.terr = TerritoryOf(t)
      BY <1>4, <2>1 DEF LanesKnown, InFlight, Running
    <3>2. ~Conflicts(TerritoryOf(t), l.terr)
      BY <2>1, <1>4, <3>1 DEF Known, LocksInv, TodoClear, ConflictFree, Clear
    <3>3. TerritoryOf(t) # {}
      BY <1>4, TerritoryOfType DEF Typed
    <3> QED
      BY <3>1, <3>2, <3>3 DEF Conflicts
  <2>3. T2 = T
    BY <1>10, LaunchMoney
  <2>4. Unspent'
    BY <1>6, <2>1 DEF Unspent
  <2>5. \A m \in lanes' : liveUsd'[m.ticket] = m.spent
    <3>1. liveUsd[t] = 0
      BY <1>6, <2>2 DEF Unspent
    <3> QED
      BY <1>6, <2>1, <3>1
  <2> QED
    BY <1>6, <2>1, <2>3, <2>4, <2>5
<1>11. ASSUME NEW l \in lanes, NEW raw \in Results, FinishLane(l, raw)
       PROVE  Books
  <2> DEFINE o == Outcome(l, raw)
             c == Cost(l, raw)
             u == l.ticket
  <2>1. /\ l.live /\ pc \in Await /\ l \in LiveLanes
        /\ lanes' = lanes \ {l} /\ liveUsd' = [liveUsd EXCEPT ![u] = 0]
        /\ UNCHANGED <<paid, pc>>
    BY <1>11 DEF FinishLane, LaneReturns, LiveLanes
  <2>2. c = l.spent /\ c \in Nat /\ o \in Outcomes \ {"running"}
    <3>1. ~raw.threw /\ raw \in LaneResult
      BY <1>3 DEF SpendKept, LoopAssumption
    <3>2. FromReceipt(raw).threw = raw.threw
      BY <3>1 DEF FromReceipt, LaneResult
    <3> QED
      BY <1>8, <3>1, <3>2, OutcomeEnds DEF Cost, Lane
  <2>3. Settles(l.seq, o, c)
    <3>1. ~LaneRecordFails(l, raw)
      BY <1>3, <1>4 DEF LaneRecordFails, Count, Untroubled, Typed, TypeOK, Counters
    <3> QED
      BY <1>4, <1>11, <3>1, ReturnBooks DEF Returns
  <2> HIDE DEF o, c
  <2>4. Retained(l.seq)
    BY <1>1, <1>3, <2>1 DEF KeptInWindow, SpendKept
  <2>5. T2 = T + c
    <3>1. /\ rec'.retired = rec.retired
          /\ \E old \in Iteration : \E p \in DOMAIN rec.iterations :
               /\ old \in Window(rec) /\ old.outcome = "running"
               /\ Closed(old, o, c) \in Iteration /\ rec.iterations[p] = old
               /\ rec'.iterations = [rec.iterations EXCEPT ![p] = Closed(old, o, c)]
      <4>3. SettlesOne(l, o, c)
        BY <2>1, <2>2, <2>3, SettleCounts
      <4>1. /\ rec'.retired = rec.retired
            /\ \E old \in Iteration :
                 /\ old.outcome = "running" /\ old \in Window(rec)
                 /\ Closed(old, o, c) \in Iteration
                 /\ \E p \in DOMAIN rec.iterations :
                      /\ rec.iterations[p] = old
                      /\ rec'.iterations = [rec.iterations EXCEPT ![p] = Closed(old, o, c)]
        BY <2>4, <4>3 DEF SettlesOne
      <4>2. PICK old \in Iteration :
                 /\ old.outcome = "running" /\ old \in Window(rec)
                 /\ Closed(old, o, c) \in Iteration
                 /\ \E p \in DOMAIN rec.iterations :
                      /\ rec.iterations[p] = old
                      /\ rec'.iterations = [rec.iterations EXCEPT ![p] = Closed(old, o, c)]
        BY <4>1
      <4> QED
        BY <4>1, <4>2
    <3>2. PICK old \in Iteration : \E p \in DOMAIN rec.iterations :
               /\ old \in Window(rec) /\ old.outcome = "running"
               /\ Closed(old, o, c) \in Iteration /\ rec.iterations[p] = old
               /\ rec'.iterations = [rec.iterations EXCEPT ![p] = Closed(old, o, c)]
      BY <3>1
    <3>3. PICK p \in DOMAIN rec.iterations :
               /\ Closed(old, o, c) \in Iteration /\ rec.iterations[p] = old
               /\ rec'.iterations = [rec.iterations EXCEPT ![p] = Closed(old, o, c)]
      BY <3>2
    <3>4. rec.iterations \in Seq(Iteration)
      BY <1>4 DEF WellFormed, LoopRecord
    <3>5. Spent(rec'.iterations) + old.usd = Spent(rec.iterations) + Closed(old, o, c).usd
      BY <3>3, <3>4, SpentRewrite
    <3>6. old.usd = 0 /\ Closed(old, o, c).usd = c
      BY <1>4, <2>2, <3>2, ClosedType DEF OpenUnpaid
    <3>7. Spent(rec'.iterations) = Spent(rec.iterations) + c
      BY <1>7, <3>5, <3>6
    <3> HIDE DEF T, T2
    <3> QED
      BY <1>7, <2>2, <3>1, <3>7
  <2>6. L2 + liveUsd[u] = L + liveUsd'[u]
    <3>1. \A t \in Tickets \ {u} : liveUsd'[t] = liveUsd[t]
      BY <1>8, <2>1
    <3>2. \A t \in Tickets : liveUsd'[t] \in Nat
      BY <1>4 DEF Typed, TypeOK
    <3> QED
      BY <1>5, <1>8, <3>1, <3>2, CoinsChange
  <2>7. liveUsd[u] = c /\ liveUsd'[u] = 0
    BY <1>6, <1>8, <2>1, <2>2
  <2>8. L2 \in Nat
    <3>1. \A t \in Tickets : liveUsd'[t] \in Nat
      BY <1>4 DEF Typed, TypeOK
    <3> QED
      BY <1>5, <3>1, HeapFinite
  <2>9. paid' = T2 + L2
    <3> HIDE DEF T, T2, L, L2
    <3> QED
      BY <1>5, <1>6, <1>7, <2>1, <2>2, <2>5, <2>6, <2>7, <2>8
  <2>10. Unspent'
    BY <1>6, <1>8, <2>1 DEF Unspent
  <2>11. \A m \in lanes' : m.ticket # u /\ m \in lanes
    BY <1>4, <2>1, KnownOneLane DEF LanesKnown, LiveLanes
  <2>12. \A m \in lanes' : liveUsd'[m.ticket] = m.spent
    BY <1>6, <1>8, <2>1, <2>11
  <2> QED
    BY <2>1, <2>9, <2>10, <2>12 DEF Await
<1>12. ASSUME NEW l \in lanes, Spend(l)
       PROVE  Books
  <2> DEFINE u == l.ticket
             x == [l EXCEPT !.spent = l.spent + 1]
  <2>1. /\ l.live /\ pc \in Await /\ l \in LiveLanes
        /\ lanes' = (lanes \ {l}) \cup {x} /\ liveUsd' = [liveUsd EXCEPT ![u] = liveUsd[u] + 1]
        /\ paid' = paid + 1 /\ UNCHANGED <<pc, rec>>
    BY <1>12 DEF Spend, memory, LiveLanes
  <2>2. x.ticket = u /\ x.spent = l.spent + 1
    BY <1>8 DEF Lane
  <2> HIDE DEF x
  <2>3. L2 + liveUsd[u] = L + liveUsd'[u]
    <3>1. \A t \in Tickets \ {u} : liveUsd'[t] = liveUsd[t]
      BY <1>8, <2>1
    <3>2. \A t \in Tickets : liveUsd'[t] \in Nat
      BY <1>4 DEF Typed, TypeOK
    <3> QED
      BY <1>5, <1>8, <3>1, <3>2, CoinsChange
  <2>4. liveUsd'[u] = liveUsd[u] + 1 /\ liveUsd[u] \in Nat
    BY <1>8, <2>1
  <2>5. L2 \in Nat
    <3>1. \A t \in Tickets : liveUsd'[t] \in Nat
      BY <1>4 DEF Typed, TypeOK
    <3> QED
      BY <1>5, <3>1, HeapFinite
  <2>6. paid' = T2 + L2
    <3>1. T2 = T
      BY <2>1
    <3> HIDE DEF T, T2, L, L2
    <3> QED
      BY <1>5, <1>6, <1>7, <2>1, <2>3, <2>4, <2>5, <3>1
  <2>7. Unspent'
    BY <1>6, <1>8, <2>1, <2>2 DEF Unspent
  <2>8. \A m \in lanes \ {l} : m.ticket # u
    BY <1>4, <2>1, KnownOneLane DEF LanesKnown, LiveLanes
  <2>9. \A m \in lanes' : liveUsd'[m.ticket] = m.spent
    BY <1>6, <1>8, <2>1, <2>2, <2>4, <2>8
  <2> QED
    BY <2>1, <2>6, <2>7, <2>9 DEF Await
<1> QED
  BY <1>3, <1>9, <1>10, <1>11, <1>12, SpendShape

\* As long as every lane's spend reaches the record, the record and the running
\* lanes together hold exactly what was spent.
LEMMA SpendInvariant == Spec => []SpendInv
<1>1. Init => SpendInv
  <2> SUFFICES ASSUME Init
               PROVE  SpendInv
    OBVIOUS
  <2>1. /\ lanes = {} /\ pc = "idle" /\ paid = 0 /\ liveUsd = [t \in Tickets |-> 0]
        /\ rec = NewRecord
    BY DEF Init
  <2>2. KeptInWindow
    BY <2>1 DEF KeptInWindow, LiveLanes
  <2>3. LiveSpend = 0
    <3>1. \A t \in Tickets : liveUsd[t] = 0
      BY <2>1
    <3>2. Coins(Tickets, liveUsd) = 0
      BY <3>1, CoinsNone
    <3> QED
      BY <3>2 DEF LiveSpend, Coins, Heap
  <2>4. TotalsOf(rec).usd = 0
    <3>1. WellFormed(rec)
      BY <2>1, NewRecordWellFormed
    <3>2. TotalsOf(rec).usd = Spent(rec.iterations) + rec.retired.usd
      BY <3>1, UsdOf
    <3>3. rec.iterations = <<>> /\ rec.retired.usd = 0
      BY <2>1 DEF NewRecord, EmptyTotals
    <3>4. Spent(rec.iterations) = 0
      <4>1. rec.iterations \in Seq(Iteration) /\ DOMAIN rec.iterations = {}
        BY <3>1, <3>3 DEF WellFormed, LoopRecord
      <4>2. Spent(rec.iterations) = Coins(DOMAIN rec.iterations, Usd(rec.iterations))
        BY <4>1, SpentIsCoins
      <4> QED
        BY <4>1, <4>2, CoinsNone
    <3> QED
      BY <3>2, <3>3, <3>4
  <2> QED
    BY <2>1, <2>2, <2>3, <2>4 DEF SpendInv, Unspent
<1>2. LedgerInv /\ SpendInv /\ [Next]_vars => SpendInv'
  BY StepSpend
<1> QED
  BY <1>1, <1>2, LedgerInvariant, PTL DEF Spec

\* No lane starts once what the lanes really spent is past the ceiling, with any
\* number of lanes running and stopping between the pass and the launch.
THEOREM NoLaunchOverSpend == Spec => NoLaunchPastSpend
<1>1. SpendInv => (\A t \in Tickets :
                     Launched(t) /\ MaxUsd # NoCeiling /\ SpendKept => paid < MaxUsd)
  BY DEF SpendInv, Launched
<1> QED
  BY <1>1, SpendInvariant, PTL DEF NoLaunchPastSpend

----------------------------------------------------------------------------
(* How often a ticket is worked to a verdict: its attempts, one more for    *)
(* each crash, each failed write and each change of a territory, and no     *)
(* more.  A budget is spent by lanes that still run, so the invariant       *)
(* counts them beside the verdicts.  A lane the cycle does not know of, or  *)
(* one that does not hold what its ticket covers now, lets the next pass    *)
(* start a second one; each such lane was paid for by a mishap, and the     *)
(* launch finds no other kind of lane of its ticket.                        *)

----------------------------------------------------------------------------
(* The Map of the cycle *)

\* A lane has a territory, an entry of the Map is the number of a lane of its
\* ticket if it is that of a lane, no entry outlives its cycle, and an await
\* looks at every entry.
MapInv ==
  /\ \A l \in lanes : l.terr # {}
  /\ \A t \in Tickets : inFlight[t] < NextSeq(rec)
  /\ \A l \in lanes : \A t \in Tickets : inFlight[t] = l.seq => l.ticket = t
  /\ ~Running => \A t \in Tickets : inFlight[t] = 0
  /\ pc \in {"waiting", "ceiling", "drain"} =>
       \A t \in Tickets : inFlight[t] # 0 => inFlight[t] \in awaited
  /\ pc = "waiting" => \A l \in lanes :
       l.seq \in awaited => inFlight[l.ticket] \in {0, l.seq}

\* What a step other than a launch does to where the cycle waits.
WaitsOn ==
  \/ pc' = pc /\ awaited' = awaited
  \/ pc' \in {"top", "launch"}
  \/ \A t \in Tickets : inFlight'[t] = 0
  \/ /\ pc' \in {"waiting", "ceiling", "drain"} /\ UNCHANGED <<inFlight, lanes>>
     /\ awaited' = {inFlight[t] : t \in Tickets} \ {0}

LEMMA StepWaitsOn ==
  ASSUME MapInv, [Next]_vars, \A t \in Tickets : ~Launch(t)
  PROVE  WaitsOn
<1>1. ASSUME Forget
      PROVE  WaitsOn
  BY <1>1 DEF Forget, WaitsOn
<1>2. CASE Cycle
  <2>1. CASE CycleBreaks \/ CycleHitsCeiling
    BY <2>1 DEF CycleBreaks, CycleHitsCeiling, AwaitLanes, WaitsOn
  <2>2. CASE CycleWaits
    BY <2>2 DEF CycleWaits, AwaitLanes, WaitsOn
  <2>3. CASE CycleDispatches \/ CycleResumes
    BY <2>3 DEF CycleDispatches, CycleResumes, WaitsOn
  <2>4. CASE CycleDrained \/ CycleBlocked \/ CycleFails \/ CeilingSettles \/ DrainEnds \/ LaunchFails
    BY <1>1, <2>4 DEF CycleDrained, CycleBlocked, CycleFails, CeilingSettles, DrainEnds,
                      LaunchFails, EndCycle
  <2> QED
    BY <1>2, <2>1, <2>2, <2>3, <2>4 DEF Cycle
<1>3. CASE Wake \/ UNCHANGED vars
  BY <1>3 DEF Wake, vars, WaitsOn
<1>4. CASE UserStep
  BY <1>1, <1>4 DEF UserStep, Start, Pause, Stop, ClockRunsOut, ReleasePark, UserSetsStatus,
                    Resize, memory, WaitsOn
<1>5. ASSUME NEW l \in lanes, LaneStep(l)
      PROVE  WaitsOn
  BY <1>5 DEF LaneStep, Spend, LaneMovesTicket, FinishLane, LaneRecordFails, memory, WaitsOn
<1>6. CASE HostStep
  <2>1. CASE Crash \/ \E l \in lanes : \E raw \in Results : CrashMidRecord(l, raw)
    BY <1>1, <2>1 DEF Crash, CrashMidRecord, Dies
  <2>2. CASE Restart \/ RestoreStatus
    BY <2>2 DEF Restart, RestoreStatus, MapInv, Running, WaitsOn
  <2>3. CASE RestoreIteration
    BY <2>3 DEF RestoreIteration, memory, WaitsOn
  <2> QED
    BY <1>6, <2>1, <2>2, <2>3 DEF HostStep
<1> QED
  BY <1>2, <1>3, <1>4, <1>5, <1>6 DEF Next

LEMMA CarriedMap ==
  ASSUME Typed, SeqsBehind, MapInv, LanesCarry, WaitsOn
  PROVE  MapInv'
<1>1. /\ \A l \in lanes : l.ticket \in Tickets /\ l.seq \in Nat /\ l.seq > 0
      /\ \A t \in Tickets : inFlight[t] \in Nat
      /\ NextSeq(rec) \in Nat /\ NextSeq(rec) > 0
  BY NextSeqIsLast DEF Typed, TypeOK, Lane, SeqsBehind, WellFormed
<1>2. /\ NextSeq(rec)' = NextSeq(rec)
      /\ \A a \in lanes' : \E l \in lanes : SameLane(a, l)
      /\ \A t \in Tickets : inFlight'[t] = inFlight[t] \/ inFlight'[t] = 0
  BY DEF LanesCarry
<1>3. \A l \in lanes' : l.terr # {}
  BY <1>2 DEF MapInv, SameLane
<1>4. \A t \in Tickets : inFlight'[t] < NextSeq(rec)'
  BY <1>1, <1>2 DEF MapInv
<1>5. \A a \in lanes' : a.ticket \in Tickets /\ a.seq > 0
  BY <1>1, <1>2 DEF SameLane
<1>6. ASSUME NEW a \in lanes', NEW t \in Tickets, inFlight'[t] = a.seq
      PROVE  a.ticket = t
  <2>1. PICK l \in lanes : SameLane(a, l)
    BY <1>2
  <2>2. inFlight[t] = l.seq
    BY <1>1, <1>2, <1>6, <2>1 DEF SameLane
  <2> QED
    BY <2>1, <2>2 DEF MapInv, SameLane
<1>7. CASE pc' = pc /\ awaited' = awaited
  <2>1. Running' <=> Running
    BY <1>7 DEF Running
  <2>2. ~Running' => \A t \in Tickets : inFlight'[t] = 0
    BY <1>2, <2>1 DEF MapInv
  <2>3. pc' \in {"waiting", "ceiling", "drain"} =>
          \A t \in Tickets : inFlight'[t] # 0 => inFlight'[t] \in awaited'
    BY <1>2, <1>7 DEF MapInv
  <2>4. pc' = "waiting" => \A a \in lanes' :
          a.seq \in awaited' => inFlight'[a.ticket] \in {0, a.seq}
    BY <1>2, <1>5, <1>7 DEF MapInv, SameLane
  <2> QED
    BY <1>3, <1>4, <1>6, <2>2, <2>3, <2>4 DEF MapInv
<1>8. CASE pc' \in {"top", "launch"}
  <2>1. Running' /\ pc' \notin {"waiting", "ceiling", "drain"}
    BY <1>8 DEF Running
  <2> QED
    BY <1>3, <1>4, <1>6, <2>1 DEF MapInv
<1>9. CASE \A t \in Tickets : inFlight'[t] = 0
  BY <1>3, <1>4, <1>5, <1>6, <1>9 DEF MapInv
<1>10. CASE /\ pc' \in {"waiting", "ceiling", "drain"} /\ UNCHANGED <<inFlight, lanes>>
            /\ awaited' = {inFlight[t] : t \in Tickets} \ {0}
  <2>1. Running'
    BY <1>10 DEF Running
  <2>2. \A t \in Tickets : inFlight'[t] # 0 => inFlight'[t] \in awaited'
    BY <1>10
  <2>3. \A a \in lanes' : a.seq \in awaited' => inFlight'[a.ticket] \in {0, a.seq}
    BY <1>10 DEF MapInv
  <2> QED
    BY <1>3, <1>4, <1>6, <2>1, <2>2, <2>3 DEF MapInv
<1> QED
  BY <1>7, <1>8, <1>9, <1>10 DEF WaitsOn

LEMMA LaunchMap ==
  ASSUME Typed, SeqsBehind, MapInv, NEW u \in Tickets, Launch(u)
  PROVE  MapInv'
<1> DEFINE n   == NextSeq(rec)
           new == [seq |-> n, ticket |-> u, terr |-> TerritoryOf(u),
                   cycle |-> used.starts, aborted |-> FALSE, spent |-> 0, live |-> TRUE]
<1>1. /\ NextSeq(rec') = n + 1 /\ n \in Nat
  BY AppendIterationKeeps, NextSeqIsLast DEF Launch, Typed, WellFormed
<1>2. /\ lanes' = lanes \cup {new} /\ inFlight' = [inFlight EXCEPT ![u] = n]
      /\ pc' \in {"top", "launch"}
  BY DEF Launch
<1>3. new.seq = n /\ new.ticket = u /\ new.terr # {}
  BY DEF TerritoryOf
<1>4. /\ \A l \in lanes : l.ticket \in Tickets /\ l.seq \in Nat /\ l.seq < n
      /\ inFlight \in [Tickets -> Nat]
  BY DEF Typed, TypeOK, Lane, SeqsBehind
<1> HIDE DEF new, n
<1>5. \A l \in lanes' : l.terr # {}
  BY <1>2, <1>3 DEF MapInv
<1>6. \A t \in Tickets : inFlight'[t] = IF t = u THEN n ELSE inFlight[t]
  BY <1>2, <1>4
<1>7. \A t \in Tickets : inFlight[t] < n
  BY DEF MapInv, n
<1>8. \A t \in Tickets : inFlight'[t] < NextSeq(rec)'
  <2>1. \A t \in Tickets : inFlight'[t] < n + 1
    BY <1>1, <1>4, <1>6, <1>7
  <2> QED
    BY <1>1, <2>1
<1>9. ASSUME NEW l \in lanes', NEW t \in Tickets, inFlight'[t] = l.seq
      PROVE  l.ticket = t
  <2>1. CASE l = new
    BY <1>1, <1>3, <1>4, <1>6, <1>7, <1>9, <2>1
  <2>2. CASE l \in lanes
    <3>1. t # u
      BY <1>1, <1>4, <1>6, <1>9, <2>2
    <3>2. inFlight[t] = l.seq
      BY <1>6, <1>9, <3>1
    <3> QED
      BY <2>2, <3>2 DEF MapInv
  <2> QED
    BY <1>2, <2>1, <2>2
<1>10. Running' /\ pc' \notin {"waiting", "ceiling", "drain"}
  BY <1>2 DEF Running
<1> QED
  BY <1>5, <1>8, <1>9, <1>10 DEF MapInv

LEMMA StepMap ==
  ASSUME LocksInv, MapInv, [Next]_vars
  PROVE  MapInv'
<1>1. Typed /\ StatusFollows /\ SeqsBehind
  BY DEF LocksInv, Typed
<1>2. CASE \A t \in Tickets : ~Launch(t)
  BY <1>1, <1>2, OthersCarry, StepWaitsOn, CarriedMap
<1> QED
  BY <1>1, <1>2, LaunchMap

----------------------------------------------------------------------------
(* The lanes that still owe a verdict *)

\* A lane that holds what its ticket covers now, or everything.
Holds(l) ==
  \/ Untenanted \in l.terr
  \/ l.terr \subseteq territory[l.ticket] \cup rec.tstate[l.ticket].touched

\* A ticket's running lanes, those of them no pass will see in its way, and the
\* rejected lanes of other tickets, which fail the cycle while this one works.
Working(t)       == {l.seq : l \in {m \in LiveLanes : m.ticket = t}}
Loose(t)         == {l.seq : l \in {m \in LiveLanes : m.ticket = t /\ ~(Registered(m) /\ Holds(m))}}
DeadElsewhere(t) == {l.seq : l \in {m \in lanes : ~m.live /\ m.ticket # t}}

Mishaps    == used.crashes + used.faults + used.resizes
Charged(t) == rec.tstate[t].attempts
Worked(t)  == Those(rec.iterations, VerdictOn(t))

BudgetInv ==
  /\ \A t \in Tickets :
       Worked(t) + Cardinality(Loose(t)) + Cardinality(DeadElsewhere(t)) <= Charged(t) + Mishaps
  /\ \A t \in Tickets : Worked(t) + Cardinality(Working(t)) <= MaxAttempts + Mishaps
  /\ pc = "launch" => \A t \in todo : Charged(t) < MaxAttempts

LEMMA SeqsFinite ==
  ASSUME Typed, SeqsBehind, NEW t
  PROVE  /\ IsFiniteSet(Working(t)) /\ IsFiniteSet(Loose(t)) /\ IsFiniteSet(DeadElsewhere(t))
         /\ Loose(t) \subseteq Working(t)
         /\ \A n \in Working(t) : n \in Nat /\ n > 0
<1> DEFINE S == 1 .. NextSeq(rec)
<1>1. \A l \in lanes : l.seq \in S
  <2>1. NextSeq(rec) \in Nat
    BY NextSeqIsLast DEF Typed, WellFormed
  <2> QED
    BY <2>1 DEF SeqsBehind, Typed, TypeOK, Lane
<1>2. IsFiniteSet(S)
  BY NextSeqIsLast, FS_Interval DEF Typed, WellFormed
<1> HIDE DEF S
<1>3. Working(t) \subseteq S /\ Loose(t) \subseteq S /\ DeadElsewhere(t) \subseteq S
  BY <1>1 DEF Working, Loose, DeadElsewhere, LiveLanes
<1>4. Loose(t) \subseteq Working(t)
  BY DEF Working, Loose
<1>5. \A n \in Working(t) : n \in Nat /\ n > 0
  BY DEF Working, LiveLanes, SeqsBehind, Typed, TypeOK, Lane
<1> QED
  BY <1>2, <1>3, <1>4, <1>5, FS_Subset

LEMMA BudgetType ==
  ASSUME Typed, SeqsBehind, NEW t \in Tickets
  PROVE  /\ Worked(t) \in Nat /\ Charged(t) \in Nat /\ Mishaps \in Nat
         /\ Cardinality(Working(t)) \in Nat /\ Cardinality(Loose(t)) \in Nat
         /\ Cardinality(DeadElsewhere(t)) \in Nat
<1>1. rec.iterations \in Seq(Iteration) /\ Charged(t) \in Nat /\ Mishaps \in Nat
  BY DEF Typed, TypeOK, LoopRecord, TicketState, Charged, Counters, Mishaps
<1> QED
  BY <1>1, SeqsFinite, ThoseType, FS_CardinalityType DEF Worked

\* The inequalities follow from these, step by step.
Affords(t) ==
  /\ Cardinality(Loose(t)') \in Nat /\ Cardinality(DeadElsewhere(t)') \in Nat
  /\ Cardinality(Working(t)') \in Nat
  /\ Worked(t)' + Cardinality(Loose(t)') + Cardinality(DeadElsewhere(t)')
       + Charged(t) + Mishaps
     <= Worked(t) + Cardinality(Loose(t)) + Cardinality(DeadElsewhere(t))
          + Charged(t)' + Mishaps'
  /\ Worked(t)' + Cardinality(Working(t)') + Mishaps
     <= Worked(t) + Cardinality(Working(t)) + Mishaps'

\* The lanes of a ticket that no pass will see in its way stay the same ones.
KeepsHold(t) ==
  /\ inFlight'[t] = inFlight[t] /\ territory'[t] = territory[t]
  /\ rec.tstate[t].touched \subseteq rec'.tstate[t].touched

NoneKnown(t) == \A l \in LiveLanes : l.ticket = t => ~Registered(l)

NoneRejected == \A a \in lanes' : ~a.live => \E l \in lanes : ~l.live /\ SameLane(a, l)

LEMMA WorkingShrinks ==
  ASSUME LanesCarry, NEW t
  PROVE  Working(t)' \subseteq Working(t)
  BY DEF Working, LiveLanes, LanesCarry, SameLane

LEMMA DeadShrinks ==
  ASSUME NoneRejected, NEW t
  PROVE  DeadElsewhere(t)' \subseteq DeadElsewhere(t)
  BY DEF DeadElsewhere, NoneRejected, SameLane

LEMMA LooseGrows ==
  ASSUME LanesCarry, NEW t
  PROVE  Loose(t)' \subseteq Loose(t) \cup {inFlight[t]}
<1> SUFFICES ASSUME NEW a \in LiveLanes', a.ticket = t, a.seq \notin Loose(t)
             PROVE  a.seq = inFlight[t]
  BY DEF Loose
<1>1. PICK l \in lanes : SameLane(a, l)
  BY DEF LanesCarry, LiveLanes
<1>2. l \in LiveLanes /\ l.ticket = t /\ l.seq = a.seq
  BY <1>1 DEF SameLane, LiveLanes
<1> QED
  BY <1>2 DEF Loose, Registered

LEMMA LooseStays ==
  ASSUME Typed, SeqsBehind, LanesCarry, NEW t \in Tickets, KeepsHold(t) \/ NoneKnown(t)
  PROVE  Loose(t)' \subseteq Loose(t)
<1> SUFFICES ASSUME NEW a \in LiveLanes', a.ticket = t, ~(Registered(a) /\ Holds(a))'
             PROVE  a.seq \in Loose(t)
  BY DEF Loose
<1>1. PICK l \in lanes : SameLane(a, l)
  BY DEF LanesCarry, LiveLanes
<1>2. l \in LiveLanes /\ l.ticket = t /\ l.seq = a.seq /\ l.terr = a.terr
  BY <1>1 DEF SameLane, LiveLanes
<1>3. ~(Registered(l) /\ Holds(l))
  <2>1. CASE NoneKnown(t)
    BY <1>2, <2>1 DEF NoneKnown
  <2>2. ASSUME KeepsHold(t), Registered(l), Holds(l)
        PROVE  FALSE
    <3>1. Registered(a)'
      BY <1>2, <2>2 DEF KeepsHold, Registered
    <3>2. Holds(a)'
      BY <1>2, <2>2 DEF KeepsHold, Holds
    <3> QED
      BY <3>1, <3>2
  <2> QED
    BY <2>1, <2>2
<1> QED
  BY <1>2, <1>3 DEF Loose

\* A set of numbers that gains at most one member.
LEMMA OneMore ==
  ASSUME NEW S, NEW T, IsFiniteSet(S), NEW x, T \subseteq S \cup {x}
  PROVE  Cardinality(T) \in Nat /\ Cardinality(S) \in Nat /\ Cardinality(T) <= Cardinality(S) + 1
<1>1. /\ IsFiniteSet(S \cup {x})
      /\ Cardinality(S \cup {x}) = IF x \in S THEN Cardinality(S) ELSE Cardinality(S) + 1
  BY FS_AddElement
<1>2. IsFiniteSet(T) /\ Cardinality(T) <= Cardinality(S \cup {x})
  BY <1>1, FS_Subset
<1>3. Cardinality(T) \in Nat /\ Cardinality(S) \in Nat
  BY <1>2, FS_CardinalityType
<1> QED
  BY <1>1, <1>2, <1>3

LEMMA NoMore ==
  ASSUME NEW S, NEW T, IsFiniteSet(S), T \subseteq S
  PROVE  Cardinality(T) \in Nat /\ Cardinality(S) \in Nat /\ Cardinality(T) <= Cardinality(S)
  BY FS_Subset, FS_CardinalityType

LEMMA OneLess ==
  ASSUME NEW S, NEW T, IsFiniteSet(S), NEW x \in S, T \subseteq S \ {x}
  PROVE  Cardinality(T) \in Nat /\ Cardinality(S) \in Nat /\ Cardinality(T) + 1 <= Cardinality(S)
<1>1. IsFiniteSet(S \ {x}) /\ Cardinality(S \ {x}) = Cardinality(S) - 1
  BY FS_RemoveElement
<1>2. IsFiniteSet(T) /\ Cardinality(T) <= Cardinality(S \ {x})
  BY <1>1, FS_Subset
<1>3. Cardinality(T) \in Nat /\ Cardinality(S) \in Nat
  BY <1>2, FS_CardinalityType
<1> QED
  BY <1>1, <1>2, <1>3

\* One member may come for another that goes.
LEMMA OneForOne ==
  ASSUME NEW S, NEW T, IsFiniteSet(S), NEW x \in S, NEW y, T \subseteq (S \ {x}) \cup {y}
  PROVE  Cardinality(T) \in Nat /\ Cardinality(S) \in Nat /\ Cardinality(T) <= Cardinality(S)
<1>1. IsFiniteSet(S \ {x}) /\ Cardinality(S \ {x}) = Cardinality(S) - 1
  BY FS_RemoveElement
<1>2. Cardinality(T) \in Nat /\ Cardinality(T) <= Cardinality(S \ {x}) + 1
  BY <1>1, OneMore
<1>3. Cardinality(S) \in Nat
  BY FS_CardinalityType
<1> QED
  BY <1>1, <1>2, <1>3

----------------------------------------------------------------------------
(* What the steps do to them *)

\* A step that neither launches nor ends a lane leaves verdicts and charges.
LEMMA VerdictsStay ==
  ASSUME LedgerInv, [Next]_vars, NEW t \in Tickets, \A u \in Tickets : ~Launch(u),
         \A l \in lanes : \A raw \in Results : ~Returns(l, raw)
  PROVE  Worked(t)' = Worked(t) /\ Charged(t)' = Charged(t)
<1>1. /\ Typed /\ StatusFollows /\ Windowed(rec) /\ rec.iterations \in Seq(Iteration)
  BY DEF LedgerInv, KnownUntilTrouble, LocksInv, Typed, TypeOK, LoopRecord
<1>2. CASE Quiet
  BY <1>2 DEF Quiet, SameBooks, Worked, Charged
<1>3. CASE RestoreIteration
  <2>1. /\ rec'.tstate = rec.tstate
        /\ \E i \in OpenIterations : \E x \in Iteration :
              /\ rec.iterations[i] \in Iteration /\ i \in DOMAIN rec.iterations
              /\ x.outcome = "abandoned" /\ x.exec = rec.iterations[i].exec
              /\ x.usd = rec.iterations[i].usd /\ x.ticket = rec.iterations[i].ticket
              /\ rec'.iterations = [rec.iterations EXCEPT ![i] = x]
    BY <1>1, <1>3, RestoreWindow
  <2>2. PICK i \in DOMAIN rec.iterations : \E x \in Iteration :
              /\ rec.iterations[i].outcome = "running" /\ x.outcome = "abandoned"
              /\ rec'.iterations = [rec.iterations EXCEPT ![i] = x]
    BY <2>1 DEF OpenIterations
  <2>3. PICK x \in Iteration :
              /\ rec.iterations[i].outcome = "running" /\ x.outcome = "abandoned"
              /\ rec'.iterations = [rec.iterations EXCEPT ![i] = x]
    BY <2>2
  <2> DEFINE V == Those(rec.iterations, VerdictOn(t))
             W == Those(rec'.iterations, VerdictOn(t))
  <2>4. W + One(rec.iterations[i], VerdictOn(t)) = V + One(x, VerdictOn(t))
    BY <1>1, <2>3, ThoseRewrite
  <2>5. One(rec.iterations[i], VerdictOn(t)) = 0 /\ One(x, VerdictOn(t)) = 0
    BY <2>3, OpenNoVerdict
  <2>6. rec'.iterations \in Seq(Iteration)
    BY <1>1, <2>3, ExceptSeq
  <2>7. V \in Nat /\ W \in Nat
    BY <1>1, <2>6, ThoseType
  <2> HIDE DEF V, W
  <2>8. W = V
    BY <2>4, <2>5, <2>7
  <2> QED
    BY <2>1, <2>8 DEF V, W, Worked, Charged
<1> QED
  BY <1>1, <1>2, <1>3, StepShape

\* No lane becomes unknown, or those of a ticket were unknown before.
Gently == /\ NoneRejected /\ Mishaps' = Mishaps
          /\ \A t \in Tickets : KeepsHold(t) \/ NoneKnown(t)

\* Something went wrong, and is counted.
Mishap == NoneRejected /\ Mishaps' = Mishaps + 1

LEMMA CountsMishap ==
  ASSUME Typed
  PROVE  /\ Count("faults") \/ Count("crashes") \/ Count("resizes") => Mishaps' = Mishaps + 1
         /\ \/ Count("starts") \/ Count("halts") \/ Count("wakes") \/ Count("edits")
            \/ UNCHANGED used
            => Mishaps' = Mishaps
<1>1. used \in Counters
  BY DEF Typed, TypeOK
<1>2. /\ used.crashes \in Nat /\ used.faults \in Nat /\ used.resizes \in Nat
  BY <1>1 DEF Counters
<1>3. Count("faults") => Mishaps' = Mishaps + 1
  BY <1>1, <1>2 DEF Count, Counters, Mishaps
<1>4. Count("crashes") => Mishaps' = Mishaps + 1
  BY <1>1, <1>2 DEF Count, Counters, Mishaps
<1>5. Count("resizes") => Mishaps' = Mishaps + 1
  BY <1>1, <1>2 DEF Count, Counters, Mishaps
<1>6. Count("starts") \/ Count("halts") \/ Count("wakes") \/ Count("edits") => Mishaps' = Mishaps
  BY <1>1, <1>2 DEF Count, Counters, Mishaps
<1>7. UNCHANGED used => Mishaps' = Mishaps
  BY DEF Mishaps
<1> HIDE DEF Count, Mishaps
<1> QED
  BY <1>3, <1>4, <1>5, <1>6, <1>7

LEMMA SameLanesReject ==
  ASSUME UNCHANGED lanes
  PROVE  NoneRejected
  BY DEF NoneRejected, SameLane

LEMMA SameHold ==
  ASSUME UNCHANGED <<inFlight, territory>>, rec'.tstate = rec.tstate
  PROVE  \A t \in Tickets : KeepsHold(t)
  BY DEF KeepsHold

LEMMA EndCycleRejects ==
  ASSUME NEW r, EndCycle(r)
  PROVE  NoneRejected
  BY DEF EndCycle, NoneRejected

LEMMA NoSlots ==
  ASSUME Typed, SeqsBehind, SlotsTaken = 0
  PROVE  \A t \in Tickets : NoneKnown(t)
<1> DEFINE S == {t \in Tickets : inFlight[t] # 0}
<1>1. IsFiniteSet(S)
  <2>1. S \subseteq Tickets /\ IsFiniteSet(Tickets)
    BY LoopAssumption
  <2> QED
    BY <2>1, FS_Subset
<1>2. Cardinality(S) = 0
  BY DEF SlotsTaken
<1>3. S = {}
  BY <1>1, <1>2, FS_EmptySet
<1>4. \A t \in Tickets : inFlight[t] = 0
  BY <1>3
<1> QED
  BY <1>4 DEF NoneKnown, Registered, LiveLanes, SeqsBehind, Typed, TypeOK, Lane

LEMMA AllSettled ==
  ASSUME Typed, SeqsBehind, MapInv, pc \in {"ceiling", "drain"}, \A s \in awaited : Settled(s)
  PROVE  \A t \in Tickets : NoneKnown(t)
<1> SUFFICES ASSUME NEW t \in Tickets, NEW l \in LiveLanes, l.ticket = t, Registered(l)
             PROVE  FALSE
  BY DEF NoneKnown
<1>1. l \in lanes /\ l.live /\ l.seq > 0 /\ inFlight[t] = l.seq
  BY DEF LiveLanes, SeqsBehind, Registered
<1>2. l.seq \in awaited
  BY <1>1 DEF MapInv, SeqsBehind, Typed, TypeOK, Lane
<1> QED
  BY <1>1, <1>2 DEF Settled

LEMMA CycleGently ==
  ASSUME Typed, SeqsBehind, MapInv, Cycle, \A t \in Tickets : ~Launch(t)
  PROVE  Gently \/ Mishap \/ CycleFails
<1>1. CASE CycleBreaks \/ CycleHitsCeiling \/ CycleWaits \/ CycleResumes \/ CycleDispatches
  <2>1. UNCHANGED <<rec, territory, inFlight, lanes, used>>
    BY <1>1 DEF CycleBreaks, CycleHitsCeiling, CycleWaits, CycleResumes, CycleDispatches, board
  <2> QED
    BY <2>1, SameLanesReject, SameHold, CountsMishap DEF Gently
<1>2. CASE CycleDrained \/ CycleBlocked
  <2>1. SlotsTaken = 0 /\ UNCHANGED used /\ \E r : EndCycle(r)
    BY <1>2 DEF CycleDrained, CycleBlocked
  <2> QED
    BY <2>1, NoSlots, EndCycleRejects, CountsMishap DEF Gently
<1>3. CASE CeilingSettles \/ DrainEnds
  <2>1. /\ pc \in {"ceiling", "drain"} /\ \A s \in awaited : Settled(s)
        /\ UNCHANGED used /\ \E r : EndCycle(r)
    BY <1>3 DEF CeilingSettles, DrainEnds
  <2> QED
    BY <2>1, AllSettled, EndCycleRejects, CountsMishap DEF Gently
<1>4. CASE LaunchFails
  BY <1>4, EndCycleRejects, CountsMishap DEF LaunchFails, Mishap
<1> QED
  BY <1>1, <1>2, <1>3, <1>4 DEF Cycle

LEMMA UserGently ==
  ASSUME Typed, SeqsBehind, MapInv, StatusFollows, UserStep
  PROVE  Gently \/ Mishap
<1>1. CASE Start
  <2>1. \A t \in Tickets : inFlight[t] = 0
    BY <1>1 DEF Start, MapInv, Running
  <2>2. \A t \in Tickets : NoneKnown(t)
    BY <2>1 DEF NoneKnown, Registered, LiveLanes, SeqsBehind, Typed, TypeOK, Lane
  <2> QED
    BY <1>1, <2>2, SameLanesReject, CountsMishap DEF Start, Gently
<1>2. CASE Pause
  <2>1. UNCHANGED <<territory, inFlight, lanes>> /\ rec'.tstate = rec.tstate /\ Count("halts")
    BY <1>2, SettledTyped DEF Pause, board
  <2> QED
    BY <2>1, SameLanesReject, SameHold, CountsMishap DEF Gently
<1>3. CASE Stop
  <2>1. UNCHANGED <<territory, inFlight>> /\ rec'.tstate = rec.tstate /\ Count("halts")
    BY <1>3, SettledTyped DEF Stop, board
  <2> DEFINE cut(l) == [l EXCEPT !.aborted = l.aborted \/ (Running /\ l.cycle = used.starts)]
  <2>2. lanes' = {cut(l) : l \in lanes}
    BY <1>3 DEF Stop
  <2>3. \A l \in lanes : SameLane(cut(l), l) /\ cut(l).live = l.live
    BY DEF Typed, TypeOK, Lane, SameLane
  <2> HIDE DEF cut
  <2>4. NoneRejected
    BY <2>2, <2>3 DEF NoneRejected
  <2> QED
    BY <2>1, <2>4, SameHold, CountsMishap DEF Gently
<1>4. CASE ClockRunsOut
  <2>1. UNCHANGED <<rec, territory, inFlight, lanes, used>>
    BY <1>4 DEF ClockRunsOut, board, memory
  <2> QED
    BY <2>1, SameLanesReject, SameHold, CountsMishap DEF Gently
<1>5. ASSUME NEW t \in Tickets, ReleasePark(t)
      PROVE  Gently
  <2>1. UNCHANGED <<territory, inFlight, lanes>> /\ Count("edits")
    BY <1>5 DEF ReleasePark, memory
  <2>2. \A u \in Tickets : rec'.tstate[u].touched = rec.tstate[u].touched
    BY <1>5, ReleaseKeeps DEF Typed
  <2>3. \A u \in Tickets : KeepsHold(u)
    BY <2>1, <2>2 DEF KeepsHold
  <2> QED
    BY <2>1, <2>3, SameLanesReject, CountsMishap DEF Gently
<1>6. ASSUME NEW t \in Tickets, UserSetsStatus(t)
      PROVE  Gently
  <2>1. UNCHANGED <<rec, territory, inFlight, lanes>> /\ Count("edits")
    BY <1>6 DEF UserSetsStatus, memory
  <2> QED
    BY <2>1, SameLanesReject, SameHold, CountsMishap DEF Gently
<1>7. ASSUME NEW t \in Tickets, Resize(t)
      PROVE  Mishap
  BY <1>7, SameLanesReject, CountsMishap DEF Resize, Mishap
<1> QED
  BY <1>1, <1>2, <1>3, <1>4, <1>5, <1>6, <1>7 DEF UserStep

LEMMA StepGently ==
  ASSUME Typed, SeqsBehind, MapInv, StatusFollows, [Next]_vars, \A t \in Tickets : ~Launch(t),
         \A l \in lanes : \A raw \in Results : ~Returns(l, raw)
  PROVE  Gently \/ Mishap \/ CycleFails
<1>1. CASE Cycle
  BY <1>1, CycleGently
<1>2. CASE UserStep
  BY <1>2, UserGently
<1>3. CASE Wake \/ UNCHANGED vars
  <2>1. UNCHANGED <<rec, territory, inFlight, lanes>> /\ (Count("wakes") \/ UNCHANGED used)
    BY <1>3 DEF Wake, vars, board
  <2> QED
    BY <2>1, SameLanesReject, SameHold, CountsMishap DEF Gently
<1>4. ASSUME NEW l \in lanes, LaneStep(l)
      PROVE  Gently
  <2>1. CASE LaneMovesTicket(l)
    <3>1. UNCHANGED <<rec, territory, inFlight, lanes, used>>
      BY <2>1 DEF LaneMovesTicket, memory
    <3> QED
      BY <3>1, SameLanesReject, SameHold, CountsMishap DEF Gently
  <2>2. CASE Spend(l)
    <3> DEFINE x == [l EXCEPT !.spent = @ + 1]
    <3>1. UNCHANGED <<rec, territory, inFlight, used>> /\ lanes' = (lanes \ {l}) \cup {x}
      BY <2>2 DEF Spend, memory, board
    <3>2. SameLane(x, l) /\ x.live = l.live
      BY DEF Typed, TypeOK, Lane, SameLane
    <3> HIDE DEF x
    <3>3. NoneRejected
      BY <3>1, <3>2 DEF NoneRejected, SameLane
    <3> QED
      BY <3>1, <3>3, SameHold, CountsMishap DEF Gently
  <2> QED
    BY <1>4, <2>1, <2>2 DEF LaneStep, Returns
<1>5. CASE HostStep
  <2>1. CASE Crash
    BY <2>1, CountsMishap DEF Crash, Dies, NoneRejected, Mishap
  <2>2. CASE Restart \/ RestoreStatus
    <3>1. UNCHANGED <<territory, inFlight, lanes, used>> /\ rec'.tstate = rec.tstate
      BY <2>2, SettledTyped DEF Restart, RestoreStatus, board
    <3> QED
      BY <3>1, SameLanesReject, SameHold, CountsMishap DEF Gently
  <2>3. CASE RestoreIteration
    <3>1. /\ \A t \in Tickets : inFlight[t] = 0
          /\ UNCHANGED <<lanes, used>>
      BY <2>3 DEF RestoreIteration, MapInv, Running
    <3>2. \A t \in Tickets : NoneKnown(t)
      BY <3>1 DEF NoneKnown, Registered, LiveLanes, SeqsBehind, Typed, TypeOK, Lane
    <3> QED
      BY <3>1, <3>2, SameLanesReject, CountsMishap DEF Gently
  <2> QED
    BY <1>5, <2>1, <2>2, <2>3 DEF HostStep, Returns
<1> QED
  BY <1>1, <1>2, <1>3, <1>4, <1>5 DEF Next

LEMMA NextType ==
  ASSUME Typed', NEW t \in Tickets
  PROVE  Worked(t)' \in Nat /\ Charged(t)' \in Nat
<1>1. rec'.iterations \in Seq(Iteration) /\ rec'.tstate \in [Tickets -> TicketState]
  BY DEF Typed, TypeOK, LoopRecord
<1>2. Those(rec'.iterations, VerdictOn(t)) \in Nat
  BY <1>1, ThoseType
<1>3. rec'.tstate[t].attempts \in Nat
  BY <1>1 DEF TicketState
<1> QED
  BY <1>2, <1>3 DEF Worked, Charged

\* The step gains at most so many verdicts, charges at least so many, and counts
\* so many mishaps; the lanes that count become at most so many more.
Changes(t, gained, charge, mishaps, loose, dead, working) ==
  /\ Worked(t)' <= Worked(t) + gained /\ Charged(t)' >= Charged(t) + charge
  /\ Mishaps' = Mishaps + mishaps
  /\ Cardinality(Loose(t)') \in Nat
  /\ Cardinality(Loose(t)') <= Cardinality(Loose(t)) + loose
  /\ Cardinality(DeadElsewhere(t)') \in Nat
  /\ Cardinality(DeadElsewhere(t)') <= Cardinality(DeadElsewhere(t)) + dead
  /\ Cardinality(Working(t)') \in Nat
  /\ Cardinality(Working(t)') <= Cardinality(Working(t)) + working

LEMMA Balance ==
  ASSUME Typed, SeqsBehind, Typed', NEW t \in Tickets,
         NEW gained \in Nat, NEW charge \in Nat, NEW mishaps \in Nat,
         NEW loose \in Int, NEW dead \in Int, NEW working \in Int,
         Changes(t, gained, charge, mishaps, loose, dead, working),
         gained + loose + dead <= charge + mishaps,
         gained + working <= mishaps
  PROVE  Affords(t)
<1> DEFINE a1 == Worked(t)
           b1 == Worked(t)'
           a2 == Charged(t)
           b2 == Charged(t)'
           a3 == Mishaps
           b3 == Mishaps'
           a4 == Cardinality(Loose(t))
           b4 == Cardinality(Loose(t)')
           a5 == Cardinality(DeadElsewhere(t))
           b5 == Cardinality(DeadElsewhere(t)')
           a6 == Cardinality(Working(t))
           b6 == Cardinality(Working(t)')
<1>1. a1 \in Nat /\ a2 \in Nat /\ a3 \in Nat /\ a4 \in Nat /\ a5 \in Nat /\ a6 \in Nat
  BY BudgetType
<1>2. b1 \in Nat /\ b2 \in Nat /\ b4 \in Nat /\ b5 \in Nat /\ b6 \in Nat
  BY NextType DEF Changes
<1>3. /\ b1 <= a1 + gained /\ b2 >= a2 + charge /\ b3 = a3 + mishaps
      /\ b4 <= a4 + loose /\ b5 <= a5 + dead /\ b6 <= a6 + working
  BY DEF Changes
<1>4. Affords(t) <=> /\ b4 \in Nat /\ b5 \in Nat /\ b6 \in Nat
                     /\ b1 + b4 + b5 + a2 + a3 <= a1 + a4 + a5 + b2 + b3
                     /\ b1 + b6 + a3 <= a1 + a6 + b3
  BY DEF Affords
<1> HIDE DEF a1, a2, a3, a4, a5, a6, b1, b2, b3, b4, b5, b6
<1> QED
  BY <1>1, <1>2, <1>3, <1>4

LEMMA GentlyAffords ==
  ASSUME Typed, SeqsBehind, Typed', LanesCarry, NEW t \in Tickets,
         Worked(t)' = Worked(t), Charged(t)' = Charged(t), Gently
  PROVE  Affords(t)
<1>1. /\ Loose(t)' \subseteq Loose(t) /\ Working(t)' \subseteq Working(t)
      /\ DeadElsewhere(t)' \subseteq DeadElsewhere(t) /\ Mishaps' = Mishaps
  BY LooseStays, WorkingShrinks, DeadShrinks DEF Gently
<1>2. IsFiniteSet(Working(t)) /\ IsFiniteSet(Loose(t)) /\ IsFiniteSet(DeadElsewhere(t))
  BY SeqsFinite
<1>3. /\ Cardinality(Loose(t)') \in Nat /\ Cardinality(Loose(t)') <= Cardinality(Loose(t))
      /\ Cardinality(Working(t)') \in Nat /\ Cardinality(Working(t)') <= Cardinality(Working(t))
      /\ Cardinality(DeadElsewhere(t)') \in Nat
      /\ Cardinality(DeadElsewhere(t)') <= Cardinality(DeadElsewhere(t))
  BY <1>1, <1>2, NoMore
<1>4. Changes(t, 0, 0, 0, 0, 0, 0)
  BY <1>1, <1>3, BudgetType DEF Changes
<1> QED
  BY <1>4, Balance

LEMMA MishapAffords ==
  ASSUME Typed, SeqsBehind, Typed', LanesCarry, NEW t \in Tickets,
         Worked(t)' = Worked(t), Charged(t)' = Charged(t), Mishap
  PROVE  Affords(t)
<1>1. /\ Loose(t)' \subseteq Loose(t) \cup {inFlight[t]} /\ Working(t)' \subseteq Working(t)
      /\ DeadElsewhere(t)' \subseteq DeadElsewhere(t) /\ Mishaps' = Mishaps + 1
  BY LooseGrows, WorkingShrinks, DeadShrinks DEF Mishap
<1>2. IsFiniteSet(Working(t)) /\ IsFiniteSet(Loose(t)) /\ IsFiniteSet(DeadElsewhere(t))
  BY SeqsFinite
<1>3. /\ Cardinality(Loose(t)') \in Nat /\ Cardinality(Loose(t)') <= Cardinality(Loose(t)) + 1
      /\ Cardinality(Working(t)') \in Nat /\ Cardinality(Working(t)') <= Cardinality(Working(t))
      /\ Cardinality(DeadElsewhere(t)') \in Nat
      /\ Cardinality(DeadElsewhere(t)') <= Cardinality(DeadElsewhere(t))
  BY <1>1, <1>2, NoMore, OneMore
<1>4. Changes(t, 0, 0, 1, 1, 0, 0)
  BY <1>1, <1>3, BudgetType DEF Changes
<1> QED
  BY <1>4, Balance

\* The race is lost to a rejected lane.  Another ticket's lane may go on without
\* the cycle, and the rejected lane no longer counts against it; the ticket of
\* the rejected lane has no other lane in the Map.
LEMMA FailureAffords ==
  ASSUME Typed, SeqsBehind, Typed', MapInv, DistinctLanes, LanesCarry, NEW t \in Tickets,
         Worked(t)' = Worked(t), Charged(t)' = Charged(t), CycleFails
  PROVE  Affords(t)
<1>1. PICK l \in lanes : ~l.live /\ l.seq \in awaited
  BY DEF CycleFails, Rejected
<1>2. /\ pc = "waiting" /\ UNCHANGED used /\ \A a \in lanes' : a.live
  BY DEF CycleFails, EndCycle
<1>3. DeadElsewhere(t)' = {}
  BY <1>2 DEF DeadElsewhere
<1>4. /\ IsFiniteSet(Working(t)) /\ IsFiniteSet(Loose(t)) /\ IsFiniteSet(DeadElsewhere(t))
      /\ Working(t)' \subseteq Working(t) /\ Mishaps' = Mishaps
  BY <1>2, SeqsFinite, WorkingShrinks DEF Mishaps
<1>5. Cardinality(Working(t)') \in Nat /\ Cardinality(Working(t)') <= Cardinality(Working(t))
  BY <1>4, NoMore
<1>6. Cardinality(DeadElsewhere(t)') = 0
  BY <1>3, FS_EmptySet
<1>7. CASE l.ticket = t
  <2>1. inFlight[t] \in {0, l.seq}
    BY <1>1, <1>2, <1>7 DEF MapInv
  <2>2. NoneKnown(t)
    <3> SUFFICES ASSUME NEW m \in LiveLanes, m.ticket = t, Registered(m)
                 PROVE  FALSE
      BY DEF NoneKnown
    <3>1. m \in lanes /\ m.live /\ m.seq > 0 /\ inFlight[t] = m.seq
      BY DEF LiveLanes, SeqsBehind, Registered
    <3>2. m.seq = l.seq
      BY <2>1, <3>1
    <3>3. m = l
      BY <1>1, <3>1, <3>2 DEF DistinctLanes
    <3> QED
      BY <1>1, <3>1, <3>3
  <2>3. Cardinality(Loose(t)') \in Nat /\ Cardinality(Loose(t)') <= Cardinality(Loose(t))
    BY <1>4, <2>2, LooseStays, NoMore
  <2>4. Changes(t, 0, 0, 0, 0, 0, 0)
    BY <1>4, <1>5, <1>6, <2>3, BudgetType DEF Changes
  <2> QED
    BY <2>4, Balance
<1>8. CASE l.ticket # t
  <2>1. l.seq \in DeadElsewhere(t)
    BY <1>1, <1>8 DEF DeadElsewhere
  <2>2. Cardinality(DeadElsewhere(t)') + 1 <= Cardinality(DeadElsewhere(t))
    BY <1>3, <1>4, <2>1, OneLess
  <2>3. Cardinality(Loose(t)') \in Nat /\ Cardinality(Loose(t)') <= Cardinality(Loose(t)) + 1
    BY <1>4, LooseGrows, OneMore
  <2>4. Changes(t, 0, 0, 0, 1, -1, 0)
    BY <1>4, <1>5, <1>6, <2>2, <2>3, BudgetType DEF Changes
  <2> QED
    BY <2>4, Balance
<1> QED
  BY <1>7, <1>8

\* What a return adds to the verdicts of a ticket and to its charges.
LEMMA ReturnGains ==
  ASSUME LedgerInv, Typed', NEW l \in lanes, NEW raw \in Results, Returns(l, raw),
         NEW t \in Tickets
  PROVE  /\ Charge(l, raw) \in {0, 1}
         /\ Worked(t)' <= Worked(t) + (IF t = l.ticket THEN Charge(l, raw) ELSE 0)
         /\ Charged(t)' >= Charged(t)
         /\ FinishLane(l, raw) =>
              Charged(t)' >= Charged(t) + (IF t = l.ticket THEN Charge(l, raw) ELSE 0)
<1> DEFINE V == Worked(t)
           W == Worked(t)'
           A == Charged(t)
           B == Charged(t)'
           plus == IF t = l.ticket THEN Charge(l, raw) ELSE 0
<1>1. Typed /\ SeqsBehind /\ Windowed(rec)
  BY DEF LedgerInv, KnownUntilTrouble, LocksInv, Typed
<1>2. l \in LiveLanes /\ l.ticket \in Tickets /\ Charge(l, raw) \in {0, 1}
  BY <1>1, ReturnLeaves DEF LiveLanes, Lane, Charge
<1>3. V \in Nat /\ A \in Nat /\ W \in Nat /\ B \in Nat /\ plus \in {0, 1}
  BY <1>1, <1>2, BudgetType, NextType
<1>4. W <= V + plus
  <2>1. \/ Settles(l.seq, Outcome(l, raw), Cost(l, raw))
        \/ UNCHANGED rec
    BY <1>1, ReturnBooks
  <2>2. CASE UNCHANGED rec
    <3>1. W = V
      BY <2>2 DEF Worked
    <3> HIDE DEF V, W, plus
    <3> QED
      BY <1>3, <3>1
  <2>3. CASE Settles(l.seq, Outcome(l, raw), Cost(l, raw))
    <3>1. W = V + (IF Retained(l.seq) /\ t = l.ticket THEN Charge(l, raw) ELSE 0)
      BY <1>2, <2>3, ReturnVerdicts DEF Worked
    <3>2. CASE Retained(l.seq)
      <4>1. W = V + plus
        BY <3>1, <3>2
      <4> HIDE DEF V, W, plus
      <4> QED
        BY <1>3, <4>1
    <3>3. CASE ~Retained(l.seq)
      <4>1. W = V + 0
        BY <3>1, <3>3
      <4> HIDE DEF V, W, plus
      <4> QED
        BY <1>3, <4>1
    <3> QED
      BY <3>2, <3>3
  <2> QED
    BY <2>1, <2>2, <2>3
<1>5. B = A + plus \/ (B = A /\ ~FinishLane(l, raw))
  <2>1. /\ \A s \in Tickets \ {l.ticket} : Charged(s)' = Charged(s)
        /\ \/ Charged(l.ticket)' = Charged(l.ticket) + Charge(l, raw)
           \/ ~FinishLane(l, raw) /\ Charged(l.ticket)' = Charged(l.ticket)
    BY <1>1, ReturnBooks DEF Charged
  <2>2. CASE t = l.ticket
    BY <2>1, <2>2
  <2>3. CASE t # l.ticket
    <3>1. B = A /\ plus = 0
      BY <2>1, <2>3
    <3> HIDE DEF A, B, plus
    <3> QED
      BY <1>3, <3>1
  <2> QED
    BY <2>2, <2>3
<1>6. B >= A /\ (FinishLane(l, raw) => B >= A + plus)
  <2> HIDE DEF A, B, plus
  <2> QED
    BY <1>3, <1>5
<1> QED
  BY <1>2, <1>4, <1>6

\* A lane that finishes pays its verdict with its charge, and no longer counts as
\* working.  If it was not the lane the cycle knows of, that one may take its
\* place among the loose: the Map forgets the ticket's entry whoever returns.
LEMMA FinishAffords ==
  ASSUME LedgerInv, Typed', LanesCarry, NEW l \in lanes, NEW raw \in Results,
         FinishLane(l, raw), NEW t \in Tickets
  PROVE  Affords(t)
<1>1. /\ Typed /\ SeqsBehind /\ DistinctLanes /\ Returns(l, raw)
  BY DEF LedgerInv, KnownUntilTrouble, LocksInv, Typed, Returns
<1>2. /\ l \in Lane /\ l.live /\ l \in LiveLanes /\ lanes' = lanes \ {l} /\ UNCHANGED <<territory, used>>
  BY <1>1, ReturnLeaves DEF FinishLane, LiveLanes
<1>3. /\ IsFiniteSet(Working(t)) /\ IsFiniteSet(Loose(t)) /\ IsFiniteSet(DeadElsewhere(t))
      /\ Working(t)' \subseteq Working(t) /\ Mishaps' = Mishaps
  BY <1>1, <1>2, SeqsFinite, WorkingShrinks DEF Mishaps
<1>4. NoneRejected
  BY <1>2 DEF NoneRejected, SameLane
<1>5. /\ Cardinality(DeadElsewhere(t)') \in Nat
      /\ Cardinality(DeadElsewhere(t)') <= Cardinality(DeadElsewhere(t))
  BY <1>3, <1>4, DeadShrinks, NoMore
<1>6. CASE t # l.ticket
  <2>1. Worked(t)' <= Worked(t) + 0 /\ Charged(t)' >= Charged(t) + 0
    <3>1. Worked(t)' <= Worked(t) + 0 /\ Charged(t)' >= Charged(t)
      BY <1>1, <1>6, ReturnGains
    <3>2. Charged(t) \in Nat /\ Charged(t)' \in Nat
      BY <1>1, BudgetType, NextType
    <3> QED
      BY <3>1, <3>2
  <2>2. rec'.tstate[t] = rec.tstate[t]
    BY <1>1, <1>2, <1>6, FromReceiptType, AfterTicketStateKeeps DEF FinishLane, Typed
  <2>3. inFlight'[t] = inFlight[t]
    BY <1>1, <1>6 DEF FinishLane, Typed, TypeOK
  <2>4. KeepsHold(t)
    BY <1>2, <2>2, <2>3 DEF KeepsHold
  <2>5. Cardinality(Loose(t)') \in Nat /\ Cardinality(Loose(t)') <= Cardinality(Loose(t))
    BY <1>1, <1>3, <2>4, LooseStays, NoMore
  <2>6. Cardinality(Working(t)') \in Nat /\ Cardinality(Working(t)') <= Cardinality(Working(t))
    BY <1>3, NoMore
  <2>7. Changes(t, 0, 0, 0, 0, 0, 0)
    BY <1>1, <1>3, <1>5, <2>1, <2>5, <2>6, BudgetType DEF Changes
  <2> QED
    BY <1>1, <2>7, Balance
<1>7. CASE t = l.ticket
  <2> DEFINE plus == Charge(l, raw)
  <2>1. /\ plus \in {0, 1} /\ Worked(t)' <= Worked(t) + plus /\ Charged(t)' >= Charged(t) + plus
    BY <1>1, <1>7, ReturnGains
  <2>2. l.seq \in Working(t) /\ \A m \in lanes' : m.seq # l.seq
    BY <1>1, <1>2, <1>7 DEF Working, DistinctLanes
  <2>3. Working(t)' \subseteq Working(t) \ {l.seq}
    BY <1>3, <2>2 DEF Working, LiveLanes
  <2>4. /\ Cardinality(Working(t)') \in Nat
        /\ Cardinality(Working(t)') + 1 <= Cardinality(Working(t))
    BY <1>3, <2>2, <2>3, OneLess
  <2>5. l.seq \notin Loose(t)'
    BY <2>2 DEF Loose, LiveLanes
  <2>6. Cardinality(Loose(t)') \in Nat /\ Cardinality(Loose(t)') <= Cardinality(Loose(t))
    <3>1. CASE l.seq \in Loose(t)
      <4>1. Loose(t)' \subseteq (Loose(t) \ {l.seq}) \cup {inFlight[t]}
        BY <2>5, LooseGrows
      <4> QED
        BY <1>3, <3>1, <4>1, OneForOne
    <3>2. CASE l.seq \notin Loose(t)
      <4>1. inFlight[t] = l.seq
        BY <1>2, <1>7, <3>2 DEF Loose, Registered
      <4>2. Loose(t)' \subseteq Loose(t)
        BY <2>5, <4>1, LooseGrows
      <4> QED
        BY <1>3, <4>2, NoMore
    <3> QED
      BY <3>1, <3>2
  <2>7. Changes(t, plus, plus, 0, 0, 0, -1)
    <3>1. Cardinality(Working(t)') <= Cardinality(Working(t)) + -1
      BY <1>1, <2>4, BudgetType
    <3> HIDE DEF plus
    <3> QED
      BY <1>1, <1>3, <1>5, <2>1, <2>4, <2>6, <3>1, BudgetType DEF Changes
  <2>8. plus \in Nat /\ plus + 0 + 0 <= plus + 0 /\ plus + -1 <= 0
    BY <2>1
  <2> HIDE DEF plus
  <2> QED
    BY <1>1, <2>7, <2>8, Balance
<1> QED
  BY <1>6, <1>7

\* A record that could not be written costs a mishap, which pays for the verdict
\* it may have gained or, for another ticket, for the rejected lane it leaves.
LEMMA LostRecordAffords ==
  ASSUME LedgerInv, Typed', LanesCarry, NEW l \in lanes, NEW raw \in Results,
         LaneRecordFails(l, raw), NEW t \in Tickets
  PROVE  Affords(t)
<1> DEFINE x == [l EXCEPT !.live = FALSE]
<1>1. /\ Typed /\ SeqsBehind /\ WellFormed(rec) /\ Returns(l, raw)
  BY DEF LedgerInv, KnownUntilTrouble, LocksInv, Typed, Returns
<1>2. /\ l \in Lane /\ UNCHANGED <<territory, inFlight>>
      /\ lanes' \subseteq (lanes \ {l}) \cup {x}
  BY <1>1, ReturnLeaves DEF LaneRecordFails, memory
<1>3. rec'.tstate = rec.tstate
  BY <1>1, <1>2, FromReceiptType, AfterSettleKeeps DEF LaneRecordFails
<1>4. Mishaps' = Mishaps + 1
  BY <1>1, CountsMishap DEF LaneRecordFails
<1>5. /\ IsFiniteSet(Working(t)) /\ IsFiniteSet(Loose(t)) /\ IsFiniteSet(DeadElsewhere(t))
      /\ Working(t)' \subseteq Working(t)
  BY <1>1, SeqsFinite, WorkingShrinks
<1>6. KeepsHold(t)
  BY <1>2, <1>3, SameHold
<1>7. Loose(t)' \subseteq Loose(t)
  BY <1>1, <1>6, LooseStays
<1>8. /\ Cardinality(Working(t)') \in Nat /\ Cardinality(Working(t)') <= Cardinality(Working(t))
      /\ Cardinality(Loose(t)') \in Nat /\ Cardinality(Loose(t)') <= Cardinality(Loose(t))
  BY <1>5, <1>7, NoMore
<1>9. /\ Charge(l, raw) \in {0, 1} /\ Charged(t)' >= Charged(t)
      /\ Worked(t)' <= Worked(t) + (IF t = l.ticket THEN Charge(l, raw) ELSE 0)
  BY <1>1, ReturnGains
<1>10. /\ Worked(t) \in Nat /\ Worked(t)' \in Nat /\ Charged(t) \in Nat /\ Charged(t)' \in Nat
  BY <1>1, BudgetType, NextType
<1>11. x.ticket = l.ticket /\ x.seq = l.seq
  BY <1>2 DEF Lane
<1> HIDE DEF x
<1>12. CASE t = l.ticket
  <2>1. DeadElsewhere(t)' \subseteq DeadElsewhere(t)
    BY <1>2, <1>11, <1>12 DEF DeadElsewhere
  <2>2. /\ Cardinality(DeadElsewhere(t)') \in Nat
        /\ Cardinality(DeadElsewhere(t)') <= Cardinality(DeadElsewhere(t))
    BY <1>5, <2>1, NoMore
  <2>3. Worked(t)' <= Worked(t) + 1 /\ Charged(t)' >= Charged(t) + 0
    BY <1>9, <1>10, <1>12
  <2>4. Changes(t, 1, 0, 1, 0, 0, 0)
    BY <1>1, <1>4, <1>8, <2>2, <2>3, BudgetType DEF Changes
  <2> QED
    BY <1>1, <2>4, Balance
<1>13. CASE t # l.ticket
  <2>1. DeadElsewhere(t)' \subseteq DeadElsewhere(t) \cup {l.seq}
    BY <1>2, <1>11 DEF DeadElsewhere
  <2>2. /\ Cardinality(DeadElsewhere(t)') \in Nat
        /\ Cardinality(DeadElsewhere(t)') <= Cardinality(DeadElsewhere(t)) + 1
    BY <1>5, <2>1, OneMore
  <2>3. Worked(t)' <= Worked(t) + 0 /\ Charged(t)' >= Charged(t) + 0
    BY <1>9, <1>10, <1>13
  <2>4. Changes(t, 0, 0, 1, 0, 1, 0)
    BY <1>1, <1>4, <1>8, <2>2, <2>3, BudgetType DEF Changes
  <2> QED
    BY <1>1, <2>4, Balance
<1> QED
  BY <1>12, <1>13

LEMMA CrashAffords ==
  ASSUME LedgerInv, Typed', NEW l \in lanes, NEW raw \in Results,
         CrashMidRecord(l, raw), NEW t \in Tickets
  PROVE  Affords(t)
<1>1. /\ Typed /\ SeqsBehind /\ Returns(l, raw)
  BY DEF LedgerInv, KnownUntilTrouble, LocksInv, Typed, Returns
<1>2. lanes' = {} /\ Mishaps' = Mishaps + 1
  BY <1>1, CountsMishap DEF CrashMidRecord, Dies
<1>3. Working(t)' = {} /\ Loose(t)' = {} /\ DeadElsewhere(t)' = {}
  BY <1>2 DEF Working, Loose, DeadElsewhere, LiveLanes
<1>4. /\ Cardinality(Working(t)') = 0 /\ Cardinality(Loose(t)') = 0
      /\ Cardinality(DeadElsewhere(t)') = 0
  BY <1>3, FS_EmptySet
<1>5. /\ Charge(l, raw) \in {0, 1} /\ Charged(t)' >= Charged(t)
      /\ Worked(t)' <= Worked(t) + (IF t = l.ticket THEN Charge(l, raw) ELSE 0)
  BY <1>1, ReturnGains
<1>6. /\ Worked(t) \in Nat /\ Worked(t)' \in Nat /\ Charged(t) \in Nat /\ Charged(t)' \in Nat
  BY <1>1, BudgetType, NextType
<1>7. Worked(t)' <= Worked(t) + 1 /\ Charged(t)' >= Charged(t) + 0
  BY <1>5, <1>6
<1>8. Changes(t, 1, 0, 1, 0, 0, 0)
  BY <1>1, <1>2, <1>4, <1>7, BudgetType DEF Changes
<1> QED
  BY <1>1, <1>8, Balance

LEMMA StepAffords ==
  ASSUME LedgerInv, MapInv, Typed', [Next]_vars, \A u \in Tickets : ~Launch(u),
         NEW t \in Tickets
  PROVE  Affords(t)
<1>1. /\ Typed /\ SeqsBehind /\ StatusFollows /\ DistinctLanes
  BY DEF LedgerInv, KnownUntilTrouble, LocksInv, Typed
<1>2. LanesCarry
  BY <1>1, OthersCarry
<1>3. ASSUME NEW l \in lanes, NEW raw \in Results, Returns(l, raw)
      PROVE  Affords(t)
  BY <1>2, <1>3, FinishAffords, LostRecordAffords, CrashAffords DEF Returns
<1>4. CASE \A l \in lanes : \A raw \in Results : ~Returns(l, raw)
  <2>1. Worked(t)' = Worked(t) /\ Charged(t)' = Charged(t)
    BY <1>4, VerdictsStay
  <2>2. Gently \/ Mishap \/ CycleFails
    BY <1>1, <1>4, StepGently
  <2> QED
    BY <1>1, <1>2, <2>1, <2>2, GentlyAffords, MishapAffords, FailureAffords
<1> QED
  BY <1>3, <1>4

----------------------------------------------------------------------------
(* A launch *)

\* What a launch finds of its ticket's lanes no longer counts for the Map, or
\* holds something its ticket gave up: a lane that held what the ticket covers
\* would have been in the way.
LEMMA LaunchFindsLoose ==
  ASSUME LocksInv, MapInv, NEW u \in Tickets, Launch(u)
  PROVE  Working(u) = Loose(u)
<1>1. Clear(u)
  BY DEF LocksInv, TodoClear, ConflictFree, Launch
<1>2. ASSUME NEW l \in LiveLanes, l.ticket = u, Registered(l), Holds(l)
      PROVE  FALSE
  <2> DEFINE files == territory[u] \cup rec.tstate[u].touched
  <2>1. l \in lanes /\ l \in InFlight /\ l.terr # {}
    BY <1>2 DEF LiveLanes, InFlight, MapInv
  <2>2. ~Conflicts(TerritoryOf(u), l.terr)
    BY <1>1, <2>1 DEF Clear
  <2>3. Untenanted \notin l.terr /\ TerritoryOf(u) \cap l.terr = {}
    BY <2>2 DEF Conflicts
  <2>4. l.terr \subseteq files
    BY <1>2, <2>3 DEF Holds
  <2>5. TerritoryOf(u) = files
    BY <2>1, <2>4 DEF TerritoryOf
  <2> HIDE DEF files
  <2> QED
    BY <2>1, <2>3, <2>4, <2>5
<1>3. \A l \in LiveLanes : l.ticket = u => ~(Registered(l) /\ Holds(l))
  BY <1>2
<1> QED
  BY <1>3 DEF Working, Loose

LEMMA LaunchAffords ==
  ASSUME LedgerInv, MapInv, NEW u \in Tickets, Launch(u), NEW t \in Tickets
  PROVE  /\ Worked(t)' <= Worked(t) /\ Worked(t)' \in Nat
         /\ Charged(t)' = Charged(t) /\ Mishaps' = Mishaps
         /\ Loose(t)' \subseteq Loose(t)
         /\ DeadElsewhere(t)' \subseteq DeadElsewhere(t)
         /\ Working(t)' \subseteq IF t = u THEN Loose(t) \cup {NextSeq(rec)} ELSE Working(t)
<1> DEFINE n   == NextSeq(rec)
           new == [seq |-> n, ticket |-> u, terr |-> TerritoryOf(u),
                   cycle |-> used.starts, aborted |-> FALSE, spent |-> 0, live |-> TRUE]
<1>1. /\ Typed /\ SeqsBehind /\ Windowed(rec) /\ LocksInv /\ WellFormed(rec)
  BY DEF LedgerInv, KnownUntilTrouble, LocksInv, Typed
<1>0. PICK x : x = new
  OBVIOUS
<1>2. /\ lanes' = lanes \cup {x} /\ inFlight' = [inFlight EXCEPT ![u] = n]
      /\ UNCHANGED <<territory, used>>
  BY <1>0 DEF Launch, board
<1>3. rec'.tstate = rec.tstate
  BY <1>1, AppendIterationKeeps DEF Launch
<1>4. Charged(t)' = Charged(t) /\ Mishaps' = Mishaps
  BY <1>2, <1>3 DEF Charged, Mishaps
<1>5. Worked(t)' <= Worked(t) /\ Worked(t)' \in Nat
  <2>1. One(Opened(rec, u), VerdictOn(t)) = 0
    BY OpenNoVerdict DEF Opened
  <2>2. /\ Those(rec'.iterations, VerdictOn(t)) \in Nat
        /\ Those(rec'.iterations, VerdictOn(t)) <= Those(rec.iterations, VerdictOn(t)) + 0
        /\ Those(rec.iterations, VerdictOn(t)) \in Nat
    BY <1>1, <2>1, LaunchCounts
  <2>3. Those(rec'.iterations, VerdictOn(t)) <= Those(rec.iterations, VerdictOn(t))
    BY <2>2
  <2> QED
    BY <2>2, <2>3 DEF Worked
<1>6. /\ x.seq = n /\ x.ticket = u /\ x.terr = TerritoryOf(u) /\ x.live
  BY <1>0
<1>7. \A l \in lanes : l.ticket \in Tickets
  BY <1>1 DEF Typed, TypeOK, Lane
<1>8. inFlight \in [Tickets -> Nat]
  BY <1>1 DEF Typed, TypeOK
<1> HIDE DEF new
<1>9. DeadElsewhere(t)' \subseteq DeadElsewhere(t)
  BY <1>2, <1>6 DEF DeadElsewhere
<1>10. Working(t)' \subseteq Working(t) \cup (IF t = u THEN {n} ELSE {})
  BY <1>2, <1>6 DEF Working, LiveLanes
<1>11. Holds(x)' /\ Registered(x)'
  <2>1. Holds(x)
    BY <1>6 DEF Holds, TerritoryOf
  <2> QED
    BY <1>2, <1>3, <1>6, <1>8, <2>1 DEF Holds, Registered
<1>12. Loose(t)' \subseteq Loose(t)
  <2> SUFFICES ASSUME NEW a \in LiveLanes', a.ticket = t, ~(Registered(a) /\ Holds(a))'
               PROVE  a.seq \in Loose(t)
    BY DEF Loose
  <2>1. a \in LiveLanes
    BY <1>2, <1>11 DEF LiveLanes
  <2>2. CASE t = u
    <3>1. a.seq \in Working(u)
      BY <2>1, <2>2 DEF Working
    <3> QED
      BY <1>1, <2>2, <3>1, LaunchFindsLoose
  <2>3. CASE t # u
    <3>1. Registered(a)' <=> Registered(a)
      BY <1>2, <1>8, <2>3 DEF Registered
    <3>2. Holds(a)' <=> Holds(a)
      BY <1>2, <1>3 DEF Holds
    <3> QED
      BY <2>1, <3>1, <3>2 DEF Loose
  <2> QED
    BY <2>2, <2>3
<1>13. t = u => Working(t) = Loose(t)
  BY <1>1, LaunchFindsLoose
<1> QED
  BY <1>4, <1>5, <1>9, <1>10, <1>12, <1>13

----------------------------------------------------------------------------
(* The budget *)

LEMMA AffordsBudget ==
  ASSUME LedgerInv, MapInv, BudgetInv, Typed', \A u \in Tickets : ~Launch(u), [Next]_vars,
         NEW t \in Tickets
  PROVE  /\ Worked(t)' + Cardinality(Loose(t)') + Cardinality(DeadElsewhere(t)')
              <= Charged(t)' + Mishaps'
         /\ Worked(t)' + Cardinality(Working(t)') <= MaxAttempts + Mishaps'
<1> DEFINE a1 == Worked(t)
           b1 == Worked(t)'
           a2 == Charged(t)
           b2 == Charged(t)'
           a3 == Mishaps
           b3 == Mishaps'
           a4 == Cardinality(Loose(t))
           b4 == Cardinality(Loose(t)')
           a5 == Cardinality(DeadElsewhere(t))
           b5 == Cardinality(DeadElsewhere(t)')
           a6 == Cardinality(Working(t))
           b6 == Cardinality(Working(t)')
<1>1. Affords(t) /\ BudgetInv
  BY StepAffords
<1>2. /\ b1 + b4 + b5 + a2 + a3 <= a1 + a4 + a5 + b2 + b3
      /\ b1 + b6 + a3 <= a1 + a6 + b3
  BY <1>1 DEF Affords
<1>3. a1 + a4 + a5 <= a2 + a3 /\ a1 + a6 <= MaxAttempts + a3
  BY <1>1 DEF BudgetInv
<1>4. Typed /\ SeqsBehind
  BY DEF LedgerInv, KnownUntilTrouble, LocksInv, Typed
<1>5. a1 \in Nat /\ a2 \in Nat /\ a3 \in Nat /\ a4 \in Nat /\ a5 \in Nat /\ a6 \in Nat
  BY <1>4, BudgetType

<1>6. b1 \in Nat /\ b2 \in Nat /\ b3 \in Nat
  <2>1. used' \in Counters
    BY DEF Typed, TypeOK
  <2>2. b3 \in Nat
    BY <2>1 DEF Counters, Mishaps
  <2> QED
    BY <2>2, NextType
<1>7. b4 \in Nat /\ b5 \in Nat /\ b6 \in Nat
  BY <1>1 DEF Affords
<1>8. MaxAttempts \in Nat
  BY LoopAssumption
<1> HIDE DEF a1, a2, a3, a4, a5, a6, b1, b2, b3, b4, b5, b6
<1>9. b1 + b4 + b5 <= b2 + b3
  BY <1>2, <1>3, <1>5, <1>6, <1>7
<1>10. b1 + b6 <= MaxAttempts + b3
  BY <1>2, <1>3, <1>5, <1>6, <1>7, <1>8
<1> QED
  BY <1>9, <1>10 DEF b1, b2, b3, b4, b5, b6

LEMMA LaunchBudget ==
  ASSUME LedgerInv, MapInv, BudgetInv, Typed', NEW u \in Tickets, Launch(u), NEW t \in Tickets
  PROVE  /\ Worked(t)' + Cardinality(Loose(t)') + Cardinality(DeadElsewhere(t)')
              <= Charged(t)' + Mishaps'
         /\ Worked(t)' + Cardinality(Working(t)') <= MaxAttempts + Mishaps'
<1> DEFINE a1 == Worked(t)
           b1 == Worked(t)'
           a2 == Charged(t)
           a3 == Mishaps
           a4 == Cardinality(Loose(t))
           b4 == Cardinality(Loose(t)')
           a5 == Cardinality(DeadElsewhere(t))
           b5 == Cardinality(DeadElsewhere(t)')
           a6 == Cardinality(Working(t))
           b6 == Cardinality(Working(t)')
<1>1. Typed /\ SeqsBehind
  BY DEF LedgerInv, KnownUntilTrouble, LocksInv, Typed
<1>2. /\ b1 <= a1 /\ b1 \in Nat /\ Charged(t)' = Charged(t) /\ Mishaps' = Mishaps
      /\ Loose(t)' \subseteq Loose(t) /\ DeadElsewhere(t)' \subseteq DeadElsewhere(t)
      /\ Working(t)' \subseteq IF t = u THEN Loose(t) \cup {NextSeq(rec)} ELSE Working(t)
  BY LaunchAffords
<1>3. /\ IsFiniteSet(Working(t)) /\ IsFiniteSet(Loose(t)) /\ IsFiniteSet(DeadElsewhere(t))
  BY <1>1, SeqsFinite
<1>4. b4 \in Nat /\ b4 <= a4 /\ b5 \in Nat /\ b5 <= a5
  BY <1>2, <1>3, NoMore
<1>5. b6 \in Nat /\ b6 <= IF t = u THEN a4 + 1 ELSE a6
  <2>1. CASE t = u
    BY <1>2, <1>3, <2>1, OneMore
  <2>2. CASE t # u
    BY <1>2, <1>3, <2>2, NoMore
  <2> QED
    BY <2>1, <2>2
<1>6. a1 + a4 + a5 <= a2 + a3 /\ a1 + a6 <= MaxAttempts + a3
  BY DEF BudgetInv
<1>7. t = u => a2 < MaxAttempts
  BY DEF BudgetInv, Launch
<1>8. a1 \in Nat /\ a2 \in Nat /\ a3 \in Nat /\ a4 \in Nat /\ a5 \in Nat /\ a6 \in Nat
  BY <1>1, BudgetType
<1>9. MaxAttempts \in Nat
  BY LoopAssumption
<1> HIDE DEF a1, a2, a3, a4, a5, a6, b1, b4, b5, b6
<1>10. b1 + b4 + b5 <= a2 + a3
  BY <1>2, <1>4, <1>6, <1>8
<1>11. b1 + b6 <= MaxAttempts + a3
  <2>1. CASE t = u
    <3>1. b6 <= a4 + 1 /\ a2 < MaxAttempts
      BY <1>5, <1>7, <2>1
    <3> QED
      BY <1>2, <1>4, <1>5, <1>6, <1>8, <1>9, <3>1
  <2>2. CASE t # u
    <3>1. b6 <= a6
      BY <1>5, <2>2
    <3> QED
      BY <1>2, <1>5, <1>6, <1>8, <1>9, <3>1
  <2> QED
    BY <2>1, <2>2
<1> QED
  BY <1>2, <1>10, <1>11 DEF a2, a3, b1, b4, b5, b6

LEMMA StepTodo ==
  ASSUME LedgerInv, BudgetInv, [Next]_vars
  PROVE  pc' = "launch" => \A t \in todo' : Charged(t)' < MaxAttempts
<1>1. /\ Typed /\ StatusFollows /\ WellFormed(rec)
  BY DEF LedgerInv, KnownUntilTrouble, LocksInv, Typed
<1>2. CASE CycleDispatches
  BY <1>2 DEF CycleDispatches, Dispatches, Eligible, Charged
<1>3. ASSUME NEW u \in Tickets, Launch(u)
      PROVE  \A t \in todo' : Charged(t)' < MaxAttempts
  <2>1. rec'.tstate = rec.tstate
    BY <1>1, <1>3, AppendIterationKeeps DEF Launch
  <2> QED
    BY <1>3, <2>1 DEF Launch, BudgetInv, Charged
<1>4. CASE Wake \/ UNCHANGED vars
  BY <1>4 DEF Wake, vars, BudgetInv, Charged
<1>5. CASE Cycle /\ \A t \in Tickets : ~Launch(t)
  BY <1>1, <1>2, <1>5, CycleCarries
<1>6. CASE UserStep \/ HostStep \/ \E l \in lanes : LaneStep(l)
  BY <1>1, <1>6, UserCarries, HostCarries, LaneCarries
<1> QED
  BY <1>3, <1>4, <1>5, <1>6 DEF Next

LEMMA StepBudget ==
  ASSUME LedgerInv, LedgerInv', MapInv, BudgetInv, [Next]_vars
  PROVE  BudgetInv'
<1>1. Typed'
  BY DEF LedgerInv, KnownUntilTrouble, LocksInv, Typed
<1>2. ASSUME NEW t \in Tickets
      PROVE  /\ Worked(t)' + Cardinality(Loose(t)') + Cardinality(DeadElsewhere(t)')
                  <= Charged(t)' + Mishaps'
             /\ Worked(t)' + Cardinality(Working(t)') <= MaxAttempts + Mishaps'
  BY <1>1, AffordsBudget, LaunchBudget
<1>3. pc' = "launch" => \A t \in todo' : Charged(t)' < MaxAttempts
  BY StepTodo
<1> QED
  BY <1>2, <1>3 DEF BudgetInv

LEMMA BudgetInvariant == Spec => [](MapInv /\ BudgetInv)
<1>1. Init => MapInv /\ BudgetInv
  <2> SUFFICES ASSUME Init
               PROVE  MapInv /\ BudgetInv
    OBVIOUS
  <2>1. /\ rec = NewRecord /\ lanes = {} /\ pc = "idle"
        /\ inFlight = [t \in Tickets |-> 0]
        /\ used.crashes = 0 /\ used.faults = 0 /\ used.resizes = 0
    BY DEF Init
  <2>2. NextSeq(rec) \in Nat /\ NextSeq(rec) > 0
    BY <2>1, NewRecordWellFormed, NextSeqIsLast DEF WellFormed
  <2>3. MapInv
    BY <2>1, <2>2 DEF MapInv, Running
  <2>4. ASSUME NEW t \in Tickets
        PROVE  /\ Worked(t) = 0 /\ Charged(t) = 0 /\ Cardinality(Loose(t)) = 0
               /\ Cardinality(DeadElsewhere(t)) = 0 /\ Cardinality(Working(t)) = 0
    <3>1. Loose(t) = {} /\ DeadElsewhere(t) = {} /\ Working(t) = {}
      BY <2>1 DEF Loose, DeadElsewhere, Working, LiveLanes
    <3>2. rec.iterations = <<>> /\ rec.tstate[t].attempts = 0
      BY <2>1 DEF NewRecord, UnknownTicket
    <3>3. Worked(t) = 0 /\ Charged(t) = 0
      BY <3>2, ThoseNone DEF Worked, Charged
    <3> QED
      BY <3>1, <3>3, FS_EmptySet
  <2>5. Mishaps = 0 /\ MaxAttempts \in Nat
    BY <2>1, LoopAssumption DEF Mishaps
  <2>6. BudgetInv
    BY <2>1, <2>4, <2>5 DEF BudgetInv
  <2> QED
    BY <2>3, <2>6
<1>2. LedgerInv /\ LedgerInv' /\ (MapInv /\ BudgetInv) /\ [Next]_vars => (MapInv /\ BudgetInv)'
  <2>1. LedgerInv => LocksInv
    BY DEF LedgerInv, KnownUntilTrouble
  <2> QED
    BY <2>1, StepMap, StepBudget
<1> QED
  BY <1>1, <1>2, LedgerInvariant, PTL DEF Spec

\* An attempt may be lost, never invented, so no ticket is worked to a verdict
\* more often than its budget and the mishaps allow: whatever was retired from
\* the window, in whatever order lanes return, pauses, crashes, failed writes and
\* changed territories come.
THEOREM BudgetIsKept == Spec => []RetryBudget
<1>1. LedgerInv /\ AttemptsInv /\ BudgetInv => RetryBudget
  <2> SUFFICES ASSUME LedgerInv, AttemptsInv, BudgetInv, NEW t \in Tickets
               PROVE  /\ Untrimmed => rec.tstate[t].attempts <= Cardinality(Verdicts(t))
                      /\ Cardinality(Verdicts(t))
                           <= MaxAttempts + used.crashes + used.faults + used.resizes
    BY DEF RetryBudget
  <2>1. Typed /\ SeqsBehind
    BY DEF LedgerInv, KnownUntilTrouble, LocksInv, Typed
  <2>2. Cardinality(Verdicts(t)) = Worked(t)
    BY <2>1, CardVerdicts DEF Worked
  <2>3. Untrimmed => rec.tstate[t].attempts <= Worked(t)
    BY DEF AttemptsInv, Worked
  <2>4. Worked(t) <= MaxAttempts + used.crashes + used.faults + used.resizes
    <3>1. Worked(t) + Cardinality(Working(t)) <= MaxAttempts + Mishaps
      BY DEF BudgetInv
    <3>2. Worked(t) \in Nat /\ Cardinality(Working(t)) \in Nat /\ Mishaps \in Nat
      BY <2>1, BudgetType
    <3>3. /\ used.crashes \in Nat /\ used.faults \in Nat /\ used.resizes \in Nat
          /\ MaxAttempts \in Nat
      BY <2>1, LoopAssumption DEF Typed, TypeOK, Counters
    <3>4. Mishaps = used.crashes + used.faults + used.resizes
      BY DEF Mishaps
    <3> HIDE DEF Worked, Mishaps
    <3> QED
      BY <3>1, <3>2, <3>3, <3>4
  <2> QED
    BY <2>2, <2>3, <2>4
<1> QED
  BY <1>1, AttemptsInvariant, BudgetInvariant, LedgerInvariant, PTL

============================================================================
