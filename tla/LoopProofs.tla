----------------------------- MODULE LoopProofs -----------------------------
(***************************************************************************)
(* What LoopSupervisor guarantees for every board, every queue, every      *)
(* number of worker slots and every bound.                                 *)
(***************************************************************************)
EXTENDS LoopProperties, LoopRecordsProofs

USE RetentionAssumption, LoopAssumption

----------------------------------------------------------------------------
(* Helpers *)

LEMMA CountType ==
  ASSUME used \in Counters,
         NEW c \in {"starts", "crashes", "edits", "resizes", "halts", "wakes", "faults"},
         Count(c)
  PROVE  used' \in Counters
  BY DEF Count, Counters

LEMMA FromReceiptType ==
  ASSUME NEW res \in Results
  PROVE  FromReceipt(res) \in LaneResult
  BY ZenonT(60) DEF FromReceipt, LaneResult, Receipts

LEMMA OutcomeOfType ==
  ASSUME NEW l, NEW res
  PROVE  OutcomeOf(l, res) \in Outcomes
  BY DEF OutcomeOf, Outcomes

LEMMA AfterSettleKeeps ==
  ASSUME WellFormed(rec), NEW l \in Lane, NEW res
  PROVE  LET q == AfterSettle(l, res)
         IN  /\ WellFormed(q) /\ NextSeq(q) = NextSeq(rec)
             /\ q.status = rec.status /\ q.tstate = rec.tstate
<1> DEFINE usd == IF res.threw THEN 0 ELSE l.spent
<1>1. usd \in Nat
  BY DEF Lane
<1>2. AfterSettle(l, res) = SettleIteration(rec, l.seq, OutcomeOf(l, res), usd)
  BY DEF AfterSettle
<1> HIDE DEF usd
<1> QED
  BY <1>1, <1>2, OutcomeOfType, SettleIterationKeeps

LEMMA AfterTicketStateKeeps ==
  ASSUME WellFormed(rec), NEW l \in Lane, NEW res \in LaneResult
  PROVE  LET q == AfterTicketState(l, res)
         IN  /\ WellFormed(q) /\ NextSeq(q) = NextSeq(rec) /\ q.status = rec.status
             /\ \A t \in Tickets : t # l.ticket => q.tstate[t] = rec.tstate[t]
<1> DEFINE old == rec.tstate[l.ticket]
           new == [old EXCEPT !.touched = @ \cup res.touched,
                              !.parked = @ \/ res.parked,
                              !.attempts = IF res.parked \/ Cancelled(l, res)
                                           THEN @ ELSE @ + 1]
           p == AfterSettle(l, res)
<1>1. /\ WellFormed(p) /\ NextSeq(p) = NextSeq(rec)
      /\ p.status = rec.status /\ p.tstate = rec.tstate
  BY AfterSettleKeeps
<1>2. l.ticket \in Tickets /\ old \in TicketState /\ rec.tstate \in [Tickets -> TicketState]
  BY DEF Lane, WellFormed, LoopRecord
<1>3. new \in TicketState
  <2> DEFINE touched  == old.touched \cup res.touched
             parked   == old.parked \/ res.parked
             attempts == IF res.parked \/ Cancelled(l, res)
                         THEN old.attempts ELSE old.attempts + 1
  <2>1. attempts \in Nat /\ touched \in SUBSET Files
    <3> HIDE DEF old
    <3> QED
      BY <1>2 DEF TicketState, LaneResult
  <2>2. parked \in BOOLEAN
    OBVIOUS
  <2>3. new = [old EXCEPT !.touched = touched, !.parked = parked, !.attempts = attempts]
    <3> HIDE DEF old
    <3> QED
      BY <1>2 DEF TicketState
  <2> HIDE DEF new, touched, parked, attempts, old
  <2> QED
    BY <1>2, <2>1, <2>2, <2>3 DEF TicketState
<1>4. AfterTicketState(l, res) = UpdateTicketState(p, l.ticket, new)
  BY DEF AfterTicketState
<1> DEFINE q == UpdateTicketState(p, l.ticket, new)
<1> HIDE DEF new, p, old, q
<1>5. /\ WellFormed(q) /\ NextSeq(q) = NextSeq(p) /\ q.status = p.status
      /\ q.tstate = [p.tstate EXCEPT ![l.ticket] = [new EXCEPT !.known = TRUE]]
  BY <1>1, <1>2, <1>3, UpdateTicketStateKeeps DEF q
<1>6. \A t \in Tickets : t # l.ticket => q.tstate[t] = rec.tstate[t]
  BY <1>1, <1>2, <1>5
<1> QED
  BY <1>1, <1>4, <1>5, <1>6 DEF q

LEMMA BoardAfterType ==
  ASSUME status \in [Tickets -> TicketStatuses], NEW l \in Lane, NEW res
  PROVE  BoardAfter(l, res) \in [Tickets -> TicketStatuses]
  BY DEF BoardAfter, TicketStatuses, Lane

LEMMA TerritoryOfType ==
  ASSUME TypeOK, NEW t \in Tickets
  PROVE  TerritoryOf(t) \in SUBSET Lock /\ TerritoryOf(t) # {}
<1>1. territory[t] \in SUBSET Files /\ rec.tstate[t].touched \in SUBSET Files
  BY DEF TypeOK, LoopRecord, TicketState
<1> QED
  BY <1>1 DEF TerritoryOf, Lock

LEMMA ForgetType ==
  ASSUME Forget
  PROVE  /\ inFlight' \in [Tickets -> Nat] /\ awaited' \subseteq Nat /\ todo' \subseteq Tickets
         /\ aborted' \in BOOLEAN /\ waker' \in {"none", "armed", "fired"}
         /\ wokenEarly' \in BOOLEAN /\ owed' \in BOOLEAN
  BY DEF Forget

\* Releasing a park writes a well-typed ticket state and changes nothing else.
LEMMA ReleaseKeeps ==
  ASSUME TypeOK, WellFormed(rec), NEW t \in Tickets, ReleasePark(t)
  PROVE  /\ WellFormed(rec') /\ NextSeq(rec') = NextSeq(rec)
         /\ rec'.status = rec.status
         /\ \A u \in Tickets : rec'.tstate[u].touched = rec.tstate[u].touched
<1> DEFINE old == rec.tstate[t]
           s   == [old EXCEPT !.parked = FALSE]
<1>1. old \in TicketState /\ rec.tstate \in [Tickets -> TicketState]
  BY DEF TypeOK, LoopRecord
<1>2. s \in TicketState /\ s.touched = old.touched
  <2> HIDE DEF old
  <2> QED
    BY <1>1 DEF TicketState
<1>3. rec' = UpdateTicketState(rec, t, s)
  BY DEF ReleasePark
<1> HIDE DEF s
<1>4. /\ WellFormed(rec') /\ NextSeq(rec') = NextSeq(rec) /\ rec'.status = rec.status
      /\ rec'.tstate = [rec.tstate EXCEPT ![t] = [s EXCEPT !.known = TRUE]]
  BY <1>2, <1>3, UpdateTicketStateKeeps
<1>5. [s EXCEPT !.known = TRUE].touched = s.touched
  BY <1>2 DEF TicketState
<1> QED
  BY <1>1, <1>2, <1>4, <1>5

LEMMA DispatchesType == \A D \in Dispatches : D \subseteq Tickets
  BY DEF Dispatches, Eligible, Queue

LEMMA StatusesType ==
  /\ {"paused", "stopped", "drained", "blocked", "failed"} \subseteq LoopStatus
  /\ \A s \in {"paused", "stopped", "drained", "blocked", "failed"} : s # "running"
  BY DEF LoopStatus

----------------------------------------------------------------------------
(* Types *)

\* What is proved of the state before every step.
Typed == TypeOK /\ WellFormed(rec)

LEMMA EndCycleTyped ==
  ASSUME Typed, NEW r, WellFormed(r), EndCycle(r), used' \in Counters
  PROVE  Typed'
<1>1. r \in LoopRecord
  BY DEF WellFormed
<1> QED
  BY <1>1, ForgetType DEF Typed, TypeOK, EndCycle, board, Phases

LEMMA SettledTyped ==
  ASSUME Typed, NEW s \in {"paused", "stopped", "drained", "blocked", "failed"}
  PROVE  /\ WellFormed(SetStatus(rec, s)) /\ SetStatus(rec, s) \in LoopRecord
         /\ NextSeq(SetStatus(rec, s)) = NextSeq(rec)
         /\ SetStatus(rec, s).status = s /\ SetStatus(rec, s).tstate = rec.tstate
  BY StatusesType, SetStatusKeeps DEF Typed, WellFormed

LEMMA CycleTyped ==
  ASSUME Typed, Cycle, StatusFollows
  PROVE  Typed'
<1> USE DEF Typed
<1>1. CASE CycleBreaks
  BY <1>1 DEF CycleBreaks, AwaitLanes, TypeOK, Phases, board
<1>2. CASE CycleHitsCeiling
  BY <1>2 DEF CycleHitsCeiling, AwaitLanes, TypeOK, Phases, board
<1>3. CASE CycleDrained
  BY <1>3, SettledTyped, EndCycleTyped DEF CycleDrained, TypeOK
<1>4. CASE CycleBlocked
  BY <1>4, SettledTyped, EndCycleTyped DEF CycleBlocked, TypeOK
<1>5. CASE CycleDispatches
  BY <1>5, DispatchesType DEF CycleDispatches, TypeOK, Phases, board
<1>6. CASE CycleWaits
  <2>1. CASE wokenEarly
    BY <1>6, <2>1 DEF CycleWaits, TypeOK, board
  <2>2. CASE ~wokenEarly
    <3>1. /\ pc' = "waiting" /\ waker' = "armed" /\ owed' = FALSE
          /\ awaited' = {inFlight[t] : t \in Tickets} \ {0}
          /\ UNCHANGED <<rec, status, territory, todo, inFlight, aborted, wokenEarly,
                         liveUsd, lanes, timeUp, paid, used>>
      BY <1>6, <2>2 DEF CycleWaits, AwaitLanes, board
    <3>2. awaited' \subseteq Nat
      BY <3>1 DEF TypeOK
    <3> QED
      BY <3>1, <3>2 DEF TypeOK, Phases
  <2> QED
    BY <2>1, <2>2
<1>7. CASE CycleResumes
  BY <1>7 DEF CycleResumes, TypeOK, Phases, board
<1>8. CASE CycleFails
  BY <1>8, SettledTyped, EndCycleTyped DEF CycleFails, TypeOK
<1>9. CASE CeilingSettles
  BY <1>9, SettledTyped, EndCycleTyped DEF CeilingSettles, TypeOK
<1>10. CASE DrainEnds
  BY <1>10, EndCycleTyped DEF DrainEnds, TypeOK
<1>12. CASE LaunchFails
  BY <1>12, SettledTyped, EndCycleTyped, CountType DEF LaunchFails, TypeOK
<1>11. ASSUME NEW t \in Tickets, Launch(t)
       PROVE  Typed'
  <2>1. WellFormed(rec') /\ rec' \in LoopRecord
    BY <1>11, AppendIterationKeeps DEF Launch, WellFormed
  <2>2. NextSeq(rec) \in Nat
    BY NextSeqIsLast DEF WellFormed
  <2>3. lanes' \subseteq Lane
    <3> DEFINE l == [seq |-> NextSeq(rec), ticket |-> t, terr |-> TerritoryOf(t),
                     cycle |-> used.starts, aborted |-> FALSE, spent |-> 0,
                     live |-> TRUE]
    <3>1. TerritoryOf(t) \in SUBSET Lock /\ used.starts \in Nat
      BY TerritoryOfType DEF TypeOK, Counters
    <3>2. l \in Lane
      BY <2>2, <3>1 DEF Lane
    <3>3. lanes' = lanes \cup {l}
      BY <1>11 DEF Launch
    <3> QED
      BY <3>2, <3>3 DEF TypeOK
  <2> QED
    BY <1>11, <2>1, <2>2, <2>3 DEF Launch, TypeOK, Phases, board
<1> QED
  BY <1>1, <1>2, <1>3, <1>4, <1>5, <1>6, <1>7, <1>8, <1>9, <1>10, <1>11, <1>12 DEF Cycle

LEMMA LaneTyped ==
  ASSUME Typed, NEW l \in lanes, LaneStep(l)
  PROVE  Typed'
<1> USE DEF Typed
<1>1. l \in Lane /\ l.ticket \in Tickets /\ l.spent \in Nat
  BY DEF TypeOK, Lane
<1>2. CASE Spend(l)
  <2>1. [l EXCEPT !.spent = @ + 1] \in Lane
    BY <1>1 DEF Lane
  <2> QED
    BY <1>1, <1>2, <2>1 DEF Spend, TypeOK, board, memory
<1>3. CASE LaneMovesTicket(l)
  <2>1. LaneStatuses \subseteq TicketStatuses
    BY DEF LoopAssumption, OpenStatuses, TicketStatuses
  <2>2. status' \in [Tickets -> TicketStatuses]
    BY <1>1, <1>3, <2>1 DEF LaneMovesTicket, TypeOK
  <2>3. UNCHANGED <<rec, territory, memory, liveUsd, lanes, timeUp, owed, paid, used>>
    BY <1>3 DEF LaneMovesTicket
  <2> QED
    BY <2>2, <2>3 DEF TypeOK, memory
<1>4. ASSUME NEW raw \in Results, FinishLane(l, raw)
      PROVE  Typed'
  <2> DEFINE res == FromReceipt(raw)
  <2>1. res \in LaneResult
    BY FromReceiptType
  <2>2. WellFormed(rec') /\ rec' \in LoopRecord
    BY <1>1, <1>4, <2>1, AfterTicketStateKeeps DEF FinishLane, WellFormed
  <2>3. status' \in [Tickets -> TicketStatuses]
    BY <1>1, <1>4, BoardAfterType DEF FinishLane, TypeOK
  <2> QED
    BY <1>1, <1>4, <2>2, <2>3 DEF FinishLane, TypeOK
<1>5. ASSUME NEW raw \in Results, LaneRecordFails(l, raw)
      PROVE  Typed'
  <2>1. WellFormed(rec') /\ rec' \in LoopRecord
    BY <1>1, <1>5, AfterSettleKeeps DEF LaneRecordFails, WellFormed
  <2>2. [l EXCEPT !.live = FALSE] \in Lane
    BY <1>1 DEF Lane
  <2>3. used' \in Counters
    BY <1>5, CountType DEF LaneRecordFails, TypeOK
  <2> QED
    BY <1>1, <1>5, <2>1, <2>2, <2>3 DEF LaneRecordFails, TypeOK, board, memory
<1> QED
  BY <1>2, <1>3, <1>4, <1>5 DEF LaneStep

LEMMA UserTyped ==
  ASSUME Typed, StatusFollows, UserStep \/ Wake
  PROVE  Typed'
<1> USE DEF Typed
<1>1. CASE Start
  <2>1. WellFormed(rec') /\ rec' \in LoopRecord
    BY <1>1, BeginExecutionKeeps DEF Start, StatusFollows, WellFormed
  <2>2. used' \in Counters
    BY <1>1, CountType DEF Start, TypeOK
  <2> QED
    BY <1>1, <2>1, <2>2, ForgetType DEF Start, TypeOK, Phases, board
<1>2. CASE Pause
  <2>1. used' \in Counters
    BY <1>2, CountType DEF Pause, TypeOK
  <2> QED
    BY <1>2, <2>1, SettledTyped DEF Pause, TypeOK, board
<1>3. CASE Stop
  <2>1. used' \in Counters
    BY <1>3, CountType DEF Stop, TypeOK
  <2>2. lanes' \subseteq Lane
    <3>1. \A l \in Lane : \A x : [l EXCEPT !.aborted = (l.aborted \/ x)] \in Lane
      BY DEF Lane
    <3> QED
      BY <1>3, <3>1 DEF Stop, TypeOK
  <2> QED
    BY <1>3, <2>1, <2>2, SettledTyped DEF Stop, TypeOK, board
<1>4. CASE ClockRunsOut
  BY <1>4 DEF ClockRunsOut, TypeOK, board, memory
<1>5. ASSUME NEW t \in Tickets, ReleasePark(t)
      PROVE  Typed'
  <2>1. WellFormed(rec') /\ rec' \in LoopRecord
    BY <1>5, ReleaseKeeps DEF WellFormed
  <2>2. used' \in Counters
    BY <1>5, CountType DEF ReleasePark, TypeOK
  <2> QED
    BY <1>5, <2>1, <2>2 DEF ReleasePark, TypeOK, memory, TicketStatuses
<1>6. ASSUME NEW t \in Tickets, UserSetsStatus(t)
      PROVE  Typed'
  <2>1. used' \in Counters
    BY <1>6, CountType DEF UserSetsStatus, TypeOK
  <2> QED
    BY <1>6, <2>1 DEF UserSetsStatus, TypeOK, memory
<1>7. ASSUME NEW t \in Tickets, Resize(t)
      PROVE  Typed'
  <2>1. used' \in Counters
    BY <1>7, CountType DEF Resize, TypeOK
  <2> QED
    BY <1>7, <2>1 DEF Resize, TypeOK, memory
<1>8. CASE Wake
  <2>1. used' \in Counters
    BY <1>8, CountType DEF Wake, TypeOK
  <2> QED
    BY <1>8, <2>1 DEF Wake, TypeOK, board
<1> QED
  BY <1>1, <1>2, <1>3, <1>4, <1>5, <1>6, <1>7, <1>8 DEF UserStep

LEMMA HostTyped ==
  ASSUME Typed, HostStep
  PROVE  Typed'
<1> USE DEF Typed
<1>1. CASE Crash
  <2>1. used' \in Counters
    BY <1>1, CountType DEF Crash, Dies, TypeOK
  <2> QED
    BY <1>1, <2>1, ForgetType DEF Crash, Dies, TypeOK, Phases, board
<1>2. ASSUME NEW l \in lanes, NEW raw \in Results, CrashMidRecord(l, raw)
      PROVE  Typed'
  <2>1. FromReceipt(raw) \in LaneResult /\ l \in Lane
    BY FromReceiptType DEF TypeOK
  <2>2. WellFormed(rec') /\ rec' \in LoopRecord
    BY <1>2, <2>1, AfterSettleKeeps, AfterTicketStateKeeps DEF CrashMidRecord, WellFormed
  <2>3. used' \in Counters
    BY <1>2, CountType DEF CrashMidRecord, Dies, TypeOK
  <2> QED
    BY <1>2, <2>2, <2>3, ForgetType DEF CrashMidRecord, Dies, TypeOK, Phases, board
<1>3. CASE Restart
  BY <1>3 DEF Restart, TypeOK, Phases, board
<1>4. CASE RestoreIteration
  <2>1. WellFormed(rec') /\ rec' \in LoopRecord
    BY <1>4, AbandonIterationKeeps DEF RestoreIteration, OpenIterations, WellFormed
  <2> QED
    BY <1>4, <2>1 DEF RestoreIteration, TypeOK, board, memory
<1>5. CASE RestoreStatus
  <2>1. WellFormed(rec') /\ rec' \in LoopRecord
    BY <1>5, SettledTyped DEF RestoreStatus, TypeOK
  <2> QED
    BY <1>5, <2>1 DEF RestoreStatus, TypeOK, Phases, board
<1> QED
  BY <1>1, <1>2, <1>3, <1>4, <1>5 DEF HostStep

LEMMA StepTyped ==
  ASSUME Typed, StatusFollows, [Next]_vars
  PROVE  Typed'
<1>1. CASE Next
  BY <1>1, CycleTyped, LaneTyped, UserTyped, HostTyped DEF Next
<1>2. CASE UNCHANGED vars
  BY <1>2 DEF vars, Typed, TypeOK
<1> QED
  BY <1>1, <1>2

----------------------------------------------------------------------------
(* The record's status and the cycle *)

LEMMA StepStatus ==
  ASSUME Typed, StatusFollows, [Next]_vars
  PROVE  StatusFollows'
<1>1. CASE Cycle
  <2>1. ASSUME NEW s \in {"paused", "stopped", "drained", "blocked", "failed"},
               EndCycle(SetStatus(rec, s))
        PROVE  StatusFollows'
    BY <2>1, SettledTyped, StatusesType DEF EndCycle, Forget, StatusFollows
  <2>2. CASE CycleBreaks
    BY <2>2 DEF CycleBreaks, AwaitLanes, StatusFollows
  <2>3. CASE CycleHitsCeiling
    BY <2>3 DEF CycleHitsCeiling, Unaborted, AwaitLanes, StatusFollows
  <2>4. CASE CycleDrained \/ CycleBlocked \/ CycleFails \/ CeilingSettles \/ LaunchFails
    BY <2>1, <2>4 DEF CycleDrained, CycleBlocked, CycleFails, CeilingSettles, LaunchFails
  <2>5. CASE CycleDispatches
    BY <2>5 DEF CycleDispatches, Passing, Unaborted, StatusFollows
  <2>6. CASE CycleWaits
    BY <2>6 DEF CycleWaits, Passing, Unaborted, AwaitLanes, StatusFollows
  <2>7. CASE CycleResumes
    BY <2>7 DEF CycleResumes, StatusFollows
  <2>8. CASE DrainEnds
    BY <2>8 DEF DrainEnds, EndCycle, Forget, StatusFollows
  <2>9. ASSUME NEW t \in Tickets, Launch(t)
        PROVE  StatusFollows'
    <3>1. rec'.status = rec.status
      BY <2>9, AppendIterationKeeps DEF Launch, Typed
    <3> QED
      BY <2>9, <3>1 DEF Launch, StatusFollows
  <2> QED
    BY <1>1, <2>2, <2>3, <2>4, <2>5, <2>6, <2>7, <2>8, <2>9 DEF Cycle
<1>2. CASE Wake \/ \E l \in lanes : LaneStep(l)
  <2>1. /\ rec'.status = rec.status /\ UNCHANGED <<pc, aborted>>
    <3>1. CASE Wake
      BY <3>1 DEF Wake
    <3>2. ASSUME NEW l \in lanes, Spend(l) \/ LaneMovesTicket(l)
          PROVE  rec'.status = rec.status /\ UNCHANGED <<pc, aborted>>
      BY <3>2 DEF Spend, LaneMovesTicket, memory
    <3>3. ASSUME NEW l \in lanes, NEW raw \in Results, FinishLane(l, raw)
          PROVE  rec'.status = rec.status /\ UNCHANGED <<pc, aborted>>
      <4>1. l \in Lane /\ FromReceipt(raw) \in LaneResult
        BY FromReceiptType DEF Typed, TypeOK
      <4> QED
        BY <3>3, <4>1, AfterTicketStateKeeps DEF FinishLane, Typed
    <3>4. ASSUME NEW l \in lanes, NEW raw \in Results, LaneRecordFails(l, raw)
          PROVE  rec'.status = rec.status /\ UNCHANGED <<pc, aborted>>
      <4>1. l \in Lane
        BY DEF Typed, TypeOK
      <4> QED
        BY <3>4, <4>1, AfterSettleKeeps DEF LaneRecordFails, Typed, memory
    <3> QED
      BY <1>2, <3>1, <3>2, <3>3, <3>4 DEF LaneStep
  <2> QED
    BY <2>1 DEF StatusFollows
<1>3. CASE UserStep
  <2>1. CASE Start
    BY <2>1 DEF Start, Forget, StatusFollows
  <2>2. CASE Pause
    BY <2>2, SettledTyped DEF Pause, Await, StatusFollows
  <2>3. CASE Stop
    BY <2>3, SettledTyped DEF Stop, Await, StatusFollows
  <2>4. CASE ClockRunsOut
    BY <2>4 DEF ClockRunsOut, memory, StatusFollows
  <2>5. ASSUME NEW t \in Tickets, ReleasePark(t)
        PROVE  StatusFollows'
    BY <2>5, ReleaseKeeps DEF Typed, ReleasePark, memory, StatusFollows
  <2>6. ASSUME NEW t \in Tickets, UserSetsStatus(t) \/ Resize(t)
        PROVE  StatusFollows'
    BY <2>6 DEF UserSetsStatus, Resize, memory, StatusFollows
  <2> QED
    BY <1>3, <2>1, <2>2, <2>3, <2>4, <2>5, <2>6 DEF UserStep
<1>4. CASE HostStep
  <2>1. CASE Crash
    BY <2>1 DEF Crash, Dies, Forget, StatusFollows
  <2>2. ASSUME NEW l \in lanes, NEW raw \in Results, CrashMidRecord(l, raw)
        PROVE  StatusFollows'
    BY <2>2 DEF CrashMidRecord, Dies, Forget, StatusFollows
  <2>3. CASE Restart
    BY <2>3 DEF Restart, StatusFollows
  <2>4. CASE RestoreIteration
    <3>1. rec'.status = rec.status
      BY <2>4, AbandonIterationKeeps DEF RestoreIteration, OpenIterations, Typed
    <3> QED
      BY <2>4, <3>1 DEF RestoreIteration, memory, StatusFollows
  <2>5. CASE RestoreStatus
    BY <2>5, SettledTyped DEF RestoreStatus, StatusFollows
  <2> QED
    BY <1>4, <2>1, <2>2, <2>3, <2>4, <2>5 DEF HostStep
<1>5. CASE UNCHANGED vars
  BY <1>5 DEF vars, StatusFollows
<1> QED
  BY <1>1, <1>2, <1>3, <1>4, <1>5 DEF Next

----------------------------------------------------------------------------
(* Locks *)

SameLane(a, l) == /\ a.seq = l.seq /\ a.ticket = l.ticket /\ a.terr = l.terr
                  /\ a.live => l.live

\* The lanes after the step are lanes of before, two of them two of before,
\* and the Map has gained no entry.
LanesCarry ==
  /\ NextSeq(rec') = NextSeq(rec)
  /\ \A a \in lanes' : \E l \in lanes : SameLane(a, l)
  /\ \A a, b \in lanes' : a # b =>
       \E l, m \in lanes : l # m /\ SameLane(a, l) /\ SameLane(b, m)
  /\ \A t \in Tickets : inFlight'[t] = inFlight[t] \/ inFlight'[t] = 0

LEMMA CarriedLocks ==
  ASSUME TypeOK, SeqsBehind, LocksDisjoint, LanesCarry
  PROVE  SeqsBehind' /\ LocksDisjoint'
<1>1. \A l \in lanes : l.ticket \in Tickets /\ l.seq \in Nat
  BY DEF TypeOK, Lane
<1>2. SeqsBehind'
  BY DEF SeqsBehind, LanesCarry, SameLane
<1>3. ASSUME NEW a \in InFlight', NEW b \in InFlight', a # b
      PROVE  ~Conflicts(a.terr, b.terr)
  <2>1. PICK l \in lanes, m \in lanes : l # m /\ SameLane(a, l) /\ SameLane(b, m)
    BY <1>3 DEF LanesCarry, InFlight
  <2>2. l \in InFlight /\ m \in InFlight
    BY <1>1, <1>3, <2>1 DEF InFlight, Registered, LanesCarry, SameLane, SeqsBehind
  <2> QED
    BY <2>1, <2>2 DEF LocksDisjoint, SameLane
<1>4. LocksDisjoint'
  BY <1>3 DEF LocksDisjoint, Conflicts
<1> QED
  BY <1>2, <1>4

\* Every step but a launch carries the lanes over, and none but a pass or a
\* wake leaves the cycle in the middle of its launches.
LEMMA EndCycleCarries ==
  ASSUME Typed, NEW r, NextSeq(r) = NextSeq(rec), EndCycle(r)
  PROVE  LanesCarry /\ pc' # "launch"
  BY DEF EndCycle, Forget, LanesCarry, SameLane

LEMMA SameLanesCarry ==
  ASSUME NextSeq(rec') = NextSeq(rec), UNCHANGED <<lanes, inFlight>>
  PROVE  LanesCarry
  BY DEF LanesCarry, SameLane

LEMMA CycleCarries ==
  ASSUME Typed, Cycle, \A t \in Tickets : ~Launch(t)
  PROVE  LanesCarry /\ (pc' = "launch" => CycleDispatches)
<1>1. CASE CycleBreaks \/ CycleHitsCeiling \/ CycleWaits \/ CycleResumes \/ CycleDispatches
  BY <1>1, SameLanesCarry
     DEF CycleBreaks, CycleHitsCeiling, CycleWaits, CycleResumes, CycleDispatches,
         AwaitLanes, Passing, Unaborted
<1>2. CASE CycleDrained \/ CycleBlocked \/ CycleFails \/ CeilingSettles \/ LaunchFails
  BY <1>2, SettledTyped, EndCycleCarries
     DEF CycleDrained, CycleBlocked, CycleFails, CeilingSettles, LaunchFails
<1>3. CASE DrainEnds
  BY <1>3, EndCycleCarries DEF DrainEnds
<1> QED
  BY <1>1, <1>2, <1>3 DEF Cycle

\* A lane that is replaced by one with another spend, or marked rejected, is
\* the same lane for the locks.
LEMMA ReplacedLaneCarries ==
  ASSUME NextSeq(rec') = NextSeq(rec), NEW l \in lanes, NEW x, SameLane(x, l),
         lanes' = (lanes \ {l}) \cup {x} \/ lanes' = lanes \ {l},
         \A t \in Tickets : inFlight'[t] = inFlight[t] \/ inFlight'[t] = 0
  PROVE  LanesCarry
<1>1. \A a \in lanes' : (a \in lanes \ {l}) \/ a = x
  OBVIOUS
<1>2. ASSUME NEW a \in lanes'
      PROVE  \E m \in lanes : SameLane(a, m)
  BY <1>1 DEF SameLane
<1>3. ASSUME NEW a \in lanes', NEW b \in lanes', a # b
      PROVE  \E m, k \in lanes : m # k /\ SameLane(a, m) /\ SameLane(b, k)
  <2>1. CASE a = x
    BY <1>1, <1>3, <2>1 DEF SameLane
  <2>2. CASE b = x
    BY <1>1, <1>3, <2>2 DEF SameLane
  <2>3. CASE a # x /\ b # x
    BY <1>1, <1>3, <2>3 DEF SameLane
  <2> QED
    BY <2>1, <2>2, <2>3
<1> QED
  BY <1>2, <1>3 DEF LanesCarry

LEMMA LaneCarries ==
  ASSUME Typed, NEW l \in lanes, LaneStep(l)
  PROVE  LanesCarry /\ pc' # "launch"
<1>1. l \in Lane
  BY DEF Typed, TypeOK
<1>2. CASE Spend(l)
  <2>1. SameLane([l EXCEPT !.spent = @ + 1], l)
    BY <1>1 DEF SameLane, Lane
  <2> QED
    BY <1>2, <2>1, ReplacedLaneCarries DEF Spend, memory, Await
<1>3. CASE LaneMovesTicket(l)
  BY <1>3, SameLanesCarry DEF LaneMovesTicket, memory, Await
<1>4. ASSUME NEW raw \in Results, FinishLane(l, raw)
      PROVE  LanesCarry /\ pc' # "launch"
  <2>1. NextSeq(rec') = NextSeq(rec)
    BY <1>1, <1>4, FromReceiptType, AfterTicketStateKeeps DEF FinishLane, Typed
  <2>2. \A t \in Tickets : inFlight'[t] = inFlight[t] \/ inFlight'[t] = 0
    BY <1>4 DEF FinishLane, Typed, TypeOK
  <2>3. SameLane(l, l)
    BY DEF SameLane
  <2>4. LanesCarry
    BY <1>4, <2>1, <2>2, <2>3, ReplacedLaneCarries DEF FinishLane
  <2> QED
    BY <1>4, <2>4 DEF FinishLane, LaneReturns, Await
<1>5. ASSUME NEW raw \in Results, LaneRecordFails(l, raw)
      PROVE  LanesCarry /\ pc' # "launch"
  <2> DEFINE x == [l EXCEPT !.live = FALSE]
  <2>1. NextSeq(rec') = NextSeq(rec)
    BY <1>1, <1>5, AfterSettleKeeps DEF LaneRecordFails, Typed
  <2>2. SameLane(x, l)
    BY <1>1 DEF SameLane, Lane
  <2>3. lanes' = (lanes \ {l}) \cup {x} \/ lanes' = lanes \ {l}
    BY <1>5 DEF LaneRecordFails
  <2>4. UNCHANGED inFlight /\ pc' # "launch"
    BY <1>5 DEF LaneRecordFails, LaneReturns, memory, Await
  <2> HIDE DEF x
  <2> QED
    BY <2>1, <2>2, <2>3, <2>4, ReplacedLaneCarries
<1> QED
  BY <1>2, <1>3, <1>4, <1>5 DEF LaneStep

LEMMA UserCarries ==
  ASSUME Typed, StatusFollows, UserStep
  PROVE  LanesCarry /\ pc' # "launch"
<1>1. CASE Start
  <2>1. NextSeq(rec') = NextSeq(rec)
    BY <1>1, BeginExecutionKeeps DEF Start, StatusFollows, Typed
  <2> QED
    BY <1>1, <2>1 DEF Start, Forget, LanesCarry, SameLane
<1>2. CASE Pause
  BY <1>2, SettledTyped, SameLanesCarry DEF Pause, Await
<1>3. CASE Stop
  <2>1. NextSeq(rec') = NextSeq(rec) /\ UNCHANGED <<pc, inFlight>> /\ pc # "launch"
    BY <1>3, SettledTyped DEF Stop, Await
  <2> DEFINE cut(l) == [l EXCEPT !.aborted = l.aborted \/ (Running /\ l.cycle = used.starts)]
  <2>2. lanes' = {cut(l) : l \in lanes}
    BY <1>3 DEF Stop
  <2>3. \A l \in lanes : SameLane(cut(l), l)
    BY DEF Typed, TypeOK, Lane, SameLane
  <2> HIDE DEF cut
  <2> QED
    BY <2>1, <2>2, <2>3 DEF LanesCarry
<1>4. CASE ClockRunsOut
  BY <1>4, SameLanesCarry DEF ClockRunsOut, memory, Await
<1>5. ASSUME NEW t \in Tickets, ReleasePark(t)
      PROVE  LanesCarry /\ pc' # "launch"
  BY <1>5, ReleaseKeeps, SameLanesCarry DEF Typed, ReleasePark, memory, Await
<1>6. ASSUME NEW t \in Tickets, UserSetsStatus(t) \/ Resize(t)
      PROVE  LanesCarry /\ pc' # "launch"
  BY <1>6, SameLanesCarry DEF UserSetsStatus, Resize, memory, Await
<1> QED
  BY <1>1, <1>2, <1>3, <1>4, <1>5, <1>6 DEF UserStep

LEMMA HostCarries ==
  ASSUME Typed, HostStep
  PROVE  LanesCarry /\ pc' # "launch"
<1>1. CASE Crash
  BY <1>1 DEF Crash, Dies, Forget, LanesCarry
<1>2. ASSUME NEW l \in lanes, NEW raw \in Results, CrashMidRecord(l, raw)
      PROVE  LanesCarry /\ pc' # "launch"
  <2>1. l \in Lane /\ FromReceipt(raw) \in LaneResult
    BY FromReceiptType DEF Typed, TypeOK
  <2>2. NextSeq(rec') = NextSeq(rec)
    BY <1>2, <2>1, AfterSettleKeeps, AfterTicketStateKeeps DEF CrashMidRecord, Typed
  <2> QED
    BY <1>2, <2>2 DEF CrashMidRecord, Dies, Forget, LanesCarry
<1>3. CASE Restart
  BY <1>3, SameLanesCarry DEF Restart
<1>4. CASE RestoreIteration
  <2>1. NextSeq(rec') = NextSeq(rec)
    BY <1>4, AbandonIterationKeeps DEF RestoreIteration, OpenIterations, Typed
  <2> QED
    BY <1>4, <2>1, SameLanesCarry DEF RestoreIteration, memory
<1>5. CASE RestoreStatus
  BY <1>5, SettledTyped, SameLanesCarry DEF RestoreStatus
<1> QED
  BY <1>1, <1>2, <1>3, <1>4, <1>5 DEF HostStep

\* Conflict-freedom reads only the territories, what the lanes touched and the
\* lanes themselves.
LEMMA ClearCarries ==
  ASSUME TypeOK, NEW S \in SUBSET Tickets, ConflictFree(S),
         UNCHANGED <<territory, lanes, inFlight>>, rec'.tstate = rec.tstate
  PROVE  ConflictFree(S)'
<1>1. \A t \in Tickets : TerritoryOf(t)' = TerritoryOf(t)
  BY DEF TerritoryOf
<1>2. InFlight' = InFlight
  BY DEF InFlight, Registered
<1> QED
  BY <1>1, <1>2 DEF ConflictFree, Clear, Conflicts

LEMMA PassClears ==
  ASSUME TypeOK, CycleDispatches
  PROVE  TodoClear'
<1>1. PICK D \in Dispatches : todo' = D
  BY DEF CycleDispatches
<1>2. D \in SUBSET Tickets
  BY DispatchesType
<1>3. ConflictFree(D)
  <2>1. PICK S \in ReadySets : D \subseteq S
    BY DEF Dispatches
  <2> QED
    BY <2>1 DEF ReadySets, ConflictFree
<1>4. ConflictFree(D)'
  BY <1>2, <1>3, ClearCarries DEF CycleDispatches, board
<1> QED
  BY <1>1, <1>4 DEF TodoClear, ConflictFree, Clear, InFlight, Registered

\* A launch takes its ticket's territory, which fits beside everything in
\* flight and everything still to launch.
LEMMA LaunchLocks ==
  ASSUME LocksInv, NEW t \in Tickets, Launch(t)
  PROVE  SeqsBehind' /\ TodoClear' /\ LocksDisjoint'
<1> DEFINE n   == NextSeq(rec)
           new == [seq |-> n, ticket |-> t, terr |-> TerritoryOf(t),
                   cycle |-> used.starts, aborted |-> FALSE, spent |-> 0, live |-> TRUE]
<1>1. /\ TypeOK /\ WellFormed(rec) /\ SeqsBehind /\ ConflictFree(todo) /\ LocksDisjoint
      /\ t \in todo /\ todo \subseteq Tickets
  BY DEF LocksInv, TodoClear, Launch, TypeOK
<1>2. /\ NextSeq(rec') = n + 1 /\ n \in Nat /\ n > 0 /\ rec'.tstate = rec.tstate
  BY <1>1, AppendIterationKeeps, NextSeqIsLast DEF Launch, WellFormed
<1>3. /\ lanes' = lanes \cup {new} /\ inFlight' = [inFlight EXCEPT ![t] = n]
      /\ todo' = todo \ {t} /\ UNCHANGED territory
  BY DEF Launch, board
<1>4. /\ \A l \in lanes : l.ticket \in Tickets /\ l.seq \in Nat /\ 0 < l.seq /\ l.seq < n
      /\ inFlight \in [Tickets -> Nat]
  BY <1>1 DEF SeqsBehind, TypeOK, Lane
<1>5. new.seq = n /\ new.ticket = t /\ new.terr = TerritoryOf(t)
  OBVIOUS
<1> HIDE DEF new, n
<1>6. SeqsBehind'
  <2>1. \A l \in lanes' : 0 < l.seq /\ l.seq < n + 1
    BY <1>2, <1>3, <1>4, <1>5
  <2> QED
    BY <1>2, <2>1 DEF SeqsBehind
<1>7. \A l \in InFlight' : l = new \/ l \in InFlight
  BY <1>3, <1>4 DEF InFlight, Registered
<1>8. \A u \in Tickets : TerritoryOf(u)' = TerritoryOf(u)
  BY <1>2, <1>3 DEF TerritoryOf
<1>9. \A a, b : Conflicts(a, b) <=> Conflicts(b, a)
  BY DEF Conflicts
<1>10. \A l \in InFlight, u \in todo : ~Conflicts(TerritoryOf(u), l.terr)
  BY <1>1 DEF ConflictFree, Clear
<1>11. \A u \in todo' : ~Conflicts(TerritoryOf(u), TerritoryOf(t))
  BY <1>1, <1>3 DEF ConflictFree
<1>12. LocksDisjoint'
  <2> SUFFICES ASSUME NEW l \in InFlight', NEW m \in InFlight', l # m
               PROVE  ~Conflicts(l.terr, m.terr)
    BY DEF LocksDisjoint, Conflicts
  <2>1. CASE l = new
    BY <1>1, <1>5, <1>7, <1>9, <1>10, <2>1
  <2>2. CASE m = new
    BY <1>1, <1>5, <1>7, <1>9, <1>10, <2>2
  <2>3. CASE l # new /\ m # new
    BY <1>1, <1>7, <2>3 DEF LocksDisjoint
  <2> QED
    BY <2>1, <2>2, <2>3
<1>13. TodoClear'
  <2>1. \A u \in todo', l \in InFlight' : ~Conflicts(TerritoryOf(u), l.terr)
    BY <1>3, <1>5, <1>7, <1>10, <1>11
  <2>2. \A u, v \in todo' : u # v => ~Conflicts(TerritoryOf(u), TerritoryOf(v))
    BY <1>1, <1>3 DEF ConflictFree
  <2>3. \A u \in todo' : u \in Tickets
    BY <1>1, <1>3
  <2> HIDE DEF Conflicts
  <2> QED
    BY <1>8, <2>1, <2>2, <2>3 DEF TodoClear, ConflictFree, Clear, Conflicts
<1> QED
  BY <1>6, <1>12, <1>13

LEMMA StepLocks ==
  ASSUME LocksInv, [Next]_vars
  PROVE  LocksInv'
<1>1. Typed /\ StatusFollows /\ TypeOK /\ SeqsBehind /\ LocksDisjoint /\ TodoClear
  BY DEF LocksInv, Typed
<1>2. TypeOK' /\ WellFormed(rec)' /\ StatusFollows'
  BY <1>1, StepTyped, StepStatus DEF Typed
<1>3. SeqsBehind' /\ TodoClear' /\ LocksDisjoint'
  <2>1. ASSUME NEW t \in Tickets, Launch(t)
        PROVE  SeqsBehind' /\ TodoClear' /\ LocksDisjoint'
    BY <2>1, LaunchLocks
  <2>2. CASE Cycle /\ \A t \in Tickets : ~Launch(t)
    <3>1. LanesCarry /\ (pc' = "launch" => CycleDispatches)
      BY <1>1, <2>2, CycleCarries
    <3>2. TodoClear'
      <4>1. CASE pc' = "launch"
        BY <1>1, <3>1, <4>1, PassClears
      <4>2. CASE pc' # "launch"
        BY <4>2 DEF TodoClear
      <4> QED
        BY <4>1, <4>2
    <3> QED
      BY <1>1, <3>1, <3>2, CarriedLocks
  <2>3. CASE UserStep \/ HostStep \/ \E l \in lanes : LaneStep(l)
    <3>1. LanesCarry /\ pc' # "launch"
      BY <1>1, <2>3, UserCarries, HostCarries, LaneCarries
    <3> QED
      BY <1>1, <3>1, CarriedLocks DEF TodoClear
  <2>4. CASE Wake \/ UNCHANGED vars
    <3>1. /\ UNCHANGED <<rec, territory, pc, todo, inFlight, lanes>>
      BY <2>4 DEF Wake, vars, board
    <3>2. LanesCarry
      BY <3>1, SameLanesCarry
    <3>3. TodoClear'
      <4>1. CASE pc' = "launch"
        <5>1. ConflictFree(todo) /\ todo \in SUBSET Tickets
          BY <1>1, <3>1, <4>1 DEF TodoClear, TypeOK
        <5>2. \A t \in Tickets : TerritoryOf(t)' = TerritoryOf(t)
          BY <3>1 DEF TerritoryOf
        <5>3. InFlight' = InFlight
          BY <3>1 DEF InFlight, Registered
        <5> QED
          BY <3>1, <5>1, <5>2, <5>3 DEF TodoClear, ConflictFree, Clear, Conflicts
      <4>2. CASE pc' # "launch"
        BY <4>2 DEF TodoClear
      <4> QED
        BY <4>1, <4>2
    <3> QED
      BY <1>1, <3>2, <3>3, CarriedLocks
  <2> QED
    BY <2>1, <2>2, <2>3, <2>4 DEF Next
<1> QED
  BY <1>1, <1>2, <1>3 DEF LocksInv

LEMMA InitLocks ==
  ASSUME Init
  PROVE  LocksInv
<1>1. WellFormed(NewRecord) /\ NewRecord \in LoopRecord
  BY NewRecordWellFormed DEF WellFormed
<1>2. TypeOK
  BY <1>1 DEF Init, TypeOK, TicketStatuses, Phases, Counters, LoopAssumption
<1>3. rec.status # "running"
  BY DEF Init, NewRecord
<1> QED
  BY <1>1, <1>2, <1>3 DEF Init, LocksInv, SeqsBehind, StatusFollows, TodoClear,
                          LocksDisjoint, InFlight

\* Whatever the bounds, every reachable state is well typed, its record well
\* formed and its locks disjoint.
THEOREM LocksInvariant == Spec => []LocksInv
<1>1. Init => LocksInv
  BY InitLocks
<1>2. LocksInv /\ [Next]_vars => LocksInv'
  BY StepLocks
<1> QED
  BY <1>1, <1>2, PTL DEF Spec

\* The state has its type in every reachable state.
THEOREM TypeCorrect == Spec => []TypeOK
<1>1. LocksInv => TypeOK
  BY DEF LocksInv
<1> QED
  BY <1>1, LocksInvariant, PTL

\* Design rule 3 for the lanes the cycle knows of: their territories never
\* overlap, even when tickets are edited, writes fail, the user stops and
\* resumes or the host dies.
THEOREM LocksAreDisjoint == Spec => []LocksDisjoint
<1>1. LocksInv => LocksDisjoint
  BY DEF LocksInv
<1> QED
  BY <1>1, LocksInvariant, PTL

\* A supervisor that is not running leaves no record shown as running, and
\* the executions are open exactly as the status says.
THEOREM StatusIsTrue == Spec => []StatusMatchesCycle
<1>1. LocksInv => StatusMatchesCycle
  BY DEF LocksInv, StatusFollows, StatusMatchesCycle, WellFormed, OnlyNewestOpen
<1> QED
  BY <1>1, LocksInvariant, PTL

----------------------------------------------------------------------------
(* Every lane, until a territory changes or a write of the record fails *)

Known == LocksInv /\ LanesKnown

LEMMA TerritoryStays ==
  ASSUME UNCHANGED territory,
         \A t \in Tickets : rec'.tstate[t].touched = rec.tstate[t].touched
  PROVE  \A t \in Tickets : TerritoryOf(t)' = TerritoryOf(t)
  BY DEF TerritoryOf

\* A ticket collides with itself, so it never has two lanes.
LEMMA KnownOneLane ==
  ASSUME Known
  PROVE  /\ LanesNeverOverlap
         /\ \A l, m \in LiveLanes : l # m => l.ticket # m.ticket
<1> USE DEF Known, LocksInv, LanesKnown
<1>1. \A l \in lanes : l \in InFlight
  BY DEF InFlight
<1>2. LanesNeverOverlap
  BY <1>1 DEF LanesNeverOverlap, LiveLanes, LocksDisjoint, Conflicts
<1>3. \A l \in lanes : l.ticket \in Tickets /\ l.terr = TerritoryOf(l.ticket) /\ l.terr # {}
  <2>1. \A l \in lanes : l.ticket \in Tickets
    BY DEF TypeOK, Lane
  <2> QED
    BY <2>1, TerritoryOfType
<1>4. \A a : a # {} => Conflicts(a, a)
  BY DEF Conflicts
<1>5. ASSUME NEW l \in LiveLanes, NEW m \in LiveLanes, l # m
      PROVE  l.ticket # m.ticket
  <2>1. l \in lanes /\ m \in lanes
    BY DEF LiveLanes
  <2>2. ~Conflicts(l.terr, m.terr)
    BY <1>2, <1>5 DEF LanesNeverOverlap, Conflicts
  <2>3. l.terr = TerritoryOf(l.ticket) /\ m.terr = TerritoryOf(m.ticket) /\ l.terr # {}
    BY <1>3, <2>1
  <2> HIDE DEF Known, LocksInv, LanesKnown
  <2> QED
    BY <1>4, <2>2, <2>3
<1> QED
  BY <1>2, <1>5

LEMMA CycleKnown ==
  ASSUME Known, Untroubled', Cycle
  PROVE  LanesKnown'
<1> USE DEF Known
<1>1. /\ TypeOK /\ Typed /\ SeqsBehind
      /\ \A l \in lanes : /\ l.ticket \in Tickets /\ l.seq # 0 /\ l.live
                          /\ l.terr = TerritoryOf(l.ticket)
  BY DEF LocksInv, Typed, SeqsBehind, TypeOK, Lane, LanesKnown
<1>2. ASSUME lanes = {}, NEW r, EndCycle(r)
      PROVE  LanesKnown'
  BY <1>2 DEF EndCycle, LanesKnown, Running
<1>3. ASSUME pc \in {"ceiling", "drain"}, \A s \in awaited : Settled(s)
      PROVE  lanes = {}
  BY <1>1, <1>3 DEF LanesKnown, Settled
<1>4. ASSUME Running, SlotsTaken = 0
      PROVE  lanes = {}
  <2> DEFINE S == {t \in Tickets : inFlight[t] # 0}
  <2>1. IsFiniteSet(S)
    <3>1. IsFiniteSet(Tickets)
      BY DEF LoopAssumption
    <3> QED
      BY <3>1, FS_Subset
  <2>2. S = {}
    BY <1>4, <2>1, FS_EmptySet DEF SlotsTaken
  <2> QED
    BY <1>1, <1>4, <2>2 DEF LanesKnown, Registered
<1>5. CASE CycleBreaks \/ CycleHitsCeiling \/ (CycleWaits /\ ~wokenEarly)
  <2>1. /\ awaited' = {inFlight[t] : t \in Tickets} \ {0}
        /\ UNCHANGED <<rec, territory, inFlight, lanes, used>> /\ Running
    BY <1>5 DEF CycleBreaks, CycleHitsCeiling, CycleWaits, AwaitLanes, Unaborted, Passing,
                board, Running
  <2>2. \A l \in lanes : l.seq \in awaited'
    BY <1>1, <2>1 DEF LanesKnown, Registered
  <2>3. \A t \in Tickets : TerritoryOf(t)' = TerritoryOf(t)
    BY <2>1, TerritoryStays
  <2>4. Running'
    BY <1>5 DEF CycleBreaks, CycleHitsCeiling, CycleWaits, AwaitLanes, Running
  <2> QED
    BY <1>1, <2>1, <2>2, <2>3, <2>4 DEF LanesKnown, Registered
<1>6. CASE CycleDispatches \/ CycleResumes \/ (CycleWaits /\ wokenEarly)
  <2>1. /\ UNCHANGED <<rec, territory, inFlight, lanes, used>>
        /\ Running /\ pc' \in {"launch", "top"}
    BY <1>6 DEF CycleDispatches, CycleResumes, CycleWaits, Unaborted, Passing, board, Running
  <2>2. \A t \in Tickets : TerritoryOf(t)' = TerritoryOf(t)
    BY <2>1, TerritoryStays
  <2>3. Running'
    BY <2>1 DEF Running
  <2> QED
    BY <1>1, <2>1, <2>2, <2>3 DEF LanesKnown, Registered
<1>7. CASE CycleDrained \/ CycleBlocked
  BY <1>2, <1>4, <1>7 DEF CycleDrained, CycleBlocked, Passing, Unaborted, Running
<1>8. CASE CycleFails
  <2>1. Rejected = {}
    BY <1>1 DEF Rejected
  <2> QED
    BY <1>8, <2>1 DEF CycleFails
<1>9. CASE CeilingSettles \/ DrainEnds
  BY <1>2, <1>3, <1>9 DEF CeilingSettles, DrainEnds
<1>10. ASSUME NEW t \in Tickets, Launch(t)
       PROVE  LanesKnown'
  <2> DEFINE n   == NextSeq(rec)
             new == [seq |-> n, ticket |-> t, terr |-> TerritoryOf(t),
                     cycle |-> used.starts, aborted |-> FALSE, spent |-> 0, live |-> TRUE]
  <2>1. /\ lanes' = lanes \cup {new} /\ inFlight' = [inFlight EXCEPT ![t] = n]
        /\ UNCHANGED <<territory, used>> /\ pc' \in {"top", "launch"} /\ Running /\ t \in todo
        /\ pc = "launch"
    BY <1>10 DEF Launch, board, Running
  <2>2. rec'.tstate = rec.tstate
    BY <1>1, <1>10, AppendIterationKeeps DEF Launch, Typed
  <2>3. \A u \in Tickets : TerritoryOf(u)' = TerritoryOf(u)
    BY <2>1, <2>2, TerritoryStays
  <2>4. \A l \in lanes : l.ticket # t
    <3> SUFFICES ASSUME NEW l \in lanes, l.ticket = t
                 PROVE  FALSE
      OBVIOUS
    <3>1. l \in InFlight
      BY <2>1 DEF LanesKnown, InFlight
    <3>2. ~Conflicts(TerritoryOf(t), l.terr)
      BY <2>1, <3>1 DEF LocksInv, TodoClear, ConflictFree, Clear
    <3>3. l.terr = TerritoryOf(t) /\ TerritoryOf(t) # {}
      BY <1>1, TerritoryOfType
    <3> QED
      BY <3>2, <3>3 DEF Conflicts
  <2>5. /\ new.live /\ new.terr = TerritoryOf(t) /\ new.ticket = t /\ new.seq = n
        /\ new.cycle = used.starts
    OBVIOUS
  <2> HIDE DEF new, n
  <2>6. \A l \in lanes' : Registered(l)' /\ l.cycle = used.starts
    <3>1. inFlight'[t] = n
      BY <2>1 DEF LocksInv, TypeOK
    <3>2. \A l \in lanes : inFlight'[l.ticket] = l.seq
      BY <1>1, <2>1, <2>4 DEF LanesKnown, Registered, TypeOK
    <3> QED
      BY <2>1, <2>5, <3>1, <3>2 DEF LanesKnown, Registered
  <2>7. \A l \in lanes' : l.live /\ l.terr = TerritoryOf(l.ticket)'
    BY <1>1, <2>1, <2>3, <2>5
  <2>8. Running'
    BY <2>1 DEF Running
  <2> QED
    BY <2>1, <2>6, <2>7, <2>8 DEF LanesKnown
<1>11. ~LaunchFails
  BY <1>1 DEF LaunchFails, Count, Untroubled, TypeOK, Counters
<1> QED
  BY <1>5, <1>6, <1>7, <1>8, <1>9, <1>10, <1>11 DEF Cycle

\* A step that leaves the lanes, the Map, the cycle's stand and what the
\* tickets cover alone.
LEMMA SameKnown ==
  ASSUME Known, UNCHANGED <<territory, pc, inFlight, awaited, lanes>>,
         used'.starts = used.starts,
         \A t \in Tickets : rec'.tstate[t].touched = rec.tstate[t].touched
  PROVE  LanesKnown'
<1>1. \A t \in Tickets : TerritoryOf(t)' = TerritoryOf(t)
  BY TerritoryStays
<1>2. \A l \in lanes : l.ticket \in Tickets
  BY DEF Known, LocksInv, TypeOK, Lane
<1>3. Running' <=> Running
  BY DEF Running
<1> QED
  BY <1>1, <1>2, <1>3 DEF Known, LanesKnown, Registered

LEMMA LaneKnown ==
  ASSUME Known, Untroubled', NEW l \in lanes, LaneStep(l)
  PROVE  LanesKnown'
<1> USE DEF Known
<1>1. /\ Typed /\ l \in Lane /\ Running
      /\ \A m \in lanes : /\ m.ticket \in Tickets /\ m.live /\ m.terr = TerritoryOf(m.ticket)
                          /\ Registered(m) /\ m.cycle = used.starts
  BY DEF LocksInv, Typed, TypeOK, Lane, LanesKnown
<1>2. CASE Spend(l)
  <2> DEFINE x == [l EXCEPT !.spent = @ + 1]
  <2>1. /\ x.live = l.live /\ x.terr = l.terr /\ x.ticket = l.ticket /\ x.seq = l.seq
        /\ x.cycle = l.cycle
    BY <1>1 DEF Lane
  <2>2. lanes' = (lanes \ {l}) \cup {x} /\ UNCHANGED <<rec, territory, pc, inFlight, awaited, used>>
    BY <1>2 DEF Spend, board, memory
  <2>3. \A t \in Tickets : TerritoryOf(t)' = TerritoryOf(t)
    BY <2>2, TerritoryStays
  <2> HIDE DEF x
  <2> QED
    BY <1>1, <2>1, <2>2, <2>3 DEF LanesKnown, Registered, Running
<1>3. CASE LaneMovesTicket(l)
  BY <1>3, SameKnown DEF LaneMovesTicket, memory
<1>4. ASSUME NEW raw \in Results, FinishLane(l, raw)
      PROVE  LanesKnown'
  <2>1. /\ lanes' = lanes \ {l} /\ inFlight' = [inFlight EXCEPT ![l.ticket] = 0]
        /\ UNCHANGED <<territory, pc, awaited, used>>
    BY <1>1, <1>4 DEF FinishLane
  <2>2. \A m \in lanes' : m \in lanes /\ m.ticket # l.ticket
    BY <1>1, <2>1, KnownOneLane DEF LiveLanes
  <2>3. \A t \in Tickets : t # l.ticket => TerritoryOf(t)' = TerritoryOf(t)
    <3>1. \A t \in Tickets : t # l.ticket => rec'.tstate[t] = rec.tstate[t]
      BY <1>1, <1>4, FromReceiptType, AfterTicketStateKeeps DEF FinishLane, Typed
    <3> QED
      BY <2>1, <3>1 DEF TerritoryOf
  <2>4. \A m \in lanes' : inFlight'[m.ticket] = m.seq
    BY <1>1, <2>1, <2>2 DEF Registered
  <2> QED
    BY <1>1, <2>1, <2>2, <2>3, <2>4 DEF LanesKnown, Registered, Running
<1>5. ASSUME NEW raw \in Results, LaneRecordFails(l, raw)
      PROVE  FALSE
  BY <1>1, <1>5 DEF LaneRecordFails, Count, Untroubled, Typed, TypeOK, Counters
<1> QED
  BY <1>2, <1>3, <1>4, <1>5 DEF LaneStep

LEMMA UserKnown ==
  ASSUME Known, Untroubled', UserStep \/ Wake
  PROVE  LanesKnown'
<1> USE DEF Known
<1>1. Typed
  BY DEF LocksInv, Typed
<1>2. CASE Start
  <2>1. lanes' = {}
    BY <1>2 DEF Start, LanesKnown, Running
  <2> QED
    BY <1>2, <2>1 DEF Start, LanesKnown
<1>3. CASE Pause
  <2>1. used'.starts = used.starts
    BY <1>1, <1>3 DEF Pause, Count, Typed, TypeOK, Counters
  <2> QED
    BY <1>1, <1>3, <2>1, SettledTyped, SameKnown DEF Pause, board
<1>4. CASE Stop
  <2> DEFINE cut(l) == [l EXCEPT !.aborted = l.aborted \/ (Running /\ l.cycle = used.starts)]
  <2>1. /\ lanes' = {cut(l) : l \in lanes} /\ UNCHANGED <<territory, pc, inFlight, awaited>>
        /\ rec'.tstate = rec.tstate
    BY <1>1, <1>4, SettledTyped DEF Stop, board
  <2>2. used'.starts = used.starts
    BY <1>1, <1>4 DEF Stop, Count, Typed, TypeOK, Counters
  <2>3. \A l \in lanes : /\ cut(l).live = l.live /\ cut(l).terr = l.terr
                        /\ cut(l).ticket = l.ticket /\ cut(l).seq = l.seq
                        /\ cut(l).cycle = l.cycle /\ l.ticket \in Tickets
    BY <1>1 DEF Typed, TypeOK, Lane
  <2>4. \A t \in Tickets : TerritoryOf(t)' = TerritoryOf(t)
    BY <2>1, TerritoryStays
  <2>5. Running' <=> Running
    BY <2>1 DEF Running
  <2> HIDE DEF cut
  <2> QED
    BY <2>1, <2>2, <2>3, <2>4, <2>5 DEF LanesKnown, Registered
<1>5. CASE ClockRunsOut
  BY <1>5, SameKnown DEF ClockRunsOut, memory, board
<1>6. ASSUME NEW t \in Tickets, ReleasePark(t)
      PROVE  LanesKnown'
  <2>1. used'.starts = used.starts
    BY <1>1, <1>6 DEF ReleasePark, Count, Typed, TypeOK, Counters
  <2> QED
    BY <1>1, <1>6, <2>1, ReleaseKeeps, SameKnown DEF Typed, ReleasePark, memory
<1>7. ASSUME NEW t \in Tickets, UserSetsStatus(t)
      PROVE  LanesKnown'
  <2>1. used'.starts = used.starts
    BY <1>1, <1>7 DEF UserSetsStatus, Count, Typed, TypeOK, Counters
  <2> QED
    BY <1>7, <2>1, SameKnown DEF UserSetsStatus, memory
<1>8. ASSUME NEW t \in Tickets, Resize(t)
      PROVE  FALSE
  BY <1>1, <1>8 DEF Resize, Count, Untroubled, Typed, TypeOK, Counters
<1>9. CASE Wake
  <2>1. used'.starts = used.starts
    BY <1>1, <1>9 DEF Wake, Count, Typed, TypeOK, Counters
  <2> QED
    BY <1>9, <2>1, SameKnown DEF Wake, board
<1> QED
  BY <1>2, <1>3, <1>4, <1>5, <1>6, <1>7, <1>8, <1>9 DEF UserStep

LEMMA HostKnown ==
  ASSUME Known, HostStep
  PROVE  LanesKnown'
<1>1. lanes' = {} /\ ~Running'
  BY DEF HostStep, Crash, CrashMidRecord, Dies, Restart, RestoreIteration, RestoreStatus,
         Known, LanesKnown, Running, memory
<1> QED
  BY <1>1 DEF LanesKnown, Running

\* What went wrong is never forgotten.
LEMMA TroubleStays ==
  ASSUME Typed, [Next]_vars, Untroubled'
  PROVE  Untroubled
<1>1. ASSUME NEW c \in {"starts", "crashes", "edits", "resizes", "halts", "wakes", "faults"},
             Count(c)
      PROVE  Untroubled
  BY <1>1 DEF Count, Untroubled, Typed, TypeOK, Counters
<1>2. ASSUME UNCHANGED used
      PROVE  Untroubled
  BY <1>2 DEF Untroubled
<1>3. ASSUME Cycle
      PROVE  Untroubled
  <2>1. UNCHANGED used \/ Count("faults")
    BY <1>3 DEF Cycle, CycleBreaks, CycleHitsCeiling, CycleDrained, CycleBlocked,
                CycleDispatches, CycleWaits, CycleResumes, CycleFails, CeilingSettles,
                DrainEnds, LaunchFails, Launch
  <2> QED
    BY <1>1, <1>2, <2>1
<1>4. ASSUME UserStep \/ Wake
      PROVE  Untroubled
  <2>1. \/ UNCHANGED used \/ Count("starts") \/ Count("halts") \/ Count("edits")
        \/ Count("resizes") \/ Count("wakes")
    BY <1>4 DEF UserStep, Wake, Start, Pause, Stop, ClockRunsOut, ReleasePark,
                UserSetsStatus, Resize
  <2> QED
    BY <1>1, <1>2, <2>1
<1>5. ASSUME HostStep
      PROVE  Untroubled
  <2>1. UNCHANGED used \/ Count("crashes")
    BY <1>5 DEF HostStep, Crash, CrashMidRecord, Dies, Restart, RestoreIteration, RestoreStatus
  <2> QED
    BY <1>1, <1>2, <2>1
<1>6. ASSUME NEW l \in lanes, LaneStep(l)
      PROVE  Untroubled
  <2>1. UNCHANGED used \/ Count("faults")
    BY <1>6 DEF LaneStep, Spend, LaneMovesTicket, FinishLane, LaneRecordFails
  <2> QED
    BY <1>1, <1>2, <2>1
<1>7. UNCHANGED vars => UNCHANGED used
  BY DEF vars
<1> QED
  BY <1>2, <1>3, <1>4, <1>5, <1>6, <1>7 DEF Next

KnownUntilTrouble == LocksInv /\ (Untroubled => LanesKnown)

LEMMA StepKnown ==
  ASSUME KnownUntilTrouble, [Next]_vars
  PROVE  KnownUntilTrouble'
<1>1. LocksInv'
  BY StepLocks DEF KnownUntilTrouble
<1>2. SUFFICES ASSUME Untroubled'
               PROVE  LanesKnown'
  BY <1>1 DEF KnownUntilTrouble
<1>3. Typed
  BY DEF KnownUntilTrouble, LocksInv, Typed
<1>4. Known
  BY <1>2, <1>3, TroubleStays DEF KnownUntilTrouble, Known
<1>5. CASE Next
  BY <1>2, <1>4, <1>5, CycleKnown, LaneKnown, UserKnown, HostKnown DEF Next
<1>6. CASE UNCHANGED vars
  BY <1>4, <1>6, SameKnown DEF vars
<1> QED
  BY <1>5, <1>6

\* Until a territory changes or a write of the record fails, every lane is
\* known to the cycle and holds what its ticket covers.
THEOREM KnownInvariant == Spec => []KnownUntilTrouble
<1>1. Init => KnownUntilTrouble
  BY InitLocks DEF KnownUntilTrouble, LanesKnown, Init, Running
<1>2. KnownUntilTrouble /\ [Next]_vars => KnownUntilTrouble'
  BY StepKnown
<1> QED
  BY <1>1, <1>2, PTL DEF Spec

\* Design rule 3 for every lane that runs, and no ticket with two lanes at
\* once: with any number of tickets, slots, stops, resumes and crashes, until a
\* territory is edited or a write of the record fails.
THEOREM LanesAreDisjoint == Spec => [](LanesDisjoint /\ OneLanePerTicket)
<1>1. KnownUntilTrouble => LanesDisjoint /\ OneLanePerTicket
  BY KnownOneLane DEF KnownUntilTrouble, Known, LanesDisjoint, OneLanePerTicket
<1> QED
  BY <1>1, KnownInvariant, PTL

----------------------------------------------------------------------------
(* Steps *)

\* Once the user pauses or stops, no lane starts before the next start, and no
\* lane starts in a cycle that was told to end.
THEOREM NoLaunchAfterHalt == Spec => NoLaunchUnlessRunning
<1>1. LocksInv => (\A t \in Tickets : Launched(t) => rec.status = "running" /\ ~aborted)
  BY DEF LocksInv, StatusFollows, Launched
<1> QED
  BY <1>1, LocksInvariant, PTL DEF NoLaunchUnlessRunning

\* A loop reports the queue worked only when every ticket it ever attempted is
\* in review or closed.
THEOREM DrainedLoopsHandedOver == Spec => DrainedMeansHandedOver
<1> DEFINE A == rec.status # "drained" /\ rec'.status = "drained" =>
                  \A t \in Tickets : rec.tstate[t].known =>
                    status[t] \notin OpenStatuses \/ status[t] = "review"
<1>1. LocksInv /\ [Next]_vars => A
  <2> SUFFICES ASSUME LocksInv, [Next]_vars, rec.status # "drained",
                      rec'.status = "drained"
               PROVE  \A t \in Tickets : rec.tstate[t].known =>
                        status[t] \notin OpenStatuses \/ status[t] = "review"
    OBVIOUS
  <2>1. Typed
    BY DEF LocksInv, Typed
  <2>2. Queue = {}
    <3>1. ~CycleBreaks /\ ~CycleHitsCeiling /\ ~CycleDispatches /\ ~CycleWaits /\ ~CycleResumes
      BY DEF CycleBreaks, CycleHitsCeiling, CycleDispatches, CycleWaits, CycleResumes
    <3>2. ~CycleBlocked /\ ~CycleFails /\ ~CeilingSettles /\ ~DrainEnds /\ ~LaunchFails
      BY <2>1, SettledTyped
         DEF CycleBlocked, CycleFails, CeilingSettles, DrainEnds, LaunchFails, EndCycle
    <3>3. \A t \in Tickets : ~Launch(t)
      BY <2>1, AppendIterationKeeps DEF Launch, Typed
    <3>4. ~Start /\ ~Pause /\ ~Stop /\ ~ClockRunsOut /\ ~Wake
      BY <2>1, SettledTyped, BeginExecutionKeeps
         DEF Start, Pause, Stop, ClockRunsOut, Wake, LocksInv, StatusFollows, Typed
    <3>5. ~HostStep
      <4>1. ~Crash /\ ~Restart
        BY DEF Crash, Restart
      <4>2. ~RestoreIteration
        BY <2>1, AbandonIterationKeeps DEF RestoreIteration, OpenIterations, Typed
      <4>3. ~RestoreStatus
        BY <2>1, SettledTyped DEF RestoreStatus
      <4>4. ASSUME NEW l \in lanes, NEW raw \in Results, CrashMidRecord(l, raw)
            PROVE  FALSE
        <5>1. l \in Lane /\ FromReceipt(raw) \in LaneResult
          BY <2>1, FromReceiptType DEF Typed, TypeOK
        <5> QED
          BY <2>1, <4>4, <5>1, AfterSettleKeeps, AfterTicketStateKeeps
             DEF CrashMidRecord, Typed
      <4> QED
        BY <4>1, <4>2, <4>3, <4>4 DEF HostStep
    <3>6. ASSUME NEW l \in lanes, LaneStep(l)
          PROVE  FALSE
      <4>1. l \in Lane
        BY <2>1 DEF Typed, TypeOK
      <4>2. ~Spend(l) /\ ~LaneMovesTicket(l)
        BY DEF Spend, LaneMovesTicket
      <4>3. \A raw \in Results : ~FinishLane(l, raw)
        BY <2>1, <4>1, FromReceiptType, AfterTicketStateKeeps DEF FinishLane, Typed
      <4>4. \A raw \in Results : ~LaneRecordFails(l, raw)
        BY <2>1, <4>1, AfterSettleKeeps DEF LaneRecordFails, Typed
      <4> QED
        BY <3>6, <4>2, <4>3, <4>4 DEF LaneStep
    <3>7. ASSUME NEW t \in Tickets, ReleasePark(t) \/ UserSetsStatus(t) \/ Resize(t)
          PROVE  FALSE
      BY <3>7, <2>1, ReleaseKeeps DEF Typed, UserSetsStatus, Resize
    <3>8. CASE CycleDrained
      BY <3>8 DEF CycleDrained
    <3> QED
      BY <3>1, <3>2, <3>3, <3>4, <3>5, <3>6, <3>7, <3>8
         DEF Next, Cycle, UserStep, vars
  <2> QED
    BY <2>2 DEF Queue, LoopRetains
<1>2. LocksInv /\ [Next]_vars => [A]_vars
  BY <1>1
<1> QED
  BY <1>2, LocksInvariant, PTL DEF Spec, DrainedMeansHandedOver

=============================================================================
