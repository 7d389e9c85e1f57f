--------------------------- MODULE LoopSupervisor ---------------------------
(***************************************************************************)
(* The supervisor of one ticket loop (src/loops/loop-supervisor.ts) with   *)
(* the parts it drives: the loop's durable record, the ticket board behind *)
(* the gateway, the scheduling pass, the lanes it dispatches, the user and *)
(* the extension host that may die at any moment.                          *)
(*                                                                         *)
(* The host is single-threaded.  Code between two awaits is one step or a  *)
(* run of steps nothing interrupts; pc says where the cycle stands:        *)
(*   "idle"     no cycle runs (the supervisor's _running has no entry)     *)
(*   "top"      at the head of the for(;;) loop                            *)
(*   "launch"   inside the loop over the chosen tickets                    *)
(*   "waiting"  awaiting Promise.race of the lanes and the waker           *)
(*   "ceiling"  awaiting the lanes before settling on a tripped ceiling    *)
(*   "drain"    awaiting the lanes after a pause or a stop                 *)
(*   "down"     the host is dead;  "restoring": restore() is running       *)
(* Only at Await does other code (lanes, the user, the clock) get to run;  *)
(* a wake is the exception, because store writes fire events synchronously. *)
(*                                                                         *)
(* A definition marked "mistake" is no part of the model, see LoopRecords. *)
(***************************************************************************)
EXTENDS LoopRecords

CONSTANTS
  Untenanted,          \* the pseudo file of a ticket with no territory
  Territory0,          \* declared territory, resolved against the index
  BlockedBy,           \* hard dependencies of each ticket
  QueueIds,            \* explicit ticket ids of the queue; {}: filter by status
  Concurrency,         \* lanes at once
  MaxAttempts,         \* DEFAULT_MAX_ATTEMPTS
  MaxStreak,           \* ceiling on consecutive failures
  MaxTickets,          \* ceiling on dispatched tickets, NoCeiling if absent
  MaxUsd,              \* spend ceiling, NoCeiling if absent
  NoCeiling,
  HasClock,            \* TRUE: there is a wall-clock ceiling
  Results,             \* what a lane may come back with
  LaneStatuses,        \* statuses a lane's agent gives its own ticket
  UserStatuses,        \* statuses the user gives a ticket
  MaxSpend,            \* spend reports per lane                     (bound)
  MaxStarts,           \* starts and resumes                         (bound)
  MaxCrashes,          \* deaths of the host                         (bound)
  MaxEdits,            \* user edits of tickets, releases of parks   (bound)
  MaxResizes,          \* changes of a ticket's territory            (bound)
  MaxHalts,            \* pauses and stops                           (bound)
  MaxWakes,            \* wakes                                      (bound)
  MaxFaults,           \* failed writes of the record                (bound)
  MaxDisturbances      \* all of the above but spend and starts      (bound)

TicketStatuses == {"backlog", "in_progress", "blocked", "review", "done", "deleted"}
OpenStatuses   == {"backlog", "in_progress", "blocked", "review"}
Receipts       == {"none", "verified", "blocked", "failed"}

\* threw: the dispatcher rejected, so nothing it knew comes back.
LaneResult == [ok : BOOLEAN, parked : BOOLEAN, receipt : Receipts,
               threw : BOOLEAN, touched : SUBSET Files]

Lock == Files \cup {Untenanted}

ASSUME LoopAssumption ==
  /\ IsFiniteSet(Tickets) /\ Untenanted \notin Files
  /\ Territory0 \in [Tickets -> SUBSET Files]
  /\ BlockedBy \in [Tickets -> SUBSET Tickets]
  /\ QueueIds \subseteq Tickets
  /\ Concurrency \in Nat \ {0}
  /\ MaxAttempts \in Nat /\ MaxStreak \in Nat
  /\ MaxTickets \in Nat \cup {NoCeiling} /\ MaxUsd \in Nat \cup {NoCeiling}
  /\ HasClock \in BOOLEAN
  /\ Results \subseteq LaneResult
  /\ LaneStatuses \subseteq OpenStatuses /\ UserStatuses \subseteq TicketStatuses

VARIABLES
  rec,         \* loops.json: the loop's record
  status,      \* the board: each ticket's status
  territory,   \* the board: each ticket's resolved territory
  pc, todo,    \* the cycle: where it stands, tickets it has yet to launch
  inFlight,    \* the cycle's Map: ticket -> seq of its lane, 0 if no entry
  awaited,     \* seqs of the lanes the current await looks at
  aborted,     \* controllers.cycle.signal.aborted
  waker,       \* "none", "armed" (registered) or "fired" (resolved)
  wokenEarly,  \* the loop is in _wokenEarly
  liveUsd,     \* _liveUsd of the loop, by ticket
  lanes,       \* lane promises not yet settled, or rejected and still held
  timeUp,      \* the wall-clock ceiling has passed
  owed,        \* ghost: a wake no scheduling pass has followed yet
  paid,        \* ghost: what the lanes really spent
  used         \* counters behind the bounds

vars == <<rec, status, territory, pc, todo, inFlight, awaited, aborted, waker,
          wokenEarly, liveUsd, lanes, timeUp, owed, paid, used>>

board  == <<status, territory>>
memory == <<pc, todo, inFlight, awaited, aborted, waker, wokenEarly>>

Lane == [seq : Nat, ticket : Tickets, terr : SUBSET Lock, cycle : Nat,
         aborted : BOOLEAN, spent : Nat, live : BOOLEAN]

Phases == {"idle", "top", "launch", "waiting", "ceiling", "drain", "down", "restoring"}

\* The host is at an await: other callbacks may run.
Await == {"idle", "waiting", "ceiling", "drain"}
\* _running.has(loopId)
Running == pc \in {"top", "launch", "waiting", "ceiling", "drain"}

Counters == [starts : Nat, crashes : Nat, edits : Nat, resizes : Nat,
             halts : Nat, wakes : Nat, faults : Nat]

TypeOK ==
  /\ rec \in LoopRecord
  /\ status \in [Tickets -> TicketStatuses]
  /\ territory \in [Tickets -> SUBSET Files]
  /\ pc \in Phases /\ todo \subseteq Tickets
  /\ inFlight \in [Tickets -> Nat] /\ awaited \subseteq Nat
  /\ aborted \in BOOLEAN /\ wokenEarly \in BOOLEAN
  /\ waker \in {"none", "armed", "fired"}
  /\ liveUsd \in [Tickets -> Nat] /\ lanes \subseteq Lane
  /\ timeUp \in BOOLEAN /\ owed \in BOOLEAN /\ paid \in Nat
  /\ used \in Counters

Init ==
  /\ rec = NewRecord
  /\ status = [t \in Tickets |-> "backlog"]
  /\ territory = Territory0
  /\ pc = "idle" /\ todo = {}
  /\ inFlight = [t \in Tickets |-> 0] /\ awaited = {}
  /\ aborted = FALSE /\ waker = "none" /\ wokenEarly = FALSE
  /\ liveUsd = [t \in Tickets |-> 0] /\ lanes = {}
  /\ timeUp = FALSE /\ owed = FALSE /\ paid = 0
  /\ used = [starts |-> 0, crashes |-> 0, edits |-> 0, resizes |-> 0,
             halts |-> 0, wakes |-> 0, faults |-> 0]

----------------------------------------------------------------------------
(* The scheduling pass, legacy mode (computeReadySet) *)

\* mistake: a plain status filter, also for tickets the loop has begun.
RetainsQueued(t) == rec.tstate[t].known /\ status[t] = "backlog"

\* A loop finishes what it started: an attempted ticket stays until it is in
\* review or closed.
LoopRetains(t) ==
  rec.tstate[t].known /\ status[t] \in OpenStatuses \ {"review"}

MatchesQueue(t) ==
  IF QueueIds # {} THEN t \in QueueIds /\ status[t] # "deleted"
  ELSE status[t] = "backlog"

Queue == {t \in Tickets : MatchesQueue(t) \/ LoopRetains(t)}

DependencyMet(b) == status[b] \notin OpenStatuses

\* mistake: one attempt more than the budget.
EligibleOnceMore ==
  {t \in Queue :
     /\ ~rec.tstate[t].parked
     /\ rec.tstate[t].attempts <= MaxAttempts
     /\ \A b \in BlockedBy[t] : DependencyMet(b)
     /\ status[t] # "blocked"}

Eligible ==
  {t \in Queue :
     /\ ~rec.tstate[t].parked
     /\ rec.tstate[t].attempts < MaxAttempts
     /\ \A b \in BlockedBy[t] : DependencyMet(b)
     /\ status[t] # "blocked"}

\* Declared files widened with what the ticket's lanes touched.
TerritoryOf(t) ==
  LET files == territory[t] \cup rec.tstate[t].touched
  IN  IF files = {} THEN {Untenanted} ELSE files

\* mistake: a ticket without a territory conflicts with nothing.
ConflictsByFile(a, b) == a \cap b # {}

Conflicts(a, b) == Untenanted \in a \/ Untenanted \in b \/ a \cap b # {}

Registered(l) == inFlight[l.ticket] = l.seq
InFlight == {l \in lanes : Registered(l)}

Clear(t) == \A l \in InFlight : ~Conflicts(TerritoryOf(t), l.terr)

\* mistake: the walk does not claim what it admits.
ConflictFreeOfLanes(S) == \A t \in S : Clear(t)

\* The greedy walk down the ranking admits a set like this one: nothing in it
\* collides and nothing left out still fits.  The ranking decides which.
ConflictFree(S) ==
  /\ \A t \in S : Clear(t)
  /\ \A t, u \in S : t # u => ~Conflicts(TerritoryOf(t), TerritoryOf(u))
ReadySets ==
  {S \in SUBSET Eligible :
     /\ ConflictFree(S)
     /\ \A t \in Eligible \ S : ~ConflictFree(S \cup {t})}

SlotsTaken == Cardinality({t \in Tickets : inFlight[t] # 0})
FreeSlots  == IF SlotsTaken < Concurrency THEN Concurrency - SlotsTaken ELSE 0

\* ready.slice(0, freeSlots): all of the ready set, or as many as fit.
Dispatches ==
  {D \in SUBSET Eligible :
     /\ D # {}
     /\ \E S \in ReadySets :
          /\ D \subseteq S
          /\ \/ D = S /\ Cardinality(S) <= FreeSlots
             \/ Cardinality(S) > FreeSlots /\ Cardinality(D) = FreeSlots}

\* The sum of the lanes' running spend: one pair per dollar.
LiveSpend == Cardinality(UNION {{t} \X (1 .. liveUsd[t]) : t \in Tickets})

\* mistakes: a ceiling trips once exceeded; spend counts once recorded.
CeilingExceeded ==
  LET totals == TotalsOf(rec)
  IN  \/ MaxTickets # NoCeiling /\ totals.dispatched > MaxTickets
      \/ MaxUsd # NoCeiling /\ totals.usd + LiveSpend > MaxUsd
      \/ totals.streak > MaxStreak
      \/ timeUp
CeilingOnRecorded ==
  LET totals == TotalsOf(rec)
  IN  \/ MaxTickets # NoCeiling /\ totals.dispatched >= MaxTickets
      \/ MaxUsd # NoCeiling /\ totals.usd >= MaxUsd
      \/ totals.streak >= MaxStreak
      \/ timeUp

\* _trippedCeiling
CeilingTripped ==
  LET totals == TotalsOf(rec)
  IN  \/ MaxTickets # NoCeiling /\ totals.dispatched >= MaxTickets
      \/ MaxUsd # NoCeiling /\ totals.usd + LiveSpend >= MaxUsd
      \/ totals.streak >= MaxStreak
      \/ timeUp

----------------------------------------------------------------------------
(* Starting, pausing, stopping, waking *)

\* What the user, the board and the host did to the loop so far.
Disturbances == used.crashes + used.edits + used.resizes + used.halts
                + used.wakes + used.faults

Used(counter, bound) ==
  used[counter] < bound /\ (counter # "starts" => Disturbances < MaxDisturbances)
Count(counter) == used' = [used EXCEPT ![counter] = @ + 1]

\* The supervisor's maps forget the loop: the finally of start().
Forget ==
  /\ inFlight' = [t \in Tickets |-> 0] /\ awaited' = {} /\ todo' = {}
  /\ aborted' = FALSE /\ waker' = "none" /\ wokenEarly' = FALSE
  /\ owed' = FALSE

\* The user confirms a start (or a resume): ignored while a cycle still runs
\* and when the queue matches nothing.
Start ==
  /\ pc = "idle" /\ Used("starts", MaxStarts)
  /\ Queue # {}
  /\ rec' = BeginExecution(rec)
  /\ pc' = "top" /\ Forget
  /\ liveUsd' = [t \in Tickets |-> 0]
  /\ Count("starts")
  /\ UNCHANGED <<board, lanes, timeUp, paid>>

\* Stops dispatching; the lanes keep their own signal.
Pause ==
  /\ pc \in Await /\ Used("halts", MaxHalts)
  /\ rec.status # "paused"
  /\ rec' = SetStatus(rec, "paused")
  /\ aborted' = (aborted \/ Running)
  /\ Count("halts")
  /\ UNCHANGED <<board, pc, todo, inFlight, awaited, waker, wokenEarly, liveUsd,
                 lanes, timeUp, owed, paid>>

\* Ends the cycle and cancels the lanes it started.
Stop ==
  /\ pc \in Await /\ Used("halts", MaxHalts)
  /\ rec' = SetStatus(rec, "stopped")
  /\ aborted' = (aborted \/ Running)
  /\ lanes' = {[l EXCEPT !.aborted = @ \/ (Running /\ l.cycle = used.starts)]
                 : l \in lanes}
  /\ Count("halts")
  /\ UNCHANGED <<board, pc, todo, inFlight, awaited, waker, wokenEarly, liveUsd,
                 timeUp, owed, paid>>

\* Never starts a loop.  Remembered when the cycle is not waiting.
Wake ==
  /\ Running /\ Used("wakes", MaxWakes)
  /\ IF waker = "armed" THEN waker' = "fired" /\ UNCHANGED wokenEarly
     ELSE wokenEarly' = TRUE /\ UNCHANGED waker
  /\ owed' = TRUE
  /\ Count("wakes")
  /\ UNCHANGED <<rec, board, pc, todo, inFlight, awaited, aborted, liveUsd,
                 lanes, timeUp, paid>>

----------------------------------------------------------------------------
(* The cycle *)

\* A cycle that returns or throws: what it leaves behind, and the finally.
EndCycle(settled) ==
  /\ pc' = "idle" /\ Forget
  /\ rec' = settled
  /\ liveUsd' = [t \in Tickets |-> 0]
  /\ lanes' = {l \in lanes : l.live}
  /\ UNCHANGED <<board, timeUp, paid>>

\* Promise.allSettled / Promise.race over the lanes in the Map now.
AwaitLanes(where) ==
  /\ pc' = where
  /\ awaited' = {inFlight[t] : t \in Tickets} \ {0}

\* mistake: a pass looks at neither the signal nor the status.
Unchecked == pc = "top"

Unaborted == pc = "top" /\ ~aborted /\ rec.status = "running"
Passing   == Unaborted /\ ~CeilingTripped

\* Paused or stopped: no further pass.
CycleBreaks ==
  /\ pc = "top" /\ (aborted \/ rec.status # "running")
  /\ AwaitLanes("drain")
  /\ UNCHANGED <<rec, board, todo, inFlight, aborted, waker, wokenEarly, liveUsd,
                 lanes, timeUp, owed, paid, used>>

CycleHitsCeiling ==
  /\ Unaborted /\ CeilingTripped
  /\ AwaitLanes("ceiling")
  /\ UNCHANGED <<rec, board, todo, inFlight, aborted, waker, wokenEarly, liveUsd,
                 lanes, timeUp, owed, paid, used>>

\* Queue empty and nothing in flight.
CycleDrained ==
  /\ Passing /\ Queue = {} /\ SlotsTaken = 0
  /\ EndCycle(SetStatus(rec, "drained")) /\ UNCHANGED used

\* mistake: only a loop whose tickets are all parked is called blocked.
CycleBlockedOnParks ==
  /\ Passing /\ Queue # {} /\ SlotsTaken = 0
  /\ \A t \in Queue : rec.tstate[t].parked
  /\ EndCycle(SetStatus(rec, "blocked")) /\ UNCHANGED used

\* Tickets remain, none dispatchable, nothing in flight.
CycleBlocked ==
  /\ Passing /\ Queue # {} /\ SlotsTaken = 0
  /\ Dispatches = {}
  /\ EndCycle(SetStatus(rec, "blocked")) /\ UNCHANGED used

CycleDispatches ==
  /\ Passing
  /\ \E D \in Dispatches : todo' = D
  /\ pc' = "launch" /\ owed' = FALSE
  /\ UNCHANGED <<rec, board, inFlight, awaited, aborted, waker, wokenEarly, liveUsd,
                 lanes, timeUp, paid, used>>

\* Nothing to dispatch but lanes are running: honour a wake that came early,
\* else wait for a lane or a wake.
CycleWaits ==
  /\ Passing /\ SlotsTaken # 0 /\ Dispatches = {}
  /\ IF wokenEarly
     THEN wokenEarly' = FALSE /\ UNCHANGED <<pc, awaited, waker>>
     ELSE AwaitLanes("waiting") /\ waker' = "armed" /\ UNCHANGED wokenEarly
  /\ owed' = FALSE
  /\ UNCHANGED <<rec, board, todo, inFlight, aborted, liveUsd, lanes, timeUp, paid, used>>

\* _launch: the iteration is opened in the record before the lane runs.
Launch(t) ==
  /\ pc = "launch" /\ t \in todo
  /\ LET opened == NextSeq(rec)
     IN  /\ rec' = AppendIteration(rec, t)
         /\ lanes' = lanes \cup
              {[seq |-> opened, ticket |-> t, terr |-> TerritoryOf(t),
                cycle |-> used.starts, aborted |-> FALSE, spent |-> 0,
                live |-> TRUE]}
         /\ inFlight' = [inFlight EXCEPT ![t] = opened]
  /\ todo' = todo \ {t}
  /\ pc' = IF todo' = {} THEN "top" ELSE "launch"
  /\ UNCHANGED <<board, awaited, aborted, waker, wokenEarly, liveUsd, timeUp, owed,
                 paid, used>>

\* The iteration cannot be opened: the cycle throws in the middle of its
\* launches, and the lanes it already has run on.  Writes fail one at a time,
\* so the settle in start()'s catch succeeds.
LaunchFails ==
  /\ pc = "launch" /\ Used("faults", MaxFaults)
  /\ EndCycle(SetStatus(rec, "failed"))
  /\ Count("faults")

Settled(seq) == \A l \in lanes : l.seq = seq => ~l.live
Rejected == {l.seq : l \in {m \in lanes : ~m.live}}

\* mistake: the race leaves the waker out.
ResumesOnLanes ==
  /\ pc = "waiting"
  /\ \E s \in awaited \ Rejected : Settled(s)
  /\ pc' = "top" /\ awaited' = {} /\ waker' = "none"
  /\ UNCHANGED <<rec, board, todo, inFlight, aborted, wokenEarly, liveUsd, lanes,
                 timeUp, owed, paid, used>>

\* The race is won by a lane that finished or by the waker.
CycleResumes ==
  /\ pc = "waiting"
  /\ \/ waker = "fired"
     \/ \E s \in awaited \ Rejected : Settled(s)
  /\ pc' = "top" /\ awaited' = {} /\ waker' = "none"
  /\ UNCHANGED <<rec, board, todo, inFlight, aborted, wokenEarly, liveUsd, lanes,
                 timeUp, owed, paid, used>>

\* The race is lost to a lane whose record could not be written: the cycle
\* rejects and start()'s catch settles the loop as failed.
CycleFails ==
  /\ pc = "waiting" /\ awaited \cap Rejected # {}
  /\ EndCycle(SetStatus(rec, "failed")) /\ UNCHANGED used

\* Every lane settled: the ceiling's status replaces whatever is there.
CeilingSettles ==
  /\ pc = "ceiling" /\ \A s \in awaited : Settled(s)
  /\ EndCycle(SetStatus(rec, "stopped")) /\ UNCHANGED used

DrainEnds ==
  /\ pc = "drain" /\ \A s \in awaited : Settled(s)
  /\ EndCycle(rec) /\ UNCHANGED used

Cycle ==
  \/ CycleBreaks \/ CycleHitsCeiling \/ CycleDrained \/ CycleBlocked
  \/ CycleDispatches \/ CycleWaits \/ CycleResumes \/ CycleFails
  \/ CeilingSettles \/ DrainEnds \/ LaunchFails
  \/ \E t \in Tickets : Launch(t)

----------------------------------------------------------------------------
(* The lanes *)

\* An enforced receipt, not the lane's own ok, decides what happened.
FromReceipt(res) ==
  CASE res.receipt = "verified" -> [res EXCEPT !.ok = TRUE]
    [] res.receipt = "blocked"  -> [res EXCEPT !.ok = FALSE, !.parked = TRUE]
    [] res.receipt = "failed"   -> [res EXCEPT !.ok = FALSE, !.parked = FALSE]
    [] OTHER -> res

\* A lane the user stopped did not fail: it was cut off.
Cancelled(l, res) == l.aborted /\ ~res.ok /\ ~res.parked

OutcomeOf(l, res) ==
  CASE res.parked -> "parked"
    [] Cancelled(l, res) -> "abandoned"
    [] res.ok /\ ~res.parked -> "succeeded"
    [] OTHER -> "failed"

\* _record writes the iteration, then the ticket's state, then the board.
AfterSettle(l, res) ==
  SettleIteration(rec, l.seq, OutcomeOf(l, res), IF res.threw THEN 0 ELSE l.spent)

\* mistake: a lane the user stopped costs its ticket an attempt.
ChargesCancelled(l, res) ==
  LET old == rec.tstate[l.ticket]
      new == [old EXCEPT !.touched = @ \cup res.touched,
                         !.parked = @ \/ res.parked,
                         !.attempts = IF res.parked THEN @ ELSE @ + 1]
  IN  UpdateTicketState(AfterSettle(l, res), l.ticket, new)

AfterTicketState(l, res) ==
  LET old == rec.tstate[l.ticket]
      new == [old EXCEPT !.touched = @ \cup res.touched,
                         !.parked = @ \/ res.parked,
                         !.attempts = IF res.parked \/ Cancelled(l, res) THEN @ ELSE @ + 1]
  IN  UpdateTicketState(AfterSettle(l, res), l.ticket, new)

\* mistake: the loop's word for a park is not a status of the board.
BoardSaysParked(l, res) ==
  [status EXCEPT ![l.ticket] = IF res.parked THEN "parked" ELSE @]

\* The gateway: review for a success, blocked for a park; notes change nothing.
\* The update of a ticket that is gone is refused and swallowed.
BoardAfter(l, res) ==
  LET moved == CASE res.parked -> "blocked"
                 [] res.ok /\ ~res.parked -> "review"
                 [] OTHER -> status[l.ticket]
  IN  IF status[l.ticket] = "deleted" THEN status
      ELSE [status EXCEPT ![l.ticket] = moved]

\* A dispatch that rejected carries no verdict and no receipt.
LaneReturns(l, res) ==
  /\ pc \in Await /\ l.live
  /\ res.threw => ~res.ok /\ ~res.parked /\ res.receipt = "none" /\ res.touched = {}

FinishLane(l, raw) ==
  LET res == FromReceipt(raw)
  IN  /\ LaneReturns(l, raw)
      /\ rec' = AfterTicketState(l, res)
      /\ status' = BoardAfter(l, res)
      /\ lanes' = lanes \ {l}
      /\ inFlight' = IF l.cycle = used.starts /\ Running
                     THEN [inFlight EXCEPT ![l.ticket] = 0] ELSE inFlight
      /\ liveUsd' = [liveUsd EXCEPT ![l.ticket] = 0]
      /\ UNCHANGED <<territory, pc, todo, awaited, aborted, waker, wokenEarly,
                     timeUp, owed, paid, used>>

\* A store write inside _record throws: the lane's promise rejects, its entry
\* stays in the Map, and what was not yet written never is.
LaneRecordFails(l, raw) ==
  LET res == FromReceipt(raw)
  IN  /\ LaneReturns(l, raw) /\ Used("faults", MaxFaults)
      /\ rec' \in {rec, AfterSettle(l, res)}
      /\ lanes' = IF l.cycle = used.starts /\ Running
                  THEN (lanes \ {l}) \cup {[l EXCEPT !.live = FALSE]}
                  ELSE lanes \ {l}
      /\ liveUsd' = [liveUsd EXCEPT ![l.ticket] = 0]
      /\ Count("faults")
      /\ UNCHANGED <<board, memory, timeUp, owed, paid>>

\* onSpend: a usage event of a running lane.
Spend(l) ==
  /\ pc \in Await /\ l.live /\ l.spent < MaxSpend
  /\ lanes' = (lanes \ {l}) \cup {[l EXCEPT !.spent = @ + 1]}
  /\ liveUsd' = [liveUsd EXCEPT ![l.ticket] = @ + 1]
  /\ paid' = paid + 1
  /\ UNCHANGED <<rec, board, memory, timeUp, owed, used>>

\* The lane's agent moves its own ticket on the board while it works.
LaneMovesTicket(l) ==
  /\ pc \in Await /\ l.live
  /\ status[l.ticket] = "backlog"
  /\ \E s \in LaneStatuses : status' = [status EXCEPT ![l.ticket] = s]
  /\ UNCHANGED <<rec, territory, memory, liveUsd, lanes, timeUp, owed, paid, used>>

----------------------------------------------------------------------------
(* The user, the board and the clock *)

\* releasePark: the ticket is dispatchable again; nothing wakes the cycle.
ReleasePark(t) ==
  /\ pc \in Await /\ Used("edits", MaxEdits)
  /\ rec.tstate[t].parked
  /\ rec' = UpdateTicketState(rec, t, [rec.tstate[t] EXCEPT !.parked = FALSE])
  /\ status' = [status EXCEPT ![t] = IF @ = "blocked" THEN "backlog" ELSE @]
  /\ Count("edits")
  /\ UNCHANGED <<territory, memory, liveUsd, lanes, timeUp, owed, paid>>

UserSetsStatus(t) ==
  /\ pc \in Await /\ Used("edits", MaxEdits)
  /\ status[t] # "deleted"
  /\ \E s \in UserStatuses \ {status[t]} : status' = [status EXCEPT ![t] = s]
  /\ Count("edits")
  /\ UNCHANGED <<rec, territory, memory, liveUsd, lanes, timeUp, owed, paid>>

\* Someone edits a ticket's territory, or the index resolves it differently.
Resize(t) ==
  /\ pc \in Await /\ Used("resizes", MaxResizes)
  /\ \E fs \in SUBSET Files \ {territory[t]} :
       territory' = [territory EXCEPT ![t] = fs]
  /\ Count("resizes")
  /\ UNCHANGED <<rec, status, memory, liveUsd, lanes, timeUp, owed, paid>>

\* Elapsed since the loop first started, running or not.
ClockRunsOut ==
  /\ HasClock /\ ~timeUp /\ pc \in Await /\ Len(rec.executions) > 0
  /\ timeUp' = TRUE
  /\ UNCHANGED <<rec, board, memory, liveUsd, lanes, owed, paid, used>>

----------------------------------------------------------------------------
(* The host dies and comes back *)

Dies ==
  /\ Used("crashes", MaxCrashes)
  /\ pc' = "down" /\ Forget
  /\ liveUsd' = [t \in Tickets |-> 0] /\ lanes' = {}
  /\ Count("crashes")
  /\ UNCHANGED <<board, timeUp, paid>>

Crash == pc # "down" /\ Dies /\ UNCHANGED rec

\* Death between two of the writes of one _record: some of them are on disk.
CrashMidRecord(l, raw) ==
  LET res == FromReceipt(raw)
  IN  /\ LaneReturns(l, raw)
      /\ rec' \in {AfterSettle(l, res), AfterTicketState(l, res)}
      /\ Dies

Restart ==
  /\ pc = "down" /\ pc' = "restoring"
  /\ UNCHANGED <<rec, board, todo, inFlight, awaited, aborted, waker, wokenEarly,
                 liveUsd, lanes, timeUp, owed, paid, used>>

OpenIterations == {i \in DOMAIN rec.iterations : rec.iterations[i].outcome = "running"}

\* restore(): each iteration with no end is marked abandoned, one write each.
RestoreIteration ==
  /\ pc = "restoring" /\ rec.status = "running"
  /\ \E i \in OpenIterations : rec' = AbandonIteration(rec, i)
  /\ UNCHANGED <<board, memory, liveUsd, lanes, timeUp, owed, paid, used>>

\* mistake: the loop stays running.
RestoreKeepsRunning ==
  /\ pc = "restoring" /\ OpenIterations = {}
  /\ pc' = "idle"
  /\ UNCHANGED <<rec, board, todo, inFlight, awaited, aborted, waker, wokenEarly,
                 liveUsd, lanes, timeUp, owed, paid, used>>

\* ... and the loop is left paused.  A loop that was not running is not touched.
RestoreStatus ==
  /\ pc = "restoring" /\ (rec.status = "running" => OpenIterations = {})
  /\ rec' = IF rec.status = "running" THEN SetStatus(rec, "paused") ELSE rec
  /\ pc' = "idle"
  /\ UNCHANGED <<board, todo, inFlight, awaited, aborted, waker, wokenEarly,
                 liveUsd, lanes, timeUp, owed, paid, used>>

----------------------------------------------------------------------------

LaneStep(l) ==
  \/ Spend(l) \/ LaneMovesTicket(l)
  \/ \E res \in Results : FinishLane(l, res) \/ LaneRecordFails(l, res)

UserStep ==
  \/ Start \/ Pause \/ Stop \/ ClockRunsOut
  \/ \E t \in Tickets : ReleasePark(t) \/ UserSetsStatus(t) \/ Resize(t)

HostStep ==
  \/ Crash \/ Restart \/ RestoreIteration \/ RestoreStatus
  \/ \E l \in lanes : \E res \in Results : CrashMidRecord(l, res)

Next == Cycle \/ Wake \/ UserStep \/ HostStep \/ \E l \in lanes : LaneStep(l)

Spec == Init /\ [][Next]_vars

============================================================================
