--------------------------- MODULE LoopProperties ---------------------------
(***************************************************************************)
(* What the ticket-loop supervisor is supposed to guarantee, stated over   *)
(* the state of LoopSupervisor.  A property some configurations cannot     *)
(* promise (a territory edited under a running lane, a record that cannot  *)
(* be written) says in its premise how far it goes.                        *)
(***************************************************************************)
EXTENDS LoopSupervisor

LiveLanes == {l \in lanes : l.live}
HostUp    == pc \notin {"down", "restoring"}
OpenSeqs  == {rec.iterations[i].seq : i \in OpenIterations}
LiveSeqs  == {l.seq : l \in LiveLanes}

\* The window still holds the iteration of this number.
Retained(seq) == seq > rec.retired.dispatched

\* No iteration has aged out of the window yet.
Untrimmed == rec.retired.dispatched = 0

\* Iterations counted under no heading: not ended, or not when they were retired.
Unended(totals) == totals.dispatched - (totals.succeeded + totals.failed + totals.parked)

\* The iterations of a ticket that ended with a verdict on the work.
Verdicts(t) == {i \in DOMAIN rec.iterations :
                  /\ rec.iterations[i].ticket = t
                  /\ rec.iterations[i].outcome \in {"succeeded", "failed"}}

\* A launch is the only step that opens an iteration.
Launched(t) == pc = "launch" /\ t \in todo \ todo'

----------------------------------------------------------------------------
(* Locks *)

\* The entries of the cycle's Map never overlap: what the ready-set
\* computation claims, the launches keep (design rule 3, "two lanes never
\* hold overlapping territory", for the lanes the cycle knows of).
LocksDisjoint ==
  \A l, m \in InFlight : l # m => ~Conflicts(l.terr, m.terr)

\* "Two lanes never hold overlapping territory", for every lane that still
\* runs, known to the cycle or not; a lane without a territory runs alone.
LanesNeverOverlap ==
  \A l, m \in LiveLanes :
    l # m => l.terr \cap m.terr = {} /\ Untenanted \notin l.terr

\* So far no territory changed and no write of the record failed.
Untroubled == used.resizes = 0 /\ used.faults = 0

\* No two running lanes overlap as long as no territory is changed under a lane
\* and no write of the record fails, whatever pauses, stops, crashes, edits of
\* statuses and lanes that touch more than they declared come between.
LanesDisjoint == Untroubled => LanesNeverOverlap

\* No ticket is worked by two lanes at once.  Nothing in the scheduler says
\* so: it follows from a ticket's territory colliding with itself.
OneLanePerTicket == Untroubled =>
  \A l, m \in LiveLanes : l # m => l.ticket # m.ticket

----------------------------------------------------------------------------
(* The ledger *)

\* While the host is up, every lane that runs has its iteration open in
\* loops.json, unless the window has dropped it.  Nothing else is open there,
\* unless the host died on a loop that was letting its lanes finish, or the loop
\* ran into trouble.
LedgerMatchesLanes ==
  HostUp =>
    /\ {n \in LiveSeqs : Retained(n)} \subseteq OpenSeqs
    /\ Untroubled /\ (used.crashes = 0 \/ used.halts = 0) => OpenSeqs \subseteq LiveSeqs

\* A loop whose supervisor is not running is not shown as running, and a
\* loop shown as running has exactly one open execution, its newest.
StatusMatchesCycle ==
  /\ pc = "idle" => rec.status # "running"
  /\ \A e \in DOMAIN rec.executions :
       rec.executions[e].open <=> rec.status = "running" /\ e = Len(rec.executions)

\* A ticket is charged one attempt per lane that reached a verdict, and none
\* for a park, a stop or a restart, while every lane's record is written whole.
\* The window may forget a verdict; the ticket's charge stays.
AttemptsMatchVerdicts == used.crashes + used.faults = 0 =>
  \A t \in Tickets :
    /\ rec.tstate[t].attempts >= Cardinality(Verdicts(t))
    /\ Untrimmed => rec.tstate[t].attempts = Cardinality(Verdicts(t))

\* An attempt may be lost between two writes, never invented, so a ticket is
\* worked to a verdict once more at most for each crash, each failed write and
\* each change of territory that let a second lane in.
RetryBudget ==
  \A t \in Tickets :
    /\ Untrimmed => rec.tstate[t].attempts <= Cardinality(Verdicts(t))
    /\ Cardinality(Verdicts(t)) <= MaxAttempts + used.crashes + used.faults + used.resizes

\* Every dispatch ever made is in the totals, however much of the window was
\* retired, under exactly one heading, or still open, or retired open.
TotalsAddUp ==
  LET totals == TotalsOf(rec)
  IN  /\ totals.dispatched = NextSeq(rec) - 1
      /\ Unended(totals) = Cardinality(OpenIterations) + Unended(rec.retired)

\* The iterations of the window that ran under execution e and ended so.
RanUnder(e, outcomes) ==
  Cardinality({i \in DOMAIN rec.iterations :
                 rec.iterations[i].exec = e /\ rec.iterations[i].outcome \in outcomes})

\* An execution's own counts are those of the iterations that ran under it, as
\* long as the window holds them all: "a separate durable execution ledger with
\* its own counts".  They never fall short of what the window shows.
ExecutionLedgersHold ==
  \A e \in DOMAIN rec.executions :
    LET totals == rec.executions[e].totals
    IN  \A counted \in {<<totals.dispatched, Outcomes>>, <<totals.succeeded, {"succeeded"}>>,
                         <<totals.failed, {"failed", "abandoned"}>>,
                         <<totals.parked, {"parked"}>>} :
          /\ counted[1] >= RanUnder(e, counted[2])
          /\ Untrimmed => counted[1] = RanUnder(e, counted[2])

\* So they are, in whatever order lanes return, until the host dies.
ExecutionLedgersAddUp == used.crashes = 0 => ExecutionLedgersHold

----------------------------------------------------------------------------
(* The board *)

\* A loop that says it worked every ticket left none half-finished: all it
\* ever attempted are in review or closed.
DrainedMeansHandedOver ==
  [][rec.status # "drained" /\ rec'.status = "drained" =>
       \A t \in Tickets : rec.tstate[t].known =>
         status[t] \notin OpenStatuses \/ status[t] = "review"]_vars

----------------------------------------------------------------------------
(* Ceilings *)

\* The ticket ceiling as the code keeps it: one pass may dispatch a lane for
\* every free slot past a ceiling that was not yet reached.
TicketCeilingOvershoot ==
  MaxTickets # NoCeiling =>
    TotalsOf(rec).dispatched <= MaxTickets + Concurrency - 1

\* What a lane spent reaches the record when it ends.  It does not if the lane's
\* dispatch rejects, its write fails, the host dies, a second lane works the same
\* ticket or the lane outlives its place in the window.
SpendKept ==
  /\ Untroubled /\ used.crashes = 0
  /\ \A res \in Results : ~res.threw
  /\ Unended(rec.retired) = 0

\* No lane starts once the lanes' real spend is past the ceiling.
NoLaunchPastSpend ==
  [][\A t \in Tickets : Launched(t) /\ MaxUsd # NoCeiling /\ SpendKept => paid < MaxUsd]_vars

----------------------------------------------------------------------------
(* Stopping, crashing *)

\* Once the user pauses or stops, nothing is launched before the next start:
\* the status in the record and the signal in memory agree.
NoLaunchUnlessRunning ==
  [][\A t \in Tickets : Launched(t) => rec.status = "running" /\ ~aborted]_vars

----------------------------------------------------------------------------
(* The inductive invariants behind the locks and the status *)

\* Lanes are numbered below the iteration the next launch opens, so a launch
\* never takes over the Map entry of a lane that still runs.
SeqsBehind == \A l \in lanes : 0 < l.seq /\ l.seq < NextSeq(rec)

\* What the record says of the loop and what the cycle in memory does.
StatusFollows ==
  /\ pc = "launch" => rec.status = "running" /\ ~aborted
  /\ pc \in {"idle", "drain"} => rec.status # "running"
  /\ aborted => rec.status # "running"

\* Between a pass and its last launch nothing moves, so what is left to launch
\* still fits beside everything that runs.
TodoClear == pc = "launch" => ConflictFree(todo)

LocksInv ==
  /\ TypeOK /\ WellFormed(rec) /\ SeqsBehind /\ StatusFollows
  /\ TodoClear /\ LocksDisjoint

\* With territories that stay put and a record that can be written, every lane
\* is known to the cycle and holds what its ticket covers now.
LanesKnown ==
  /\ \A l \in lanes : l.live /\ l.terr = TerritoryOf(l.ticket)
  /\ Running => \A l \in lanes : Registered(l) /\ l.cycle = used.starts
  /\ ~Running => lanes = {}
  /\ pc \in {"waiting", "ceiling", "drain"} => \A l \in lanes : l.seq \in awaited

----------------------------------------------------------------------------
(* Progress *)

\* The host runs the cycle's continuations: the event loop does not stop.
FairCycle == WF_vars(Cycle)

\* Every lane ends: the subagent runtime and idle budgets cut off one that
\* does not (workers run under maxRuntimeSeconds and idleTimeoutSeconds).
FairLanes ==
  \A t \in Tickets :
    WF_vars(\E l \in lanes : l.ticket = t /\ \E res \in Results : FinishLane(l, res))

FairHost == WF_vars(Restart \/ RestoreIteration \/ RestoreStatus)

SpecFair == Spec /\ FairCycle /\ FairHost

\* A wake of a loop that still dispatches is followed by a scheduling pass
\* even if no lane ever finishes: it is not lost between two waits.
WakeIsHeard == owed ~> (~owed \/ aborted \/ pc = "ceiling")

\* If lanes end, a loop that was started comes to rest, whatever they return.
LoopComesToRest == FairLanes => (Running ~> ~Running)

\* A host that died reconciles the loop: it is not shown running.
RestartReconciles == (pc = "down") ~> (pc = "idle" /\ rec.status # "running")

============================================================================
