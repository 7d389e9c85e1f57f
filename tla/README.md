# Blacksite: a verification of its unattended work

Blacksite is a VS Code extension in which language-model agents work on a
repository. Most of it is I/O around a conversation. The part that runs without
anybody watching is smaller and stateful: **ticket loops** dispatch agents
("lanes") over a queue of tickets, several at a time, for hours, across pauses,
crashes and restarts, and spend money doing so; **plan runs** work through a plan
turn by turn and queue what they need from the user; **edit claims** keep lanes
off each other's files; **orchestration signals** tell a loop, and the user, that
the world it was waiting for has changed; and all of them live in **documents**
on disk that several windows rewrite. This directory models that core in TLA+,
model-checks it with TLC and proves the most important of its invariants with
TLAPS. Paths below are relative to `src/` of this tree, so the extension's own
code is under `src/src/`.

How to run it, in this directory:

    tlc -workers 2 -config MCLoop_core.cfg MCLoop.tla          # one run
    tlapm LoopProofs.tla                                       # the proofs

## 1. The system

Everything below runs in one extension host, a single-threaded JavaScript
process: between two `await`s nothing else runs, except event handlers that a
store calls synchronously from inside its own writes. The host may die at any
moment; what survives is on disk under `.blacksite/`, which a second window over
the same folder reads and writes too.

| component | state it keeps | operations | talks to |
|---|---|---|---|
| loop supervisor `loops/loop-supervisor.ts` | in memory: the running loops and their two abort controllers, the Map of lanes in flight (local to a cycle), wakers, live spend | `start`, `pause`, `stop`, `wake`, `releasePark`, `restore`, the cycle with `_launch`, `_record`, `_settle`, `_notePassedOver` | store, scheduler, gateway, dispatcher; hooks to the attention center |
| loop store `loops/loop-store.ts`, `loop-model.ts` | `loops.json`: per loop its status, executions, a window of iterations, ticket states, retired totals, the resume offer | `setStatus`, `beginExecution`, `appendIteration`, `settleIteration`, `updateTicketState`, `setResumeOffer`, … each one read–change–write of the document | durable files |
| scheduler `loops/loop-scheduler.ts` | none: the ready set is a function of record, board, lanes and graph | `computeReadySet`, `computeGraphReadySet`, `nextSupervisorAction` | supervisor |
| work graph `orchestration/work-graph/`, `loops/scheduling-graph.ts` | derived from tickets, plans, contracts | blockers, dependents, cycles, critical path | graph-aware scheduler |
| ticket gateway `loops/loop-ticket-gateway.ts`, ticket store `ticket-store.ts` | `tickets.json` | `moveToReview`, `blockTicket`, `releaseBlocked`, user and agent edits | supervisor, signals (change events) |
| signals `orchestration/signals/` | `journal.jsonl`, `journal.1.jsonl`, `cursors.json`; in memory the pending batch and the last look at the board | `emit`, `flush`, `replayPending`, four consumers, `prune` | ticket store, loop store, receipts (events in); supervisor, store, attention, tickets (effects out) |
| edit claims `orchestration/claims/` | in memory: who holds which path, with leases; versions of paths; per lane what it read and what its commands changed | `beforeWrite`, `afterWrite`, `noteRead`, `touch`, `release`, `beforeShell`, `afterShell` | agent sessions, contracts |
| plan runs `plans/` | `run.json`; in memory the gates open, the pause asked for, the conductor's hold | start, pause, resume, stop, gates, tripwires, recovery; the conductor between turns | chat provider, agent session, planning store |
| durable files `shared/durable-file.ts` | a file, its backup, a temporary file | atomic write, recovering read | every store |
| contracts and receipts `orchestration/` | contracts, receipts on disk | issue, seal, prune | lanes, signals |
| everything else | sessions, maps, caches, views | | listed with reasons in `PROJECT.json` |

### What is hard about it

* **Interleaving at awaits.** A lane, the user, the clock and a wake run
  whenever the cycle awaits; store writes call observers synchronously, so a
  wake can arrive while the cycle is in the middle of a launch.
* **State read before an await and used after it.** The conductor is asked for
  seconds about a run the user may pause meanwhile; a claim taken before an
  approval may lapse before the write; a snapshot taken before a command is
  compared with one taken after somebody else's.
* **Two levels of stopping.** A pause ends the dispatching and lets lanes
  finish; a stop aborts them too; a lane reads its signal only when it returns.
* **Records in several writes.** What a lane did is settled in the iteration,
  the ticket state and the board, one after the other; a death or a failed write
  may come between any two.
* **Restart.** Lanes and turns die with the host; the record says what was in
  flight.
* **Several writers of one file.** Two windows read, change and replace the same
  document, with a backup that is copied in between.
* **Waiting.** Tickets wait for tickets, for files, for claims, for free slots
  and for better-ranked rivals; a run waits for answers that may come in any
  state of its turn.
* **At-least-once signals.** A signal is journalled at once and acted on 250 ms
  later; effects, cursors and the journal are written separately.
* **A window over history.** Only the newest iterations are kept, the older ones
  folded into totals while some of them may still be running.

The 40 places in the code where this bites are listed, each at its line, under
`hazards` in `PROJECT.json`, with the properties that would notice, or the
reason why none does.

### What makes each component correct

* *Supervisor*: no two running lanes overlap in territory; a ticket has one
  lane; retries are bounded; nothing starts after a pause or stop; ceilings
  hold; a loop comes to rest; a restart leaves nothing shown as running.
* *Store*: totals, execution ledgers and the window agree with what ran.
* *Scheduler and board*: a drained queue was handed over; only a lane that
  succeeded reaches review; a loop settles as blocked only over something outside
  it; a ticket that fits beside all others runs in the end; credit is bounded.
* *Signals*: what was journalled reaches every consumer; nothing is marked
  twice; agents' accounts change nothing; an offer to resume is true.
* *Claims*: no two writes let through touch each other; no lane writes over what
  another changed since it read it; what a command did is put on its lane.
* *Durable files*: a reader finds the old document or the new one; an edit is
  lost only to a save that overlapped its own.
* *Plan runs*: a run that looks active has something that moves it; a pause
  settles; an answer arrives; a reload brings back what the user left.

## 2. The modules

| module | models |
|---|---|
| `LoopRecords` | the record of one loop in `loops.json`; every store call an operator from record to record |
| `LoopSupervisor` | the cycle, its lanes, the board, the user, the host, with the legacy scheduler; EXTENDS `LoopRecords` |
| `LoopProperties` | the properties of the supervisor, its inductive invariants, fairness |
| `LoopRetention` | the windowed history beside the history it stands for |
| `LoopRecordsProofs` | lemmas about the record: what each store call keeps, counting and adding up over a window |
| `LoopProofs` | locks, status and lanes |
| `LoopLedgerProofs` | what the record says of the lanes: totals, attempts, executions, ceilings, the retry budget |
| `GraphScheduler` | the graph-aware ready set over the work graph, and the supervisor's passes, credits and settling around it |
| `GraphProofs` | its lanes never overlap, no ticket waits past its bound |
| `SignalJournal` | the journal files as sets of numbered lines: load, rotate, append, prune |
| `Signals` | the signal service, its consumers, the slice of a loop they act on; EXTENDS `SignalJournal`; its properties at the end |
| `SignalsProofs` | the inductive invariant of the journal, its cursors and its consumers |
| `SharedDocument` | what a document on disk promises: one value that changes all at once |
| `DurableFile` | the temporary file, the backup and the rename under several windows; implements `SharedDocument` |
| `DurableProofs` | its invariants and the refinement |
| `Claims` | the registry of claims, the lanes' tool calls and commands, the main session |
| `ClaimsProofs` | its five properties |
| `PlanRun` | a plan run, the chat's turns, the conductor, the user |
| `PlanRunProofs` | its five properties and two more |
| `MCLoop`, `MCGraph`, `MCSignals`, `MCDurable`, `MCClaims`, `MCPlanRun` | TLC instances |

The modules meet where the components do. `LoopSupervisor` takes a store write as
atomic and lets one fail; `DurableFile` is what that rests on. `Signals` keeps of
a loop what its consumers read, and `LoopSupervisor` takes a wake as input.
`GraphScheduler` takes the claims of other lanes as input, and `Claims` the lanes'
calls. `PlanRun` reads the status of the plan. Ghost variables, named "history"
where they are declared, remember what happened for a property to speak of; no
action reads one.

### Supervisor and code

`pc` says where the asynchronous cycle stands, one value for each await and for
the stretches between them that another step can observe:

| `pc` | code |
|---|---|
| `idle` | `_running` has no entry for the loop |
| `top` | head of the `for (;;)` in `_cycle` |
| `launch` | inside the loop over the dispatched tickets (each launch is a write of its own, and a wake or a death may come between two) |
| `waiting` | `await Promise.race` of the lanes and the waker |
| `ceiling` | `await Promise.allSettled` before settling on a ceiling |
| `drain` | `await Promise.allSettled` after a pause or a stop |
| `down`, `restoring` | the host is dead; `restore()` runs |

Only in `Await = {idle, waiting, ceiling, drain}` can lanes, the user or the clock
take a step. A wake can also come in between, since it is called from an event
the store fires during a write. `inFlight` is the Map of the cycle: ticket to
lane (by sequence number). `lanes` are the promises: a lane whose record threw
stays in the Map although it no longer runs (`live = FALSE`), and a lane of an
earlier cycle may still run with no entry in the Map; both happen in the code.
`awaited` are the lanes the current `await` was given.

* **Scheduling.** `ReadySets` gives *every* maximal set of eligible, mutually
  non-conflicting tickets where the code ranks and picks one, so what is checked
  and proved holds for every ranking.
* **`_record`** is one action (`FinishLane`) when all its writes succeed. A
  failed write (`LaneRecordFails`) or a death (`CrashMidRecord`) leaves every
  prefix of them. Writes fail one at a time: the settle that follows a failure
  succeeds.
* **Results** (`Results`) are inputs: success, failure, a parked approval, a
  receipt that overrules the lane, a dispatch that throws, files touched beyond
  the territory.
* **Ghosts**: `owed` (a wake not yet followed by a pass), `paid` (what lanes
  really spent), `used` (the counters behind the bounds).

### Graph-aware scheduler and code

One cycle, with `at` in place of `pc`: a pass is one action (the code runs it
without an await), then the cycle waits or settles. The work graph is computed
from the board by operators named for what they answer: `Upstream` (reachable
dependencies), `InCycle` (`cycleOf`), `Unmet` (`hardBlockers` and
`dependencyMet`), `Downstream` (`downstreamOpen`), `CriticalPath`. `Score` is the
sum of the code's terms with `Base` for what `rankTickets` gives a ticket of its
own; equals are broken in every way. Deleting a ticket drops the links to it,
also on the next read of the document, so a dependency that does not exist never
comes from `blockedBy`. Names in `Recurring` are reused for new tickets, which is
how work that keeps arriving fits a finite model.

### Signals and code

`facts` numbers what was observed; a signal's id is a hash of kind, task and
cause, so the number of the fact stands for it. `drafts` is what `emit` is still
working through: follow-ups ("everything this ticket depends on is closed") are
emitted recursively before the next draft. `work` is the batch `_reconcile` hands
to the consumers one after the other: one step for a consumer's effects
(`Reconcile`), one for its cursor (`SaveCursor`), and a death may come between the
two, between two effects (`CrashMidReconcile`) or inside a write to the journal
(`CrashMidWrite`, `CrashMidRecord`: within the rotation, before the line or in the
middle of it). A file is the set of its lines: every reader sorts by `seq` or takes
the greatest (`_load`, `signalsAfter`), and only sets of signals are looked up. Loops are reduced to
what consumers read: the status, why it is blocked, the offer, the flags, the
tickets worked on, and `passed`, the ready set its last scheduling pass saw.
Signal kinds are the five whose treatment differs; a conflict is treated like a
failed check, a widened scope like either.

### Durable files and code

A document is the set of the edits it holds. `atomicWriteFile` is cut at its
system calls: open and write the temporary file, copy the old document to `.bak`
(which takes time: `CopyBegins`, `CopyEnds`), rename, with the retries of a busy
rename. Every call may fail, and a host may die between any two. `Reading` is
`readJsonDocument`: the primary, the backup if the primary does not parse, else
nothing.

### Claims and code

An action is what a session does between two awaits: `Gate` the check before a
write (`_claimGate`), `AtApproval` the wait for the user's yes, `Write` the write,
`Settle` the bookkeeping after it (`_settleClaims`); for a command `BeginShell`,
`SnapshotBefore`, `EndCommand`, `SnapshotAfter`, `Attribute`, with
`CommandWrites` in between. A call the editor resolves (`refactor`) is checked
only at the approval, when its files are known. `Lease` and `MaxLease` run on a
clock that ticks between any two actions.

### Plan runs and code

`run` is the service's run with what `run.json` says of it (`saved`) and what only
memory holds (gates, `pausing`, `hold`); `turn` is the chat's turn and its flags;
`conductor` says whether it is deciding or has started a turn. Answers travel
through `steers` (the session's queue for the next step) and `notes` (for the next
turn), and `settled` remembers what arrived or was given up. A turn may end in every
way; what was sent to it and not yet read becomes a turn at once (`TurnGoesOn`), or
is given back without one when the session's spend ceiling is reached or the session
is no longer the chat's (`SteersReturned`, the early returns of
`_continueSteersAsTurn`). The conductor's verdict comes later and may find the run
changed (`VerdictSend`, `VerdictStops`); its own error, or a continuation without a
session, leaves the run as it is (`VerdictLost`). `Launch` is `_launchRunTurn`: the
turn starts, waits for the run's conversation (`opening`, then `TurnLaunched` or
`LaunchRefused`), or the run is paused for want of money. `ConversationLeft` is a
new chat, which cancels the turn and takes its cards away.

Clocks, money and texts are left out: a ceiling, an alarm or a quiet wait can happen
whenever the run's state allows it, and so can the session's spend ceiling. That the
chat's session is replaced (a setting, a credential, another conversation) is a
choice where the code would notice: what was sent is given back, a second turn
leaves what the first has not read with it, a verdict finds nobody. A pause that the
lost session is not told of adds nothing: its turn ends as others may. When a
restore's question was put is not kept, so its answer may come at any time.

### "Mistakes"

Beside a definition there may be others marked *mistake*: plausible errors
(a guard dropped, the wrong order, a reset forgotten). They are not part of the
model. Each one put in place of its definition makes TLC report the property it
is paired with in `PROJECT.json` (`mutants`); they show that the properties
depend on the code they are about.

## 3. The runs

Distinct states are for the whole run; each takes from seconds to some
three minutes with two workers.

| run | bounds | shows |
|---|---|---|
| `core` (611 000 states) | 3 tickets over 2 files, one with no territory, 2 slots, a window of 2, explicit ids, a ticket and a spend ceiling, a start, a resume and a halt | locks, status, totals; overshoot is at most `Concurrency - 1`; no launch past the spend ceiling |
| `disturbed` (1.75 M states) | 2 tickets, a window of 3, receipts that overrule, start and resume, any 2 of: death, user edit, changed territory, halt, failed write | locks, ledger, attempts, retry budget, executions, board, stopping |
| `progress` (46 000 states, fair) | dependencies, a wake, a death, a halt, an edit, a clock | a wake leads to a pass, a loop comes to rest, a restart reconciles |
| `retention` (375 000 states) | a window of 3 over every history of 5 | what a trim keeps of a failure streak |
| `graph` (116 000 states, fair) | 7 tickets on a fresh or a half-done board, 2 of them names that keep arriving, a large one, a cycle with a subtask, 2 slots, a collision, a park, one event | lanes disjoint beside large work; credit bounded; blocked only for cause; a ticket that fits beside all runs |
| `signals` (2.54 M states, fair) | 2 tickets, 1 dependency, 3 facts, a file of one signal, at most 2 of: death, fault, changed setting, 30 days; facts and disturbances at most 4 | delivery through rotations, cursors, replay, offers, wakes |
| `durable` (807 000 states) | 2 windows, 3 edits, a busy rename each, 2 deaths, 2 damages, a deletion | the refinement; edits kept; damage costs one save |
| `claims` (3.24 M states) | 2 lanes and the main session, a directory with a file, 3 calls, 1 change, a clock past both leases, a changed setting | claims and writes exclusive; no stale overwrite; commands attributed |
| `plan_run` (1.99 M states) | 2 runs of a plan, an approval, a question, a decision, a waiting turn | pauses settle, reasons, answers, reloads, what drives the run, money and session lost included |

Why the bounds are enough for what they ask: a lock conflict needs two lanes, and
a third ticket to be kept out or let in when one ends; a second start is needed
for anything left over by the first; two disturbances give every ordered pair,
the death between the two writes of a failed record included. A retry budget of
two attempts is the smallest in which a retry differs from the last one. The
windows of `core` and `disturbed` are smaller than what they dispatch, so lanes
outlive their place in the window and verdicts are forgotten: that is when the
totals must rest on what was retired, and why `LedgerMatchesLanes`,
`AttemptsMatchVerdicts`, `RetryBudget`, `ExecutionLedgersHold` and
`NoLaunchPastSpend` say what the window still knows. A
window of three retires one, two or three iterations, settled or open, and every
streak across the edge. Credit needs more ready tickets than slots at pass after
pass, hence names that keep arriving; scores repeat once credits do, and the
entries stay finite without a bound on time. A cycle has three members because
`updateTicket` refuses two. An edit lost by overlap needs two windows and three
edits, with damage falling before, between and after their saves. With leases of
0 and 1 and a clock to 2 a claim can be fresh, renewed, lapsed and beyond its
maximum; three calls are one write for each lane and one that meets both. Two
plan runs are the least in which an answer or a verdict of one meets the other.
`plan_run` explores under a VIEW that leaves `approved` out: using an approval
changes nothing else, no other action looks at it, and no property of the run reads
it (`ApprovalsStayInRun` is proved).
A journal file of one signal is rotated out by the second signal after it, with
three facts and their follow-ups to tell, so signals are dropped while they are
pending, in the batch, handed over or forgotten. What a rotation took is remembered
by a ghost variable (`dropped`). With it two promises turn out narrower than the
cursors suggest: a signal whose file was rotated out before the host that was to
hand it over died is lost, and a fact told again after that is news. In the code a
file holds four megabytes, so both are remote; `NothingSkipped` and
`HandedAgainOnlyByReplay` name them, and hold for every size of a file.

The type invariants of `GraphScheduler`, `DurableFile`, `Claims` and `PlanRun`
are proved and not run again.

The other three runs each end in a violation: the code does something other than
what a line of the repository says.

| run | what happens | says otherwise |
|---|---|---|
| `failed_write` | one failed write fails the cycle while another lane runs on, unknown to the next start, which dispatches over its files | `docs/ticket-loops-design.md:52` |
| `held_verdict` | the user pauses a run while the conductor is asked; its answer still continues or stops the run, since `holds()` is read before the question only | `plans/plan-continuation-service.ts:53` |
| `starved` | a ticket withheld for its files earns no credit, so better-ranked rivals over the same files that keep arriving starve it | `docs/guide/settings-and-commands.md:255` |

### Differences met while modelling

No run of its own demonstrates these; the properties name them as premises, or
exclude them by what they ask. Line numbers are those of the code.

*Loops.*

* A pause followed by a death before the lanes finish: `restore` skips a loop
  that is not `running` (`loop-supervisor.ts:216`), its iterations stay open for
  ever (`docs/ticket-loops-design.md:465`).
* A dispatch that rejects loses what it spent: the live entry is deleted
  (`:548`) before a result without `usd` is recorded, against the comment at
  `:698`.
* `restore` writes iterations past `settleIteration`, so the execution the host
  died under counts a dispatch and never its outcome.
* A lane still open when its iteration is trimmed settles nothing; its outcome
  and spend are in no total (`loop-store.ts:413` says no total is lost).
* `retired.consecutiveFailures` is never written, so a streak older than the
  window is 0 (`loop-store.ts:375`, `:377`).
* The ticket ceiling is exceeded by up to the other free slots of one pass
  (`loop-model.ts:75`); `TicketCeilingOvershoot` bounds it.
* A queue of explicit ids dispatches tickets in review or closed; a lane that
  succeeds moves its ticket to review although the user closed it while it ran.
* A territory edited under a running lane is not its lock; two lanes may then
  overlap. `LanesDisjoint` of `LoopProperties` says so in its premise.
* `loops.json` is written without a backup (`loop-store.ts:770`) although `read`
  counts on one (`:538-540`).

*Graph-aware scheduling.*

* A large ticket is admitted only into an empty loop and keeps every other out
  for the rest of its pass; its lane then keeps its plain territory
  (`loop-supervisor.ts:553`), so the very next pass puts lanes beside it.
  "runs only when nothing else is running" (`loop-scheduler.ts:383`) and "the next
  attempt runs alone" (`docs/guide/approvals-and-safety.md:168-169`) hold of its
  start only.
* A ticket passed over *k* times outranks a rival "once `10k > 65 + priority gap`"
  (`docs/orchestration-p1-implementation-plan.md:643-644`): that leaves out the 30
  points of work in progress, which a rival may have and the ticket not, and it is
  about one rival that was never passed over itself. Several tickets that wait
  together each have a credit. `WaitIsBounded` states a bound that holds for every
  board: for each other ticket, one level more than any other advantage is worth.
* Besides territory, a ticket is starved by a claim held on its files, by being
  large or having collided while others run, and by a stream of large tickets.
* A passed-over ticket gets an entry (`loop-supervisor.ts:460`), and `loopRetains`
  takes any entry for an attempt (`loop-scheduler.ts:158-160`): a ticket the user
  took back out of the queue is still dispatched.
* A dependency that does not exist never shows as "incoherent": the store drops
  links to missing tickets at each read (`ticket-store.ts:559`), and the ticket
  runs (`docs/ticket-loops-design.md:246-247`,
  `docs/orchestration-p1-implementation-plan.md:624-626`). A contract's
  dependencies (`work-graph/build.ts:184`) go on naming a deleted or unlinked
  blocker and hold a retried ticket.
* A declared cycle with a subtask link inside its component is "blocked" and not
  "incoherent", as `every` edge must be declared (`scheduling-graph.ts:31`); a
  cycle one of whose members is closed still is "incoherent".
  `BlockedForCause` is about boards without the first.
* A claim of a chat's lane can settle a loop as blocked, while the comment says
  blocked, parked or exhausted (`loop-scheduler.ts:413`); a ticket marked blocked
  counts as waiting on dependencies (`loop-supervisor.ts:346`).

*Signals.*

* Pausing or stopping a blocked loop drops its offer and leaves the attention
  item (`loop-store.ts:599`, `docs/orchestration-p1-implementation-plan.md:337`).
* A prune may empty the journal, not the cursors; the next host numbers from 1,
  below them, and a death before the flush loses the signal for good
  (`journal.ts:94`, against `:8`).
* What is dropped with the older file is no longer owed after a death, and no longer
  known as told (`journal.ts:146`, against `:9`).
* A line torn by a death takes the next one with it. Signals owed while signals
  were off at activation are passed over by the first flush after they are
  switched on. An effect that throws, and an append that fails, are not tried
  again. A removed dependency and a cleared "blocked" status are no signals.
  After a restart an offer is in the record and its attention item is gone.

*Durable files.*

* The copy to `.bak` takes whatever the primary holds: after damage the good
  backup is replaced by the wreck before the new document is renamed into place
  (`durable-file.ts:123`; `:17` calls it the previous good copy). A death in
  between leaves neither. `AtMostLastSave` speaks of the time before that.

*Claims.*

* A write noted between a lane's read of a file and the note of that read counts
  as read (`agent-session.ts:5560`); so does one noted between the check and the
  lane's own note (`session-claims.ts:180`, against `:111`).
* With claims switched off during a command, `afterShell` leaves its first
  snapshot and its entry in the registry; commands that ran while they were off
  do not count against coverage.
* The difference of two snapshots holds writes of tools and of the main session
  too; `session-claims.ts:67` speaks of commands only. A lane's own command hides
  that its copy is stale. A moved directory bumps the version of the path named,
  not of what lies below. A claim may pass `maxLease` in the middle of a write.
  What git ignores, and what a process left in the background writes, is unseen.

*Plan runs.*

* When all steps left are blocked, the store calls the plan "blocked"
  (`planning-store.ts:1091`) and the continuation takes only active plans
  (`plan-continuation.ts:162`): the run stays "running" without a turn, and an
  answer starts none (`docs/guide/plans-and-context.md:116-117` says it stops,
  says so, and answering picks it back up). `AtWorkIsDriven` names this case.
* With the session's spend ceiling reached, answers that a turn did not read are
  deleted and posted as "returned" (`chat-provider.ts:4382-4388`), though the
  decisions stay answered; no turn starts, and since `_continueSend` has returned
  (`:5069`) the conductor is not asked: the run stays "running" with nothing that
  moves it, where every other way into that ceiling pauses it (`:1261`, `:5961`). A
  session replaced during the turn does the same without a word (`:4381`).
* An error of the conductor's own is only reported
  (`plan-continuation-service.ts:188`), and a continuation that finds no session
  returns (`chat-provider.ts:4918`) after it took the answers given: again the run
  stays "running" and undriven. `AtWorkIsDriven` and `AnswersReachAgent` name these
  cases, and hold but for them.
* `_runner.busy` is checked before a restore's awaits and not after them, so a
  restore may fight a turn (`chat-provider.ts:6567`).
* A question that was queued closes its card without a `question_card_result`.
* A resumed turn that waits for the run's conversation starts even if the run was
  paused meanwhile; two of them, or one and a message, make the second fail the
  run while the first still works.
* A decision answered while the run shows "Pausing…" becomes a new turn after the
  pause; one answered in a live turn drops the conductor's question.
* An error in a side question turns a paused run into a failed one; a pause
  pressed on a failed or interrupted run during a side question stays "Pausing…";
  `resume()` leaves the session's own pause flag.
* A new run started while a cancelled turn unwinds is paused by it; a verdict
  asked for one run can halt or ask in the next; the results of a snapshot queued
  in one run are recorded on the next.
* A start that is refused clears the notes and the preapprovals of the open run.
* The waiting statuses are not saved although `plan-run-store.ts:5` says every
  status change is; recovery counts the time the window was closed as active; a
  gate opened during an outage leaves the run "running" beside an open gate.

## 4. Fairness

`SpecFair` of `LoopProperties` assumes that the event loop runs the cycle's
continuations (`FairCycle`) and that a dead host is started again and restores
(`FairHost`). That lanes end is *not* assumed throughout, only by
`LoopComesToRest`, as an antecedent: workers run under `maxRuntimeSeconds` and
`idleTimeoutSeconds`, which end one that does not. Nothing is assumed of the
user. `WakeIsHeard` holds without any lane ever ending, which is what a wake is
for.

`SpecFair` of `GraphScheduler` assumes that a pass that is due is run and that
each lane ends, for the same reasons. The first is written `[]<>~Passing`, since a
pass is possible whenever one is due and its dispatches end when no slot is free;
it is the weak fairness of `Pass`, without an ENABLED that TLC would compute over
every ranking. New tickets, claims and the user may do nothing for ever, or, for
the tickets, arrive for ever.

`SpecFair` of `Signals` assumes that the service's own steps happen (they are
synchronous, or one timer) and that the host is started again. Users, agents,
lanes and the loop may do nothing for ever.

`DurableFile`, `Claims` and `PlanRun` state safety only and assume no fairness.

Deadlock is not checked where a bounded run, or a loop at rest that waits for
its user, legitimately stops.

## 5. The proofs

All of it holds for every value of the constants: numbers of tickets, files,
slots, lanes, windows and runs, every graph, every result a lane may return,
every bound. The assumptions are the named `ASSUME`s of the modules: finite
tickets, at least one slot, well-typed inputs.

### Loops: locks, status and lanes (`LoopProofs`)

| theorem | states |
|---|---|
| `LocksInvariant` | `LocksInv`, the inductive invariant |
| `TypeCorrect` | `TypeOK` |
| `LocksAreDisjoint` | lanes in the Map of the cycle never overlap, *whatever* is edited, fails or dies |
| `StatusIsTrue` | `StatusMatchesCycle` |
| `KnownInvariant` | `KnownUntilTrouble`, the second inductive invariant |
| `LanesAreDisjoint` | no two running lanes overlap and no ticket has two, until a territory changes under a lane or a write of the record fails |
| `NoLaunchAfterHalt` | `NoLaunchUnlessRunning` |
| `DrainedLoopsHandedOver` | `DrainedMeansHandedOver` |

`LocksDisjoint` alone is not inductive. A launch overwrites the Map entry of its
ticket, so one must know that sequence numbers are fresh (`SeqsBehind`, which
rests on `WellFormed`: the numbers of the window rise, up to `NextSeq - 1`).
A pass claims several tickets and launches them one by one, so what is left to
launch must still fit beside what was launched (`TodoClear`). That nothing else
starts meanwhile needs the phase and the status to agree (`StatusFollows`).
`LocksInv` is their conjunction with the types; the proof has one lemma per group
of actions (cycle, lanes, user, host) for the types, for the status and for the
locks, and the launch apart.

A lane may also run *outside* the Map, so `LocksDisjoint` does not yet give the
design rule. `KnownUntilTrouble` adds `LanesKnown`: until a territory changes or
a write fails every live lane has its entry, was launched by the current cycle,
holds what its ticket covers now, and every await that ends a cycle waits for
it. From the two follows that live lanes are disjoint, and that a ticket has one
lane because its territory collides with itself.

`LoopRecordsProofs` holds the lemmas about the record: which operators keep it
well formed, which leave `NextSeq`, the status and the ticket states alone, and
what each does to a *count* over the window.

### Loops: what the record says of the lanes (`LoopLedgerProofs`)

| theorem | states |
|---|---|
| `LedgerInvariant` | `LedgerInv`, the inductive invariant |
| `TotalsAlwaysAddUp` | `TotalsAddUp`, for every window |
| `LedgerFollowsLanes` | `LedgerMatchesLanes`: no lane runs without its open iteration, and until trouble nothing else is open |
| `AttemptsFollowVerdicts` | `AttemptsMatchVerdicts` |
| `ExecutionLedgersFollow` | `ExecutionLedgersAddUp`, in whatever order lanes return |
| `CeilingOvershootsOnePass` | `TicketCeilingOvershoot` |
| `NoLaunchOverSpend` | `NoLaunchPastSpend` |

A total is a sum over a sequence, and induction over sequences is out of reach.
It is not needed: every total counts the positions of a window with some
property (or, for money, the pairs of a position and a dollar), so it is the
cardinality of a finite set, and a step changes it by what it does to one
position. `Those` counts the iterations of a window that lie in a set; four
lemmas of `LoopRecordsProofs` say how appending (`ThoseAppend`), rewriting
(`ThoseRewrite`) and dropping the oldest (`ThoseDrop`) change it, and the `Coins`
lemmas say the same of money.

`LedgerInv` adds to `KnownUntilTrouble` that the window is the unbroken end of the
numbering and no longer than allowed (`Windowed`), that lanes have numbers of
their own (`DistinctLanes`), that a live lane's iteration is open and names its
ticket as long as the window has it (`LanesOpen`), that a dead host has no lanes,
that what is open cost nothing yet and ran under an execution begun before. A
lane that returns therefore closes its own open iteration exactly once, or finds
it retired: `StepShape` divides the steps into launches, returns, repairs after a
crash and those that leave the books alone, and `LaunchCounts`, `SettleCounts`,
`ReturnVerdicts` say what the first three do. On it rest four smaller invariants:

* `AttemptsInv` compares a ticket's charge with the verdicts the window shows,
  from above while records are written whole, from below while nothing was
  retired;
* `ExecInv` does the same for each heading of each execution;
* `CeilInv` counts what a pass still has to launch as dispatched, so that the
  overshoot is decided when the pass is, by `FreeSlots`;
* `SpendInv` says where the money is, what the lanes paid being the recorded
  total plus `_liveUsd`, and that the pass that is still launching saw it below
  the ceiling. It needs that one ticket has one lane (`KnownOneLane`), since
  `_liveUsd` is kept by ticket.

`LedgerMatchesLanes` needs besides `OpenAreWorked`: without trouble an open
iteration has its lane, or died with a loop that is shown running.

### Loops: the retry budget (`LoopLedgerProofs`)

`BudgetIsKept` states `RetryBudget`: nothing is charged that was not worked, and no
ticket is worked to a verdict more than `MaxAttempts` times but for one more for
each crash, each failed write and each change of a territory. Verdicts alone are
not inductive, because a lane that runs will add its own. `BudgetInv` counts the
verdicts with the ticket's running lanes (`Working`), against the budget, and the
verdicts with the lanes no pass will see in its way (`Loose`), against what the
ticket was charged. A launch finds only loose lanes of its ticket
(`LaunchFindsLoose`: any other one holds what the ticket covers and would
conflict), so the second count bounds the first. What makes a lane loose was paid
for: a changed territory, a launch that failed, or a rejected lane of another
ticket that failed the cycle, counted in advance (`DeadElsewhere`). `MapInv` says
what the Map may hold when a cycle ends, which no step but those forgets a running
lane with; and `Affords` is the balance each step keeps.

### Graph-aware scheduling: `GraphProofs`

`GraphTypeCorrect` and `GraphLanesDisjoint`, from `LaneInv`: types, disjoint lanes
and `LanesHold`, that a ticket in flight collides with its own lane. The last is
what keeps a ticket from a second lane: `touched` only grows. Of two tickets of a
pass the one placed later was compared with the claim of the earlier, and a claim,
whole or plain, stands for the plain territory (`ClaimCovers`).

`WaitBounded` states `WaitIsBounded`, for every graph, ranking, priorities and
number of slots: no credit passes `(n - 1) * (1 + Headway)` with *n* tickets, where
`Headway` is the credit that outweighs every other advantage together. The
invariant (`CreditInv`) bounds how many tickets have a credit above each level, the
levels being one more than `Headway` apart: above the *k*-th,
counted from 1 (no credit at all), at most *n - k*. A
pass that lifts a ticket over a level leaves it waiting behind one it dispatches;
what is ranked before a ticket with a credit has one above the level below
(`OutrankedByCredit`), and starts over when it is dispatched, so each level is held
by one ticket fewer than the level below it. `Headway` exists because the
priorities are finitely many (`FiniteHasGreatest`, from the well-foundedness of
proper inclusion on finite sets).

### Signals: `SignalsProofs`

| theorem | states |
|---|---|
| `SignalsTyped` | `TypeOK` |
| `NumberedOnce` | a number, or a fact, names one line of the journal |
| `SignalsNothingSkipped` | `NothingSkipped` |
| `SignalsFlagBeforeCursor` | `FlagBeforeCursor` |
| `SignalsHandedAgainOnlyByReplay` | `HandedAgainOnlyByReplay` |

All of them hold for every size of a journal file, every board and any number of
deaths, faults, prunes and changes of the setting. A cursor is a number, and says
that everything up to it was handed over. For that to stay true when new signals
come, no number may be given twice, nor one below a cursor. The files alone must
warrant it, since a new host knows nothing else: `OrderInv` says that the older
file, and the older lines, hold the lower numbers, and `CursorInv` that the last
line in the files is not below any cursor. A rotation keeps that because it drops
the older file, a prune because it drops the older lines, as long as one line is
left; a torn line and an emptied journal break it, which is why the properties
exclude the two (section 3). For a cursor that moves, `PastInv` says that what lies
beyond it is pending or in the batch, so that it passes nothing but the batch.
`DeliveryInv` joins these: up to its cursor a consumer was handed everything, and
what the journal no longer holds was rotated out or handed to whoever listens.
It speaks of what a dead host leaves behind; `MemoryInv` is the same for a host that
lives, which forgets nothing whatever becomes of the files. `FlagInv` is
`DeliveryInv` for what the loop bears of it, and `HandedInv` the converse: what is
on its way to a consumer was not handed to it before.

None of the properties is inductive by itself, and `DeliveryInv` not without the
others. The steps are divided into nine kinds (`StepsNow`): a step that leaves
journal and consumers alone (`Quiet`), a new signal (`Emitting`), the start of a
batch, its handing over, a cursor, age, prune, death and activation. Each invariant
has one lemma with a case for each kind. That a finite set of numbers has a
greatest (`FiniteHasGreatest`) gives what `LastSeq` returns.

### Durable files: `DurableProofs`

`DurableTypeCorrect`, `NoEditLostAlone` (`OwedIsRead`), `DamageCostsOneSave`
(`AtMostLastSave`, for documents with a backup) and the refinement
`FilesImplementDocument`. The invariant says that a temporary file about to be
renamed is complete, that whatever a file holds was once put in place, and that
what is owed is in the file and in every document that may replace it. For tidy
saves a second one adds that the finished copy is the document in place. The
refinement has one step for each action: a rename is the commit, damage is decay,
everything else stutters.

### Claims: `ClaimsProofs`

`ClaimsNeverOverlap`, `WritesAreExclusive`, `AttributionIsSeparate`,
`CoverageIsHonest`, `OverwritesKnowTheFile` and the types. Three invariants, each
on the types: for writes, that a lane in the middle of one still holds the claims
it was let through with (`Claimed`), through leases that lapse and directories
whose claims widen; for commands, that two at once are both marked and a change is
reported or pending (`BothMarked`, `Reported`); for copies, that another's change
since the last look is noted, or about to be (`NewsIsKept`).

### Plan runs: `PlanRunProofs`

`PausesAreSettled`, `WaitsForAReason`, `ApprovalsAreOfTheRun`, `AnswersAreDelivered`,
`ReloadsAreHonest`, `WorkIsDriven` and the types. `IInv` joins the properties with
what keeps them: cards and flags only while a turn is there (`TurnHoldsAll`), no
run open on a plan that is over (`OverIsOver`), and of the run record that its
status has a reason and agrees with what was saved (`Fine`). Most steps only
rewrite the run: `Follows` says what any rewriting by the service preserves, and
each operator is shown to follow once. `WorkIsDriven` needs no more of the state than
`IInv`: each action leaves a turn, a launch or the conductor, or no run at work, or
is one of the three that leave a gap (`Moved`).

### Model-checked only

* Liveness and fairness: `progress`, `ReadyRuns`, the last two properties of
  `signals` (`OffersComeTrue`, `RunningLoopRechecks`).
* `StreakExactSinceSuccess`: the failure streak is compared with a fold over the
  whole history, which is induction over a sequence.
* `BlockedForCause`: needs that a chain of dependencies ends, over reachability
  that is defined by recursion on the length of a path.

## 6. Not modelled

* **Two loops over one board.** Each cycle compares territories with its own Map
  only (`loop-supervisor.ts:311`); in graph mode with claims the other loop's
  lanes are seen as held files once they write. Each model has one loop.
* **A failed write while the failure is being written** (`loop-supervisor.ts:265`):
  the loop would stay "running" without a cycle.
* Of the loops: activity traces, recorded decisions, shadow mode, previews, the
  hold-back by budget, dependencies met by a verified review, queues that ignore
  dependencies in graph mode, deletion of a loop, repair of damaged documents.
* Of the work graph: plans, contracts and receipts as sources; traces, impact,
  conflicts and staleness, which nothing that runs unattended acts on.
* Of the signals: the children of a ticket, contracts and plan runs as sources,
  the 20 000-id memory and the cap on flags, a death while a prune rewrites a file
  in place, a rename that fails during a rotation.
* Of plan runs: isolation in a worktree, what a step snapshot contains, the
  thresholds of the tripwires, clocks and money; what is put to a session that was
  made while a turn of the one before it still runs.
* Contracts and receipts: how a receipt is compiled from evidence is sequential
  and unit-tested; its verdict on a lane is modelled.
* Sequences and the run store record and replay browser and desktop sessions
  driven by external programs. Rewind and checkpoints are git and file-system
  operations. Approvals, command policies and provider wire formats are pure
  functions on text. Search, embeddings and the codebase map are derived caches.
  Language services, MCP and the browser bridge wrap external processes.
  The webview, a third of the source, is user interface.

The map covers what decides and what changes state in the components above; most
of the repository's lines are views, tool schemas, prompts, parsers and I/O, on
which a state machine says nothing. `PROJECT.json` lists every part with its
reason.

## 7. Plan

What is left, in order:

1. **`TwoLoops`**: two cycles over one board and one registry of claims, to say
   when the design rule survives them.
2. **`LoopLocks`**, an abstract specification of what either supervisor promises
   (lanes come and go, never overlapping), with `LoopSupervisor` and
   `GraphScheduler` shown to implement it.
3. **Contracts**: issue, seal and prune of contracts and receipts under a death,
   composed with `Signals`.
