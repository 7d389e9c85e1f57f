-------------------------------- MODULE PlanRun --------------------------------
(***************************************************************************)
(* A plan run: the agent works through a plan for hours on its own         *)
(* (src/plans/plan-run-service.ts), carried by the turns of one chat       *)
(* (src/chat-provider.ts) and, between turns, by the conductor             *)
(* (src/plans/plan-continuation-service.ts), a model asked whether to go   *)
(* on.  The user pauses, resumes and stops it, answers what it queued,     *)
(* types, edits the plan and reloads the window, at any moment.            *)
(*                                                                         *)
(* The host is single-threaded; an action is what happens between two      *)
(* waits for a model, the user, a timer or the disk.  Clocks, money and    *)
(* texts are left out: a ceiling, a quiet wait, a tripwire can happen when *)
(* the run's state allows it, and so can the spend ceiling of the session. *)
(* The conductor works for the run only (the setting that continues plans  *)
(* without one is off), has a model and can read the plan.  A setting or   *)
(* another conversation may take the chat's session away at any time; what *)
(* is put to a session made while a turn of the one before it still runs   *)
(* is left out.                                                            *)
(*                                                                         *)
(* A definition marked "mistake" is no part of the model, see LoopRecords. *)
(***************************************************************************)
EXTENDS Naturals, FiniteSets

CONSTANTS
  Approvals,   \* tool calls that wait for an approval
  Questions,   \* question cards
  Decisions,   \* what a run may queue for the user       (bound)
  WhenBlocked, \* of each run: charter.whenBlocked
  MaxIdle,     \* settings.maxConsecutive
  MaxRuns,     \* plan runs of one plan                   (bound)
  MaxOpening   \* turns of the run that wait for its conversation (bound)

ASSUME PlanRunAssumption ==
  /\ Approvals \cap Questions = {}
  /\ WhenBlocked \in [1..MaxRuns -> {"wait", "pause", "defer"}]
  /\ MaxIdle \in Nat \ {0} /\ MaxRuns \in Nat \ {0} /\ MaxOpening \in Nat

Gates == Approvals \cup Questions

VARIABLES
  run,        \* the service's run and what the service remembers beside it
  plan,       \* the plan's status in the planning store
  turn,       \* the chat's turn: the runner has one, and of which kind
  open,       \* its tool calls that wait for the user
  armed,      \* those of them that are queued when nobody answers
  steers,     \* answers the session holds for the turn's next step
  notes,      \* _pendingDecisionNotes: answers for the next turn of the run
  approved,   \* _runPreapprovals: calls that may go through once, with the run they are of
  decisions,  \* decisions of the run
  settled,    \* decisions whose answer the agent has, or the code gave up (history)
  conductor,  \* what the conductor is doing
  opening     \* turns of the run that wait for its conversation, by origin

service == <<run, plan, decisions>>
chat    == <<turn, open, armed, steers, notes, approved, settled, opening>>
vars    == <<run, plan, decisions,
             turn, open, armed, steers, notes, approved, settled, opening, conductor>>

Working  == {"running", "waiting_user", "waiting_provider"}
Resting  == {"paused", "interrupted", "failed"}
Open     == Working \cup Resting
Terminal == {"completed", "stopped", "budget_exhausted"}

\* pausing: _pauseRequested; hold: _conductorHold.
RunFlags == {"pausing", "hold"}

\* visible: _liveTurnId is the turn's; pause: the session's own flag; idle: it counts as a turn
\* without progress so far; hung: it waits for a card that was taken away.
TurnFlags == {"visible", "pause", "cancelled", "idle", "hung"}

Origins == {"user", "run", "resume", "steer", "conductor"}

\* stuck: every step left is blocked, and a phase without steps keeps the plan "active".
PlanStatus == {"active", "stuck", "blocked", "on_hold", "completed", "cancelled"}

Runs  == [no : 0..MaxRuns, status : Open \cup Terminal \cup {"none"},
          saved : Open \cup Terminal \cup {"none"}, flags : SUBSET RunFlags,
          gates : SUBSET Gates, idle : 0..MaxIdle]

\* returned: there is none, and what was sent to the last one was given back at its end (history).
Turns == [status : {"none", "returned", "live"}, flags : SUBSET TurnFlags]

Conductors == [step : {"idle", "deciding", "turn"}, pending : {"none", "ended", "failed"}]

\* What a turn started for the run may wait with.
Launches == {"resume", "steer"}

\* How a turn stops.
Stops == {"ended", "paused", "cancelled", "error"}

NoRun  == [no |-> 0, status |-> "none", saved |-> "none", flags |-> {}, gates |-> {}, idle |-> 0]
NoTurn == [status |-> "none", flags |-> {}]
Idle   == [step |-> "idle", pending |-> "none"]

Init ==
  /\ run = NoRun
  /\ plan = "active"
  /\ turn = NoTurn
  /\ open = {} /\ armed = {} /\ steers = {} /\ notes = {} /\ approved = {}
  /\ decisions = [d \in Decisions |-> "none"]
  /\ settled = {}
  /\ conductor = Idle
  /\ opening = [o \in Launches |-> 0]

Active == run.status \in Open
Live   == turn.status = "live"

-----------------------------------------------------------------------------
(* What the service does to its run.                                       *)

\* _apply of a status: working again ends what the conductor asked.
To(r, status) ==
  [r EXCEPT !.status = status, !.flags = IF status = "running" THEN @ \ {"hold"} ELSE @]

Without(r, flags) == [r EXCEPT !.flags = @ \ flags]

Saved(r) == [r EXCEPT !.saved = r.status]

\* mistake: a pause is written with the next step
PausedUnsaved(r) == IF r.status \in Open THEN Without(To(r, "paused"), {"pausing"}) ELSE r

Paused(r) ==
  IF r.status \in Open THEN Saved(Without(To(r, "paused"), {"pausing"})) ELSE r

Failed(r) == IF r.status \in Open THEN Without(To(r, "failed"), {"pausing"}) ELSE r

Finished(r, status) ==
  IF r.status \in Open
  THEN Saved([Without(To(r, status), {"pausing", "hold"}) EXCEPT !.gates = {}])
  ELSE r

\* A turn starts: the user speaking again is the answer to a conductor's question.
TurnStarted(r, origin) ==
  IF r.status \notin Open THEN r
  ELSE IF origin \in {"user", "steer"} /\ r.status = "waiting_user" /\ r.gates = {}
  THEN Saved(To(r, "running"))
  ELSE Saved(r)

\* No gate and no outage outlives the turn.
WaitOver(r) ==
  LET q == [r EXCEPT !.gates = {}] IN
  IF r.status = "waiting_provider" \/ (r.status = "waiting_user" /\ "hold" \notin r.flags)
  THEN To(q, "running") ELSE q

\* A turn without progress, counted no further than where it matters.
Counted(r, idle) == IF idle /\ r.idle < MaxIdle THEN [r EXCEPT !.idle = @ + 1] ELSE r

\* mistake: the pause asked for is forgotten when the turn ends on its own
PauseForgotten(r) == r

\* The turn ended before it reached the pause that was asked for.
PauseStands(r) ==
  IF "pausing" \in r.flags /\ r.status \in {"running", "waiting_user"} THEN Paused(r) ELSE r

TurnEnded(r, stop, idle) ==
  IF r.status \notin Open THEN r
  ELSE LET q == Counted(WaitOver(r), idle) IN
    Saved(PauseStands(
      CASE stop = "paused"    -> Paused(q)
        [] stop = "cancelled" -> IF q.status = "running" THEN Paused(q) ELSE q
        [] stop = "error"     -> Failed(q)
        [] stop = "ended"     -> q))

\* The conductor will not go on.
Stopped(r, kind) ==
  IF r.status \notin Open THEN r
  ELSE IF kind = "ask"
  THEN Saved([To(r, "waiting_user") EXCEPT !.flags = @ \cup {"hold"}])
  ELSE Paused(Without(r, {"hold"}))

\* mistake: a gate's answer sets nothing back to work
AnsweredQuietly(r, g) == [r EXCEPT !.gates = @ \ {g}]

GateClosed(r, g) ==
  IF r.status \notin Open \/ g \notin r.gates THEN r
  ELSE LET q == [r EXCEPT !.gates = @ \ {g}] IN
    IF q.gates = {} /\ q.status = "waiting_user" THEN To(q, "running") ELSE q

-----------------------------------------------------------------------------
(* The conductor between turns.                                            *)

Held(r) == r.status \in Open /\ (r.status # "running" \/ "pausing" \in r.flags)

OpenDecisions == {d \in Decisions : decisions[d] \in {"approval", "question"}}

\* The gate: a run at work, a turn that ended well, a plan that is "active".
MayGoOn(r, outcome) ==
  /\ r.status = "running" /\ ~Held(r)
  /\ outcome = "ended"
  /\ plan \in {"active", "stuck"}

OnlyUser == plan = "stuck" /\ OpenDecisions # {}

Asks(r, outcome) == MayGoOn(r, outcome) /\ r.idle < MaxIdle /\ ~OnlyUser

\* mistake: out of budget, the conductor leaves the run as it is
JudgedSilently(r, outcome) ==
  IF MayGoOn(r, outcome) /\ r.idle < MaxIdle /\ OnlyUser THEN Stopped(r, "ask") ELSE r

Judged(r, outcome) ==
  IF ~MayGoOn(r, outcome) THEN r
  ELSE IF r.idle >= MaxIdle THEN Stopped(r, "budget")
  ELSE IF OnlyUser THEN Stopped(r, "ask")
  ELSE r

\* afterTurn with nothing in flight.
AfterTurn(r, outcome) ==
  /\ run' = Judged(r, outcome)
  /\ conductor' = IF Asks(r, outcome) THEN [Idle EXCEPT !.step = "deciding"] ELSE Idle

-----------------------------------------------------------------------------
(* Turns.                                                                  *)

\* An automatic turn counts as one without progress until it moves a step.
Counts(origin) == Active /\ origin \notin {"user", "run"}

Begun(origin) ==
  [status |-> "live", flags |-> {"visible"} \cup (IF Counts(origin) THEN {"idle"} ELSE {})]

\* Answers reach the agent, or the code gives them up.
Settling(answers) == settled \cup {d \in Decisions : <<run.no, d>> \in answers}

\* _continueSend with no turn under way; its message carries the answers given.
Begin(origin, r, answers) ==
  /\ ~Live
  /\ turn' = Begun(origin)
  /\ run' = TurnStarted(r, origin)
  /\ settled' = Settling(answers)
  /\ UNCHANGED <<open, armed, steers>>

\* _continueSend while the runner still has a turn: the runner refuses, and the bookkeeping of
\* the refused turn is done over the one under way.  What that one has not read is given up with
\* the refused turn, if both are of one session.
Collide(origin, r, answers) ==
  /\ Live
  /\ run' = TurnEnded(TurnStarted(r, origin), "error", Counts(origin))
  /\ turn' = [turn EXCEPT !.flags = (@ \ {"visible"})
                                    \cup (IF open = {} THEN {} ELSE {"hung"})]
  /\ open' = {} /\ armed' = {}
  /\ steers' \in {{}, steers}
  /\ settled' = Settling(answers \cup (steers \ steers'))

\* The refused turn is put to the conductor, which a failed turn only keeps waiting.
TurnFailed ==
  [conductor EXCEPT !.pending = IF conductor.step = "idle" THEN @ ELSE "failed"]

\* A message that is no steer: no turn is under way that the chat knows of, or its session is gone.
Send ==
  /\ \/ Begin("user", run, {}) /\ UNCHANGED conductor
     \/ /\ Collide("user", run, {})
        /\ conductor' = TurnFailed
  /\ UNCHANGED <<plan, decisions, notes, approved, opening>>

\* The turn's next step: the agent reads what was sent meanwhile.
SteersDelivered ==
  /\ Live /\ open = {} /\ "hung" \notin turn.flags
  /\ steers # {} /\ steers' = {}
  /\ settled' = Settling(steers)
  /\ UNCHANGED <<service, turn, open, armed, notes, approved, opening, conductor>>

\* How a turn may end: on its own, at the pause asked for, cancelled, or in an error.
MayEnd(stop) ==
  CASE stop = "ended"     -> open = {} /\ "hung" \notin turn.flags
    [] stop = "paused"    -> open = {} /\ "hung" \notin turn.flags /\ "pause" \in turn.flags
    [] stop = "cancelled" -> "cancelled" \in turn.flags
    [] stop = "error"     -> TRUE

\* mistake: what a paused turn had not read is given up as after an error
OutcomeAtPause(stop) == IF stop = "ended" THEN "ended" ELSE "failed"

Outcome(stop) == IF stop \in {"ended", "paused"} THEN "ended" ELSE "failed"

\* The turn is settled; nothing is left unread, or the user has stopped it: the conductor's call.
TurnEnds(stop) ==
  /\ Live /\ MayEnd(stop)
  /\ Outcome(stop) = "failed" \/ steers = {}
  /\ LET r == TurnEnded(run, stop, "idle" \in turn.flags) IN
       IF conductor.step = "deciding"
       THEN run' = r /\ conductor' = [conductor EXCEPT !.pending = Outcome(stop)]
       ELSE AfterTurn(r, Outcome(stop))
  /\ turn' = NoTurn /\ open' = {} /\ armed' = {} /\ steers' = {}
  /\ settled' = IF stop \in {"cancelled", "error"} THEN Settling(steers) ELSE settled
  /\ UNCHANGED <<plan, decisions, notes, approved, opening>>

\* The turn ended before it read what was sent: that becomes a turn at once.
TurnGoesOn(stop) ==
  /\ Live /\ MayEnd(stop)
  /\ Outcome(stop) = "ended" /\ (steers # {} \/ "visible" \in turn.flags)
  /\ LET r == TurnStarted(TurnEnded(run, stop, "idle" \in turn.flags), "user") IN
       IF conductor.step = "turn"
       THEN AfterTurn(r, conductor.pending)
       ELSE run' = r /\ UNCHANGED conductor
  /\ turn' = Begun("user") /\ open' = {} /\ armed' = {} /\ steers' = {}
  /\ settled' = Settling(steers)
  /\ UNCHANGED <<plan, decisions, notes, approved, opening>>

\* So it is not when the session has spent what it may, or is the chat's no more: what was sent is
\* given back, no turn starts, and the conductor is not asked either.
SteersReturned(stop) ==
  /\ Live /\ MayEnd(stop)
  /\ Outcome(stop) = "ended" /\ (steers # {} \/ "visible" \in turn.flags)
  /\ LET r == TurnEnded(run, stop, "idle" \in turn.flags) IN
       IF conductor.step = "turn"
       THEN AfterTurn(r, conductor.pending)
       ELSE run' = r /\ UNCHANGED conductor
  /\ turn' = [NoTurn EXCEPT !.status = "returned"]
  /\ open' = {} /\ armed' = {} /\ steers' = {}
  /\ settled' = Settling(steers)
  /\ UNCHANGED <<plan, decisions, notes, approved, opening>>

\* The user stops the turn.
Cancel ==
  /\ Live /\ "cancelled" \notin turn.flags
  /\ turn' = [turn EXCEPT !.flags = @ \cup {"cancelled"}]
  /\ UNCHANGED <<service, open, armed, steers, notes, approved, settled, opening, conductor>>

\* The chat goes to another conversation, or clears this one: the turn is stopped, its cards are
\* taken away.
ConversationLeft ==
  /\ Live
  /\ turn' = [turn EXCEPT !.flags = @ \cup {"cancelled"} \cup (IF open = {} THEN {} ELSE {"hung"})]
  /\ open' = {} /\ armed' = {}
  /\ UNCHANGED <<service, steers, notes, approved, settled, opening, conductor>>

-----------------------------------------------------------------------------
(* The conductor's verdict, a model call after it was asked.               *)

\* It goes on: a turn, unless the chat has one.  It stays busy through the turn it starts.
VerdictSend ==
  /\ conductor.step = "deciding"
  /\ IF "visible" \in turn.flags
     THEN /\ AfterTurn(run, conductor.pending)
          /\ UNCHANGED <<turn, open, armed, steers, notes, settled>>
     ELSE /\ notes' = {}
          /\ \/ /\ Begin("conductor", run, notes)
                /\ conductor' = [conductor EXCEPT !.step = "turn"]
             \/ Collide("conductor", run, notes) /\ conductor' = Idle
  /\ UNCHANGED <<plan, decisions, approved, opening>>

\* It stops the run, as it does for want of money, or asks the user.
VerdictStops(kind) ==
  /\ conductor.step = "deciding"
  /\ AfterTurn(Stopped(run, kind), conductor.pending)
  /\ UNCHANGED <<plan, decisions, chat>>

\* No turn and no stop comes of it: the conductor's own error, which is only reported, or a
\* continuation that finds no session, after it took the answers given.
VerdictLost ==
  /\ conductor.step = "deciding"
  /\ AfterTurn(run, conductor.pending)
  /\ \/ notes' = notes
     \/ "visible" \notin turn.flags /\ notes' = {}
  /\ settled' = Settling(notes \ notes')
  /\ UNCHANGED <<plan, decisions, turn, open, armed, steers, approved, opening>>

-----------------------------------------------------------------------------
(* Gates: a tool call waits for the user, and what the run makes of it.    *)

\* deferralGraceMs
Defers(r) ==
  /\ r.status \in {"running", "waiting_user"} /\ WhenBlocked[r.no] = "defer"
  /\ "pausing" \notin r.flags

GateOpenedIn(r, g) ==
  IF r.status \notin Open THEN r
  ELSE LET q == [r EXCEPT !.gates = @ \cup {g}] IN
    IF r.status = "running"
    THEN To(q, "waiting_user") ELSE q

\* Lanes run beside the agent, so several gates can be open at once.
GateOpens(g) ==
  /\ Live
  /\ g \notin open /\ g \notin run.gates
  /\ run' = GateOpenedIn(run, g)
  /\ open' = open \cup {g}
  /\ armed' = IF Defers(run') THEN armed \cup {g} ELSE armed
  /\ UNCHANGED <<plan, decisions, turn, steers, notes, approved, settled, opening, conductor>>

GateAnswered(g) ==
  /\ g \in open
  /\ run' = GateClosed(run, g)
  /\ open' = open \ {g} /\ armed' = armed \ {g}
  /\ UNCHANGED <<plan, decisions, turn, steers, notes, approved, settled, opening, conductor>>

\* Nobody answered: the gate becomes a decision and the agent goes on.  Of a question the run
\* is not told that it is closed.
GateDeferred(g) ==
  /\ g \in armed /\ Defers(run)
  /\ \E d \in Decisions :
       /\ decisions[d] = "none"
       /\ decisions' = [decisions EXCEPT ![d] = IF g \in Approvals THEN "approval" ELSE "question"]
  /\ run' = Saved(IF g \in Approvals THEN GateClosed(run, g) ELSE run)
  /\ open' = open \ {g} /\ armed' = armed \ {g}
  /\ UNCHANGED <<plan, turn, steers, notes, approved, settled, opening, conductor>>

\* _launchRunTurn with no turn under way: the turn starts at once, or when the run's conversation
\* is back, with the answers given; past the session's spend ceiling the run is paused instead.
Launch(origin, r, answers) ==
  \/ /\ Begin(origin, r, answers)
     /\ notes' = {} /\ UNCHANGED opening
  \/ /\ run' = Paused(r) /\ notes' = answers
     /\ UNCHANGED <<turn, open, armed, steers, settled, opening>>
  \/ /\ opening["resume"] + opening["steer"] < MaxOpening
     /\ opening' = [opening EXCEPT ![origin] = @ + 1]
     /\ run' = r /\ notes' = answers
     /\ UNCHANGED <<turn, open, armed, steers, settled>>

\* The user answers a decision, of a run that may have ended: into the turn, or into the next
\* one, which it starts when the run waits for it.
AnswerDecision(d) ==
  /\ run.status # "none"
  /\ d \in OpenDecisions
  /\ decisions' = [decisions EXCEPT ![d] = "answered"]
  /\ \/ decisions[d] = "approval" /\ approved' = approved \cup {<<run.no, d>>}
     \/ approved' = approved
  /\ LET a == <<run.no, d>>
         r == Saved(run) IN
       \/ /\ "visible" \in turn.flags
          /\ steers' = steers \cup {a}
          /\ run' = r
          /\ UNCHANGED <<turn, open, armed, notes, settled, opening>>
       \/ /\ "visible" \notin turn.flags /\ ~Live
          /\ run.status = "waiting_user"
          /\ Launch("steer", r, notes \cup {a})
       \/ /\ run.status # "waiting_user" \/ Live
          /\ notes' = notes \cup {a}
          /\ run' = r
          /\ UNCHANGED <<turn, open, armed, steers, settled, opening>>
  /\ UNCHANGED <<plan, conductor>>

\* The agent repeats a call the user has approved: it goes through once, while the run works.
UseApproval(a) ==
  /\ Live /\ run.status \in {"running", "waiting_user"}
  /\ a \in approved
  /\ approved' = approved \ {a}
  /\ UNCHANGED <<service, turn, open, armed, steers, notes, settled, opening, conductor>>

-----------------------------------------------------------------------------
(* The user and the run.                                                   *)

Cancelled == IF Live THEN [turn EXCEPT !.flags = @ \cup {"cancelled"}] ELSE turn

\* _finish: nothing given for a run outlives it.
Finish(r, status) ==
  /\ run' = Finished(r, status)
  /\ IF r.status \in Open
     THEN approved' = {} /\ notes' = {} /\ settled' = Settling(notes)
     ELSE UNCHANGED <<approved, notes, settled>>

Runnable == plan \in {"active", "stuck", "blocked"}

\* What a new run may use of what was approved before it.
Inherited == {}

NewRun == [no |-> run.no + 1, status |-> "running", saved |-> "running",
           flags |-> run.flags \cap {"hold"}, gates |-> {}, idle |-> 0]

\* A turn of the chat that is still under way is taken to carry the new run.
Start ==
  /\ ~Active /\ Runnable
  /\ run.no < MaxRuns
  /\ IF Live
     THEN run' = NewRun /\ turn' = [turn EXCEPT !.flags = @ \ {"idle"}]
     ELSE run' = TurnStarted(NewRun, "run") /\ turn' = Begun("run")
  /\ approved' = Inherited /\ notes' = {}
  /\ decisions' = [d \in Decisions |-> "none"]
  /\ settled' = {}
  /\ UNCHANGED <<plan, open, armed, steers, opening, conductor>>

\* What was kept for the run that is open is cleared before the start is refused.
StartRefused ==
  /\ Active \/ ~Runnable
  /\ approved' = {} /\ notes' = {}
  /\ settled' = Settling(notes)
  /\ UNCHANGED <<service, turn, open, armed, steers, opening, conductor>>

\* requestPause of the chat, through its session.  A turn whose session is gone is not told; it
\* ends as others do, and so may one that is told.
TurnTold == turn' = [turn EXCEPT !.flags = @ \cup {"pause"}]

\* Within a turn a pause waits for the turn's next step.
PauseAsked ==
  IF Live
  THEN run' = [run EXCEPT !.flags = @ \cup {"pausing"}] /\ TurnTold
  ELSE run' = Paused(run) /\ UNCHANGED turn

Pause ==
  /\ Active /\ run.status # "paused"
  /\ PauseAsked
  /\ UNCHANGED <<plan, decisions, open, armed, steers, notes, approved, settled, opening,
                 conductor>>

\* The run is back at work before its turn is.
Resume ==
  /\ Active /\ run.status \notin {"running", "waiting_provider"}
  /\ plan \notin {"on_hold", "cancelled"}
  /\ LET r == Saved(To(Without(run, {"pausing"}), "running")) IN
       \/ /\ Live
          /\ run' = r
          /\ UNCHANGED <<turn, open, armed, steers, notes, settled, opening>>
       \/ ~Live /\ Launch("resume", r, notes)
  /\ UNCHANGED <<plan, decisions, approved, conductor>>

\* The conversation is back: the turn starts, whatever has become of the run.
TurnLaunched(origin) ==
  /\ opening[origin] > 0
  /\ opening' = [opening EXCEPT ![origin] = @ - 1]
  /\ notes' = {}
  /\ \/ Begin(origin, run, notes) /\ UNCHANGED conductor
     \/ Collide(origin, run, notes) /\ conductor' = TurnFailed
  /\ UNCHANGED <<plan, decisions, approved>>

\* The user would not go on with another model, there is no credential, or the session has spent
\* what it may.
LaunchRefused(origin) ==
  /\ opening[origin] > 0
  /\ opening' = [opening EXCEPT ![origin] = @ - 1]
  /\ IF Active /\ run.status # "paused" THEN PauseAsked ELSE UNCHANGED <<run, turn>>
  /\ UNCHANGED <<plan, decisions, open, armed, steers, notes, approved, settled, conductor>>

Stop ==
  /\ Active
  /\ Finish(run, "stopped")
  /\ turn' = Cancelled
  /\ UNCHANGED <<plan, decisions, open, armed, steers, opening, conductor>>

\* A restore point is put back at the user's yes.  The question is put while no turn is under way,
\* and by the yes one may be: when it was put is not kept.
Restored ==
  /\ run.status # "none"
  /\ plan' = IF plan \in {"on_hold", "cancelled"} THEN plan ELSE "active"
  /\ run' = Paused(run)
  /\ turn' = IF Active THEN Cancelled ELSE turn
  /\ UNCHANGED <<decisions, open, armed, steers, notes, approved, settled, opening, conductor>>

-----------------------------------------------------------------------------
(* What happens to the run: its plan, its ceilings, its provider, reloads. *)

\* The agent, or the user in the Plans panel, changes the plan's steps.
StepsChange(p) ==
  /\ Runnable
  /\ plan' = p
  /\ turn' = [turn EXCEPT !.flags = @ \ {"idle"}]
  /\ LET r == IF Active THEN [run EXCEPT !.idle = 0] ELSE run IN
       IF p = "completed"
       THEN Finish(r, "completed")
       ELSE /\ run' = IF Active THEN Saved(r) ELSE run
            /\ UNCHANGED <<approved, notes, settled>>
  /\ UNCHANGED <<decisions, open, armed, steers, opening, conductor>>

\* The user puts the plan on hold, or its budget does, takes it off, or cancels it.
PlanHeld ==
  /\ Runnable
  /\ plan' = "on_hold"
  /\ run' = IF run.status \in {"paused", "interrupted"} THEN run ELSE Paused(run)
  /\ UNCHANGED <<decisions, chat, conductor>>

PlanReleased ==
  /\ plan = "on_hold"
  /\ plan' \in {"active", "stuck", "blocked"}
  /\ UNCHANGED <<run, decisions, chat, conductor>>

PlanCancelled ==
  /\ plan \notin {"completed", "cancelled"}
  /\ plan' = "cancelled"
  /\ Finish(run, "stopped")
  /\ UNCHANGED <<decisions, turn, open, armed, steers, opening, conductor>>

\* The ceiling of money, not looked at while the run is paused, or of time, while it works.
CeilingReached ==
  /\ run.status \in IF Live THEN Open \ {"paused"} ELSE Working
  /\ Finish(run, "budget_exhausted")
  /\ turn' = Cancelled
  /\ UNCHANGED <<plan, decisions, open, armed, steers, opening, conductor>>

\* A gate has waited as long as the charter lets it.
WaitedTooLong ==
  /\ run.status = "waiting_user" /\ WhenBlocked[run.no] = "pause"
  /\ "hold" \notin run.flags /\ run.gates # {}
  /\ run' = Paused(run)
  /\ turn' = Cancelled
  /\ UNCHANGED <<plan, decisions, open, armed, steers, notes, approved, settled, opening,
                 conductor>>

\* The harness saw something wrong; a second alarm before the run is resumed, which the service
\* ignores, would ask for the same pause again.
Trip ==
  /\ run.status \in Working
  /\ IF Live
     THEN run' = Saved([run EXCEPT !.flags = @ \cup {"pausing"}]) /\ TurnTold
     ELSE run' = Paused(run) /\ UNCHANGED turn
  /\ UNCHANGED <<plan, decisions, open, armed, steers, notes, approved, settled, opening,
                 conductor>>

\* The provider is down, and back.
ProviderOut ==
  /\ Live /\ run.status = "running"
  /\ run' = To(run, "waiting_provider")
  /\ UNCHANGED <<plan, decisions, chat, conductor>>

ProviderBack ==
  /\ Live /\ run.status = "waiting_provider"
  /\ run' = To(run, "running")
  /\ UNCHANGED <<plan, decisions, chat, conductor>>

\* recover: what run.json says, and a run that was at work is not any more.
Recovered(r) ==
  IF r.saved \in Open
  THEN LET s == IF r.saved \in Working THEN "interrupted" ELSE r.saved IN
    [NoRun EXCEPT !.no = r.no, !.idle = r.idle, !.status = s, !.saved = s]
  ELSE [NoRun EXCEPT !.no = r.no]

\* The window is reloaded or dies; what only memory held is gone.
Reload ==
  /\ turn' = NoTurn /\ conductor' = Idle
  /\ opening' = [o \in Launches |-> 0]
  /\ open' = {} /\ armed' = {}
  /\ steers' = {} /\ notes' = {} /\ approved' = {}
  /\ settled' = Settling(steers \cup notes)
  /\ run' = Recovered(run)
  /\ UNCHANGED <<plan, decisions>>

-----------------------------------------------------------------------------
ChatNext ==
  \/ Send \/ SteersDelivered \/ Cancel \/ ConversationLeft
  \/ \E stop \in Stops : TurnEnds(stop) \/ TurnGoesOn(stop) \/ SteersReturned(stop)
  \/ VerdictSend \/ VerdictLost
  \/ \E kind \in {"halt", "ask"} : VerdictStops(kind)
  \/ \E g \in Gates : GateOpens(g) \/ GateAnswered(g) \/ GateDeferred(g)
  \/ \E d \in Decisions : AnswerDecision(d)
  \/ \E a \in approved : UseApproval(a)
  \/ ProviderOut \/ ProviderBack

RunNext ==
  \/ Start \/ StartRefused \/ Pause \/ Resume \/ Stop
  \/ \E origin \in Launches : TurnLaunched(origin) \/ LaunchRefused(origin)
  \/ Restored
  \/ \E p \in {"active", "stuck", "blocked", "completed"} : StepsChange(p)
  \/ PlanHeld \/ PlanReleased \/ PlanCancelled
  \/ CeilingReached \/ WaitedTooLong \/ Trip
  \/ Reload

Next == ChatNext \/ RunNext

Spec == Init /\ [][Next]_vars

-----------------------------------------------------------------------------
(* Properties.                                                             *)

TypeOK ==
  /\ run \in Runs
  /\ plan \in PlanStatus
  /\ turn \in Turns
  /\ armed \subseteq open /\ open \subseteq Gates
  /\ steers \cup notes \cup approved \subseteq (1..MaxRuns) \X Decisions
  /\ decisions \in [Decisions -> {"none", "approval", "question", "answered"}]
  /\ settled \subseteq Decisions
  /\ conductor \in Conductors
  /\ opening \in [Launches -> 0..MaxOpening]

\* Something will move a run that is at work: a turn, one about to start, or the conductor.
Driven == Live \/ (\E o \in Launches : opening[o] > 0) \/ conductor.step # "idle"

\* A run at work is left with nothing that moves it only when the plan store calls its plan
\* blocked or on hold, which the conductor does not take for a plan to go on with; when what was
\* sent to a turn is given back at its end, the session's money spent or the session gone; or
\* when the conductor's verdict comes to nothing.
AtWorkIsDriven ==
  [][ (run.status = "running" => Driven) /\ run'.status = "running" /\ ~Driven'
        => \/ plan \in {"blocked", "on_hold"}
           \/ \E stop \in Stops : SteersReturned(stop)
           \/ VerdictLost ]_vars

\* A pause asked for is never left hanging: while the run works and shows "Pausing...", a turn
\* is there whose end settles it.
PauseHasTurn ==
  "pausing" \in run.flags /\ run.status \in {"running", "waiting_provider"} => Live

\* A run says it needs the user only with a question of the conductor's or a gate to answer.
NeedsUserForReason == run.status = "waiting_user" => "hold" \in run.flags \/ run.gates # {}

\* What the user approved for a run goes through in that run only.
ApprovalsStayInRun == \A a \in approved : a[1] = run.no

\* An answer is with the agent or on its way, unless the turn that held it failed or was
\* cancelled, or was its session's last: the money spent, or the session gone; unless the run
\* ended, the window was reloaded, a start was refused, or a continuation found no session.
AnswersReachAgent ==
  \A d \in Decisions :
    decisions[d] = "answered" => d \in settled \/ <<run.no, d>> \in steers \cup notes

\* A reload brings the run back as the user left it, and never at work; one that has ended
\* stays ended until another is started.
LeftAsItWas ==
  [][ /\ Reload => CASE run.status \in Working -> run'.status = "interrupted"
                     [] run.status \in Resting -> run'.status = run.status
                     [] OTHER                  -> run'.status = "none"
      /\ run.status \in Terminal /\ run'.no = run.no => run'.status \in {run.status, "none"} ]_vars

\* The conductor does not go on with a run that is held, nor change what the user made of it.
ConductorObeysHold ==
  [][ Held(run) /\ conductor.step = "deciding" /\ conductor'.step # "deciding"
        => conductor'.step = "idle" /\ run'.status = run.status ]_vars

===============================================================================
