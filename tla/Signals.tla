------------------------------- MODULE Signals -------------------------------
(***************************************************************************)
(* Orchestration signals (src/orchestration/signals/): what the host       *)
(* notices about the board and the lanes becomes a journalled signal, and  *)
(* consumers that re-read the present wake a running loop, offer a blocked *)
(* one's resume to the user, flag the loop or note a ticket.               *)
(*                                                                         *)
(* One loop over one board.  The host is single-threaded: while drafts are *)
(* being journalled or a batch is being reconciled only the death of the   *)
(* host can come between (Idle).  Writes of loops.json, tickets.json and   *)
(* cursors.json are atomic renames, so each is one step.  A lane returns   *)
(* only while its loop runs; LoopSupervisor has the rest of a loop's life. *)
(*                                                                         *)
(* A definition marked "mistake" is no part of the model, see LoopRecords. *)
(***************************************************************************)
EXTENDS SignalJournal

CONSTANTS
  Tickets,
  Queue,             \* tickets in the loop's queue
  BlockedBy0,        \* dependencies the board starts with
  GivenStatuses,     \* statuses tickets are given
  MaxFacts,          \* facts observed, not counting what they make ready (bound)
  MaxEdits,          \* changes of the board                              (bound)
  MaxCrashes,        \* deaths of the host                                (bound)
  MaxTorn,           \* lines cut short by one                            (bound)
  MaxModes,          \* changes of the setting                            (bound)
  MaxFaults,         \* effects or appends that throw                     (bound)
  MaxAges,           \* retention periods that pass                       (bound)
  MaxRounds,         \* starts of the loop                                (bound)
  MaxDisturbances,   \* crashes, modes, faults and ages together          (bound)
  MaxTrouble         \* facts and disturbances together                   (bound)

Kinds == {"work_completed", "integration_ready", "dependency_discovered",
          "verification_failed", "progress_stalled"}
Sources  == {"host", "user", "model"}
Modes    == {"off", "observe", "act"}
Statuses == {"open", "marked", "review", "closed"}

\* marked: the status "blocked".  by: who changed the ticket last.
Ticket == [status : Statuses, blockedBy : SUBSET Tickets, by : {"user", "model"}]

\* What a signal says; loop: its scope names the loop.
Fact == [kind : Kinds, source : Sources, ticket : Tickets, loop : BOOLEAN]

ASSUME SignalsAssumption ==
  /\ IsFiniteSet(Tickets) /\ Queue \subseteq Tickets
  /\ BlockedBy0 \in [Tickets -> SUBSET Tickets] /\ GivenStatuses \subseteq Statuses

\* In the order they are asked (DEFAULT_CONSUMERS).
ConsumerOrder == <<"loop-wake", "loop-unblocked", "reassess", "ticket-notes">>
Consumers == {"loop-wake", "loop-unblocked", "reassess", "ticket-notes"}

VARIABLES
  board,        \* tickets.json
  loop,         \* the loop: status, why it is blocked, offer, flags
  notes,        \* notes signals left on tickets, by signal
  item,         \* the attention center shows "can continue"
  mode,         \* blacksite.orchestration.signals
  facts,        \* every fact observed so far, numbered by position
  files, cursors,   \* the journal on disk
  up,           \* the host runs
  memory,       \* the journal in memory
  snap,         \* _tickets: the board at the last look, or Unseen
  drafts,       \* facts being emitted
  pending,      \* _pending
  work,         \* the batch being reconciled
  prunable,     \* the one prune after activation is still to come
  accepted,     \* ghost: signals append returned
  delivered,    \* ghost: signals each consumer was handed
  missed,       \* ghost: the ready set changed and no signal that may change
                \*   state, nor a pass of the loop, came after it
  emptied,      \* ghost: a prune left no signal in the journal
  dropped,      \* ghost: signals a rotation took from the journal
  used          \* counters behind the bounds

vars == <<board, loop, notes, item, mode, facts, files, cursors, up, memory, snap,
          drafts, pending, work, prunable, accepted, delivered, missed, emptied, dropped,
          used>>

disk    == <<files, cursors>>
ghosts  == <<accepted, delivered, emptied, dropped>>
effects == <<loop, notes, item>>

Unseen == <<>>

Loop == [status : {"running", "blocked", "paused"}, why : {"none", "dependencies", "mixed"},
         offer : SUBSET Tickets, flags : SUBSET Nat, worked : SUBSET Tickets,
         passed : SUBSET Tickets]

Work == [todo : Seq(Consumers), batch : SUBSET Line, last : Nat, replay : BOOLEAN,
         act : BOOLEAN, applied : BOOLEAN]
NoWork == [todo |-> <<>>, batch |-> {}, last |-> 0, replay |-> FALSE,
           act |-> FALSE, applied |-> FALSE]

Counters == [edits : Nat, crashes : Nat, torn : Nat, modes : Nat, offs : Nat,
             faults : Nat, ages : Nat, rounds : Nat]

\* Types, and that only a blocked loop holds an offer (setStatus, setResumeOffer).
TypeOK ==
  /\ board \in [Tickets -> Ticket] /\ loop \in Loop
  /\ notes \in SUBSET Nat /\ item \in BOOLEAN /\ mode \in Modes
  /\ facts \in Seq(Fact) /\ files \in Files /\ cursors \in [Consumers -> Nat]
  /\ up \in BOOLEAN /\ memory \in Memory
  /\ snap = Unseen \/ snap \in [Tickets -> Ticket]
  /\ drafts \in Seq(Nat) /\ pending \in SUBSET Line /\ work \in Work
  /\ prunable \in BOOLEAN /\ accepted \subseteq Nat
  /\ delivered \in [Consumers -> SUBSET Nat]
  /\ missed \in BOOLEAN /\ emptied \in BOOLEAN /\ dropped \subseteq Nat /\ used \in Counters
  /\ loop.offer # {} => loop.status = "blocked" /\ loop.why = "dependencies"

\* Tickets a scheduling pass of the loop would dispatch (previewReady), leaving
\* aside the territories: they never leave the set empty.
ReadyOn(b) == {t \in Queue : b[t].status = "open"
                             /\ \A u \in b[t].blockedBy : b[u].status = "closed"}
Ready == ReadyOn(board)

\* The host has just been activated over a board nobody has worked on, signals
\* set to act and the loop running.
Init ==
  /\ board = [t \in Tickets |-> [status |-> "open", blockedBy |-> BlockedBy0[t], by |-> "user"]]
  /\ loop = [status |-> "running", why |-> "none", offer |-> {}, flags |-> {},
             worked |-> {}, passed |-> Ready]
  /\ notes = {} /\ item = FALSE /\ mode = "act" /\ facts = <<>>
  /\ files = NoFiles /\ cursors = [c \in Consumers |-> 0]
  /\ up = TRUE /\ memory = Load(NoFiles) /\ snap = board
  /\ drafts = <<>> /\ pending = {} /\ work = NoWork /\ prunable = TRUE
  /\ accepted = {} /\ delivered = [c \in Consumers |-> {}]
  /\ missed = FALSE /\ emptied = FALSE /\ dropped = {}
  /\ used = [edits |-> 0, crashes |-> 0, torn |-> 0, modes |-> 0, offs |-> 0,
             faults |-> 0, ages |-> 0, rounds |-> 0]

Idle == up /\ drafts = <<>> /\ work.todo = <<>>

Disturbances == used.crashes + used.modes + used.faults + used.ages
Used(counter, bound) == used[counter] < bound
Disturbs(counter, bound) ==
  /\ Used(counter, bound) /\ Disturbances < MaxDisturbances
  /\ Len(facts) + Disturbances < MaxTrouble
Count(counter) == used' = [used EXCEPT ![counter] = @ + 1]

----------------------------------------------------------------------------
(* Facts become drafts *)

\* What the host emits next; bounded where a cascade starts.
Derive(news) ==
  /\ news # <<>> => /\ Len(facts) + Len(news) <= MaxFacts
                    /\ Len(facts) + Len(news) + Disturbances <= MaxTrouble
  /\ facts' = facts \o news
  /\ drafts' = [i \in 1 .. Len(news) |-> Len(facts) + i]

\* deriveFromTicketChange: closed, reopened, or waiting for more than before.
\* A dependency taken away and a ticket no longer marked blocked are no news.
Changes(old, new) ==
  LET told(kind, tickets) ==
        {[kind |-> kind, source |-> new[t].by, ticket |-> t, loop |-> FALSE] : t \in tickets}
  IN  told("work_completed", {t \in Tickets :
             old[t].status # "closed" /\ new[t].status = "closed"})
      \cup told("verification_failed", {t \in Tickets :
             old[t].status = "closed" /\ new[t].status # "closed"})
      \cup told("dependency_discovered", {t \in Tickets :
             ~(new[t].blockedBy \subseteq old[t].blockedBy)})

\* Every write of the board is observed at once; the first look only learns.
Observe(b) ==
  /\ board' = b
  /\ IF mode = "off" THEN UNCHANGED <<snap, facts, drafts>>
     ELSE snap' = b /\ Derive(IF snap = Unseen THEN <<>> ELSE SetToSeq(Changes(snap, b)))

Edit(b) ==
  /\ Idle /\ Used("edits", MaxEdits)
  /\ Observe(b)
  /\ missed' = (missed \/ ReadyOn(b) # Ready)
  /\ Count("edits")
  /\ UNCHANGED <<effects, mode, disk, up, memory, pending, work, prunable, ghosts>>

SetTicketStatus(t) ==
  \E s \in GivenStatuses \ {board[t].status}, actor \in {"user", "model"} :
    Edit([board EXCEPT ![t].status = s, ![t].by = actor])

Relink(t) ==
  \E us \in SUBSET (Tickets \ {t}) \ {board[t].blockedBy}, actor \in {"user", "model"} :
    Edit([board EXCEPT ![t].blockedBy = us, ![t].by = actor])

\* A lane of the running loop returns: its success goes to review, whatever
\* became of the ticket meanwhile, its failure may be a failed check, a stall or
\* what its agent says it needs; the cycle makes another pass.
LaneReturns(t) ==
  /\ Idle /\ loop.status = "running" /\ t \in loop.passed
  /\ \E told \in {<<"work_completed", "host">>, <<"verification_failed", "host">>,
                  <<"progress_stalled", "host">>, <<"dependency_discovered", "model">>} :
       LET b == IF told[1] = "work_completed"
                THEN [board EXCEPT ![t].status = "review", ![t].by = "model"] ELSE board
           news == <<[kind |-> told[1], source |-> told[2], ticket |-> t, loop |-> TRUE]>>
       IN  /\ board' = b
           /\ loop' = [loop EXCEPT !.worked = @ \cup {t}, !.passed = ReadyOn(b)]
           /\ IF mode = "off" THEN UNCHANGED <<snap, facts, drafts>>
              ELSE /\ snap' = b
                   /\ Derive(IF snap = Unseen THEN news
                             ELSE news \o SetToSeq(Changes(snap, b)))
  /\ missed' = FALSE
  /\ UNCHANGED <<notes, item, mode, disk, up, memory, pending, work, prunable, ghosts, used>>

\* A receipt is put once more and tells its facts again.
Redeliver ==
  /\ Idle /\ mode # "off" /\ Used("edits", MaxEdits)
  /\ \E id \in DOMAIN facts : facts[id].loop /\ drafts' = <<id>>
  /\ Count("edits")
  /\ UNCHANGED <<board, effects, mode, facts, disk, up, memory, snap, pending, work,
                 prunable, ghosts, missed>>

----------------------------------------------------------------------------
(* Drafts become signals *)

\* Only what the host saw or a person did may change ready or blocked state.
MayChangeState(fact) == fact.source \in {"host", "user"}

\* Tickets a closed one made ready, told as facts of their own.
MadeReady(fact) ==
  IF fact.kind # "work_completed" THEN {}
  ELSE {t \in Tickets : /\ board[t].status # "closed" /\ fact.ticket \in board[t].blockedBy
                        /\ \A u \in board[t].blockedBy : board[u].status = "closed"}

Follows(fact) ==
  SetToSeq({[kind |-> "integration_ready", source |-> fact.source, ticket |-> t,
             loop |-> FALSE] : t \in MadeReady(fact)})

Remembered == IF memory.loaded THEN memory ELSE Load(files)

EmitRepeat ==
  /\ up /\ drafts # <<>> /\ Head(drafts) \in Remembered.seen
  /\ memory' = Remembered
  /\ drafts' = Tail(drafts)
  /\ UNCHANGED <<board, effects, mode, facts, disk, up, snap, pending, work, prunable,
                 ghosts, missed, used>>

\* What the files of the next state hold no more was rotated out.
Drops == dropped' = dropped \cup (Ids(Lines(files)) \ Ids(Lines(files')))

Signal(id) == [id |-> id, seq |-> Remembered.seq + 1, old |-> FALSE]

Emit ==
  /\ up /\ drafts # <<>> /\ Head(drafts) \notin Remembered.seen
  /\ LET id     == Head(drafts)
         follow == Follows(facts[id])
     IN  /\ files' = Write(files, Signal(id)) /\ Drops
         /\ memory' = [Remembered EXCEPT !.seq = @ + 1, !.seen = @ \cup {id}]
         /\ pending' = pending \cup {Signal(id)}
         /\ accepted' = accepted \cup {id}
         /\ facts' = facts \o follow
         /\ drafts' = [i \in 1 .. Len(follow) |-> Len(facts) + i] \o Tail(drafts)
         /\ missed' = (missed /\ ~(mode = "act" /\ MayChangeState(facts[id])
                                   /\ facts[id].kind # "progress_stalled"))
  /\ UNCHANGED <<board, effects, mode, cursors, up, snap, work, prunable, delivered,
                 emptied, used>>

\* The append throws: reported, and the signal is gone.
AppendFails ==
  /\ up /\ drafts # <<>> /\ Head(drafts) \notin Remembered.seen
  /\ Disturbs("faults", MaxFaults)
  /\ memory' = Remembered
  /\ drafts' = Tail(drafts)
  /\ Count("faults")
  /\ UNCHANGED <<board, effects, mode, facts, disk, up, snap, pending, work, prunable,
                 ghosts, missed>>

----------------------------------------------------------------------------
(* Signals reach the consumers *)

KindsOf(c) ==
  CASE c \in {"loop-wake", "loop-unblocked"} -> Kinds \ {"progress_stalled"}
    [] c = "reassess" -> Kinds
    [] c = "ticket-notes" -> {"verification_failed"}

Begin(batch, replay) ==
  [todo |-> ConsumerOrder, batch |-> batch, last |-> LastSeq(batch),
   replay |-> replay, act |-> mode = "act", applied |-> FALSE]

\* The coalescing timer fires.
Flush ==
  /\ Idle /\ pending # {}
  /\ work' = Begin(pending, FALSE)
  /\ pending' = {}
  /\ UNCHANGED <<board, effects, mode, facts, disk, up, memory, snap, drafts, prunable,
                 ghosts, missed, used>>

Consumer == Head(work.todo)

Batch ==
  {l \in work.batch : /\ facts[l.id].kind \in KindsOf(Consumer)
                      /\ work.replay => l.seq > cursors[Consumer]}

NeedsReassessment(fact) ==
  ~MayChangeState(fact) \/ fact.kind \in {"verification_failed", "progress_stalled"}

Concerns(fact) == fact.loop \/ fact.ticket \in loop.worked

\* A loop is flagged, a ticket noted, once per signal.
Mark(marks, ids) == marks \cup ids

Relevant(batch) == \E l \in batch : MayChangeState(facts[l.id])
OfferDue == loop.status = "blocked" /\ loop.why = "dependencies"

\* mistake: C1 looks for loops that settled.
WokenIfBlocked(batch) ==
  IF Relevant(batch) /\ loop.status = "blocked" THEN [loop EXCEPT !.passed = Ready] ELSE loop

\* C1: a running loop makes another pass, which sees the board as it is then
\* (LoopSupervisor's WakeIsHeard).
Woken(batch) ==
  IF Relevant(batch) /\ loop.status = "running" THEN [loop EXCEPT !.passed = Ready] ELSE loop

\* mistakes: whatever the loop does it is offered what is ready; an offer is made
\* once and never looked at again.
OfferedAlways(batch) == IF Relevant(batch) THEN [loop EXCEPT !.offer = Ready] ELSE loop
OfferedOnce(batch) ==
  IF Relevant(batch) /\ OfferDue /\ loop.offer = {} THEN [loop EXCEPT !.offer = Ready] ELSE loop

\* C2: what is ready now is offered, or the offer taken back.
Offered(batch) ==
  IF Relevant(batch) /\ OfferDue THEN [loop EXCEPT !.offer = Ready] ELSE loop

\* C3: the loop a signal concerns is flagged.
ToFlag(batch) ==
  {id \in Ids(batch) : NeedsReassessment(facts[id]) /\ Concerns(facts[id])}
Flagged(batch) == [loop EXCEPT !.flags = Mark(@, ToFlag(batch))]

\* C4: a failed check the host saw is noted on the open ticket.
ToNote(batch) ==
  {id \in Ids(batch) : /\ facts[id].source = "host"
                       /\ board[facts[id].ticket].status # "closed"}

LoopAfter(c, batch) ==
  CASE c = "loop-wake" -> Woken(batch)
    [] c = "loop-unblocked" -> Offered(batch)
    [] c = "reassess" -> Flagged(batch)
    [] c = "ticket-notes" -> loop

NotesAfter(c, batch) ==
  IF c = "ticket-notes" THEN Mark(notes, ToNote(batch)) ELSE notes

\* The attention center hears of an offer made, changed or taken back.
ItemAfter(c, batch) ==
  IF LoopAfter(c, batch).offer = loop.offer THEN item
  ELSE LoopAfter(c, batch).offer # {}

\* What is left of the effects once the host is gone: the item is not.
Leaves(c, batch) ==
  IF work.act THEN loop' = LoopAfter(c, batch) /\ notes' = NotesAfter(c, batch)
  ELSE UNCHANGED <<loop, notes>>

Apply(c, batch) ==
  /\ Leaves(c, batch)
  /\ item' = IF work.act THEN ItemAfter(c, batch) ELSE item

\* The consumer asks for something, the same offer not twice.
Asks(c, batch) ==
  CASE c = "loop-wake" -> Relevant(batch) /\ loop.status = "running"
    [] c = "loop-unblocked" -> Relevant(batch) /\ OfferDue /\ loop.offer # Ready
    [] c = "reassess" -> ToFlag(batch) # {}
    [] c = "ticket-notes" -> ToNote(batch) # {}

\* What was asked is recorded in the journal.
Recorded == IF Asks(Consumer, Batch) THEN WriteRecord(files) ELSE files

Reconcile ==
  /\ up /\ work.todo # <<>> /\ ~work.applied
  /\ Apply(Consumer, Batch)
  /\ files' = Recorded /\ Drops
  /\ work' = [work EXCEPT !.applied = TRUE]
  /\ delivered' = [delivered EXCEPT ![Consumer] = @ \cup Ids(Batch)]
  /\ UNCHANGED <<board, mode, facts, cursors, up, memory, snap, drafts, pending,
                 prunable, accepted, missed, emptied, used>>

\* The consumer, or an effect it asked for, throws: reported, not tried again.
ReconcileFails ==
  /\ up /\ work.todo # <<>> /\ ~work.applied /\ Batch # {}
  /\ Disturbs("faults", MaxFaults)
  /\ work' = [work EXCEPT !.applied = TRUE]
  /\ delivered' = [delivered EXCEPT ![Consumer] = @ \cup Ids(Batch)]
  /\ files' \in {files, Recorded} /\ Drops
  /\ missed' = TRUE
  /\ Count("faults")
  /\ UNCHANGED <<board, effects, mode, facts, cursors, up, memory, snap, drafts, pending,
                 prunable, accepted, emptied>>

\* mistake: the consumers share a cursor.
SaveSharedCursor ==
  /\ up /\ work.todo # <<>> /\ work.applied
  /\ cursors' = [c \in Consumers |-> Max({cursors[c], work.last})]
  /\ work' = IF Len(work.todo) = 1 THEN NoWork
             ELSE [work EXCEPT !.todo = Tail(@), !.applied = FALSE]
  /\ UNCHANGED <<board, effects, mode, facts, files, up, memory, snap, drafts, pending,
                 prunable, ghosts, missed, used>>

\* The cursor only moves forward.
SaveCursor ==
  /\ up /\ work.todo # <<>> /\ work.applied
  /\ cursors' = [cursors EXCEPT ![Consumer] = Max({@, work.last})]
  /\ work' = IF Len(work.todo) = 1 THEN NoWork
             ELSE [work EXCEPT !.todo = Tail(@), !.applied = FALSE]
  /\ UNCHANGED <<board, effects, mode, facts, files, up, memory, snap, drafts, pending,
                 prunable, ghosts, missed, used>>

----------------------------------------------------------------------------
(* The loop *)

Withheld == {t \in Queue : board[t].status \in {"open", "marked"}}

\* The loop settles blocked: tickets remain, none is ready.  Why depends on
\* what else holds them back (parks, attempts), which this model leaves open.
LoopBlocks ==
  /\ Idle /\ loop.status = "running" /\ Ready = {} /\ Withheld # {}
  /\ \E why \in {"dependencies", "mixed"} :
       loop' = [loop EXCEPT !.status = "blocked", !.why = why, !.passed = {}]
  /\ missed' = FALSE
  /\ UNCHANGED <<board, notes, item, mode, facts, disk, up, memory, snap, drafts, pending,
                 work, prunable, ghosts, used>>

\* Paused, stopped, drained or failed: any other rest.  An offer describes a
\* blocked loop only.
LoopRests ==
  /\ Idle /\ loop.status # "paused"
  /\ loop' = [loop EXCEPT !.status = "paused", !.why = "none", !.offer = {}, !.passed = {}]
  /\ UNCHANGED <<board, notes, item, mode, facts, disk, up, memory, snap, drafts, pending,
                 work, prunable, ghosts, missed, used>>

\* The user starts or resumes it; its attention items are resolved.
LoopStarts ==
  /\ Idle /\ loop.status # "running" /\ Withheld # {} /\ Used("rounds", MaxRounds)
  /\ loop' = [loop EXCEPT !.status = "running", !.why = "none", !.offer = {},
                          !.passed = Ready]
  /\ item' = FALSE
  /\ missed' = FALSE
  /\ Count("rounds")
  /\ UNCHANGED <<board, notes, mode, facts, disk, up, memory, snap, drafts, pending,
                 work, prunable, ghosts>>

----------------------------------------------------------------------------
(* The setting, retention, the host *)

SetMode ==
  /\ Idle /\ Disturbs("modes", MaxModes)
  /\ \E m \in Modes \ {mode} :
       /\ mode' = m
       /\ used' = [used EXCEPT !.modes = @ + 1, !.offs = IF m = "off" THEN @ + 1 ELSE @]
  /\ missed' = TRUE
  /\ UNCHANGED <<board, effects, facts, disk, up, memory, snap, drafts, pending, work,
                 prunable, ghosts>>

SomeOld == \E l \in Lines(files) : l.old

\* Thirty days pass, which takes longer than a batch waits; under a running
\* host the prune that follows its activation is over by then.
Age ==
  /\ ~up \/ (Idle /\ pending = {} /\ ~(prunable /\ SomeOld))
  /\ Disturbs("ages", MaxAges)
  /\ files' = [files EXCEPT !.previous = Aged(@), !.current = Aged(@)]
  /\ prunable' = FALSE
  /\ Count("ages")
  /\ UNCHANGED <<board, effects, mode, facts, cursors, up, memory, snap, drafts, pending,
                 work, ghosts, missed>>

\* Once per host, a minute after activation.  Without an old line it is a step
\* that changes nothing.
PruneOnce ==
  /\ Idle /\ prunable /\ SomeOld
  /\ prunable' = FALSE
  /\ files' = Prune(files)
  /\ emptied' = (emptied \/ Lines(files') = {})
  /\ UNCHANGED <<board, effects, mode, facts, cursors, up, memory, snap, drafts, pending,
                 work, accepted, delivered, missed, dropped, used>>

\* The host dies, or is shut down: what was pending is on disk only.
Dies ==
  /\ Disturbs("crashes", MaxCrashes)
  /\ up' = FALSE /\ memory' = NotLoaded /\ snap' = Unseen /\ item' = FALSE
  /\ drafts' = <<>> /\ pending' = {} /\ work' = NoWork /\ prunable' = FALSE
  /\ UNCHANGED <<board, mode, facts, cursors, missed, emptied>>

Crash ==
  /\ up /\ Dies /\ Count("crashes")
  /\ UNCHANGED <<loop, notes, files, accepted, delivered, dropped>>

\* Death inside _write: within the rotation or after it, or with part of the line
\* written.
CutShort ==
  /\ \/ files' \in {HalfRotated(files), Rotate(files)} /\ Count("crashes")
     \/ /\ Used("torn", MaxTorn)
        /\ files' = [Rotate(files) EXCEPT !.torn = TRUE]
        /\ used' = [used EXCEPT !.crashes = @ + 1, !.torn = @ + 1]
  /\ Drops

CrashMidWrite ==
  /\ up /\ drafts # <<>> /\ Head(drafts) \notin Remembered.seen
  /\ Dies /\ CutShort
  /\ UNCHANGED <<loop, notes, accepted, delivered>>

\* Death between two effects of one batch.
CrashMidReconcile ==
  /\ up /\ work.todo # <<>> /\ ~work.applied /\ work.act /\ Dies /\ Count("crashes")
  /\ \E l \in Batch : Leaves(Consumer, {m \in Batch : m.seq <= l.seq})
  /\ UNCHANGED <<files, accepted, delivered, dropped>>

\* Death while what was asked is being recorded.
CrashMidRecord ==
  /\ up /\ work.todo # <<>> /\ ~work.applied /\ Asks(Consumer, Batch)
  /\ Dies /\ CutShort
  /\ Leaves(Consumer, Batch)
  /\ UNCHANGED <<accepted, delivered>>

\* mistake: a replay starts after the furthest cursor.
BacklogOfFurthest == SignalsAfter(files, Max({cursors[c] : c \in Consumers}))

Backlog == SignalsAfter(files, Min({cursors[c] : c \in Consumers}))

\* Activation: running loops are restored to paused, the board is learnt, and
\* what was journalled but not reconciled is replayed.
Activate ==
  /\ ~up /\ up' = TRUE /\ prunable' = TRUE
  /\ loop' = IF loop.status = "running"
             THEN [loop EXCEPT !.status = "paused", !.why = "none", !.offer = {}, !.passed = {}]
             ELSE loop
  /\ IF mode = "off" THEN UNCHANGED <<snap, memory, work>>
     ELSE /\ snap' = board
          /\ memory' = Load(files)
          /\ work' = IF Backlog = {} THEN NoWork ELSE Begin(Backlog, TRUE)
  /\ UNCHANGED <<board, notes, item, mode, facts, disk, drafts, pending, ghosts, missed, used>>

----------------------------------------------------------------------------
(* Specification *)

Service == EmitRepeat \/ Emit \/ Flush \/ Reconcile \/ SaveCursor
Failure == AppendFails \/ ReconcileFails
World   == (\E t \in Tickets : SetTicketStatus(t) \/ Relink(t) \/ LaneReturns(t))
           \/ Redeliver \/ LoopBlocks \/ LoopRests \/ LoopStarts
Host    == SetMode \/ Age \/ PruneOnce \/ Crash \/ CrashMidWrite \/ CrashMidReconcile
           \/ CrashMidRecord \/ Activate

Next == Service \/ Failure \/ World \/ Host

Spec == Init /\ [][Next]_vars

\* The event loop runs what is due, and a host that died is started again.
SpecFair == Spec /\ WF_vars(Service) /\ WF_vars(Activate)

----------------------------------------------------------------------------
(* Properties *)

\* A signal the journal took reaches every consumer that listens for its kind:
\* it was handed over, is about to be, or will be replayed after a restart;
\* however often the host dies and whatever effects and appends fail.  Not
\* promised once signals were switched off (what was owed then is passed over
\* when they are switched on again), once a line was torn, or once a prune took
\* the last signal; nor of a signal whose file was rotated out before the host
\* that was to hand it over died.
Replayable(c, id) == \E l \in Lines(files) : l.id = id /\ l.seq > cursors[c]
Outlived(id) == id \in dropped /\ used.crashes > 0
NothingIsSkipped ==
  \A id \in accepted, c \in Consumers :
    facts[id].kind \in KindsOf(c) =>
      \/ id \in delivered[c] \/ id \in Ids(pending)
      \/ c \in Range(work.todo) /\ id \in Ids(work.batch)
      \/ Replayable(c, id) \/ Outlived(id)
NothingSkipped == used.offs = 0 /\ used.torn = 0 /\ ~emptied => NothingIsSkipped

\* A consumer is handed a signal a second time by a replay only, unless the
\* journal forgot it by a rotation, by its age or by a torn line.
Handed == ~work.applied /\ work'.applied
HandedAgainOnlyByReplay ==
  [][used.ages = 0 /\ used.torn = 0 /\ Handed =>
       work.replay \/ Ids(Batch) \cap delivered[Consumer] \subseteq dropped]_vars

\* The cursor never passes a signal that should have flagged the loop and did
\* not: death between the effects and the cursor costs one more look only.
FlagBeforeCursor ==
  used.modes = 0 /\ used.faults = 0 /\ used.torn = 0 /\ ~emptied =>
    \A line \in Lines(files) :
      LET fact == facts[line.id]
      IN  fact.loop /\ NeedsReassessment(fact) /\ line.seq <= cursors["reassess"] =>
            line.id \in loop.flags

\* A loop blocked on dependencies comes to offer exactly what is ready, unless
\* the board moved without a signal that may change state: a dependency taken
\* away, a ticket unmarked, an agent's doing, or a death, a fault or a change of
\* the setting before the signal took effect.
Heard == up /\ mode = "act" /\ ~missed /\ used.torn = 0 /\ ~emptied
OffersComeTrue == []<>(Heard /\ OfferDue => loop.offer = Ready)

\* A running loop comes to see the board as it is without waiting for a lane.
RunningLoopRechecks == []<>(Heard /\ loop.status = "running" => loop.passed = Ready)

============================================================================
