--------------------------- MODULE GraphScheduler ---------------------------
(***************************************************************************)
(* A ticket loop under the graph-aware scheduler: computeGraphReadySet     *)
(* (src/loops/loop-scheduler.ts) over the work graph (scheduling-graph.ts, *)
(* orchestration/work-graph/graph.ts), and what the supervisor makes of a  *)
(* pass: dispatch the first of the ready tickets, credit the others, wait, *)
(* or settle.  The loop filters the board on status "backlog" and respects *)
(* dependencies.  Pauses, ceilings and crashes are LoopSupervisor's.       *)
(*                                                                         *)
(* at says where the cycle stands:                                         *)
(*   "pass"     a pass comes next, with no await before it                 *)
(*   "due"      the await is over; other lanes may still end first         *)
(*   "waiting"  awaiting the lanes                                         *)
(*   "blocked", "drained"  the loop settled; the user may resume it        *)
(*                                                                         *)
(* A definition marked "mistake" is no part of the model, see LoopRecords. *)
(***************************************************************************)
EXTENDS Integers, FiniteSetsExt, Functions

CONSTANTS
  Tickets, Files,
  Untenanted,    \* the pseudo file of a ticket with no territory
  Territory,     \* declared territory, resolved against the index
  BlockedBy,     \* declared dependencies of each ticket
  Children,      \* its subtasks: a parent is inferred to wait for them
  Base,          \* rankTickets: priority, assignee, size and (capped) age
  Large,         \* tickets of complexity "large"
  Weight,        \* their weight on a chain of work
  Recurring,     \* names reused for new tickets that keep arriving
  Concurrency, MaxAttempts,
  Results,       \* what a lane may come back with
  Boards,        \* the tickets' statuses as the loop is started
  Statuses,      \* statuses a user or an agent gives a ticket
  HeldSets,      \* sets of files under claims
  MaxEvents      \* what users, agents and claims do, but for filing (bound)

OpenStatuses   == {"backlog", "in_progress", "blocked", "review"}
TicketStatuses == OpenStatuses \cup {"done", "deleted"}

LaneResult == [ok : BOOLEAN, parked : BOOLEAN, conflict : BOOLEAN,
               touched : SUBSET Files]

ASSUME GraphAssumption ==
  /\ IsFiniteSet(Tickets) /\ Untenanted \notin Files
  /\ Territory \in [Tickets -> SUBSET Files]
  /\ BlockedBy \in [Tickets -> SUBSET Tickets]
  /\ Children \in [Tickets -> SUBSET Tickets]
  /\ Base \in [Tickets -> Int] /\ Weight \in [Tickets -> Nat]
  /\ Large \subseteq Tickets
  /\ Recurring \subseteq {t \in Tickets : \A u \in Tickets : t \notin BlockedBy[u]}
  /\ Concurrency \in Nat \ {0} /\ MaxAttempts \in Nat
  /\ Results \subseteq LaneResult /\ Statuses \subseteq TicketStatuses
  /\ HeldSets \subseteq SUBSET Files
  /\ Boards \subseteq [Tickets -> TicketStatuses]

VARIABLES
  status,    \* the board: each ticket's status
  entry,     \* the loop's ticketState; known: there is an entry
  lanes,     \* the Map of lanes in flight
  held,      \* files under claims, whoever holds them
  at,        \* where the cycle stands
  used       \* counter behind the bound

vars == <<status, entry, lanes, held, at, used>>

Lock  == Files \cup {Untenanted}
Lane  == [ticket : Tickets, terr : SUBSET Lock]
Entry == [known : BOOLEAN, attempts : Nat, parked : BOOLEAN, conflict : BOOLEAN,
          passedOver : Nat, touched : SUBSET Files]

NoEntry == [known |-> FALSE, attempts |-> 0, parked |-> FALSE, conflict |-> FALSE,
            passedOver |-> 0, touched |-> {}]

TypeOK ==
  /\ status \in [Tickets -> TicketStatuses]
  /\ entry \in [Tickets -> Entry]
  /\ lanes \subseteq Lane
  /\ held \subseteq Files
  /\ at \in {"pass", "due", "waiting", "blocked", "drained"}
  /\ used \in Nat

Init ==
  /\ status \in Boards
  /\ entry = [t \in Tickets |-> NoEntry]
  /\ lanes = {} /\ held \in HeldSets
  /\ at = "pass"
  /\ used = 0

----------------------------------------------------------------------------
(* The work graph: edges of every ticket on the board, closed ones too.  A    *)
(* ticket that is deleted takes the links to it along (deleteTicket).         *)

Open(t) == status[t] \in OpenStatuses

\* What t waits for within S, along depends_on edges declared or inferred.
Upstream(t, S) ==
  LET targets(V) == S \cap UNION {BlockedBy[u] \cup Children[u] : u \in V}
      closure[V \in SUBSET S] ==
        IF targets(V) \subseteq V THEN V ELSE closure[V \cup targets(V)]
  IN  closure[targets({t})]

OnBoard == {t \in Tickets : status[t] # "deleted"}

\* cycleOf: in a component of the graph none of whose edges is inferred.
InCycle(t) ==
  LET component == {u \in Upstream(t, OnBoard) : t \in Upstream(u, OnBoard)}
  IN  /\ t \in component
      /\ \A p, c \in component : c \notin Children[p]

\* mistake: only what was done is met, so a deleted dependency never is.
UnmetUnlessDone(t) == \E b \in BlockedBy[t] : status[b] # "done"

Unmet(t) == \E b \in BlockedBy[t] : Open(b)

\* downstreamOpen: the walk to the dependents of t, level by level; a ticket it
\* comes to by an inferred edge is walked through but not counted.
Downstream(t) ==
  LET dependents(V) ==
        {u \in OnBoard \ V : (BlockedBy[u] \cup Children[u]) \cap V # {}}
      counted[V \in SUBSET Tickets] ==
        IF dependents(V) = {} THEN {}
        ELSE {u \in dependents(V) : BlockedBy[u] \cap V # {}}
             \cup counted[V \cup dependents(V)]
  IN  {u \in OnBoard : Open(u) /\ u \in counted[{t}]}

\* The tickets of one heaviest chain of open work; work in a cycle is left out.
\* Ties are broken in a fixed way.
CriticalPath ==
  LET open == {t \in Tickets : Open(t)}
      nodes == {t \in open : t \notin Upstream(t, open)}
      deps(t) == (BlockedBy[t] \cup Children[t]) \cap nodes
      weight[t \in nodes] == Weight[t] + Max({0} \cup {weight[d] : d \in deps(t)})
      heaviest(S) == CHOOSE t \in S : \A u \in S : weight[t] >= weight[u]
      onward[t \in nodes] ==
        {t} \cup IF deps(t) = {} THEN {} ELSE onward[heaviest(deps(t))]
      path == IF nodes = {} THEN {} ELSE onward[heaviest(nodes)]
  IN  IF Cardinality(path) > 1 THEN path ELSE {}

----------------------------------------------------------------------------
(* The ready set *)

\* A loop finishes what it started: loopRetains asks for an entry only.
LoopRetains(t) == entry[t].known /\ Open(t) /\ status[t] # "review"

Queue == {t \in Tickets : status[t] = "backlog" \/ LoopRetains(t)}

Exhausted(t) == entry[t].attempts >= MaxAttempts

Candidate(t) ==
  /\ t \in Queue
  /\ ~entry[t].parked /\ ~Exhausted(t)
  /\ status[t] # "blocked"
  /\ ~Unmet(t) /\ ~InCycle(t)

Candidates == {t \in Tickets : Candidate(t)}

Least(a, b) == IF a < b THEN a ELSE b

\* mistake: the credit for waiting counts nowhere.
ScoreIgnoresCredit(t) ==
  Base[t] + (IF status[t] = "in_progress" THEN 30 ELSE 0)
  + Least(40, 8 * Cardinality(Downstream(t)))
  + (IF t \in CriticalPath THEN 25 ELSE 0)
  - (IF entry[t].conflict THEN 30 ELSE 0)

\* rankTickets and GRAPH_SCORE.
Score(t) ==
  Base[t] + (IF status[t] = "in_progress" THEN 30 ELSE 0)
  + Least(40, 8 * Cardinality(Downstream(t)))
  + (IF t \in CriticalPath THEN 25 ELSE 0)
  + 10 * entry[t].passedOver
  - (IF entry[t].conflict THEN 30 ELSE 0)

\* Places by score.  Which of two equals is first (priority, last update, id)
\* is left open.
Rankings(score) ==
  {place \in Bijection(DOMAIN score, 1..Cardinality(DOMAIN score)) :
     \A t, u \in DOMAIN score : score[t] > score[u] => place[t] < place[u]}

TerritoryOf(t) ==
  LET files == Territory[t] \cup entry[t].touched
  IN  IF files = {} THEN {Untenanted} ELSE files

Conflicts(a, b) == Untenanted \in a \/ Untenanted \in b \/ a \cap b # {}

\* A file of the ticket is under a claim; any claim, if its files are unknown.
HeldBack(t) == IF Untenanted \in TerritoryOf(t) THEN held # {}
               ELSE TerritoryOf(t) \cap held # {}

\* Large work, and work that collided last time.
RunsAlone(t) == t \in Large \/ entry[t].conflict

Claim(t) == IF RunsAlone(t) THEN {Untenanted} ELSE TerritoryOf(t)

Claimed(S) == {l.terr : l \in lanes} \cup {Claim(u) : u \in S}

\* mistake: the walk compares with what it admitted, not with what runs.
AdmitsBesideAdmitted(t, S) ==
  /\ \A c \in {Claim(u) : u \in S} : ~Conflicts(TerritoryOf(t), c)
  /\ ~HeldBack(t)
  /\ RunsAlone(t) => S = {}

\* May t be admitted after the tickets of S, beside what is in flight?
Admits(t, S) ==
  /\ \A c \in Claimed(S) : ~Conflicts(TerritoryOf(t), c)
  /\ ~HeldBack(t)
  /\ RunsAlone(t) => Claimed(S) = {}

\* The walk down the ranking: a ticket is ready if it fits beside those ahead.
IsReadySet(S, place) ==
  \A t \in DOMAIN place :
    t \in S <=> Admits(t, {u \in S : place[u] < place[t]})

FreeSlots == Concurrency - Cardinality(lanes)
Dispatchable == FreeSlots > 0 /\ \E t \in Candidates : Admits(t, {})

----------------------------------------------------------------------------
(* The cycle *)

Passing == at \in {"pass", "due"}

\* mistake: only a ticket that has an entry earns credit.
CreditToKnown(dispatched, waiting) ==
  [t \in Tickets |->
     CASE t \in dispatched -> [entry[t] EXCEPT !.passedOver = 0]
       [] t \in waiting /\ entry[t].known -> [entry[t] EXCEPT !.passedOver = @ + 1]
       [] OTHER -> entry[t]]

\* _notePassedOver: ready tickets beyond the free slots earn credit, and get an
\* entry if they have none.
NotePassedOver(dispatched, waiting) ==
  [t \in Tickets |->
     CASE t \in dispatched -> [entry[t] EXCEPT !.passedOver = 0]
       [] t \in waiting -> [entry[t] EXCEPT !.known = TRUE, !.passedOver = @ + 1]
       [] OTHER -> entry[t]]

\* ready.slice(0, freeSlots) is launched; the next pass follows at once.
Dispatch ==
  /\ Passing /\ Dispatchable
  /\ \E score \in {[t \in Candidates |-> Score(t)]} :
     \E place \in Rankings(score) : \E S \in SUBSET DOMAIN place :
       LET first == {t \in S : Cardinality({u \in S : place[u] < place[t]}) < FreeSlots}
       IN  /\ IsReadySet(S, place)
           /\ entry' = NotePassedOver(first, S \ first)
           /\ lanes' = lanes \cup
                {[ticket |-> t, terr |-> TerritoryOf(t)] : t \in first}
  /\ at' = "pass"
  /\ UNCHANGED <<status, held, used>>

Wait ==
  /\ Passing /\ ~Dispatchable /\ lanes # {}
  /\ at' = "waiting"
  /\ UNCHANGED <<status, entry, lanes, held, used>>

SettleDrained ==
  /\ Passing /\ lanes = {} /\ Queue = {}
  /\ at' = "drained"
  /\ UNCHANGED <<status, entry, lanes, held, used>>

SettleBlocked ==
  /\ Passing /\ lanes = {} /\ Queue # {} /\ ~Dispatchable
  /\ at' = "blocked"
  /\ UNCHANGED <<status, entry, lanes, held, used>>

Pass == Dispatch \/ Wait \/ SettleDrained \/ SettleBlocked

----------------------------------------------------------------------------
(* The lanes, the user, the board and the claims *)

\* Lanes end and claims change at any await; what the user and the agents do
\* comes as events, which find the cycle waiting or the loop settled.
Await == at # "pass"
Idle  == at \notin {"pass", "due"}

Event == used < MaxEvents /\ used' = used + 1

\* _record: a collision is remembered, a success forgets it; a park is not an
\* attempt.
AfterLane(l, res) ==
  LET old == entry[l.ticket]
  IN  [entry EXCEPT ![l.ticket] =
         [old EXCEPT !.known = TRUE,
                     !.touched = old.touched \cup res.touched,
                     !.conflict = res.conflict \/ (old.conflict /\ ~res.ok),
                     !.parked = old.parked \/ res.parked,
                     !.attempts = old.attempts + (IF res.parked THEN 0 ELSE 1)]]

BoardAfter(l, res) ==
  [status EXCEPT ![l.ticket] =
     IF @ = "deleted" THEN @
     ELSE IF res.parked THEN "blocked"
     ELSE IF res.ok THEN "review" ELSE @]

LaneEnds(l) ==
  /\ Await
  /\ \E res \in Results :
       /\ entry' = AfterLane(l, res)
       /\ status' = BoardAfter(l, res)
  /\ lanes' = lanes \ {l}
  /\ at' = IF at = "waiting" THEN "due" ELSE at
  /\ UNCHANGED <<held, used>>

\* A signal: a loop that waits runs a pass.
Wake ==
  /\ at = "waiting" /\ at' = "due"
  /\ UNCHANGED <<status, entry, lanes, held, used>>

Resume ==
  /\ at \in {"blocked", "drained"}
  /\ Queue # {}
  /\ at' = "pass"
  /\ Event
  /\ UNCHANGED <<status, entry, lanes, held>>

\* The user or an agent gives a ticket a status.
Move(t) ==
  /\ Idle
  /\ status[t] # "deleted"
  /\ \E s \in Statuses \ {status[t]} : status' = [status EXCEPT ![t] = s]
  /\ Event
  /\ UNCHANGED <<entry, lanes, held, at>>

ReleasePark(t) ==
  /\ Idle
  /\ entry[t].parked
  /\ entry' = [entry EXCEPT ![t].parked = FALSE]
  /\ status' = [status EXCEPT ![t] = IF @ = "blocked" THEN "backlog" ELSE @]
  /\ Event
  /\ UNCHANGED <<lanes, held, at>>

\* A ticket is done with and another one of its kind is filed: t now names the
\* new one.
Refile(t) ==
  /\ Idle /\ t \in Recurring
  /\ ~Open(t) \/ status[t] = "review"
  /\ \A l \in lanes : l.ticket # t
  /\ status' = [status EXCEPT ![t] = "backlog"]
  /\ entry' = [entry EXCEPT ![t] = NoEntry]
  /\ UNCHANGED <<lanes, held, at, used>>

\* Lanes, chats of the user and other loops take and end claims.
ClaimsChange ==
  /\ Await
  /\ \E fs \in HeldSets \ {held} : held' = fs
  /\ Event
  /\ UNCHANGED <<status, entry, lanes, at>>

Next ==
  \/ Pass \/ Wake \/ Resume \/ ClaimsChange
  \/ \E l \in lanes : LaneEnds(l)
  \/ \E t \in Tickets : Move(t) \/ ReleasePark(t) \/ Refile(t)

Spec == Init /\ [][Next]_vars

\* A pass that is due is run, and its dispatches end when no slot is free: the
\* host runs the cycle's continuations.  (WF_vars(Pass), as a pass is possible
\* whenever one is due.)  Every lane ends: the run and idle budgets cut off one
\* that does not.
SpecFair ==
  /\ Spec /\ []<>~Passing
  /\ \A t \in Tickets : WF_vars(\E l \in lanes : l.ticket = t /\ LaneEnds(l))

----------------------------------------------------------------------------
(* Properties *)

\* Two lanes in flight never have overlapping territory, also beside a large
\* ticket, whose lane keeps only its plain territory once its pass is over.
LanesDisjoint ==
  \A l, m \in lanes : l # m =>
    l.ticket # m.ticket /\ ~Conflicts(l.terr, m.terr)

\* How many more passes than a rival a ticket may be passed over and still be
\* outranked: what the graph and a start on the work give (40 + 25 + 30), and the
\* widest gap between two tickets.
Headway ==
  LET gap == Max({Base[pair[1]] - Base[pair[2]] : pair \in Tickets \X Tickets})
  IN  (95 + gap) \div 10

\* No ticket is passed over without end, however many better ones keep arriving:
\* only rivals that waited nearly as long themselves go ahead of one that waited
\* longer than that, and each of them starts over.
WaitIsBounded ==
  \A t \in Tickets : entry[t].passedOver <= (Cardinality(Tickets) - 1) * (1 + Headway)

\* t and the open tickets it waits for, down its declared dependencies.
WaitsFor(t) ==
  LET blockers(V) == {b \in UNION {BlockedBy[u] : u \in V} : Open(b)}
      closure[V \in SUBSET Tickets] ==
        IF blockers(V) \subseteq V THEN V ELSE closure[V \cup blockers(V)]
  IN  closure[{t}]

\* A loop that settles as blocked waits for something outside it: every ticket
\* left waits, down its dependencies, for one that is parked, out of attempts,
\* blocked, in a cycle, under a claim or not the loop's; never for each other.
\* (No subtask link lies within a cycle of the board, see the README.)
BlockedForCause ==
  [][at' = "blocked" /\ Passing =>
       \A t \in Queue : \E u \in WaitsFor(t) :
         \/ u \notin Queue \/ entry[u].parked \/ Exhausted(u)
         \/ status[u] = "blocked" \/ HeldBack(u) \/ InCycle(u)]_vars

\* The loop goes on and could take the ticket, for all that the pass knows.
Passable(t) ==
  /\ at \notin {"blocked", "drained"}
  /\ Candidate(t) /\ ~HeldBack(t)
  /\ \A l \in lanes : l.ticket # t

\* Nothing else the loop runs or could take needs the files of the ticket, or to
\* run alone.
Sheltered(t) ==
  /\ ~RunsAlone(t)
  /\ \A u \in Candidates \ {t} :
       ~RunsAlone(u) /\ ~Conflicts(TerritoryOf(t), TerritoryOf(u))
  /\ \A l \in lanes : ~Conflicts(TerritoryOf(t), l.terr)

\* A ready ticket whose files nobody else needs is dispatched in the end, even
\* if better ones keep arriving.
ReadyRuns == \A t \in Tickets : ~<>[](Passable(t) /\ Sheltered(t))

\* docs/guide/settings-and-commands.md: "never starves a ticket".
NeverStarved == \A t \in Tickets : ~<>[]Passable(t)

============================================================================
