----------------------------- MODULE PlanRunProofs -----------------------------
(***************************************************************************)
(* Proofs about plan runs, for every number of runs, calls and decisions,  *)
(* and every policy.                                                       *)
(*                                                                         *)
(* What the service does to its run is a chain of small functions on a     *)
(* record (To, Paused, WaitOver, ...).  The first lemmas say of each what  *)
(* the later ones read: that the record stays well formed, and what        *)
(* becomes of the status.  The inductive invariant adds to the properties  *)
(* that what run.json says agrees with the run as far as a reload reads    *)
(* it, that cards are open only within a turn, and that a finished plan    *)
(* has no run at work.                                                     *)
(***************************************************************************)
EXTENDS PlanRun, TLAPS

\* A well-formed run: one that is there has a number.
Good(r) == r \in Runs /\ (r.status # "none" => r.no # 0)

\* It waits for the user with something to answer.
HasReason(r) == r.status = "waiting_user" => "hold" \in r.flags \/ r.gates # {}

\* A reload finds the run as it is, as far as it reads it.
SavedWell(r) ==
  /\ r.status \in Working => r.saved \in Working
  /\ r.status \in Resting => r.saved = r.status
  /\ r.status \notin Open => r.saved \notin Open

\* While no turn is there, no pause is under way.
Unhung(r) == "pausing" \in r.flags => r.status \notin {"running", "waiting_provider"}

\* All of it, and no run appears or reopens by itself.
Fine(r) == Good(r) /\ HasReason(r) /\ SavedWell(r)

Follows(r, q) ==
  /\ Fine(q) /\ q.no = r.no
  /\ r.status \notin Open => q.status \notin Open /\ q.status \in {r.status, "none"}

\* A change of status leaves a well-formed run.
LEMMA ToKeeps ==
  ASSUME NEW r, Good(r), NEW status \in Open \cup Terminal, r.status # "none"
  PROVE  /\ Good(To(r, status))
         /\ To(r, status).status = status
         /\ To(r, status).saved = r.saved
         /\ To(r, status).no = r.no
         /\ To(r, status).gates = r.gates
         /\ status # "running" => To(r, status).flags = r.flags
         /\ To(r, status).flags \subseteq r.flags
         /\ r.flags \ {"hold"} \subseteq To(r, status).flags
  BY DEF Good, To, Runs, Open, Terminal, Working, Resting, RunFlags

\* So does dropping flags.
LEMMA WithoutKeeps ==
  ASSUME NEW r, Good(r), NEW flags
  PROVE  /\ Good(Without(r, flags))
         /\ Without(r, flags).status = r.status
         /\ Without(r, flags).saved = r.saved
         /\ Without(r, flags).no = r.no
         /\ Without(r, flags).gates = r.gates
         /\ Without(r, flags).flags = r.flags \ flags
  BY DEF Good, Without, Runs

\* So does writing the run.
LEMMA SavedKeeps ==
  ASSUME NEW r, Good(r)
  PROVE  /\ Good(Saved(r))
         /\ Saved(r).status = r.status
         /\ Saved(r).saved = r.status
         /\ Saved(r).no = r.no
         /\ Saved(r).gates = r.gates
         /\ Saved(r).flags = r.flags
         /\ SavedWell(Saved(r))
  BY DEF Good, Saved, Runs, SavedWell, Open

\* An open run pauses, written; any other is left alone.
LEMMA PausedKeeps ==
  ASSUME NEW r, Good(r)
  PROVE  /\ Good(Paused(r))
         /\ Paused(r).no = r.no
         /\ r.status \in Open => /\ Paused(r).status = "paused"
                                 /\ Paused(r).flags = r.flags \ {"pausing"}
                                 /\ SavedWell(Paused(r))
         /\ r.status \notin Open => Paused(r) = r
<1>1. CASE r.status \in Open
  <2>1. r.status # "none"
    BY <1>1 DEF Open, Working, Resting
  <2>2. "paused" \in Open /\ "paused" # "running"
    BY DEF Open, Resting
  <2>3. Good(To(r, "paused")) /\ To(r, "paused").status = "paused"
        /\ To(r, "paused").no = r.no /\ To(r, "paused").flags = r.flags
    BY <2>1, <2>2, ToKeeps
  <2>4. Paused(r) = Saved(Without(To(r, "paused"), {"pausing"}))
    BY <1>1 DEF Paused
  <2> QED
    BY <1>1, <2>3, <2>4, WithoutKeeps, SavedKeeps
<1>2. CASE r.status \notin Open
  BY <1>2 DEF Paused
<1> QED
  BY <1>1, <1>2

LEMMA PausedFollows ==
  ASSUME NEW r, Good(r), HasReason(r), SavedWell(r) \/ r.status \in Open
  PROVE  Follows(r, Paused(r)) /\ (r.status \in Open => Paused(r).status = "paused")
<1>1. CASE r.status \in Open
  <2>1. "paused" # "waiting_user"
    OBVIOUS
  <2> QED
    BY <1>1, <2>1, PausedKeeps DEF Follows, Fine, HasReason
<1>2. CASE r.status \notin Open
  BY <1>2, PausedKeeps DEF Follows, Fine
<1> QED
  BY <1>1, <1>2

LEMMA FailedKeeps ==
  ASSUME NEW r, Good(r), HasReason(r)
  PROVE  /\ Good(Failed(r)) /\ HasReason(Failed(r))
         /\ Failed(r).no = r.no
         /\ r.status \in Open => Failed(r).status = "failed"
         /\ r.status \notin Open => Failed(r) = r
<1>1. CASE r.status \in Open
  <2>1. r.status # "none"
    BY <1>1 DEF Open, Working, Resting
  <2>2. "failed" \in Open
    BY DEF Open, Resting
  <2>3. Good(To(r, "failed")) /\ To(r, "failed").status = "failed" /\ To(r, "failed").no = r.no
    BY <2>1, <2>2, ToKeeps
  <2>4. Failed(r) = Without(To(r, "failed"), {"pausing"})
    BY <1>1 DEF Failed
  <2> QED
    BY <1>1, <2>3, <2>4, WithoutKeeps DEF HasReason
<1>2. CASE r.status \notin Open
  BY <1>2 DEF Failed
<1> QED
  BY <1>1, <1>2

\* A run that is finished is finished for good.
LEMMA FinishedFollows ==
  ASSUME NEW r, Good(r), HasReason(r), SavedWell(r) \/ r.status \in Open,
         NEW status \in Terminal
  PROVE  Follows(r, Finished(r, status)) /\ Finished(r, status).status \notin Open
<1>1. CASE r.status \in Open
  <2>1. r.status # "none" /\ status \in Open \cup Terminal /\ status \notin Open
    BY <1>1 DEF Open, Working, Resting, Terminal
  <2> DEFINE a == To(r, status)
             b == Without(a, {"pausing", "hold"})
             c == [b EXCEPT !.gates = {}]
  <2>2. Good(a) /\ a.status = status /\ a.no = r.no
    BY <2>1, ToKeeps
  <2> HIDE DEF a
  <2>3. Good(b) /\ b.status = status /\ b.no = r.no
    BY <2>2, WithoutKeeps
  <2> HIDE DEF b
  <2>4. Good(c) /\ c.status = status /\ c.no = r.no
    BY <2>3 DEF Good, Runs
  <2> HIDE DEF c
  <2>5. Finished(r, status) = Saved(c)
    BY <1>1 DEF Finished, a, b, c
  <2>6. status # "waiting_user"
    BY DEF Terminal
  <2> QED
    BY <1>1, <2>1, <2>4, <2>5, <2>6, SavedKeeps DEF Follows, Fine, HasReason
<1>2. CASE r.status \notin Open
  BY <1>2 DEF Finished, Follows, Fine
<1> QED
  BY <1>1, <1>2

LEMMA TurnStartedFollows ==
  ASSUME NEW r, Good(r), HasReason(r), SavedWell(r) \/ r.status \in Open, NEW origin
  PROVE  /\ Follows(r, TurnStarted(r, origin))
         /\ TurnStarted(r, origin).status \in {r.status, "running"}
         /\ TurnStarted(r, origin).flags \subseteq r.flags
<1>1. CASE r.status \notin Open
  BY <1>1 DEF TurnStarted, Follows, Fine
<1>2. CASE r.status \in Open /\ origin \in {"user", "steer"} /\ r.status = "waiting_user"
           /\ r.gates = {}
  <2>1. r.status # "none" /\ "running" \in Open \cup Terminal
    BY <1>2 DEF Open, Working
  <2>2. TurnStarted(r, origin) = Saved(To(r, "running"))
    BY <1>2 DEF TurnStarted
  <2>3. Good(To(r, "running")) /\ To(r, "running").status = "running"
        /\ To(r, "running").no = r.no /\ To(r, "running").flags \subseteq r.flags
    BY <2>1, ToKeeps
  <2> HIDE DEF To
  <2> QED
    BY <1>2, <2>2, <2>3, SavedKeeps DEF Follows, Fine, HasReason
<1>3. CASE r.status \in Open /\ ~(origin \in {"user", "steer"} /\ r.status = "waiting_user"
                                  /\ r.gates = {})
  <2>1. TurnStarted(r, origin) = Saved(r)
    BY <1>3 DEF TurnStarted
  <2> QED
    BY <1>3, <2>1, SavedKeeps DEF Follows, Fine, HasReason
<1> QED
  BY <1>1, <1>2, <1>3

\* No wait on the provider or on a card is left when a turn ends.
LEMMA WaitOverKeeps ==
  ASSUME NEW r, Good(r), r.status \in Open
  PROVE  /\ Good(WaitOver(r)) /\ HasReason(WaitOver(r))
         /\ WaitOver(r).status \in Open \ {"waiting_provider"}
         /\ WaitOver(r).no = r.no
         /\ r.status \in Resting => WaitOver(r).status = r.status
<1> DEFINE q == [r EXCEPT !.gates = {}]
<1>1. Good(q) /\ q.status = r.status /\ q.no = r.no /\ q.flags = r.flags
  BY DEF Good, Runs
<1>2. WaitOver(r) = IF \/ r.status = "waiting_provider"
                       \/ r.status = "waiting_user" /\ "hold" \notin r.flags
                    THEN To(q, "running") ELSE q
  BY DEF WaitOver
<1> HIDE DEF q
<1>3. "running" \in Open \cup Terminal /\ q.status # "none"
  BY <1>1 DEF Open, Working, Resting
<1>4. Good(To(q, "running")) /\ To(q, "running").status = "running" /\ To(q, "running").no = q.no
  BY <1>1, <1>3, ToKeeps
<1>5. CASE r.status = "waiting_provider" \/ (r.status = "waiting_user" /\ "hold" \notin r.flags)
  BY <1>1, <1>2, <1>4, <1>5 DEF HasReason, Open, Working, Resting
<1>6. CASE ~(r.status = "waiting_provider" \/ (r.status = "waiting_user" /\ "hold" \notin r.flags))
  BY <1>1, <1>2, <1>6 DEF HasReason
<1> QED
  BY <1>5, <1>6

LEMMA CountedKeeps ==
  ASSUME NEW r, Good(r), HasReason(r), NEW idle
  PROVE  /\ Good(Counted(r, idle)) /\ HasReason(Counted(r, idle))
         /\ Counted(r, idle).status = r.status
         /\ Counted(r, idle).no = r.no
<1>1. CASE idle /\ r.idle < MaxIdle
  <2>1. r.idle \in Nat /\ r.idle + 1 \in 0..MaxIdle
    BY <1>1, PlanRunAssumption DEF Good, Runs
  <2>2. Counted(r, idle) = [r EXCEPT !.idle = r.idle + 1]
    BY <1>1 DEF Counted
  <2> QED
    BY <2>1, <2>2 DEF Good, Runs, HasReason
<1>2. CASE ~(idle /\ r.idle < MaxIdle)
  BY <1>2 DEF Counted
<1> QED
  BY <1>1, <1>2

\* The pause that was asked for is made when the turn ends.
LEMMA PauseStandsKeeps ==
  ASSUME NEW r, Good(r), HasReason(r), r.status # "waiting_provider"
  PROVE  /\ Good(PauseStands(r)) /\ HasReason(PauseStands(r)) /\ Unhung(PauseStands(r))
         /\ PauseStands(r).no = r.no
         /\ PauseStands(r).status \in {r.status, "paused"}
         /\ PauseStands(r).status = "running" => r.status = "running"
<1>1. CASE "pausing" \in r.flags /\ r.status \in {"running", "waiting_user"}
  <2>1. r.status \in Open
    BY <1>1 DEF Open, Working
  <2>2. PauseStands(r) = Paused(r)
    BY <1>1 DEF PauseStands
  <2>3. PauseStands(r).status = "paused" /\ Good(PauseStands(r)) /\ PauseStands(r).no = r.no
    BY <2>1, <2>2, PausedKeeps
  <2> QED
    BY <2>3 DEF HasReason, Unhung
<1>2. CASE ~("pausing" \in r.flags /\ r.status \in {"running", "waiting_user"})
  <2>1. PauseStands(r) = r
    BY <1>2 DEF PauseStands
  <2> QED
    BY <1>2, <2>1 DEF Unhung
<1> QED
  BY <1>1, <1>2

\* After a turn the run rests, waits for the user, or works on with no pause asked for; it works
\* on after no turn that failed or was cancelled.
LEMMA TurnEndedFollows ==
  ASSUME NEW r, Fine(r), NEW stop \in Stops, NEW idle
  PROVE  /\ Follows(r, TurnEnded(r, stop, idle))
         /\ r.status \in Open => Unhung(TurnEnded(r, stop, idle))
         /\ TurnEnded(r, stop, idle).status = "running" => stop = "ended"
<1>1. CASE r.status \notin Open
  <2>1. TurnEnded(r, stop, idle) = r
    BY <1>1 DEF TurnEnded
  <2>2. r.status # "running"
    BY <1>1 DEF Open, Working
  <2> QED
    BY <1>1, <2>1, <2>2 DEF Follows, Fine
<1>2. CASE r.status \in Open
  <2> DEFINE q == Counted(WaitOver(r), idle)
             s == CASE stop = "paused"    -> Paused(q)
                    [] stop = "cancelled" -> IF q.status = "running" THEN Paused(q) ELSE q
                    [] stop = "error"     -> Failed(q)
                    [] stop = "ended"     -> q
             t == PauseStands(s)
  <2>1. Good(q) /\ HasReason(q) /\ q.no = r.no /\ q.status \in Open \ {"waiting_provider"}
    BY <1>2, WaitOverKeeps, CountedKeeps DEF Fine
  <2>2. TurnEnded(r, stop, idle) = Saved(t)
    BY <1>2 DEF TurnEnded
  <2> HIDE DEF q
  <2>3. /\ Good(s) /\ HasReason(s) /\ s.no = r.no /\ s.status # "waiting_provider"
        /\ s.status = "running" => stop = "ended"
    <3>1. CASE stop = "paused"
      <4>1. s = Paused(q)
        BY <3>1
      <4>2. Good(s) /\ s.no = r.no /\ s.status = "paused"
        BY <2>1, <4>1, PausedKeeps
      <4> QED
        BY <4>2 DEF HasReason
    <3>2. CASE stop = "cancelled" /\ q.status = "running"
      <4>1. s = Paused(q)
        BY <3>2
      <4>2. Good(s) /\ s.no = r.no /\ s.status = "paused"
        BY <2>1, <4>1, PausedKeeps
      <4> QED
        BY <4>2 DEF HasReason
    <3>3. CASE stop = "cancelled" /\ q.status # "running"
      <4>1. s = q
        BY <3>3
      <4> QED
        BY <2>1, <3>3, <4>1
    <3>4. CASE stop = "error"
      <4>1. s = Failed(q)
        BY <3>4
      <4>2. Good(s) /\ HasReason(s) /\ s.no = r.no /\ s.status = "failed"
        BY <2>1, <4>1, FailedKeeps
      <4> QED
        BY <4>2
    <3>5. CASE stop = "ended"
      <4>1. s = q
        BY <3>5
      <4> QED
        BY <2>1, <3>5, <4>1
    <3> QED
      BY <3>1, <3>2, <3>3, <3>4, <3>5 DEF Stops
  <2> HIDE DEF s
  <2>4. /\ Good(t) /\ HasReason(t) /\ Unhung(t) /\ t.no = r.no
        /\ t.status = "running" => stop = "ended"
    BY <2>3, PauseStandsKeeps
  <2> HIDE DEF t
  <2> QED
    BY <1>2, <2>2, <2>4, SavedKeeps DEF Follows, Fine, HasReason, Unhung
<1> QED
  BY <1>1, <1>2

\* The conductor leaves no run at work.
LEMMA StoppedFollows ==
  ASSUME NEW r, Fine(r), NEW kind
  PROVE  /\ Follows(r, Stopped(r, kind))
         /\ Stopped(r, kind).status \notin {"running", "waiting_provider"}
<1>1. CASE r.status \notin Open
  BY <1>1 DEF Stopped, Follows, Fine, Open, Working
<1>2. CASE r.status \in Open /\ kind = "ask"
  <2> DEFINE a == To(r, "waiting_user")
             b == [a EXCEPT !.flags = @ \cup {"hold"}]
  <2>1. r.status # "none" /\ "waiting_user" \in Open \cup Terminal
    BY <1>2 DEF Open, Working, Resting
  <2>2. Good(a) /\ a.status = "waiting_user" /\ a.no = r.no
    BY <2>1, ToKeeps DEF Fine
  <2>3. Stopped(r, kind) = Saved(b)
    BY <1>2 DEF Stopped
  <2> HIDE DEF a
  <2>4. b = [a EXCEPT !.flags = a.flags \cup {"hold"}]
    OBVIOUS
  <2>5. Good(b) /\ b.status = "waiting_user" /\ b.no = r.no /\ "hold" \in b.flags
    BY <2>2, <2>4 DEF Good, Runs, RunFlags
  <2> HIDE DEF b
  <2> QED
    BY <1>2, <2>3, <2>5, SavedKeeps DEF Follows, Fine, HasReason
<1>3. CASE r.status \in Open /\ kind # "ask"
  <2> DEFINE a == Without(r, {"hold"})
  <2>1. Good(a) /\ a.status = r.status /\ a.no = r.no
    BY WithoutKeeps DEF Fine
  <2>2. Stopped(r, kind) = Paused(a)
    BY <1>3 DEF Stopped
  <2> HIDE DEF a
  <2>3. Good(Paused(a)) /\ Paused(a).no = r.no /\ Paused(a).status = "paused" /\ SavedWell(Paused(a))
    BY <1>3, <2>1, PausedKeeps
  <2> QED
    BY <1>3, <2>2, <2>3 DEF Follows, Fine, HasReason
<1> QED
  BY <1>1, <1>2, <1>3

LEMMA JudgedFollows ==
  ASSUME NEW r, Fine(r), NEW outcome
  PROVE  /\ Follows(r, Judged(r, outcome))
         /\ Judged(r, outcome) = r \/ Judged(r, outcome).status \notin {"running", "waiting_provider"}
<1>1. Judged(r, outcome) \in {r, Stopped(r, "budget"), Stopped(r, "ask")}
  BY DEF Judged
<1>2. Follows(r, r)
  BY DEF Follows, Fine
<1> QED
  BY <1>1, <1>2, StoppedFollows

LEMMA GateClosedKeeps ==
  ASSUME NEW r, Fine(r), NEW g
  PROVE  /\ Follows(r, GateClosed(r, g))
         /\ GateClosed(r, g).status \in {r.status, "running"}
         /\ GateClosed(r, g).flags \subseteq r.flags
<1>1. CASE r.status \notin Open \/ g \notin r.gates
  <2>1. GateClosed(r, g) = r
    BY <1>1 DEF GateClosed
  <2> QED
    BY <2>1 DEF Follows, Fine
<1>2. CASE r.status \in Open /\ g \in r.gates
  <2> DEFINE q == [r EXCEPT !.gates = @ \ {g}]
  <2>1. q = [r EXCEPT !.gates = r.gates \ {g}]
    OBVIOUS
  <2>2. /\ Good(q) /\ q.status = r.status /\ q.saved = r.saved /\ q.no = r.no
        /\ q.flags = r.flags
    BY <2>1 DEF Good, Runs, Fine
  <2>3. GateClosed(r, g) = IF q.gates = {} /\ q.status = "waiting_user" THEN To(q, "running") ELSE q
    BY <1>2 DEF GateClosed
  <2> HIDE DEF q
  <2>4. CASE q.gates = {} /\ q.status = "waiting_user"
    <3>1. q.status # "none" /\ "running" \in Open \cup Terminal
      BY <2>4 DEF Open, Working
    <3>2. /\ Good(To(q, "running")) /\ To(q, "running").status = "running"
          /\ To(q, "running").no = r.no /\ To(q, "running").saved = r.saved
          /\ To(q, "running").flags \subseteq r.flags
      BY <2>2, <3>1, ToKeeps
    <3>3. "running" \in Working /\ "waiting_user" \in Working /\ "running" \notin Resting
          /\ "running" \in Open
      BY DEF Working, Resting, Open
    <3> QED
      BY <1>2, <2>2, <2>3, <2>4, <3>2, <3>3 DEF Follows, Fine, HasReason, SavedWell
  <2>5. CASE ~(q.gates = {} /\ q.status = "waiting_user")
    BY <2>2, <2>3, <2>5 DEF Follows, Fine, HasReason, SavedWell
  <2> QED
    BY <2>4, <2>5
<1> QED
  BY <1>1, <1>2

LEMMA GateOpenedKeeps ==
  ASSUME NEW r, Fine(r), NEW g \in Gates
  PROVE  /\ Follows(r, GateOpenedIn(r, g))
         /\ GateOpenedIn(r, g).status \in {r.status, "waiting_user"}
         /\ GateOpenedIn(r, g).flags = r.flags
<1>1. CASE r.status \notin Open
  BY <1>1 DEF GateOpenedIn, Follows, Fine
<1>2. CASE r.status \in Open
  <2> DEFINE q == [r EXCEPT !.gates = @ \cup {g}]
  <2>1. q = [r EXCEPT !.gates = r.gates \cup {g}]
    OBVIOUS
  <2>2. /\ Good(q) /\ q.status = r.status /\ q.saved = r.saved /\ q.no = r.no
        /\ q.flags = r.flags /\ q.gates # {}
    BY <2>1 DEF Good, Runs, Fine
  <2>3. GateOpenedIn(r, g) = IF r.status = "running" THEN To(q, "waiting_user") ELSE q
    BY <1>2 DEF GateOpenedIn
  <2> HIDE DEF q
  <2>4. q.status # "none" /\ "waiting_user" \in Open \cup Terminal /\ "waiting_user" # "running"
    BY <1>2, <2>2 DEF Open, Working, Resting
  <2>5. LET w == To(q, "waiting_user") IN
          /\ Good(w) /\ w.status = "waiting_user" /\ w.no = r.no /\ w.saved = r.saved
          /\ w.flags = r.flags /\ w.gates # {}
    BY <2>2, <2>4, ToKeeps
  <2>6. "running" \in Working /\ "waiting_user" \in Working /\ "waiting_user" \notin Resting
        /\ "waiting_user" \in Open
    BY DEF Working, Resting, Open
  <2> QED
    BY <1>2, <2>2, <2>3, <2>5, <2>6 DEF Follows, Fine, HasReason, SavedWell
<1> QED
  BY <1>1, <1>2

LEMMA RecoveredFollows ==
  ASSUME NEW r, Fine(r)
  PROVE  /\ Follows(r, Recovered(r))
         /\ Recovered(r).status \notin Working
         /\ r.status \in Working => Recovered(r).status = "interrupted"
         /\ r.status \in Resting => Recovered(r).status = r.status
         /\ r.status \notin Open => Recovered(r).status = "none"
<1>0. r.no \in 0..MaxRuns /\ r.idle \in 0..MaxIdle /\ 0 \in 0..MaxIdle
  BY PlanRunAssumption DEF Fine, Good, Runs
<1>1. CASE r.saved \in Open
  <2> DEFINE s == IF r.saved \in Working THEN "interrupted" ELSE r.saved
  <2>1. Recovered(r) = [no |-> r.no, status |-> s, saved |-> s, flags |-> {}, gates |-> {},
                        idle |-> r.idle]
    BY <1>1 DEF Recovered, NoRun
  <2>2. s \in Resting
    BY <1>1 DEF Open, Working, Resting
  <2>3. r.status \in Open /\ r.no # 0
    BY <1>1 DEF Fine, Good, SavedWell, Open, Working, Resting
  <2>4. r.status \in Working => s = "interrupted"
    BY DEF Fine, SavedWell
  <2>5. r.status \in Resting => s = r.status
    BY DEF Fine, SavedWell, Working, Resting
  <2> HIDE DEF s
  <2>6. Good(Recovered(r))
    BY <1>0, <2>1, <2>2, <2>3 DEF Good, Runs, Open
  <2>7. HasReason(Recovered(r)) /\ SavedWell(Recovered(r))
    BY <2>1, <2>2 DEF HasReason, SavedWell, Open, Working, Resting
  <2>8. Recovered(r).status = s /\ Recovered(r).no = r.no /\ s \notin Working
    BY <2>1, <2>2 DEF Working, Resting
  <2> QED
    BY <2>3, <2>4, <2>5, <2>6, <2>7, <2>8 DEF Follows, Fine
<1>2. CASE r.saved \notin Open
  <2>1. Recovered(r) = [no |-> r.no, status |-> "none", saved |-> "none", flags |-> {},
                        gates |-> {}, idle |-> 0]
    BY <1>2 DEF Recovered, NoRun
  <2>2. r.status \notin Open
    BY <1>2 DEF Fine, SavedWell, Open, Working, Resting
  <2>3. Good(Recovered(r))
    BY <1>0, <2>1 DEF Good, Runs
  <2>4. HasReason(Recovered(r)) /\ SavedWell(Recovered(r)) /\ "none" \notin Open
    BY <2>1 DEF HasReason, SavedWell, Open, Working, Resting
  <2> QED
    BY <2>1, <2>2, <2>3, <2>4 DEF Follows, Fine, Open, Working, Resting
<1> QED
  BY <1>1, <1>2

-----------------------------------------------------------------------------
(* The inductive invariant.                                                *)

\* Cards are open, and flags set, only while a turn is there.
TurnHoldsAll == open # {} \/ turn.flags # {} => Live

\* No run is at work on a plan that is done or given up.
OverIsOver == plan \in {"completed", "cancelled"} => run.status \notin Open

IInv ==
  /\ TypeOK
  /\ Fine(run)
  /\ TurnHoldsAll
  /\ PauseHasTurn
  /\ ApprovalsStayInRun
  /\ AnswersReachAgent
  /\ OverIsOver

LEMMA InitInv == Init => IInv
<1> SUFFICES ASSUME Init PROVE IInv
  OBVIOUS
<1>1. run \in Runs
  BY PlanRunAssumption DEF Init, NoRun, Runs
<1>2. Fine(run)
  BY <1>1 DEF Init, NoRun, Fine, Good, HasReason, SavedWell, Open, Working, Resting
<1>3. opening \in [Launches -> 0..MaxOpening]
  BY PlanRunAssumption DEF Init
<1>4. turn \in Turns
  BY DEF Init, NoTurn, Turns
<1>5. conductor \in Conductors
  BY DEF Init, Idle, Conductors
<1>6. TypeOK
  BY <1>1, <1>3, <1>4, <1>5 DEF Init, TypeOK, PlanStatus
<1> QED
  BY <1>2, <1>6 DEF Init, IInv, TurnHoldsAll, PauseHasTurn, ApprovalsStayInRun, AnswersReachAgent,
                    OverIsOver, NoRun, NoTurn, Live

\* What is settled stays settled, and what is given now is settled.
LEMMA SettlingKeeps ==
  ASSUME TypeOK, NEW answers
  PROVE  /\ Settling(answers) \subseteq Decisions
         /\ \A d \in Decisions :
              d \in settled \/ <<run.no, d>> \in answers => d \in Settling(answers)
  BY DEF Settling, TypeOK

\* An answer stays within reach of the agent while the run stays the same one.
LEMMA AnswersStay ==
  ASSUME AnswersReachAgent, run'.no = run.no,
         \A d \in Decisions : decisions'[d] = "answered" =>
            decisions[d] = "answered" \/ <<run.no, d>> \in steers' \cup notes' \/ d \in settled',
         \A d \in Decisions : d \in settled => d \in settled',
         \A d \in Decisions : <<run.no, d>> \in steers \cup notes =>
            <<run.no, d>> \in steers' \cup notes' \/ d \in settled'
  PROVE  AnswersReachAgent'
  BY DEF AnswersReachAgent

LEMMA TurnStep ==
  ASSUME TypeOK, NEW origin \in Origins
  PROVE  Begun(origin) \in Turns /\ Begun(origin).status = "live"
  BY DEF Begun, Turns, TurnFlags

\* A turn begins: the run follows, the turn is there.
LEMMA BeginKeeps ==
  ASSUME IInv, NEW r, Good(r), HasReason(r), SavedWell(r) \/ r.status \in Open, r.no = run.no,
         NEW origin \in Origins, NEW answers, Begin(origin, r, answers)
  PROVE  /\ Follows(r, run') /\ run'.no = run.no
         /\ turn' \in Turns /\ Live'
         /\ settled' \subseteq Decisions
         /\ \A d \in Decisions : d \in settled \/ <<run.no, d>> \in answers => d \in settled'
         /\ open' = open /\ armed' = armed /\ steers' = steers
<1>1. run' = TurnStarted(r, origin) /\ turn' = Begun(origin) /\ settled' = Settling(answers)
      /\ open' = open /\ armed' = armed /\ steers' = steers
  BY DEF Begin
<1>2. TypeOK
  BY DEF IInv
<1>3. Follows(r, run') /\ run'.no = run.no
  BY <1>1, TurnStartedFollows DEF Follows
<1>4. turn' \in Turns /\ Live'
  BY <1>1, <1>2, TurnStep DEF Live
<1> QED
  BY <1>1, <1>2, <1>3, <1>4, SettlingKeeps

\* A turn is refused over the one under way: the run follows, and that turn stays.
LEMMA CollideKeeps ==
  ASSUME IInv, NEW origin \in Origins, NEW answers, Collide(origin, run, answers)
  PROVE  /\ Follows(run, run') /\ run'.no = run.no
         /\ turn' \in Turns /\ Live'
         /\ settled' \subseteq Decisions
         /\ \A d \in Decisions :
              d \in settled \/ <<run.no, d>> \in answers \cup (steers \ steers') => d \in settled'
         /\ open' = {} /\ armed' = {} /\ steers' \in {{}, steers}
<1> DEFINE r == TurnStarted(run, origin)
<1>1. /\ Live
      /\ run' = TurnEnded(r, "error", Counts(origin))
      /\ settled' = Settling(answers \cup (steers \ steers'))
      /\ open' = {} /\ armed' = {} /\ steers' \in {{}, steers}
  BY DEF Collide
<1>2. turn' = [turn EXCEPT !.flags = (turn.flags \ {"visible"})
                                      \cup (IF open = {} THEN {} ELSE {"hung"})]
  BY DEF Collide
<1>3. TypeOK
  BY DEF IInv
<1>4. Follows(run, r)
  BY TurnStartedFollows DEF IInv, Fine
<1> HIDE DEF r
<1>5. Follows(r, run')
  BY <1>1, <1>4, TurnEndedFollows DEF Follows, Stops
<1>6. Follows(run, run') /\ run'.no = run.no
  BY <1>4, <1>5 DEF Follows
<1>7. turn' \in Turns /\ turn'.status = turn.status
  BY <1>2, <1>3 DEF TypeOK, Turns, TurnFlags
<1>8. Live'
  BY <1>1, <1>7 DEF Live
<1> QED
  BY <1>1, <1>3, <1>6, <1>7, <1>8, SettlingKeeps

\* After a turn the conductor's own bookkeeping is well typed.
LEMMA AfterTurnKeeps ==
  ASSUME NEW r, Fine(r), NEW outcome, AfterTurn(r, outcome)
  PROVE  /\ Follows(r, run')
         /\ run' = r \/ run'.status \notin {"running", "waiting_provider"}
         /\ conductor' \in Conductors
<1>1. run' = Judged(r, outcome)
  BY DEF AfterTurn
<1>2. conductor' = Idle \/ conductor' = [Idle EXCEPT !.step = "deciding"]
  BY DEF AfterTurn
<1>3. conductor' \in Conductors
  BY <1>2 DEF Idle, Conductors
<1> QED
  BY <1>1, <1>3, JudgedFollows

-----------------------------------------------------------------------------
(* Each action keeps the invariant.                                        *)

\* A step of one run: the invariant is kept, and a run that is over is not reopened.
Step == IInv' /\ Follows(run, run')

\* What is left to show of a step of one run: the types of the chat, the turn, the pause and
\* the answers.
LEMMA OneRun ==
  ASSUME IInv, Follows(run, run'), run'.no = run.no, plan' = plan,
         turn' \in Turns, TurnHoldsAll', Live' \/ Unhung(run'),
         armed' \subseteq open', open' \subseteq Gates,
         approved' \subseteq approved,
         steers' \cup notes' \subseteq (1..MaxRuns) \X Decisions,
         decisions' = decisions,
         settled' \subseteq Decisions,
         \A d \in Decisions : d \in settled => d \in settled',
         \A d \in Decisions : <<run.no, d>> \in steers \cup notes =>
            <<run.no, d>> \in steers' \cup notes' \/ d \in settled',
         conductor' \in Conductors,
         opening' \in [Launches -> 0..MaxOpening]
  PROVE  Step
<1>1. TypeOK /\ AnswersReachAgent /\ ApprovalsStayInRun /\ OverIsOver
  BY DEF IInv
<1>2. Fine(run') /\ run' \in Runs
  BY DEF Follows, Fine, Good
<1>3. TypeOK'
  BY <1>1, <1>2 DEF TypeOK
<1>4. AnswersReachAgent'
  BY <1>1, AnswersStay
<1>5. ApprovalsStayInRun'
  BY <1>1 DEF ApprovalsStayInRun
<1>6. OverIsOver'
  BY <1>1 DEF OverIsOver, Follows
<1>7. PauseHasTurn'
  BY DEF PauseHasTurn, Unhung
<1> QED
  BY <1>2, <1>3, <1>4, <1>5, <1>6, <1>7 DEF IInv, Step

\* A run that is left alone follows itself.
LEMMA Itself ==
  ASSUME IInv
  PROVE  /\ Follows(run, run) /\ (Live \/ Unhung(run))
         /\ TypeOK /\ run.no \in 0..MaxRuns
  BY DEF IInv, Follows, PauseHasTurn, Unhung, TypeOK, Runs

LEMMA TurnFailedTyped == ASSUME TypeOK PROVE TurnFailed \in Conductors
  BY DEF TypeOK, TurnFailed, Conductors

LEMMA SendInv == ASSUME IInv, Send PROVE Step
<1>1. TypeOK /\ "user" \in Origins
  BY DEF IInv, Origins
<1>2. UNCHANGED <<plan, decisions, notes, approved, opening>>
  BY DEF Send
<1>3. CASE Begin("user", run, {}) /\ UNCHANGED conductor
  <2>1. /\ Follows(run, run') /\ run'.no = run.no /\ turn' \in Turns /\ Live'
        /\ settled' \subseteq Decisions
        /\ \A d \in Decisions : d \in settled => d \in settled'
        /\ open' = open /\ armed' = armed /\ steers' = steers
    BY <1>1, <1>3, BeginKeeps DEF IInv, Fine
  <2> QED
    BY <1>1, <1>2, <1>3, <2>1, OneRun DEF TypeOK, TurnHoldsAll
<1>4. CASE Collide("user", run, {}) /\ conductor' = TurnFailed
  <2>1. /\ Follows(run, run') /\ run'.no = run.no /\ turn' \in Turns /\ Live'
        /\ settled' \subseteq Decisions
        /\ \A d \in Decisions :
             d \in settled \/ <<run.no, d>> \in steers \ steers' => d \in settled'
        /\ open' = {} /\ armed' = {} /\ steers' \in {{}, steers}
    BY <1>1, <1>4, CollideKeeps
  <2>2. conductor' \in Conductors
    BY <1>1, <1>4, TurnFailedTyped
  <2> QED
    BY <1>1, <1>2, <2>1, <2>2, OneRun DEF TypeOK, TurnHoldsAll
<1> QED
  BY <1>3, <1>4 DEF Send

LEMMA SteersDeliveredInv == ASSUME IInv, SteersDelivered PROVE Step
<1>1. /\ settled' = Settling(steers) /\ steers' = {} /\ Live
      /\ UNCHANGED <<run, plan, decisions, turn, open, armed, notes, approved, opening, conductor>>
  BY DEF SteersDelivered, service
<1>2. TypeOK /\ TurnHoldsAll
  BY DEF IInv
<1>3. /\ settled' \subseteq Decisions
      /\ \A d \in Decisions : d \in settled \/ <<run.no, d>> \in steers => d \in settled'
  BY <1>1, <1>2, SettlingKeeps
<1>4. Live' /\ TurnHoldsAll'
  BY <1>1, <1>2 DEF Live, TurnHoldsAll
<1> QED
  BY <1>1, <1>2, <1>3, <1>4, Itself, OneRun DEF TypeOK

LEMMA CancelInv == ASSUME IInv, Cancel PROVE Step
<1>1. /\ Live /\ turn' = [turn EXCEPT !.flags = turn.flags \cup {"cancelled"}]
      /\ UNCHANGED <<run, plan, decisions, open, armed, steers, notes, approved, settled, opening,
                     conductor>>
  BY DEF Cancel, service
<1>2. TypeOK
  BY DEF IInv
<1>3. turn' \in Turns /\ turn'.status = turn.status
  BY <1>1, <1>2 DEF TypeOK, Turns, TurnFlags
<1>4. Live' /\ TurnHoldsAll'
  BY <1>1, <1>3 DEF Live, TurnHoldsAll
<1> QED
  BY <1>1, <1>2, <1>3, <1>4, Itself, OneRun DEF TypeOK

LEMMA ConversationLeftInv == ASSUME IInv, ConversationLeft PROVE Step
<1>1. /\ Live /\ open' = {} /\ armed' = {}
      /\ turn' = [turn EXCEPT !.flags = turn.flags \cup {"cancelled"}
                                       \cup (IF open = {} THEN {} ELSE {"hung"})]
      /\ UNCHANGED <<run, plan, decisions, steers, notes, approved, settled, opening, conductor>>
  BY DEF ConversationLeft, service
<1>2. TypeOK
  BY DEF IInv
<1>3. turn' \in Turns /\ turn'.status = turn.status
  BY <1>1, <1>2 DEF TypeOK, Turns, TurnFlags
<1>4. Live' /\ TurnHoldsAll'
  BY <1>1, <1>3 DEF Live, TurnHoldsAll
<1> QED
  BY <1>1, <1>2, <1>3, <1>4, Itself, OneRun DEF TypeOK

LEMMA TurnEndsInv == ASSUME IInv, NEW stop \in Stops, TurnEnds(stop) PROVE Step
<1> DEFINE r == TurnEnded(run, stop, "idle" \in turn.flags)
<1>1. /\ turn' = NoTurn /\ open' = {} /\ armed' = {} /\ steers' = {}
      /\ UNCHANGED <<plan, decisions, notes, approved, opening>>
  BY DEF TurnEnds
<1>2. TypeOK /\ Fine(run)
  BY DEF IInv
<1>3. Follows(run, r) /\ (run.status \in Open => Unhung(r))
  BY <1>2, TurnEndedFollows
<1>4. IF conductor.step = "deciding"
      THEN run' = r /\ conductor' = [conductor EXCEPT !.pending = Outcome(stop)]
      ELSE AfterTurn(r, Outcome(stop))
  BY DEF TurnEnds
<1>5. /\ Outcome(stop) = "failed" \/ steers = {}
      /\ settled' = IF stop \in {"cancelled", "error"} THEN Settling(steers) ELSE settled
  BY DEF TurnEnds
<1> HIDE DEF r
<1>6. /\ Follows(run, run') /\ run'.no = run.no /\ Unhung(run')
      /\ conductor' \in Conductors
  <2>1. CASE conductor.step = "deciding"
    <3>1. conductor' \in Conductors
      BY <1>2, <1>4, <2>1 DEF TypeOK, Outcome, Conductors
    <3> QED
      BY <1>3, <1>4, <2>1, <3>1 DEF Follows, Unhung, Open, Working
  <2>2. CASE conductor.step # "deciding"
    <3>1. AfterTurn(r, Outcome(stop)) /\ Fine(r)
      BY <1>3, <1>4, <2>2 DEF Follows
    <3> QED
      BY <1>3, <3>1, AfterTurnKeeps DEF Follows, Unhung, Open, Working
  <2> QED
    BY <2>1, <2>2
<1>7. /\ settled' \subseteq Decisions
      /\ \A d \in Decisions : d \in settled \/ <<run.no, d>> \in steers => d \in settled'
  <2>1. CASE stop \in {"cancelled", "error"}
    BY <1>2, <1>5, <2>1, SettlingKeeps
  <2>2. CASE stop \notin {"cancelled", "error"}
    BY <1>2, <1>5, <2>2 DEF TypeOK, Outcome, Stops
  <2> QED
    BY <2>1, <2>2
<1>8. turn' \in Turns /\ TurnHoldsAll'
  BY <1>1 DEF NoTurn, Turns, TurnHoldsAll
<1> QED
  BY <1>1, <1>2, <1>6, <1>7, <1>8, OneRun DEF TypeOK

LEMMA TurnGoesOnInv == ASSUME IInv, NEW stop \in Stops, TurnGoesOn(stop) PROVE Step
<1> DEFINE q == TurnEnded(run, stop, "idle" \in turn.flags)
           r == TurnStarted(q, "user")
<1>1. /\ turn' = Begun("user") /\ open' = {} /\ armed' = {} /\ steers' = {}
      /\ settled' = Settling(steers)
      /\ UNCHANGED <<plan, decisions, notes, approved, opening>>
  BY DEF TurnGoesOn
<1>2. TypeOK /\ Fine(run) /\ "user" \in Origins
  BY DEF IInv, Origins
<1>3. Follows(run, q)
  BY <1>2, TurnEndedFollows
<1>4. IF conductor.step = "turn"
      THEN AfterTurn(r, conductor.pending)
      ELSE run' = r /\ UNCHANGED conductor
  BY DEF TurnGoesOn
<1> HIDE DEF q
<1>5. Follows(q, r)
  BY <1>3, TurnStartedFollows DEF Follows, Fine
<1>6. Follows(run, r)
  BY <1>3, <1>5 DEF Follows
<1> HIDE DEF r
<1>7. /\ Follows(run, run') /\ run'.no = run.no
      /\ conductor' \in Conductors
  <2>1. CASE conductor.step = "turn"
    <3>1. AfterTurn(r, conductor.pending) /\ Fine(r)
      BY <1>4, <1>6, <2>1 DEF Follows
    <3> QED
      BY <1>6, <3>1, AfterTurnKeeps DEF Follows
  <2>2. CASE conductor.step # "turn"
    BY <1>2, <1>4, <1>6, <2>2 DEF Follows, TypeOK
  <2> QED
    BY <2>1, <2>2
<1>8. turn' \in Turns /\ Live' /\ TurnHoldsAll'
  BY <1>1, <1>2, TurnStep DEF Live, TurnHoldsAll
<1>9. /\ settled' \subseteq Decisions
      /\ \A d \in Decisions : d \in settled \/ <<run.no, d>> \in steers => d \in settled'
  BY <1>1, <1>2, SettlingKeeps
<1> QED
  BY <1>1, <1>2, <1>7, <1>8, <1>9, OneRun DEF TypeOK

\* What was sent is given back: nothing but the conductor moves on.
LEMMA SteersReturnedInv == ASSUME IInv, NEW stop \in Stops, SteersReturned(stop) PROVE Step
<1> DEFINE r == TurnEnded(run, stop, "idle" \in turn.flags)
<1>1. /\ turn' = [NoTurn EXCEPT !.status = "returned"]
      /\ open' = {} /\ armed' = {} /\ steers' = {}
      /\ settled' = Settling(steers)
      /\ UNCHANGED <<plan, decisions, notes, approved, opening>>
  BY DEF SteersReturned
<1>2. TypeOK /\ Fine(run)
  BY DEF IInv
<1>3. Follows(run, r) /\ (run.status \in Open => Unhung(r))
  BY <1>2, TurnEndedFollows
<1>4. IF conductor.step = "turn"
      THEN AfterTurn(r, conductor.pending)
      ELSE run' = r /\ UNCHANGED conductor
  BY DEF SteersReturned
<1> HIDE DEF r
<1>5. Unhung(r)
  BY <1>3 DEF Follows, Unhung, Open, Working
<1>6. /\ Follows(run, run') /\ run'.no = run.no /\ Unhung(run')
      /\ conductor' \in Conductors
  <2>1. CASE conductor.step = "turn"
    <3>1. AfterTurn(r, conductor.pending) /\ Fine(r)
      BY <1>3, <1>4, <2>1 DEF Follows
    <3> QED
      BY <1>3, <1>5, <3>1, AfterTurnKeeps DEF Follows, Unhung
  <2>2. CASE conductor.step # "turn"
    BY <1>2, <1>3, <1>4, <1>5, <2>2 DEF Follows, TypeOK
  <2> QED
    BY <2>1, <2>2
<1>7. turn' \in Turns /\ TurnHoldsAll'
  BY <1>1 DEF NoTurn, Turns, TurnHoldsAll
<1>8. /\ settled' \subseteq Decisions
      /\ \A d \in Decisions : d \in settled \/ <<run.no, d>> \in steers => d \in settled'
  BY <1>1, <1>2, SettlingKeeps
<1> QED
  BY <1>1, <1>2, <1>6, <1>7, <1>8, OneRun DEF TypeOK

LEMMA VerdictSendInv == ASSUME IInv, VerdictSend PROVE Step
<1>1. /\ TypeOK /\ Fine(run) /\ TurnHoldsAll
      /\ "conductor" \in Origins
      /\ UNCHANGED <<plan, decisions, approved, opening>>
  BY DEF IInv, Origins, VerdictSend
<1>2. CASE "visible" \in turn.flags
  <2>1. AfterTurn(run, conductor.pending) /\ UNCHANGED <<turn, open, armed, steers, notes, settled>>
    BY <1>2 DEF VerdictSend
  <2>2. Follows(run, run') /\ run'.no = run.no
        /\ conductor' \in Conductors
    BY <1>1, <2>1, AfterTurnKeeps DEF Follows
  <2>3. Live' /\ TurnHoldsAll'
    BY <1>1, <1>2, <2>1 DEF TurnHoldsAll, Live
  <2> QED
    BY <1>1, <2>1, <2>2, <2>3, OneRun DEF TypeOK
<1>3. CASE notes' = {} /\ Begin("conductor", run, notes)
           /\ conductor' = [conductor EXCEPT !.step = "turn"]
  <2>1. /\ Follows(run, run') /\ run'.no = run.no /\ turn' \in Turns /\ Live'
        /\ settled' \subseteq Decisions
        /\ \A d \in Decisions : d \in settled \/ <<run.no, d>> \in notes => d \in settled'
        /\ open' = open /\ armed' = armed /\ steers' = steers
    BY <1>1, <1>3, BeginKeeps DEF Fine
  <2>2. conductor' \in Conductors
    BY <1>1, <1>3 DEF TypeOK, Conductors
  <2> QED
    BY <1>1, <1>3, <2>1, <2>2, OneRun DEF TypeOK, TurnHoldsAll
<1>4. CASE notes' = {} /\ Collide("conductor", run, notes) /\ conductor' = Idle
  <2>1. /\ Follows(run, run') /\ run'.no = run.no /\ turn' \in Turns /\ Live'
        /\ settled' \subseteq Decisions
        /\ \A d \in Decisions : d \in settled \/ <<run.no, d>> \in notes \cup (steers \ steers')
                                => d \in settled'
        /\ open' = {} /\ armed' = {} /\ steers' \in {{}, steers}
    BY <1>1, <1>4, CollideKeeps
  <2>2. conductor' \in Conductors
    BY <1>4 DEF Idle, Conductors
  <2> QED
    BY <1>1, <1>4, <2>1, <2>2, OneRun DEF TypeOK, TurnHoldsAll
<1> QED
  BY <1>2, <1>3, <1>4 DEF VerdictSend

LEMMA VerdictStopsInv == ASSUME IInv, NEW kind, VerdictStops(kind) PROVE Step
<1> DEFINE r == Stopped(run, kind)
<1>1. /\ TypeOK /\ Fine(run) /\ TurnHoldsAll
      /\ AfterTurn(r, conductor.pending)
      /\ UNCHANGED <<plan, decisions, turn, open, armed, steers, notes, approved, settled, opening>>
  BY DEF IInv, VerdictStops, chat
<1>2. Follows(run, r) /\ Unhung(r)
  BY <1>1, StoppedFollows DEF Unhung
<1> HIDE DEF r
<1>3. Follows(run, run') /\ run'.no = run.no /\ Unhung(run')
      /\ conductor' \in Conductors
  BY <1>1, <1>2, AfterTurnKeeps DEF Follows, Unhung
<1>4. TurnHoldsAll'
  BY <1>1 DEF TurnHoldsAll, Live
<1> QED
  BY <1>1, <1>3, <1>4, OneRun DEF TypeOK

\* The verdict comes to nothing.
LEMMA VerdictLostInv == ASSUME IInv, VerdictLost PROVE Step
<1>1. /\ TypeOK /\ Fine(run) /\ TurnHoldsAll
      /\ AfterTurn(run, conductor.pending)
      /\ notes' \subseteq notes /\ settled' = Settling(notes \ notes')
      /\ UNCHANGED <<plan, decisions, turn, open, armed, steers, approved, opening>>
  BY DEF IInv, VerdictLost
<1>2. /\ Follows(run, run') /\ run'.no = run.no /\ conductor' \in Conductors
      /\ run' = run \/ run'.status \notin {"running", "waiting_provider"}
  BY <1>1, AfterTurnKeeps DEF Follows
<1>3. TurnHoldsAll' /\ (Live' \/ Unhung(run'))
  <2>1. CASE run' = run
    BY <1>1, <2>1, Itself DEF TurnHoldsAll, Live
  <2>2. CASE run'.status \notin {"running", "waiting_provider"}
    BY <1>1, <2>2 DEF TurnHoldsAll, Live, Unhung
  <2> QED
    BY <1>2, <2>1, <2>2
<1>4. /\ settled' \subseteq Decisions
      /\ \A d \in Decisions :
           d \in settled \/ <<run.no, d>> \in notes \ notes' => d \in settled'
  BY <1>1, SettlingKeeps
<1> QED
  BY <1>1, <1>2, <1>3, <1>4, OneRun DEF TypeOK

LEMMA GateOpensInv == ASSUME IInv, NEW g \in Gates, GateOpens(g) PROVE Step
<1>1. /\ TypeOK /\ Fine(run) /\ TurnHoldsAll /\ Live
      /\ run' = GateOpenedIn(run, g)
      /\ open' = open \cup {g}
      /\ armed' \in {armed, armed \cup {g}}
      /\ UNCHANGED <<plan, decisions, turn, steers, notes, approved, settled, opening,
                     conductor>>
  BY DEF IInv, GateOpens
<1>2. Follows(run, run') /\ run'.no = run.no
  BY <1>1, GateOpenedKeeps DEF Follows
<1>3. Live' /\ TurnHoldsAll'
  BY <1>1 DEF TurnHoldsAll, Live
<1>4. armed' \subseteq open' /\ open' \subseteq Gates
  BY <1>1 DEF TypeOK
<1> QED
  BY <1>1, <1>2, <1>3, <1>4, OneRun DEF TypeOK

LEMMA GateAnsweredInv == ASSUME IInv, NEW g \in Gates, GateAnswered(g) PROVE Step
<1>1. /\ TypeOK /\ Fine(run) /\ TurnHoldsAll /\ g \in open
      /\ run' = GateClosed(run, g)
      /\ open' = open \ {g} /\ armed' = armed \ {g}
      /\ UNCHANGED <<plan, decisions, turn, steers, notes, approved, settled, opening,
                     conductor>>
  BY DEF IInv, GateAnswered
<1>2. Follows(run, run') /\ run'.no = run.no
  BY <1>1, GateClosedKeeps DEF Follows
<1>3. Live' /\ TurnHoldsAll'
  BY <1>1 DEF TurnHoldsAll, Live
<1>4. armed' \subseteq open' /\ open' \subseteq Gates
  BY <1>1 DEF TypeOK
<1> QED
  BY <1>1, <1>2, <1>3, <1>4, OneRun DEF TypeOK

LEMMA UseApprovalInv == ASSUME IInv, NEW a, UseApproval(a) PROVE Step
<1>1. /\ TypeOK /\ TurnHoldsAll /\ Live
      /\ approved' = approved \ {a}
      /\ UNCHANGED <<run, plan, decisions, turn, open, armed, steers, notes, settled, opening,
                     conductor>>
  BY DEF IInv, UseApproval, service
<1>2. Live' /\ TurnHoldsAll'
  BY <1>1 DEF TurnHoldsAll, Live
<1> QED
  BY <1>1, <1>2, Itself, OneRun DEF TypeOK

\* A change of an open run's status while a turn is there.
LEMMA ProviderInv ==
  ASSUME IInv, NEW status \in {"running", "waiting_provider"},
         run.status \in {"running", "waiting_provider"}, Live,
         run' = To(run, status), UNCHANGED <<plan, decisions, chat, conductor>>
  PROVE  Step
<1>1. /\ TypeOK /\ Fine(run) /\ TurnHoldsAll
      /\ UNCHANGED <<turn, open, armed, steers, notes, approved, settled, opening>>
  BY DEF IInv, chat
<1>2. status \in Open \cup Terminal /\ run.status # "none" /\ status \in Working
      /\ status # "waiting_user"
  BY DEF Open, Working
<1>3. /\ Good(run') /\ run'.status = status /\ run'.saved = run.saved /\ run'.no = run.no
  BY <1>1, <1>2, ToKeeps DEF Fine
<1>4. run.saved \in Working
  BY <1>1 DEF Fine, SavedWell, Working
<1>5. Follows(run, run')
  BY <1>2, <1>3, <1>4 DEF Follows, Fine, HasReason, SavedWell, Open, Working, Resting
<1>6. Live' /\ TurnHoldsAll'
  BY <1>1 DEF TurnHoldsAll, Live
<1> QED
  BY <1>1, <1>3, <1>5, <1>6, OneRun DEF TypeOK

\* The same for steps that change the plan, the decisions or what is approved.
LEMMA SameRun ==
  ASSUME IInv, Follows(run, run'), run'.no = run.no,
         plan' \in PlanStatus, plan' \in {"completed", "cancelled"} =>
            plan \in {"completed", "cancelled"} \/ run'.status \notin Open,
         turn' \in Turns, TurnHoldsAll', Live' \/ Unhung(run'),
         armed' \subseteq open', open' \subseteq Gates,
         steers' \cup notes' \cup approved' \subseteq (1..MaxRuns) \X Decisions,
         \A a \in approved' : a[1] = run.no,
         decisions' \in [Decisions -> {"none", "approval", "question", "answered"}],
         \A d \in Decisions : decisions'[d] = "answered" =>
            decisions[d] = "answered" \/ <<run.no, d>> \in steers' \cup notes' \/ d \in settled',
         settled' \subseteq Decisions,
         \A d \in Decisions : d \in settled => d \in settled',
         \A d \in Decisions : <<run.no, d>> \in steers \cup notes =>
            <<run.no, d>> \in steers' \cup notes' \/ d \in settled',
         conductor' = conductor,
         opening' \in [Launches -> 0..MaxOpening]
  PROVE  Step
<1>1. TypeOK /\ AnswersReachAgent /\ OverIsOver
  BY DEF IInv
<1>2. Fine(run') /\ run' \in Runs
  BY DEF Follows, Fine, Good
<1>3. TypeOK'
  BY <1>1, <1>2 DEF TypeOK
<1>4. AnswersReachAgent'
  BY <1>1, AnswersStay
<1>5. ApprovalsStayInRun'
  BY DEF ApprovalsStayInRun
<1>6. OverIsOver'
  BY <1>1 DEF OverIsOver, Follows
<1>7. PauseHasTurn'
  BY DEF PauseHasTurn, Unhung
<1> QED
  BY <1>2, <1>3, <1>4, <1>5, <1>6, <1>7 DEF IInv, Step

LEMMA GateDeferredInv == ASSUME IInv, NEW g \in Gates, GateDeferred(g) PROVE Step
<1>1. /\ TypeOK /\ Fine(run) /\ TurnHoldsAll /\ g \in armed /\ ApprovalsStayInRun
      /\ run' = Saved(IF g \in Approvals THEN GateClosed(run, g) ELSE run)
      /\ open' = open \ {g} /\ armed' = armed \ {g}
      /\ UNCHANGED <<plan, turn, steers, notes, approved, settled, opening, conductor>>
  BY DEF IInv, GateDeferred
<1>2. PICK d \in Decisions :
        decisions' = [decisions EXCEPT ![d] = IF g \in Approvals THEN "approval" ELSE "question"]
  BY DEF GateDeferred
<1>3. Follows(run, run') /\ run'.no = run.no
  <2>1. CASE g \in Approvals
    BY <1>1, <2>1, GateClosedKeeps, SavedKeeps DEF Follows, Fine, HasReason
  <2>2. CASE g \notin Approvals
    BY <1>1, <2>2, SavedKeeps DEF Follows, Fine, HasReason
  <2> QED
    BY <2>1, <2>2
<1>4. Live' /\ TurnHoldsAll'
  BY <1>1 DEF TurnHoldsAll, Live, TypeOK
<1>5. armed' \subseteq open' /\ open' \subseteq Gates
  BY <1>1 DEF TypeOK
<1>6. /\ decisions' \in [Decisions -> {"none", "approval", "question", "answered"}]
      /\ \A e \in Decisions : decisions'[e] = "answered" => decisions[e] = "answered"
  BY <1>1, <1>2 DEF TypeOK
<1> QED
  BY <1>1, <1>3, <1>4, <1>5, <1>6, SameRun DEF TypeOK, ApprovalsStayInRun

\* A turn is started for the run, or is to be, or the run is paused for want of money.
LEMMA LaunchKeeps ==
  ASSUME IInv, NEW origin \in Launches, NEW r, Fine(r), r.no = run.no, ~Live, Unhung(r),
         NEW answers \in SUBSET ((1..MaxRuns) \X Decisions), notes \subseteq answers,
         Launch(origin, r, answers)
  PROVE  /\ Follows(r, run') /\ run'.no = run.no
         /\ turn' \in Turns /\ TurnHoldsAll' /\ (Live' \/ Unhung(run'))
         /\ armed' \subseteq open' /\ open' \subseteq Gates
         /\ steers' \cup notes' \subseteq (1..MaxRuns) \X Decisions
         /\ settled' \subseteq Decisions
         /\ \A e \in Decisions : e \in settled => e \in settled'
         /\ \A e \in Decisions : <<run.no, e>> \in steers \cup answers =>
              <<run.no, e>> \in steers' \cup notes' \/ e \in settled'
         /\ opening' \in [Launches -> 0..MaxOpening]
<1>1. TypeOK /\ TurnHoldsAll /\ origin \in Origins
  BY DEF IInv, Launches, Origins
<1>2. Good(r) /\ HasReason(r) /\ SavedWell(r)
  BY DEF Fine
<1>3. CASE Begin(origin, r, answers) /\ notes' = {} /\ UNCHANGED opening
  <2>1. /\ Follows(r, run') /\ run'.no = run.no /\ turn' \in Turns /\ Live'
        /\ settled' \subseteq Decisions
        /\ \A e \in Decisions : e \in settled \/ <<run.no, e>> \in answers => e \in settled'
        /\ open' = open /\ armed' = armed /\ steers' = steers
    BY <1>1, <1>2, <1>3, BeginKeeps
  <2> QED
    BY <1>1, <1>3, <2>1 DEF TypeOK, TurnHoldsAll
<1>4. CASE \/ /\ run' = Paused(r) /\ notes' = answers
              /\ UNCHANGED <<turn, open, armed, steers, settled, opening>>
           \/ /\ opening["resume"] + opening["steer"] < MaxOpening
              /\ opening' = [opening EXCEPT ![origin] = opening[origin] + 1]
              /\ run' = r /\ notes' = answers
              /\ UNCHANGED <<turn, open, armed, steers, settled>>
  <2>1. Follows(r, run') /\ Unhung(run')
    <3>1. CASE run' = r
      BY <3>1 DEF Follows, Fine
    <3>2. CASE run' = Paused(r)
      BY <1>2, <3>2, PausedFollows, PausedKeeps DEF Unhung
    <3> QED
      BY <1>4, <3>1, <3>2
  <2>2. opening' \in [Launches -> 0..MaxOpening]
    <3>1. CASE opening' = opening
      BY <1>1, <3>1 DEF TypeOK
    <3>2. CASE /\ opening["resume"] + opening["steer"] < MaxOpening
               /\ opening' = [opening EXCEPT ![origin] = opening[origin] + 1]
      <4>1. \A o \in Launches : opening[o] \in 0..MaxOpening
        BY <1>1 DEF TypeOK
      <4>2. opening["resume"] \in Nat /\ opening["steer"] \in Nat
        BY <4>1, PlanRunAssumption DEF Launches
      <4>3. opening[origin] + 1 \in 0..MaxOpening
        <5>1. opening[origin] \in {opening["resume"], opening["steer"]}
          BY DEF Launches
        <5> QED
          BY <3>2, <4>2, <5>1, PlanRunAssumption
      <4> QED
        BY <1>1, <3>2, <4>3 DEF TypeOK
    <3> QED
      BY <1>4, <3>1, <3>2
  <2>3. turn' \in Turns /\ TurnHoldsAll'
    BY <1>1, <1>4 DEF TypeOK, TurnHoldsAll, Live
  <2>4. steers' \cup notes' \subseteq (1..MaxRuns) \X Decisions
    BY <1>1, <1>4 DEF TypeOK
  <2>5. run'.no = run.no
    BY <2>1 DEF Follows
  <2> QED
    BY <1>1, <1>4, <2>1, <2>2, <2>3, <2>4, <2>5 DEF TypeOK
<1> QED
  BY <1>3, <1>4 DEF Launch

LEMMA AnswerDecisionInv == ASSUME IInv, NEW d \in Decisions, AnswerDecision(d) PROVE Step
<1> DEFINE a == <<run.no, d>>
           r == Saved(run)
<1>1. /\ TypeOK /\ Fine(run) /\ TurnHoldsAll /\ ApprovalsStayInRun
      /\ run.status # "none"
      /\ decisions' = [decisions EXCEPT ![d] = "answered"]
      /\ approved' \in {approved, approved \cup {a}}
      /\ UNCHANGED <<plan, conductor>>
  BY DEF IInv, AnswerDecision
<1>2. run.no \in 1..MaxRuns /\ a \in (1..MaxRuns) \X Decisions /\ a[1] = run.no
  BY <1>1, PlanRunAssumption DEF Fine, Good, Runs
<1>3. /\ decisions' \in [Decisions -> {"none", "approval", "question", "answered"}]
      /\ \A e \in Decisions : decisions'[e] = "answered" => decisions[e] = "answered" \/ e = d
  BY <1>1 DEF TypeOK
<1>4. Follows(run, r) /\ r.no = run.no /\ r.status = run.status /\ r.flags = run.flags
  BY <1>1, SavedKeeps DEF Follows, Fine, HasReason
<1>5. approved' \subseteq (1..MaxRuns) \X Decisions /\ \A b \in approved' : b[1] = run.no
  BY <1>1, <1>2 DEF TypeOK, ApprovalsStayInRun
<1>6. \/ /\ steers' \cup notes' = steers \cup notes \cup {a} /\ run' = r
         /\ UNCHANGED <<turn, open, armed, settled, opening>>
      \/ ~Live /\ Launch("steer", r, notes \cup {a})
  BY DEF AnswerDecision
<1> HIDE DEF a, r
<1>7. CASE /\ steers' \cup notes' = steers \cup notes \cup {a} /\ run' = r
           /\ UNCHANGED <<turn, open, armed, settled, opening>>
  <2>1. TurnHoldsAll' /\ (Live' \/ Unhung(run'))
    BY <1>1, <1>4, <1>7, Itself DEF TurnHoldsAll, Live, Unhung
  <2>2. steers' \cup notes' \subseteq (1..MaxRuns) \X Decisions
    BY <1>1, <1>2, <1>7 DEF TypeOK
  <2>3. <<run.no, d>> \in steers' \cup notes'
    BY <1>7 DEF a
  <2> QED
    BY <1>1, <1>3, <1>4, <1>5, <1>7, <2>1, <2>2, <2>3, SameRun DEF TypeOK
<1>8. CASE ~Live /\ Launch("steer", r, notes \cup {a})
  <2>1. "steer" \in Launches /\ Fine(r) /\ Unhung(r)
    BY <1>4, <1>8, Itself DEF Launches, Follows, Unhung
  <2>2. notes \cup {a} \in SUBSET ((1..MaxRuns) \X Decisions)
    BY <1>1, <1>2 DEF TypeOK
  <2>3. /\ Follows(r, run') /\ run'.no = run.no
        /\ turn' \in Turns /\ TurnHoldsAll' /\ (Live' \/ Unhung(run'))
        /\ armed' \subseteq open' /\ open' \subseteq Gates
        /\ steers' \cup notes' \subseteq (1..MaxRuns) \X Decisions
        /\ settled' \subseteq Decisions
        /\ \A e \in Decisions : e \in settled => e \in settled'
        /\ \A e \in Decisions : <<run.no, e>> \in steers \cup (notes \cup {a}) =>
             <<run.no, e>> \in steers' \cup notes' \/ e \in settled'
        /\ opening' \in [Launches -> 0..MaxOpening]
    BY <1>4, <1>8, <2>1, <2>2, LaunchKeeps
  <2>4. Follows(run, run')
    BY <1>4, <2>3 DEF Follows
  <2>5. <<run.no, d>> \in steers' \cup notes' \/ d \in settled'
    BY <2>3 DEF a
  <2>6. \A e \in Decisions : <<run.no, e>> \in steers \cup notes =>
          <<run.no, e>> \in steers' \cup notes' \/ e \in settled'
    BY <2>3
  <2> QED
    BY <1>1, <1>3, <1>5, <2>3, <2>4, <2>5, <2>6, SameRun DEF TypeOK
<1> QED
  BY <1>6, <1>7, <1>8

\* A new run.
LEMMA StartInv == ASSUME IInv, Start PROVE IInv'
<1> DEFINE r == NewRun
<1>1. /\ TypeOK /\ Fine(run) /\ TurnHoldsAll
      /\ run.no < MaxRuns /\ plan \in {"active", "stuck", "blocked"}
      /\ approved' = {} /\ notes' = {}
      /\ decisions' = [d \in Decisions |-> "none"]
      /\ settled' = {}
      /\ UNCHANGED <<plan, open, armed, steers, opening, conductor>>
  BY DEF IInv, Start, Runnable, Inherited
<1>2. run.no \in 0..MaxRuns /\ run.flags \subseteq RunFlags
  BY <1>1 DEF TypeOK, Runs
<1>3. run.no + 1 \in 1..MaxRuns
  BY <1>1, <1>2, PlanRunAssumption
<1>4. r = [no |-> run.no + 1, status |-> "running", saved |-> "running",
           flags |-> run.flags \cap {"hold"}, gates |-> {}, idle |-> 0]
  BY DEF NewRun
<1>5. \/ Live /\ run' = r /\ turn' = [turn EXCEPT !.flags = turn.flags \ {"idle"}]
      \/ run' = TurnStarted(r, "run") /\ turn' = Begun("run")
  BY DEF Start
<1> HIDE DEF r
<1>6. Good(r)
  BY <1>2, <1>3, <1>4, PlanRunAssumption DEF Good, Runs, Open, Working, RunFlags
<1>7. HasReason(r) /\ SavedWell(r) /\ Unhung(r) /\ r.status = "running"
  BY <1>4 DEF HasReason, SavedWell, Unhung, Open, Working, Resting
<1>8. Fine(run') /\ turn' \in Turns /\ Live'
  <2>1. CASE Live /\ run' = r /\ turn' = [turn EXCEPT !.flags = turn.flags \ {"idle"}]
    <3>1. turn' \in Turns /\ turn'.status = turn.status
      BY <1>1, <2>1 DEF TypeOK, Turns
    <3> QED
      BY <1>6, <1>7, <2>1, <3>1 DEF Live, Fine
  <2>2. CASE run' = TurnStarted(r, "run") /\ turn' = Begun("run")
    <3>1. "run" \in Origins
      BY DEF Origins
    <3>2. Fine(run')
      BY <1>6, <1>7, <2>2, TurnStartedFollows DEF Follows
    <3> QED
      BY <1>1, <2>2, <3>1, <3>2, TurnStep DEF Live
  <2> QED
    BY <1>5, <2>1, <2>2
<1>9. TurnHoldsAll'
  BY <1>8 DEF TurnHoldsAll
<1>10. TypeOK'
  <2>1. run' \in Runs
    BY <1>8 DEF Fine, Good
  <2> QED
    BY <1>1, <1>8, <2>1 DEF TypeOK
<1>11. PauseHasTurn' /\ ApprovalsStayInRun' /\ AnswersReachAgent' /\ OverIsOver'
  BY <1>1, <1>8 DEF PauseHasTurn, ApprovalsStayInRun, AnswersReachAgent, OverIsOver
<1> QED
  BY <1>8, <1>9, <1>10, <1>11 DEF IInv

LEMMA StartRefusedInv == ASSUME IInv, StartRefused PROVE Step
<1>1. /\ TypeOK /\ TurnHoldsAll
      /\ approved' = {} /\ notes' = {} /\ settled' = Settling(notes)
      /\ UNCHANGED <<run, plan, decisions, turn, open, armed, steers, opening,
                     conductor>>
  BY DEF IInv, StartRefused, service
<1>2. /\ settled' \subseteq Decisions
      /\ \A d \in Decisions : d \in settled \/ <<run.no, d>> \in notes => d \in settled'
  BY <1>1, SettlingKeeps
<1>3. TurnHoldsAll' /\ (Live' \/ Unhung(run'))
  BY <1>1, Itself DEF TurnHoldsAll, Live, Unhung
<1> QED
  BY <1>1, <1>2, <1>3, Itself, OneRun DEF TypeOK

\* A pause asked for is made at once, or waits for the turn.
LEMMA PauseAskedKeeps ==
  ASSUME IInv, run.status \in Open, PauseAsked, UNCHANGED open
  PROVE  /\ Follows(run, run') /\ run'.no = run.no
         /\ turn' \in Turns /\ TurnHoldsAll' /\ (Live' \/ Unhung(run'))
<1>1. TypeOK /\ Fine(run) /\ TurnHoldsAll
  BY DEF IInv
<1>2. CASE Live
  <2>1. /\ run' = [run EXCEPT !.flags = run.flags \cup {"pausing"}]
        /\ turn' = [turn EXCEPT !.flags = turn.flags \cup {"pause"}]
    BY <1>2 DEF PauseAsked, TurnTold
  <2>2. /\ Good(run') /\ run'.status = run.status /\ run'.saved = run.saved /\ run'.no = run.no
        /\ run'.gates = run.gates /\ run.flags \subseteq run'.flags
    BY <1>1, <2>1 DEF Fine, Good, Runs, RunFlags
  <2>3. Follows(run, run')
    BY <1>1, <2>2 DEF Follows, Fine, HasReason, SavedWell
  <2>4. turn' \in Turns /\ turn'.status = turn.status
    BY <1>1, <2>1 DEF TypeOK, Turns, TurnFlags
  <2> QED
    BY <1>2, <2>2, <2>3, <2>4 DEF Live, TurnHoldsAll
<1>3. CASE ~Live
  <2>1. run' = Paused(run) /\ turn' = turn
    BY <1>3 DEF PauseAsked
  <2>2. Follows(run, run') /\ run'.no = run.no /\ run'.status = "paused"
    BY <1>1, <2>1, PausedFollows DEF Follows, Fine
  <2> QED
    BY <1>1, <2>1, <2>2 DEF TypeOK, TurnHoldsAll, Live, Unhung
<1> QED
  BY <1>2, <1>3

LEMMA PauseInv == ASSUME IInv, Pause PROVE Step
<1>1. /\ TypeOK /\ run.status \in Open /\ PauseAsked
      /\ UNCHANGED <<plan, decisions, open, armed, steers, notes, approved, settled, opening,
                     conductor>>
  BY DEF IInv, Pause, Active
<1>2. /\ Follows(run, run') /\ run'.no = run.no
      /\ turn' \in Turns /\ TurnHoldsAll' /\ (Live' \/ Unhung(run'))
  BY <1>1, PauseAskedKeeps
<1> QED
  BY <1>1, <1>2, OneRun DEF TypeOK

\* One turn less waits for its conversation.
LEMMA OneLaunchLess ==
  ASSUME TypeOK, NEW origin \in Launches, opening[origin] > 0,
         opening' = [opening EXCEPT ![origin] = opening[origin] - 1]
  PROVE  opening' \in [Launches -> 0..MaxOpening]
<1>1. opening \in [Launches -> 0..MaxOpening] /\ opening[origin] - 1 \in 0..MaxOpening
  BY PlanRunAssumption DEF TypeOK
<1> QED
  BY <1>1

LEMMA LaunchRefusedInv == ASSUME IInv, NEW origin \in Launches, LaunchRefused(origin) PROVE Step
<1>1. /\ TypeOK /\ TurnHoldsAll /\ opening[origin] > 0
      /\ opening' = [opening EXCEPT ![origin] = opening[origin] - 1]
      /\ UNCHANGED <<plan, decisions, open, armed, steers, notes, approved, settled, conductor>>
      /\ \/ run.status \in Open /\ PauseAsked
         \/ UNCHANGED <<run, turn>>
  BY DEF IInv, LaunchRefused, Active
<1>2. opening' \in [Launches -> 0..MaxOpening]
  BY <1>1, OneLaunchLess
<1>3. /\ Follows(run, run') /\ run'.no = run.no
      /\ turn' \in Turns /\ TurnHoldsAll' /\ (Live' \/ Unhung(run'))
  <2>1. CASE run.status \in Open /\ PauseAsked
    BY <1>1, <2>1, PauseAskedKeeps
  <2>2. CASE UNCHANGED <<run, turn>>
    BY <1>1, <2>2, Itself DEF TypeOK, TurnHoldsAll, Live, Unhung
  <2> QED
    BY <1>1, <2>1, <2>2
<1> QED
  BY <1>1, <1>2, <1>3, OneRun DEF TypeOK

LEMMA ResumeInv == ASSUME IInv, Resume PROVE Step
<1> DEFINE b == Without(run, {"pausing"})
           a == To(b, "running")
           r == Saved(a)
<1>1. /\ TypeOK /\ Fine(run) /\ TurnHoldsAll /\ run.status \in Open
      /\ "resume" \in Launches
      /\ UNCHANGED <<plan, decisions, approved, conductor>>
  BY DEF IInv, Resume, Active, Launches
<1>2. run.status # "none" /\ "running" \in Open \cup Terminal /\ "running" \in Open
  BY <1>1 DEF Open, Working, Resting
<1>3. /\ Good(b) /\ b.status = run.status /\ b.no = run.no /\ "pausing" \notin b.flags
  BY <1>1, WithoutKeeps DEF Fine
<1>4. \/ Live /\ run' = r /\ UNCHANGED <<turn, open, armed, steers, notes, settled, opening>>
      \/ ~Live /\ Launch("resume", r, notes)
  BY DEF Resume
<1> HIDE DEF b
<1>5. /\ Good(a) /\ a.status = "running" /\ a.no = run.no /\ "pausing" \notin a.flags
  BY <1>2, <1>3, ToKeeps
<1> HIDE DEF a
<1>6. /\ Good(r) /\ r.status = "running" /\ r.no = run.no /\ "pausing" \notin r.flags
      /\ SavedWell(r) /\ HasReason(r) /\ Unhung(r)
  BY <1>5, SavedKeeps DEF HasReason, Unhung
<1> HIDE DEF r
<1>7. Follows(run, r)
  BY <1>1, <1>6 DEF Follows, Fine
<1>8. CASE Live /\ run' = r /\ UNCHANGED <<turn, open, armed, steers, notes, settled, opening>>
  <2>1. TurnHoldsAll'
    BY <1>1, <1>8 DEF TurnHoldsAll, Live
  <2> QED
    BY <1>1, <1>6, <1>7, <1>8, <2>1, OneRun DEF TypeOK
<1>9. CASE ~Live /\ Launch("resume", r, notes)
  <2>1. notes \in SUBSET ((1..MaxRuns) \X Decisions)
    BY <1>1 DEF TypeOK
  <2>2. /\ Follows(r, run') /\ run'.no = run.no
        /\ turn' \in Turns /\ TurnHoldsAll' /\ (Live' \/ Unhung(run'))
        /\ armed' \subseteq open' /\ open' \subseteq Gates
        /\ steers' \cup notes' \subseteq (1..MaxRuns) \X Decisions
        /\ settled' \subseteq Decisions
        /\ \A e \in Decisions : e \in settled => e \in settled'
        /\ \A e \in Decisions : <<run.no, e>> \in steers \cup notes =>
             <<run.no, e>> \in steers' \cup notes' \/ e \in settled'
        /\ opening' \in [Launches -> 0..MaxOpening]
    BY <1>1, <1>6, <1>9, <2>1, LaunchKeeps DEF Fine
  <2>3. Follows(run, run')
    BY <1>7, <2>2 DEF Follows
  <2> QED
    BY <1>1, <2>2, <2>3, OneRun DEF TypeOK
<1> QED
  BY <1>4, <1>8, <1>9

LEMMA TurnLaunchedInv == ASSUME IInv, NEW origin \in Launches, TurnLaunched(origin) PROVE Step
<1>1. /\ TypeOK /\ Fine(run) /\ origin \in Origins
      /\ opening[origin] > 0 /\ opening' = [opening EXCEPT ![origin] = opening[origin] - 1]
      /\ notes' = {}
      /\ UNCHANGED <<plan, decisions, approved>>
  BY DEF IInv, Origins, Launches, TurnLaunched
<1>2. opening' \in [Launches -> 0..MaxOpening]
  BY <1>1, OneLaunchLess
<1>3. CASE Begin(origin, run, notes) /\ UNCHANGED conductor
  <2>1. /\ Follows(run, run') /\ run'.no = run.no /\ turn' \in Turns /\ Live'
        /\ settled' \subseteq Decisions
        /\ \A d \in Decisions : d \in settled \/ <<run.no, d>> \in notes => d \in settled'
        /\ open' = open /\ armed' = armed /\ steers' = steers
    BY <1>1, <1>3, BeginKeeps DEF Fine
  <2> QED
    BY <1>1, <1>2, <1>3, <2>1, OneRun DEF TypeOK, TurnHoldsAll
<1>4. CASE Collide(origin, run, notes) /\ conductor' = TurnFailed
  <2>1. /\ Follows(run, run') /\ run'.no = run.no /\ turn' \in Turns /\ Live'
        /\ settled' \subseteq Decisions
        /\ \A d \in Decisions : d \in settled \/ <<run.no, d>> \in notes \cup (steers \ steers')
                                => d \in settled'
        /\ open' = {} /\ armed' = {} /\ steers' \in {{}, steers}
    BY <1>1, <1>4, CollideKeeps
  <2>2. conductor' \in Conductors
    BY <1>1, <1>4, TurnFailedTyped
  <2> QED
    BY <1>1, <1>2, <2>1, <2>2, OneRun DEF TypeOK, TurnHoldsAll
<1> QED
  BY <1>3, <1>4 DEF TurnLaunched

\* A turn that is cancelled is still there.
LEMMA CancelledKeeps ==
  ASSUME IInv, turn' \in {turn, Cancelled}, UNCHANGED open
  PROVE  turn' \in Turns /\ TurnHoldsAll' /\ (Live' <=> Live)
<1>1. TypeOK /\ TurnHoldsAll
  BY DEF IInv
<1>2. CASE turn' = turn
  BY <1>1, <1>2 DEF TypeOK, TurnHoldsAll, Live
<1>3. CASE Live /\ turn' = [turn EXCEPT !.flags = turn.flags \cup {"cancelled"}]
  <2>1. turn' \in Turns /\ turn'.status = turn.status
    BY <1>1, <1>3 DEF TypeOK, Turns, TurnFlags
  <2> QED
    BY <1>3, <2>1 DEF TurnHoldsAll, Live
<1> QED
  BY <1>2, <1>3 DEF Cancelled

\* A run is over: what was kept for it is given up.
LEMMA FinishKeeps ==
  ASSUME IInv, NEW r, Good(r), HasReason(r), SavedWell(r) \/ r.status \in Open, r.no = run.no,
         r.status = run.status, NEW status \in Terminal, Finish(r, status)
  PROVE  /\ Follows(run, run') /\ run'.no = run.no /\ run'.status \notin Open /\ Unhung(run')
         /\ approved' \subseteq approved /\ notes' \subseteq notes
         /\ settled' \subseteq Decisions
         /\ \A d \in Decisions :
              d \in settled \/ <<run.no, d>> \in notes \ notes' => d \in settled'
<1>1. TypeOK
  BY DEF IInv
<1>2. run' = Finished(r, status)
  BY DEF Finish
<1>3. Follows(r, run') /\ run'.status \notin Open
  BY <1>2, FinishedFollows
<1>4. \/ approved' = {} /\ notes' = {} /\ settled' = Settling(notes)
      \/ UNCHANGED <<approved, notes, settled>>
  BY DEF Finish
<1>5. Unhung(run')
  BY <1>3 DEF Unhung, Open, Working
<1>6. CASE approved' = {} /\ notes' = {} /\ settled' = Settling(notes)
  BY <1>1, <1>3, <1>5, <1>6, SettlingKeeps DEF Follows
<1>7. CASE UNCHANGED <<approved, notes, settled>>
  BY <1>1, <1>3, <1>5, <1>7 DEF TypeOK, Follows
<1> QED
  BY <1>4, <1>6, <1>7

\* The same, with what the rest of the step leaves alone.
LEMMA FinishStep ==
  ASSUME IInv, NEW status \in Terminal, Finish(run, status),
         plan' \in PlanStatus, turn' \in {turn, Cancelled},
         UNCHANGED <<decisions, open, armed, steers, opening, conductor>>
  PROVE  Step
<1>1. TypeOK /\ Fine(run) /\ ApprovalsStayInRun
  BY DEF IInv
<1>2. /\ Follows(run, run') /\ run'.no = run.no /\ run'.status \notin Open /\ Unhung(run')
      /\ approved' \subseteq approved /\ notes' \subseteq notes
      /\ settled' \subseteq Decisions
      /\ \A d \in Decisions :
           d \in settled \/ <<run.no, d>> \in notes \ notes' => d \in settled'
  BY <1>1, FinishKeeps DEF Fine
<1>3. turn' \in Turns /\ TurnHoldsAll'
  BY CancelledKeeps
<1> QED
  BY <1>1, <1>2, <1>3, SameRun DEF TypeOK, ApprovalsStayInRun

LEMMA FinishingInv ==
  ASSUME IInv, Stop \/ PlanCancelled \/ CeilingReached PROVE Step
<1>1. TypeOK /\ "stopped" \in Terminal /\ "budget_exhausted" \in Terminal
      /\ "cancelled" \in PlanStatus
  BY DEF IInv, Terminal, PlanStatus
<1>2. CASE Stop
  <2>1. /\ Finish(run, "stopped") /\ turn' = Cancelled /\ plan' = plan
        /\ UNCHANGED <<decisions, open, armed, steers, opening, conductor>>
    BY <1>2 DEF Stop
  <2> QED
    BY <1>1, <2>1, FinishStep DEF TypeOK
<1>3. CASE PlanCancelled
  <2>1. /\ Finish(run, "stopped") /\ turn' = turn /\ plan' = "cancelled"
        /\ UNCHANGED <<decisions, open, armed, steers, opening, conductor>>
    BY <1>3 DEF PlanCancelled
  <2> QED
    BY <1>1, <2>1, FinishStep
<1>4. CASE CeilingReached
  <2>1. /\ Finish(run, "budget_exhausted") /\ turn' = Cancelled /\ plan' = plan
        /\ UNCHANGED <<decisions, open, armed, steers, opening, conductor>>
    BY <1>4 DEF CeilingReached
  <2> QED
    BY <1>1, <2>1, FinishStep DEF TypeOK
<1> QED
  BY <1>2, <1>3, <1>4

\* A pause at once, with or without the turn being cancelled.
LEMMA PausedStep ==
  ASSUME IInv, run' \in {run, Paused(run)},
         plan' \in PlanStatus, plan' \in {"completed", "cancelled"} => plan = plan',
         turn' \in {turn, Cancelled},
         UNCHANGED <<decisions, open, armed, steers, notes, approved, settled, opening, conductor>>
  PROVE  Step
<1>1. TypeOK /\ Fine(run) /\ ApprovalsStayInRun
  BY DEF IInv
<1>2. turn' \in Turns /\ TurnHoldsAll' /\ (Live' <=> Live)
  BY CancelledKeeps
<1>3. Follows(run, run') /\ run'.no = run.no /\ (Live' \/ Unhung(run'))
  <2>1. CASE run' = run
    BY <1>1, <1>2, <2>1, Itself
  <2>2. CASE run' = Paused(run) /\ run.status \in Open
    BY <1>1, <2>2, PausedFollows DEF Follows, Fine, Unhung
  <2>3. CASE run' = Paused(run) /\ run.status \notin Open
    BY <1>1, <2>3, PausedFollows DEF Follows, Fine, Unhung, Open, Working
  <2> QED
    BY <2>1, <2>2, <2>3
<1> QED
  BY <1>1, <1>2, <1>3, SameRun DEF TypeOK, ApprovalsStayInRun

LEMMA PausingInv ==
  ASSUME IInv, Restored \/ PlanHeld \/ PlanReleased \/ WaitedTooLong PROVE Step
<1>1. TypeOK
  BY DEF IInv
<1>2. CASE Restored
  <2>1. /\ run' = Paused(run) /\ turn' \in {turn, Cancelled}
        /\ plan' = IF plan \in {"on_hold", "cancelled"} THEN plan ELSE "active"
        /\ UNCHANGED <<decisions, open, armed, steers, notes, approved, settled, opening,
                       conductor>>
    BY <1>2 DEF Restored
  <2>2. plan' \in PlanStatus /\ (plan' \in {"completed", "cancelled"} => plan = plan')
    BY <1>1, <2>1 DEF TypeOK, PlanStatus
  <2> QED
    BY <2>1, <2>2, PausedStep
<1>3. CASE PlanHeld
  <2>1. /\ run' \in {run, Paused(run)} /\ turn' = turn
        /\ plan' = "on_hold"
        /\ UNCHANGED <<decisions, open, armed, steers, notes, approved, settled, opening,
                       conductor>>
    BY <1>3 DEF PlanHeld, chat
  <2> QED
    BY <1>1, <2>1, PausedStep DEF TypeOK, PlanStatus
<1>4. CASE PlanReleased
  <2>1. /\ run' = run /\ turn' = turn
        /\ plan' \in {"active", "stuck", "blocked"}
        /\ UNCHANGED <<decisions, open, armed, steers, notes, approved, settled, opening,
                       conductor>>
    BY <1>4 DEF PlanReleased, chat
  <2> QED
    BY <1>1, <2>1, PausedStep DEF TypeOK, PlanStatus
<1>5. CASE WaitedTooLong
  <2>1. /\ run' = Paused(run) /\ turn' = Cancelled /\ plan' = plan
        /\ UNCHANGED <<decisions, open, armed, steers, notes, approved, settled, opening,
                       conductor>>
    BY <1>5 DEF WaitedTooLong
  <2> QED
    BY <1>1, <2>1, PausedStep DEF TypeOK
<1> QED
  BY <1>2, <1>3, <1>4, <1>5

\* A tripwire: a pause, written when it waits for the turn.
LEMMA TripInv == ASSUME IInv, Trip PROVE Step
<1>1. /\ TypeOK /\ Fine(run) /\ TurnHoldsAll /\ run.status \in Open
      /\ UNCHANGED <<plan, decisions, open, armed, steers, notes, approved, settled, opening,
                     conductor>>
  BY DEF IInv, Trip, Open
<1>2. CASE Live
  <2> DEFINE r == [run EXCEPT !.flags = run.flags \cup {"pausing"}]
  <2>1. /\ run' = Saved(r)
        /\ turn' = [turn EXCEPT !.flags = turn.flags \cup {"pause"}]
    BY <1>2 DEF Trip, TurnTold
  <2>2. /\ Good(r) /\ r.status = run.status /\ r.no = run.no
        /\ r.gates = run.gates /\ run.flags \subseteq r.flags
    BY <1>1 DEF Fine, Good, Runs, RunFlags
  <2>3. HasReason(r)
    BY <1>1, <2>2 DEF Fine, HasReason
  <2> HIDE DEF r
  <2>4. Follows(run, run') /\ run'.no = run.no
    BY <1>1, <2>1, <2>2, <2>3, SavedKeeps DEF Follows, Fine, HasReason
  <2>5. turn' \in Turns /\ turn'.status = turn.status
    BY <1>1, <2>1 DEF TypeOK, Turns, TurnFlags
  <2>6. Live' /\ TurnHoldsAll'
    BY <1>2, <2>5 DEF Live, TurnHoldsAll
  <2> QED
    BY <1>1, <2>4, <2>5, <2>6, OneRun DEF TypeOK
<1>3. CASE ~Live
  <2>1. PauseAsked
    BY <1>3 DEF Trip, PauseAsked
  <2>2. /\ Follows(run, run') /\ run'.no = run.no
        /\ turn' \in Turns /\ TurnHoldsAll' /\ (Live' \/ Unhung(run'))
    BY <1>1, <2>1, PauseAskedKeeps
  <2> QED
    BY <1>1, <2>2, OneRun DEF TypeOK
<1> QED
  BY <1>2, <1>3

LEMMA StepsChangeInv ==
  ASSUME IInv, NEW p \in {"active", "stuck", "blocked", "completed"}, StepsChange(p) PROVE Step
<1> DEFINE r == IF Active THEN [run EXCEPT !.idle = 0] ELSE run
<1>1. /\ TypeOK /\ Fine(run) /\ TurnHoldsAll /\ ApprovalsStayInRun
      /\ plan' = p /\ p \in PlanStatus /\ "completed" \in Terminal
      /\ turn' = [turn EXCEPT !.flags = turn.flags \ {"idle"}]
      /\ UNCHANGED <<decisions, open, armed, steers, opening, conductor>>
  BY DEF IInv, StepsChange, PlanStatus, Terminal
<1>2. IF p = "completed"
      THEN Finish(r, "completed")
      ELSE run' = (IF Active THEN Saved(r) ELSE run) /\ UNCHANGED <<approved, notes, settled>>
  BY DEF StepsChange
<1>3. /\ Good(r) /\ r.status = run.status /\ r.no = run.no /\ r.saved = run.saved
      /\ r.gates = run.gates /\ r.flags = run.flags
  BY <1>1, PlanRunAssumption DEF Fine, Good, Runs
<1>4. HasReason(r) /\ SavedWell(r)
  BY <1>1, <1>3 DEF Fine, HasReason, SavedWell
<1>5. ~Active => r = run
  OBVIOUS
<1> HIDE DEF r
<1>6. turn' \in Turns /\ turn'.status = turn.status /\ turn'.flags \subseteq turn.flags
  BY <1>1 DEF TypeOK, Turns
<1>7. TurnHoldsAll' /\ (Live' <=> Live)
  BY <1>1, <1>6 DEF Live, TurnHoldsAll
<1>8. CASE p = "completed"
  <2>1. Finish(r, "completed")
    BY <1>2, <1>8
  <2>2. /\ Follows(run, run') /\ run'.no = run.no /\ run'.status \notin Open /\ Unhung(run')
        /\ approved' \subseteq approved /\ notes' \subseteq notes
        /\ settled' \subseteq Decisions
        /\ \A d \in Decisions :
             d \in settled \/ <<run.no, d>> \in notes \ notes' => d \in settled'
    BY <1>1, <1>3, <1>4, <2>1, FinishKeeps
  <2> QED
    BY <1>1, <1>6, <1>7, <2>2, SameRun DEF TypeOK, ApprovalsStayInRun
<1>9. CASE p # "completed"
  <2>1. run' = (IF Active THEN Saved(r) ELSE run) /\ UNCHANGED <<approved, notes, settled>>
    BY <1>2, <1>9
  <2>2. /\ Follows(run, run') /\ run'.no = run.no
        /\ run'.status = run.status /\ run'.flags = run.flags
    <3>1. CASE Active
      BY <1>3, <1>4, <2>1, <3>1, SavedKeeps DEF Follows, Fine, HasReason
    <3>2. CASE ~Active
      BY <2>1, <3>2, Itself
    <3> QED
      BY <3>1, <3>2
  <2>3. Live' \/ Unhung(run')
    BY <1>7, <2>2, Itself DEF Unhung
  <2> QED
    BY <1>1, <1>6, <1>7, <1>9, <2>1, <2>2, <2>3, SameRun DEF TypeOK, ApprovalsStayInRun
<1> QED
  BY <1>8, <1>9

LEMMA ReloadInv == ASSUME IInv, Reload PROVE Step
<1>1. /\ TypeOK /\ Fine(run)
      /\ run' = Recovered(run)
      /\ turn' = NoTurn /\ open' = {} /\ armed' = {}
      /\ steers' = {} /\ notes' = {} /\ approved' = {}
      /\ settled' = Settling(steers \cup notes)
      /\ conductor' = Idle
      /\ opening' = [o \in Launches |-> 0]
      /\ UNCHANGED <<plan, decisions>>
  BY DEF IInv, Reload
<1>2. Follows(run, run') /\ run'.no = run.no /\ Unhung(run')
  BY <1>1, RecoveredFollows DEF Follows, Unhung, Working
<1>3. turn' \in Turns /\ TurnHoldsAll'
  BY <1>1 DEF NoTurn, Turns, TurnHoldsAll
<1>4. conductor' \in Conductors
  BY <1>1 DEF Idle, Conductors
<1>5. /\ settled' \subseteq Decisions
      /\ \A d \in Decisions : d \in settled \/ <<run.no, d>> \in steers \cup notes => d \in settled'
  BY <1>1, SettlingKeeps
<1>6. opening' \in [Launches -> 0..MaxOpening]
  BY <1>1, PlanRunAssumption
<1> QED
  BY <1>1, <1>2, <1>3, <1>4, <1>5, <1>6, OneRun

LEMMA NextStep == ASSUME IInv, [Next]_vars PROVE Step \/ (Start /\ IInv')
<1>1. CASE ChatNext
  <2>1. CASE Send \/ SteersDelivered \/ Cancel \/ ConversationLeft
    BY <2>1, SendInv, SteersDeliveredInv, CancelInv, ConversationLeftInv
  <2>2. CASE \E stop \in Stops : TurnEnds(stop) \/ TurnGoesOn(stop) \/ SteersReturned(stop)
    BY <2>2, TurnEndsInv, TurnGoesOnInv, SteersReturnedInv
  <2>3. CASE VerdictSend \/ VerdictLost \/ (\E kind \in {"halt", "ask"} : VerdictStops(kind))
    BY <2>3, VerdictSendInv, VerdictLostInv, VerdictStopsInv
  <2>4. CASE \E g \in Gates : GateOpens(g) \/ GateAnswered(g) \/ GateDeferred(g)
    BY <2>4, GateOpensInv, GateAnsweredInv, GateDeferredInv
  <2>5. CASE \/ \E d \in Decisions : AnswerDecision(d)
             \/ \E a \in approved : UseApproval(a)
    BY <2>5, AnswerDecisionInv, UseApprovalInv
  <2>6. CASE ProviderOut
    BY <2>6, ProviderInv DEF ProviderOut
  <2>7. CASE ProviderBack
    BY <2>7, ProviderInv DEF ProviderBack
  <2> QED
    BY <1>1, <2>1, <2>2, <2>3, <2>4, <2>5, <2>6, <2>7 DEF ChatNext
<1>2. CASE RunNext
  <2>1. CASE \/ Start \/ StartRefused \/ Pause \/ Resume
             \/ \E origin \in Launches : TurnLaunched(origin) \/ LaunchRefused(origin)
    BY <2>1, StartInv, StartRefusedInv, PauseInv, ResumeInv, TurnLaunchedInv, LaunchRefusedInv
  <2>2. CASE Stop \/ PlanCancelled \/ CeilingReached
    BY <2>2, FinishingInv
  <2>3. CASE Restored \/ PlanHeld \/ PlanReleased \/ WaitedTooLong
    BY <2>3, PausingInv
  <2>4. CASE \E p \in {"active", "stuck", "blocked", "completed"} : StepsChange(p)
    BY <2>4, StepsChangeInv
  <2>5. CASE Trip \/ Reload
    BY <2>5, TripInv, ReloadInv
  <2> QED
    BY <1>2, <2>1, <2>2, <2>3, <2>4, <2>5 DEF RunNext
<1>3. CASE UNCHANGED vars
  <2>1. UNCHANGED <<run, plan, decisions, turn, open, armed, steers, notes, approved, settled, opening,
                    conductor>>
    BY <1>3 DEF vars
  <2>2. (TypeOK /\ Fine(run) /\ TurnHoldsAll)'
    BY <2>1 DEF IInv, TypeOK, Fine, Good, HasReason, SavedWell, TurnHoldsAll, Live
  <2>3. (PauseHasTurn /\ ApprovalsStayInRun /\ AnswersReachAgent /\ OverIsOver)'
    BY <2>1 DEF IInv, PauseHasTurn, ApprovalsStayInRun, AnswersReachAgent, OverIsOver, Live
  <2> QED
    BY <2>2, <2>3, Itself, <2>1 DEF IInv, Step
<1> QED
  BY <1>1, <1>2, <1>3 DEF Next

-----------------------------------------------------------------------------
(* Theorems.                                                               *)

\* The inductive invariant holds in every reachable state, for every number of runs, cards and
\* decisions and every policy.
THEOREM InvariantHolds == Spec => []IInv
<1>1. Init => IInv
  BY InitInv
<1>2. IInv /\ [Next]_vars => IInv'
  BY NextStep DEF Step
<1> QED
  BY <1>1, <1>2, PTL DEF Spec

\* Every reachable state of a plan run, its chat and its conductor is well typed.
THEOREM PlanRunTypeCorrect == Spec => []TypeOK
<1>1. IInv => TypeOK
  BY DEF IInv
<1> QED
  BY <1>1, InvariantHolds, PTL

\* "Pausing..." never hangs: noteTurnEnd, requestPause and _trip leave no working run with a
\* pause asked for and no turn to settle it.
THEOREM PausesAreSettled == Spec => []PauseHasTurn
<1>1. IInv => PauseHasTurn
  BY DEF IInv
<1> QED
  BY <1>1, InvariantHolds, PTL

\* A run that says it needs the user has a conductor's question or an open gate behind it.
THEOREM WaitsForAReason == Spec => []NeedsUserForReason
<1>1. IInv => NeedsUserForReason
  BY DEF IInv, Fine, HasReason, NeedsUserForReason
<1> QED
  BY <1>1, InvariantHolds, PTL

\* What was approved for one run never lets a call of another run through.
THEOREM ApprovalsAreOfTheRun == Spec => []ApprovalsStayInRun
<1>1. IInv => ApprovalsStayInRun
  BY DEF IInv
<1> QED
  BY <1>1, InvariantHolds, PTL

\* An answer to a queued decision reaches the agent, or is given up for one of the named reasons.
THEOREM AnswersAreDelivered == Spec => []AnswersReachAgent
<1>1. IInv => AnswersReachAgent
  BY DEF IInv
<1> QED
  BY <1>1, InvariantHolds, PTL

\* recover, and _apply's refusal to change a run that is over: a reload finds the run as the user
\* left it, never at work, and no step reopens a run that has ended.
THEOREM ReloadsAreHonest == Spec => LeftAsItWas
<1> DEFINE Honest ==
      /\ Reload => CASE run.status \in Working -> run'.status = "interrupted"
                     [] run.status \in Resting -> run'.status = run.status
                     [] OTHER                  -> run'.status = "none"
      /\ run.status \in Terminal /\ run'.no = run.no => run'.status \in {run.status, "none"}
<1>1. IInv /\ [Next]_vars => [Honest]_vars
  <2> SUFFICES ASSUME IInv, [Next]_vars PROVE Honest
    OBVIOUS
  <2>1. ASSUME Reload
        PROVE  CASE run.status \in Working -> run'.status = "interrupted"
                 [] run.status \in Resting -> run'.status = run.status
                 [] OTHER                  -> run'.status = "none"
    <3>1. run' = Recovered(run)
      BY <2>1 DEF Reload
    <3>2. Fine(run)
      BY DEF IInv
    <3>3. /\ run.status \in Working => run'.status = "interrupted"
          /\ run.status \in Resting => run'.status = run.status
          /\ run.status \notin Open => run'.status = "none"
      BY <3>1, <3>2, RecoveredFollows
    <3>4. run.status \notin Working \/ run.status \notin Resting
      BY DEF Working, Resting
    <3>5. CASE run.status \in Working
      BY <3>3, <3>4, <3>5
    <3>6. CASE run.status \in Resting
      BY <3>3, <3>4, <3>6
    <3>7. CASE run.status \notin Working /\ run.status \notin Resting
      BY <3>3, <3>7 DEF Open
    <3> QED
      BY <3>5, <3>6, <3>7
  <2>2. ASSUME run.status \in Terminal, run'.no = run.no
        PROVE  run'.status \in {run.status, "none"}
    <3>1. CASE Step
      <4>1. run.status \notin Open
        BY <2>2 DEF Terminal, Open, Working, Resting
      <4> QED
        BY <3>1, <4>1 DEF Step, Follows
    <3>2. CASE Start
      <4>1. run.no \in Nat
        BY PlanRunAssumption DEF IInv, TypeOK, Runs
      <4>2. run'.no = run.no + 1
        <5>1. CASE run' = NewRun
          BY <5>1 DEF NewRun
        <5>2. CASE run' = TurnStarted(NewRun, "run")
          BY <5>2 DEF NewRun, TurnStarted, Saved, Open
        <5> QED
          BY <3>2, <5>1, <5>2 DEF Start
      <4> QED
        BY <2>2, <4>1, <4>2
    <3> QED
      BY <3>1, <3>2, NextStep
  <2> QED
    BY <2>1, <2>2
<1> QED
  BY <1>1, InvariantHolds, PTL DEF Spec, LeftAsItWas

-----------------------------------------------------------------------------
(* What moves a run.                                                       *)

\* A step leaves the run driven, or not at work, or everything that drives it as it was, or is one
\* of those that leave it undriven.
Moved ==
  \/ Driven'
  \/ run'.status # "running"
  \/ run'.status = run.status /\ (Driven => Driven')
  \/ plan \in {"blocked", "on_hold"}
  \/ \E stop \in Stops : SteersReturned(stop)
  \/ VerdictLost

\* The end of a turn hands a working run to the conductor, unless the plan is one it does not
\* take up.
LEMMA TurnEndsMoved == ASSUME IInv, NEW stop \in Stops, TurnEnds(stop) PROVE Moved
<1> DEFINE r == TurnEnded(run, stop, "idle" \in turn.flags)
           outcome == Outcome(stop)
<1>1. TypeOK /\ Fine(run) /\ OverIsOver
  BY DEF IInv
<1>2. /\ Follows(run, r)
      /\ run.status \in Open => Unhung(r)
      /\ r.status = "running" => stop = "ended"
  BY <1>1, TurnEndedFollows
<1>3. IF conductor.step = "deciding"
      THEN run' = r /\ conductor' = [conductor EXCEPT !.pending = outcome]
      ELSE AfterTurn(r, outcome)
  BY DEF TurnEnds
<1>4. r.status = "running" => outcome = "ended"
  BY <1>2 DEF Outcome
<1> HIDE DEF r, outcome
<1>5. CASE conductor.step = "deciding"
  <2>1. conductor'.step = "deciding"
    BY <1>1, <1>3, <1>5 DEF TypeOK, Conductors
  <2> QED
    BY <2>1 DEF Moved, Driven
<1>6. CASE conductor.step # "deciding" /\ r.status = "running" /\ plan \in {"active", "stuck"}
  <2>1. /\ run' = Judged(r, outcome)
        /\ conductor' = IF Asks(r, outcome) THEN [Idle EXCEPT !.step = "deciding"] ELSE Idle
    BY <1>3, <1>6 DEF AfterTurn
  <2>2. run.status \in Open
    BY <1>2, <1>6 DEF Follows, Open, Working
  <2>3. ~Held(r)
    BY <1>2, <1>6, <2>2 DEF Held, Unhung
  <2>4. MayGoOn(r, outcome)
    BY <1>4, <1>6, <2>3 DEF MayGoOn
  <2>5. CASE Asks(r, outcome)
    <3>1. conductor'.step = "deciding"
      BY <2>1, <2>5 DEF Idle
    <3> QED
      BY <3>1 DEF Moved, Driven
  <2>6. CASE ~Asks(r, outcome)
    <3>1. r.idle \in Nat /\ MaxIdle \in Nat
      BY <1>2, PlanRunAssumption DEF Follows, Fine, Good, Runs
    <3>2. r.idle >= MaxIdle \/ OnlyUser
      BY <2>4, <2>6, <3>1 DEF Asks
    <3>3. Judged(r, outcome) \in {Stopped(r, "budget"), Stopped(r, "ask")}
      BY <2>4, <3>2 DEF Judged
    <3>4. run'.status # "running"
      BY <1>2, <2>1, <3>3, StoppedFollows DEF Follows
    <3> QED
      BY <3>4 DEF Moved
  <2> QED
    BY <2>5, <2>6
<1>7. CASE conductor.step # "deciding" /\ r.status # "running"
  <2>1. AfterTurn(r, outcome) /\ Fine(r)
    BY <1>2, <1>3, <1>7 DEF Follows
  <2>2. run'.status # "running"
    BY <1>7, <2>1, AfterTurnKeeps
  <2> QED
    BY <2>2 DEF Moved
<1>8. CASE r.status = "running" /\ plan \notin {"active", "stuck"}
  <2>1. run.status \in Open
    BY <1>2, <1>8 DEF Follows, Open, Working
  <2>2. plan \in {"blocked", "on_hold"}
    BY <1>1, <1>8, <2>1 DEF TypeOK, PlanStatus, OverIsOver
  <2> QED
    BY <2>2 DEF Moved
<1> QED
  BY <1>5, <1>6, <1>7, <1>8

\* A launch is a turn, or one to come, or a pause.
LEMMA LaunchMoved ==
  ASSUME IInv, NEW origin \in Launches, NEW r, Good(r), NEW answers, Launch(origin, r, answers)
  PROVE  Moved
<1>1. TypeOK /\ origin \in Origins
  BY DEF IInv, Launches, Origins
<1>2. CASE turn' = Begun(origin)
  <2>1. Live'
    BY <1>1, <1>2, TurnStep DEF Live
  <2> QED
    BY <2>1 DEF Moved, Driven
<1>3. CASE run' = Paused(r)
  <2>1. run'.status # "running"
    BY <1>3, PausedKeeps DEF Open, Working
  <2> QED
    BY <2>1 DEF Moved
<1>4. CASE opening' = [opening EXCEPT ![origin] = opening[origin] + 1]
  <2>1. opening'[origin] > 0
    BY <1>1, <1>4, PlanRunAssumption DEF TypeOK
  <2> QED
    BY <2>1 DEF Moved, Driven
<1> QED
  BY <1>2, <1>3, <1>4 DEF Launch, Begin

\* What happens while a turn is there, and leaves it there.
LEMMA ChatMoved == ASSUME IInv, ChatNext PROVE Moved
<1>1. TypeOK /\ Fine(run) /\ TurnHoldsAll
  BY DEF IInv
<1>2. Live' => Moved
  BY DEF Moved, Driven
<1>3. CASE Send
  <2>1. "user" \in Origins
    BY DEF Origins
  <2>2. CASE Begin("user", run, {})
    BY <1>1, <1>2, <2>1, <2>2, BeginKeeps DEF Fine
  <2>3. CASE Collide("user", run, {})
    BY <1>2, <2>1, <2>3, CollideKeeps
  <2> QED
    BY <1>3, <2>2, <2>3 DEF Send
<1>4. CASE SteersDelivered \/ ProviderOut \/ ProviderBack \/ (\E a \in approved : UseApproval(a))
  <2>1. Live /\ turn' = turn
    BY <1>4 DEF SteersDelivered, ProviderOut, ProviderBack, UseApproval, chat
  <2> QED
    BY <1>2, <2>1 DEF Live
<1>5. CASE Cancel \/ ConversationLeft
  <2>1. Live /\ turn' = [turn EXCEPT !.flags = turn'.flags]
    BY <1>1, <1>5 DEF Cancel, ConversationLeft, TypeOK, Turns
  <2>2. turn'.status = turn.status
    BY <1>1, <2>1 DEF TypeOK, Turns
  <2> QED
    BY <1>2, <2>1, <2>2 DEF Live
<1>6. CASE \E stop \in Stops : TurnEnds(stop)
  BY <1>6, TurnEndsMoved
<1>7. CASE \E stop \in Stops : TurnGoesOn(stop)
  <2>1. turn' = Begun("user") /\ "user" \in Origins
    BY <1>7 DEF TurnGoesOn, Origins
  <2>2. Live'
    BY <1>1, <2>1, TurnStep DEF Live
  <2> QED
    BY <1>2, <2>2
<1>8. CASE VerdictSend
  <2>1. "conductor" \in Origins
    BY DEF Origins
  <2>2. CASE "visible" \in turn.flags
    <3>1. turn' = turn
      BY <1>8, <2>2 DEF VerdictSend
    <3> QED
      BY <1>1, <1>2, <2>2, <3>1 DEF Live, TurnHoldsAll
  <2>3. CASE Begin("conductor", run, notes)
    BY <1>1, <1>2, <2>1, <2>3, BeginKeeps DEF Fine
  <2>4. CASE Collide("conductor", run, notes)
    BY <1>2, <2>1, <2>4, CollideKeeps
  <2> QED
    BY <1>8, <2>2, <2>3, <2>4 DEF VerdictSend
<1>9. CASE \E kind \in {"halt", "ask"} : VerdictStops(kind)
  <2>1. PICK kind \in {"halt", "ask"} : AfterTurn(Stopped(run, kind), conductor.pending)
    BY <1>9 DEF VerdictStops
  <2>2. Fine(Stopped(run, kind)) /\ Stopped(run, kind).status # "running"
    BY <1>1, StoppedFollows DEF Follows
  <2>3. run'.status # "running"
    BY <2>1, <2>2, AfterTurnKeeps
  <2> QED
    BY <2>3 DEF Moved
<1>10. CASE \E g \in Gates : GateOpens(g) \/ GateAnswered(g) \/ GateDeferred(g)
  <2>1. Live /\ turn' = turn
    BY <1>1, <1>10 DEF GateOpens, GateAnswered, GateDeferred, TurnHoldsAll, TypeOK
  <2> QED
    BY <1>2, <2>1 DEF Live
<1>11. CASE \E d \in Decisions : AnswerDecision(d)
  <2>1. PICK d \in Decisions : AnswerDecision(d)
    BY <1>11
  <2>2. CASE Launch("steer", Saved(run), notes \cup {<<run.no, d>>})
    <3>1. "steer" \in Launches
      BY DEF Launches
    <3>2. Good(Saved(run))
      BY <1>1, SavedKeeps DEF Fine
    <3> QED
      BY <2>2, <3>1, <3>2, LaunchMoved
  <2>3. CASE run' = Saved(run) /\ UNCHANGED <<turn, opening>>
    <3>1. run'.status = run.status
      BY <1>1, <2>3, SavedKeeps DEF Fine
    <3>2. conductor' = conductor
      BY <2>1 DEF AnswerDecision
    <3> QED
      BY <2>3, <3>1, <3>2 DEF Moved, Driven, Live
  <2> QED
    BY <2>1, <2>2, <2>3 DEF AnswerDecision
<1>12. CASE VerdictLost \/ (\E stop \in Stops : SteersReturned(stop))
  BY <1>12 DEF Moved
<1> QED
  BY <1>3, <1>4, <1>5, <1>6, <1>7, <1>8, <1>9, <1>10, <1>11, <1>12 DEF ChatNext

\* A pause at once leaves no run at work.
LEMMA PausedMoved == ASSUME IInv, run' = Paused(run) PROVE Moved
<1>1. Good(run)
  BY DEF IInv, Fine
<1>2. run'.status # "running"
  BY <1>1, PausedKeeps DEF Open, Working
<1> QED
  BY <1>2 DEF Moved

LEMMA RunMoved == ASSUME IInv, RunNext PROVE Moved
<1>1. TypeOK /\ Fine(run) /\ TurnHoldsAll
  BY DEF IInv
<1>2. Live' => Moved
  BY DEF Moved, Driven
<1>3. CASE Start
  <2>1. Live' \/ turn' = Begun("run")
    <3>1. CASE Live /\ turn' = [turn EXCEPT !.flags = turn.flags \ {"idle"}]
      <4>1. turn'.status = turn.status
        BY <1>1, <3>1 DEF TypeOK, Turns
      <4> QED
        BY <3>1, <4>1 DEF Live
    <3> QED
      BY <1>3, <3>1 DEF Start
  <2>2. "run" \in Origins
    BY DEF Origins
  <2> QED
    BY <1>1, <1>2, <2>1, <2>2, TurnStep DEF Live
<1>4. CASE StartRefused \/ PlanReleased
  <2>1. run' = run /\ turn' = turn /\ opening' = opening /\ conductor' = conductor
    BY <1>4 DEF StartRefused, PlanReleased, service, chat
  <2> QED
    BY <2>1 DEF Moved, Driven, Live
<1>5. ASSUME PauseAsked PROVE Moved
  <2>1. CASE Live
    <3>1. turn' = [turn EXCEPT !.flags = turn.flags \cup {"pause"}]
      BY <1>5, <2>1 DEF PauseAsked, TurnTold
    <3>2. turn'.status = turn.status
      BY <1>1, <3>1 DEF TypeOK, Turns
    <3> QED
      BY <1>2, <2>1, <3>2 DEF Live
  <2>2. CASE ~Live
    BY <1>5, <2>2, PausedMoved DEF PauseAsked
  <2> QED
    BY <2>1, <2>2
<1>6. CASE Pause
  BY <1>5, <1>6 DEF Pause
<1>7. CASE Resume
  <2>1. CASE Live
    BY <1>2, <1>7, <2>1 DEF Resume, Live
  <2>2. CASE ~Live
    <3> DEFINE b == Without(run, {"pausing"})
               a == To(b, "running")
    <3>1. Good(b) /\ b.status # "none"
      BY <1>1, <1>7, WithoutKeeps DEF Fine, Resume, Active, Open, Working, Resting
    <3>2. "running" \in Open \cup Terminal /\ "resume" \in Launches
      BY DEF Open, Working, Launches
    <3>3. Launch("resume", Saved(a), notes)
      BY <1>7, <2>2 DEF Resume
    <3> HIDE DEF b
    <3>4. Good(a)
      BY <3>1, <3>2, ToKeeps
    <3> HIDE DEF a
    <3> QED
      BY <3>2, <3>3, <3>4, SavedKeeps, LaunchMoved
  <2> QED
    BY <1>7, <2>1, <2>2 DEF Resume
<1>8. CASE \E origin \in Launches : TurnLaunched(origin)
  <2>1. PICK origin \in Launches : TurnLaunched(origin)
    BY <1>8
  <2>2. origin \in Origins
    BY DEF Origins, Launches
  <2>3. CASE Begin(origin, run, notes)
    BY <1>1, <1>2, <2>2, <2>3, BeginKeeps DEF Fine
  <2>4. CASE Collide(origin, run, notes)
    BY <1>2, <2>2, <2>4, CollideKeeps
  <2> QED
    BY <2>1, <2>3, <2>4 DEF TurnLaunched
<1>9. CASE \E origin \in Launches : LaunchRefused(origin)
  <2>1. CASE Active /\ run.status # "paused"
    BY <1>5, <1>9, <2>1 DEF LaunchRefused
  <2>2. CASE ~(Active /\ run.status # "paused")
    <3>1. run' = run /\ run.status # "running"
      BY <1>9, <2>2 DEF LaunchRefused, Active, Open, Working
    <3> QED
      BY <3>1 DEF Moved
  <2> QED
    BY <2>1, <2>2
<1>10. ASSUME NEW r, Good(r), HasReason(r), SavedWell(r), NEW status \in Terminal, Finish(r, status)
       PROVE  Moved
  <2>1. run'.status \notin Open
    BY <1>10, FinishedFollows DEF Finish
  <2> QED
    BY <2>1 DEF Moved, Open, Working
<1>11. CASE Stop \/ PlanCancelled \/ CeilingReached
  <2>1. \E status \in Terminal : Finish(run, status)
    BY <1>11 DEF Stop, PlanCancelled, CeilingReached, Terminal
  <2> QED
    BY <1>1, <1>10, <2>1 DEF Fine
<1>12. CASE Restored \/ WaitedTooLong
  BY <1>12, PausedMoved DEF Restored, WaitedTooLong
<1>13. CASE PlanHeld
  <2>1. CASE run' = run /\ run.status \in {"paused", "interrupted"}
    BY <2>1 DEF Moved
  <2>2. CASE run' = Paused(run)
    BY <2>2, PausedMoved
  <2> QED
    BY <1>13, <2>1, <2>2 DEF PlanHeld
<1>14. CASE Trip
  <2>1. CASE Live
    <3>1. turn' = [turn EXCEPT !.flags = turn.flags \cup {"pause"}]
      BY <1>14, <2>1 DEF Trip, TurnTold
    <3>2. turn'.status = turn.status
      BY <1>1, <3>1 DEF TypeOK, Turns
    <3> QED
      BY <1>2, <2>1, <3>2 DEF Live
  <2>2. CASE ~Live
    BY <1>14, <2>2, PausedMoved DEF Trip
  <2> QED
    BY <2>1, <2>2
<1>15. CASE Reload
  <2>1. run'.status \notin Working
    BY <1>1, <1>15, RecoveredFollows DEF Reload
  <2> QED
    BY <2>1 DEF Moved, Working
<1>16. CASE \E p \in {"active", "stuck", "blocked", "completed"} : StepsChange(p)
  <2>1. PICK p \in {"active", "stuck", "blocked", "completed"} : StepsChange(p)
    BY <1>16
  <2> DEFINE r == IF Active THEN [run EXCEPT !.idle = 0] ELSE run
  <2>2. /\ Good(r) /\ r.status = run.status /\ r.saved = run.saved
        /\ r.gates = run.gates /\ r.flags = run.flags
    BY <1>1, PlanRunAssumption DEF Fine, Good, Runs
  <2>3. HasReason(r) /\ SavedWell(r)
    BY <1>1, <2>2 DEF Fine, HasReason, SavedWell
  <2>4. IF p = "completed" THEN Finish(r, "completed") ELSE run' = (IF Active THEN Saved(r) ELSE run)
    BY <2>1 DEF StepsChange
  <2>5. turn' = [turn EXCEPT !.flags = turn.flags \ {"idle"}]
        /\ opening' = opening /\ conductor' = conductor
    BY <2>1 DEF StepsChange
  <2> HIDE DEF r
  <2>6. CASE p = "completed"
    <3>1. "completed" \in Terminal
      BY DEF Terminal
    <3> QED
      BY <1>10, <2>2, <2>3, <2>4, <2>6, <3>1
  <2>7. CASE p # "completed"
    <3>1. run'.status = run.status
      BY <2>2, <2>4, <2>7, SavedKeeps
    <3>2. turn'.status = turn.status
      BY <1>1, <2>5 DEF TypeOK, Turns
    <3> QED
      BY <2>5, <3>1, <3>2 DEF Moved, Driven, Live
  <2> QED
    BY <2>6, <2>7
<1> QED
  BY <1>3, <1>4, <1>6, <1>7, <1>8, <1>9, <1>11, <1>12, <1>13, <1>14, <1>15, <1>16 DEF RunNext

\* A run at work keeps a turn, a turn about to start or the conductor behind it.  afterTurn,
\* launchTurn and the chat leave three gaps: a plan the store calls blocked or on hold, answers
\* given back at the end of a turn, and a verdict of the conductor's that comes to nothing.
THEOREM WorkIsDriven == Spec => AtWorkIsDriven
<1>1. IInv /\ [Next]_vars =>
        [(run.status = "running" => Driven) /\ run'.status = "running" /\ ~Driven'
           => \/ plan \in {"blocked", "on_hold"}
              \/ \E stop \in Stops : SteersReturned(stop)
              \/ VerdictLost]_vars
  <2> SUFFICES ASSUME IInv, Next,
                      run.status = "running" => Driven, run'.status = "running", ~Driven'
               PROVE  \/ plan \in {"blocked", "on_hold"}
                      \/ \E stop \in Stops : SteersReturned(stop)
                      \/ VerdictLost
    OBVIOUS
  <2>1. Moved
    BY ChatMoved, RunMoved DEF Next
  <2> QED
    BY <2>1 DEF Moved
<1> QED
  BY <1>1, InvariantHolds, PTL DEF Spec, AtWorkIsDriven

===============================================================================
