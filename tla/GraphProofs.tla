---------------------------- MODULE GraphProofs ----------------------------
(***************************************************************************)
(* Under the graph-aware scheduler no two lanes of the loop overlap, for   *)
(* every board, graph, ranking and number of slots.                        *)
(*                                                                         *)
(* A ticket admitted in a pass was compared with what is in flight and     *)
(* with every ticket placed before it, so of two tickets of one pass the   *)
(* later one was compared with the earlier.  That a ticket in flight is    *)
(* never dispatched again needs LanesHold: its territory only grows while  *)
(* its lane runs, so it keeps colliding with its own lane.                 *)
(*                                                                         *)
(* And no ticket is passed over more often than WaitIsBounded says.  A     *)
(* credit above a level that outranks every other advantage stays above it *)
(* until the ticket runs, and to reach the next level a pass must dispatch *)
(* a rival above this one instead, which starts over.  So each level holds *)
(* one ticket fewer than the level below.                                  *)
(***************************************************************************)
EXTENDS GraphScheduler, FiniteSetTheorems, TLAPS

USE DEF OpenStatuses, TicketStatuses

\* A ticket in flight collides with its own lane.
LanesHold == \A l \in lanes : Conflicts(TerritoryOf(l.ticket), l.terr)

LaneInv == TypeOK /\ LanesDisjoint /\ LanesHold

LEMMA TerritoryIsLock ==
  ASSUME TypeOK, NEW t \in Tickets
  PROVE  TerritoryOf(t) \in SUBSET Lock
  BY GraphAssumption DEF TypeOK, TerritoryOf, Lock, Entry

LEMMA TerritoryCollides ==
  ASSUME TypeOK, NEW t \in Tickets
  PROVE  Conflicts(TerritoryOf(t), TerritoryOf(t))
  BY DEF TerritoryOf, Conflicts

LEMMA ConflictsSymmetric ==
  ASSUME NEW p, NEW q, Conflicts(p, q)
  PROVE  Conflicts(q, p)
  BY DEF Conflicts

\* A lane's claim, whole or plain, stands for its plain territory.
LEMMA ClaimCovers ==
  ASSUME NEW t, NEW files, ~Conflicts(files, Claim(t))
  PROVE  ~Conflicts(files, TerritoryOf(t))
  BY DEF Claim, Conflicts

\* What the record of credits leaves alone.
LEMMA CreditKeepsTouched ==
  ASSUME TypeOK, NEW D, NEW W
  PROVE  /\ NotePassedOver(D, W) \in [Tickets -> Entry]
         /\ \A t \in Tickets : NotePassedOver(D, W)[t].touched = entry[t].touched
<1> DEFINE reset(e) == [e EXCEPT !.passedOver = 0]
           more(e)  == [e EXCEPT !.known = TRUE, !.passedOver = @ + 1]
           new(t)   == CASE t \in D -> reset(entry[t])
                         [] t \in W -> more(entry[t])
                         [] OTHER -> entry[t]
<1>1. NotePassedOver(D, W) = [t \in Tickets |->
        CASE t \in D -> reset(entry[t]) [] t \in W -> more(entry[t]) [] OTHER -> entry[t]]
  BY DEF NotePassedOver
<1>2. ASSUME NEW e \in Entry
      PROVE  /\ reset(e) \in Entry /\ reset(e).touched = e.touched
             /\ more(e) \in Entry /\ more(e).touched = e.touched
  <2>1. reset(e) \in Entry
    BY DEF Entry
  <2>2. more(e) \in Entry
    <3>1. e.passedOver + 1 \in Nat
      BY DEF Entry
    <3> QED BY <3>1, Zenon DEF Entry
  <2>3. reset(e).touched = e.touched /\ more(e).touched = e.touched
    BY DEF Entry
  <2> QED BY <2>1, <2>2, <2>3
<1> HIDE DEF reset, more
<1>3. ASSUME NEW t \in Tickets
      PROVE  new(t) \in Entry /\ new(t).touched = entry[t].touched
  <2>1. entry[t] \in Entry
    BY DEF TypeOK
  <2>2. CASE t \in D /\ t \notin W
    BY <1>2, <2>1, <2>2
  <2>3. CASE t \notin D /\ t \in W
    BY <1>2, <2>1, <2>3
  <2>4. CASE t \notin D /\ t \notin W
    BY <2>1, <2>4
  <2>5. CASE t \in D /\ t \in W
    BY <1>2, <2>1, <2>5
  <2> QED BY <2>2, <2>3, <2>4, <2>5
<1>4. NotePassedOver(D, W) = [t \in Tickets |-> new(t)]
  BY <1>1
<1> HIDE DEF new
<1> QED BY <1>3, <1>4

----------------------------------------------------------------------------
(* The dispatch *)

\* What a pass admits fits beside the lanes in flight and beside each other.
LEMMA ReadyIsDisjoint ==
  ASSUME TypeOK, NEW score, DOMAIN score = Candidates,
         NEW place \in Rankings(score), NEW S \in SUBSET DOMAIN place,
         IsReadySet(S, place), NEW t \in S
  PROVE  /\ S \subseteq Tickets
         /\ \A l \in lanes : ~Conflicts(TerritoryOf(t), l.terr)
         /\ \A u \in S : u # t => ~Conflicts(TerritoryOf(t), TerritoryOf(u))
<1> DEFINE N == Cardinality(Candidates)
<1>1. place \in [Candidates -> 1..N]
      /\ \A p, q \in Candidates : place[p] = place[q] => p = q
  BY DEF Rankings, Bijection, Injection, Surjection, IsInjective
<1>2. S \subseteq Candidates /\ Candidates \subseteq Tickets
  BY <1>1 DEF Candidates
<1>3. \A p \in S : Admits(p, {v \in S : place[v] < place[p]})
  BY <1>1, <1>2 DEF IsReadySet
<1>4. \A l \in lanes : ~Conflicts(TerritoryOf(t), l.terr)
  BY <1>3 DEF Admits, Claimed
<1>5. ASSUME NEW p \in S, NEW q \in S, place[q] < place[p]
      PROVE  ~Conflicts(TerritoryOf(p), TerritoryOf(q))
  <2>1. Claim(q) \in Claimed({v \in S : place[v] < place[p]})
    BY <1>5 DEF Claimed
  <2> QED BY <1>3, <2>1, ClaimCovers DEF Admits
<1>6. ASSUME NEW u \in S, u # t
      PROVE  ~Conflicts(TerritoryOf(t), TerritoryOf(u))
  <2>1. place[u] \in Int /\ place[t] \in Int /\ place[u] # place[t]
    BY <1>1, <1>2, <1>6
  <2>2. place[u] < place[t] \/ place[t] < place[u]
    BY <2>1
  <2> QED BY <1>5, <2>2, ConflictsSymmetric
<1> QED BY <1>2, <1>4, <1>6

LEMMA DispatchKeepsLaneInv ==
  ASSUME LaneInv, Dispatch
  PROVE  LaneInv'
<1> USE DEF LaneInv
<1>1. PICK score \in {[t \in Candidates |-> Score(t)]} :
        \E place \in Rankings(score) : \E S \in SUBSET DOMAIN place :
          LET first == {t \in S : Cardinality({u \in S : place[u] < place[t]}) < FreeSlots}
          IN  /\ IsReadySet(S, place)
              /\ entry' = NotePassedOver(first, S \ first)
              /\ lanes' = lanes \cup
                   {[ticket |-> t, terr |-> TerritoryOf(t)] : t \in first}
  BY DEF Dispatch
<1>20. PICK place \in Rankings(score) : \E S \in SUBSET DOMAIN place :
          LET first == {t \in S : Cardinality({u \in S : place[u] < place[t]}) < FreeSlots}
          IN  /\ IsReadySet(S, place)
              /\ entry' = NotePassedOver(first, S \ first)
              /\ lanes' = lanes \cup
                   {[ticket |-> t, terr |-> TerritoryOf(t)] : t \in first}
  BY <1>1
<1>2. PICK S \in SUBSET DOMAIN place :
          LET first == {t \in S : Cardinality({u \in S : place[u] < place[t]}) < FreeSlots}
          IN  /\ IsReadySet(S, place)
              /\ entry' = NotePassedOver(first, S \ first)
              /\ lanes' = lanes \cup
                   {[ticket |-> t, terr |-> TerritoryOf(t)] : t \in first}
  BY <1>20
<1> DEFINE first == {t \in S : Cardinality({u \in S : place[u] < place[t]}) < FreeSlots}
<1>3. /\ IsReadySet(S, place)
      /\ entry' = NotePassedOver(first, S \ first)
      /\ lanes' = lanes \cup {[ticket |-> t, terr |-> TerritoryOf(t)] : t \in first}
  BY <1>2
<1>4. first \subseteq S
  OBVIOUS
<1> HIDE DEF first
<1>5. DOMAIN score = Candidates
  BY <1>1
<1>6. \A t \in S :
        /\ S \subseteq Tickets
        /\ \A l \in lanes : ~Conflicts(TerritoryOf(t), l.terr)
        /\ \A u \in S : u # t => ~Conflicts(TerritoryOf(t), TerritoryOf(u))
  BY <1>2, <1>3, <1>5, ReadyIsDisjoint
<1>7. first \subseteq Tickets
  BY <1>4, <1>6
<1>8. entry' \in [Tickets -> Entry]
      /\ \A t \in Tickets : entry'[t].touched = entry[t].touched
  BY <1>3, CreditKeepsTouched
<1>9. \A t \in Tickets : TerritoryOf(t)' = TerritoryOf(t)
  BY <1>8 DEF TerritoryOf
<1>10. TypeOK'
  <2>1. \A t \in first : [ticket |-> t, terr |-> TerritoryOf(t)] \in Lane
    BY <1>7, TerritoryIsLock DEF Lane
  <2>2. lanes' \subseteq Lane
    BY <1>3, <2>1 DEF TypeOK
  <2> QED BY <1>8, <2>2 DEF TypeOK, Dispatch
<1>11. LanesDisjoint'
  <2> SUFFICES ASSUME NEW l \in lanes', NEW m \in lanes', l # m
               PROVE  l.ticket # m.ticket /\ ~Conflicts(l.terr, m.terr)
    BY DEF LanesDisjoint, Conflicts
  <2>1. CASE l \in lanes /\ m \in lanes
    BY <2>1 DEF LanesDisjoint
  <2>2. ASSUME NEW k \in lanes, NEW t \in first
        PROVE  k.ticket # t /\ ~Conflicts(TerritoryOf(t), k.terr)
    <3>1. ~Conflicts(TerritoryOf(t), k.terr)
      BY <1>4, <1>6
    <3> QED BY <3>1 DEF LanesHold
  <2>3. CASE l \in lanes /\ m \notin lanes
    <3>1. PICK t \in first : m = [ticket |-> t, terr |-> TerritoryOf(t)]
      BY <1>3, <2>3
    <3> QED BY <2>2, <2>3, <3>1, ConflictsSymmetric
  <2>4. CASE l \notin lanes /\ m \in lanes
    <3>1. PICK t \in first : l = [ticket |-> t, terr |-> TerritoryOf(t)]
      BY <1>3, <2>4
    <3> QED BY <2>2, <2>4, <3>1, ConflictsSymmetric
  <2>5. CASE l \notin lanes /\ m \notin lanes
    <3>1. PICK t \in first : l = [ticket |-> t, terr |-> TerritoryOf(t)]
      BY <1>3, <2>5
    <3>2. PICK u \in first : m = [ticket |-> u, terr |-> TerritoryOf(u)]
      BY <1>3, <2>5
    <3>3. t # u
      BY <3>1, <3>2
    <3> QED BY <1>4, <1>6, <3>1, <3>2, <3>3
  <2> QED BY <2>1, <2>3, <2>4, <2>5
<1>12. LanesHold'
  <2> SUFFICES ASSUME NEW l \in lanes'
               PROVE  Conflicts(TerritoryOf(l.ticket)', l.terr)
    BY DEF LanesHold, Conflicts
  <2>1. CASE l \in lanes
    <3>1. l.ticket \in Tickets
      BY <2>1 DEF TypeOK, Lane
    <3> QED BY <1>9, <2>1, <3>1 DEF LanesHold
  <2>2. CASE l \notin lanes
    <3>1. PICK t \in first : l = [ticket |-> t, terr |-> TerritoryOf(t)]
      BY <1>3, <2>2
    <3> QED BY <1>7, <1>9, <3>1, TerritoryCollides
  <2> QED BY <2>1, <2>2
<1> QED BY <1>10, <1>11, <1>12

----------------------------------------------------------------------------
(* The other steps *)

\* Steps that neither dispatch nor end a lane and keep what lanes touched.
LEMMA QuietKeepsLaneInv ==
  ASSUME LaneInv, TypeOK', UNCHANGED lanes,
         \A l \in lanes : entry'[l.ticket].touched = entry[l.ticket].touched
  PROVE  LaneInv'
<1>1. \A l \in lanes : TerritoryOf(l.ticket)' = TerritoryOf(l.ticket)
  BY DEF TerritoryOf
<1>2. LanesDisjoint'
  BY DEF LaneInv, LanesDisjoint, Conflicts
<1>3. LanesHold'
  BY <1>1 DEF LaneInv, LanesHold, Conflicts
<1> QED BY <1>2, <1>3 DEF LaneInv

LEMMA LaneEndKeepsLaneInv ==
  ASSUME LaneInv, NEW l \in lanes, LaneEnds(l)
  PROVE  LaneInv'
<1>1. PICK res \in Results :
        entry' = AfterLane(l, res) /\ status' = BoardAfter(l, res)
  BY DEF LaneEnds
<1>2. res \in LaneResult /\ l.ticket \in Tickets /\ l \in Lane
  BY GraphAssumption DEF LaneInv, TypeOK, Lane
<1>3. entry[l.ticket] \in Entry
  BY <1>2 DEF LaneInv, TypeOK
<1>4. entry' \in [Tickets -> Entry]
  <2> DEFINE old == entry[l.ticket]
             conflict == res.conflict \/ (old.conflict /\ ~res.ok)
             parked   == old.parked \/ res.parked
             attempts == old.attempts + (IF res.parked THEN 0 ELSE 1)
             new == [old EXCEPT !.known = TRUE,
                                !.touched = old.touched \cup res.touched,
                                !.conflict = conflict,
                                !.parked = parked,
                                !.attempts = attempts]
  <2>1. entry' = [entry EXCEPT ![l.ticket] = new]
    BY <1>1 DEF AfterLane
  <2>2. conflict \in BOOLEAN /\ parked \in BOOLEAN
    BY Zenon
  <2>3. attempts \in Nat /\ old.touched \cup res.touched \in SUBSET Files
    BY <1>2, <1>3 DEF Entry, LaneResult
  <2> HIDE DEF conflict, parked, attempts
  <2>4. new \in Entry
    BY <1>3, <2>2, <2>3 DEF Entry
  <2> HIDE DEF new
  <2> QED BY <2>1, <2>4 DEF LaneInv, TypeOK
<1>5. status' \in [Tickets -> TicketStatuses]
  BY <1>1, <1>2 DEF LaneInv, TypeOK, BoardAfter
<1>6. TypeOK'
  BY <1>4, <1>5 DEF LaneInv, TypeOK, LaneEnds
<1>7. lanes' = lanes \ {l}
  BY DEF LaneEnds
<1>8. \A m \in lanes' : m.ticket # l.ticket /\ m.ticket \in Tickets
  BY <1>7 DEF LaneInv, LanesDisjoint, TypeOK, Lane
<1>9. \A m \in lanes' : entry'[m.ticket] = entry[m.ticket]
  BY <1>1, <1>8 DEF AfterLane, LaneInv, TypeOK
<1>10. \A m \in lanes' : TerritoryOf(m.ticket)' = TerritoryOf(m.ticket)
  BY <1>9 DEF TerritoryOf
<1>11. LanesDisjoint'
  BY <1>7 DEF LaneInv, LanesDisjoint, Conflicts
<1>12. LanesHold'
  BY <1>7, <1>10 DEF LaneInv, LanesHold, Conflicts
<1> QED BY <1>6, <1>11, <1>12 DEF LaneInv

LEMMA MoveKeepsLaneInv ==
  ASSUME LaneInv, NEW t \in Tickets, Move(t) \/ ReleasePark(t) \/ Refile(t)
  PROVE  LaneInv'
<1> USE DEF LaneInv
<1>1. CASE Move(t)
  <2>1. TypeOK'
    BY <1>1, GraphAssumption DEF Move, Event, TypeOK
  <2> QED BY <1>1, <2>1, QuietKeepsLaneInv DEF Move
<1>2. CASE ReleasePark(t)
  <2>0. entry[t] \in Entry
    BY DEF TypeOK
  <2>1. TypeOK'
    <3>1. [entry[t] EXCEPT !.parked = FALSE] \in Entry
      BY <2>0 DEF Entry
    <3>2. entry' \in [Tickets -> Entry]
      BY <1>2, <3>1 DEF ReleasePark, TypeOK
    <3> QED BY <1>2, <3>2 DEF ReleasePark, Event, TypeOK
  <2>2. \A l \in lanes : entry'[l.ticket].touched = entry[l.ticket].touched
    BY <1>2, <2>0 DEF ReleasePark, TypeOK, Entry, Lane
  <2> QED BY <1>2, <2>1, <2>2, QuietKeepsLaneInv DEF ReleasePark
<1>3. CASE Refile(t)
  <2>1. TypeOK'
    BY <1>3 DEF Refile, NoEntry, TypeOK, Entry
  <2>2. \A l \in lanes : entry'[l.ticket].touched = entry[l.ticket].touched
    BY <1>3 DEF Refile, TypeOK, Lane
  <2> QED BY <1>3, <2>1, <2>2, QuietKeepsLaneInv DEF Refile
<1> QED BY <1>1, <1>2, <1>3

LEMMA CycleKeepsLaneInv ==
  ASSUME LaneInv, Wait \/ SettleDrained \/ SettleBlocked \/ Wake \/ Resume
                  \/ ClaimsChange \/ UNCHANGED vars
  PROVE  LaneInv'
<1> USE DEF LaneInv
<1>1. TypeOK'
  BY GraphAssumption DEF Wait, SettleDrained, SettleBlocked, Wake, Resume,
     ClaimsChange, Event, vars, TypeOK
<1>2. UNCHANGED <<entry, lanes>>
  BY DEF Wait, SettleDrained, SettleBlocked, Wake, Resume, ClaimsChange, vars
<1> QED BY <1>1, <1>2, QuietKeepsLaneInv

LEMMA InitLaneInv == Init => LaneInv
  BY GraphAssumption
     DEF Init, LaneInv, TypeOK, LanesDisjoint, LanesHold, NoEntry, Entry

LEMMA NextLaneInv == LaneInv /\ [Next]_vars => LaneInv'
<1> SUFFICES ASSUME LaneInv, [Next]_vars PROVE LaneInv'
  OBVIOUS
<1>1. CASE Dispatch
  BY <1>1, DispatchKeepsLaneInv
<1>2. CASE \E l \in lanes : LaneEnds(l)
  BY <1>2, LaneEndKeepsLaneInv
<1>3. CASE \E t \in Tickets : Move(t) \/ ReleasePark(t) \/ Refile(t)
  BY <1>3, MoveKeepsLaneInv
<1>4. CASE Wait \/ SettleDrained \/ SettleBlocked \/ Wake \/ Resume
           \/ ClaimsChange \/ UNCHANGED vars
  BY <1>4, CycleKeepsLaneInv
<1> QED BY <1>1, <1>2, <1>3, <1>4 DEF Next, Pass

----------------------------------------------------------------------------

\* The variables keep their types.
THEOREM GraphTypeCorrect == Spec => []TypeOK
<1>1. LaneInv => TypeOK
  BY DEF LaneInv
<1> QED BY InitLaneInv, NextLaneInv, <1>1, PTL DEF Spec

\* computeGraphReadySet and the supervisor: whatever the ranking, two lanes in
\* flight have different tickets and territories that do not overlap.
THEOREM GraphLanesDisjoint == Spec => []LanesDisjoint
<1>1. LaneInv => LanesDisjoint
  BY DEF LaneInv
<1> QED BY InitLaneInv, NextLaneInv, <1>1, PTL DEF Spec

----------------------------------------------------------------------------
(* How long a ticket may be passed over *)

\* A finite set of numbers has a greatest one: of the sets that have none, a
\* smallest one would still have none with an element less.
LEMMA FiniteHasGreatest ==
  ASSUME NEW S \in SUBSET Int, IsFiniteSet(S), S # {}
  PROVE  \E m \in S : \A s \in S : s <= m
<1> DEFINE HasNone == {X \in SUBSET S : X # {} /\ ~ \E m \in X : \A s \in X : s <= m}
<1> SUFFICES ASSUME HasNone # {} PROVE FALSE
  OBVIOUS
<1>1. IsWellFoundedOn(StrictSubsetOrdering(S), FiniteSubsetsOf(S))
  BY FS_StrictSubsetOrderingWellFounded
<1>2. HasNone \subseteq FiniteSubsetsOf(S)
  BY FS_FiniteSubsetsOfFinite
<1>3. PICK X \in HasNone : \A Y \in HasNone : <<Y, X>> \notin StrictSubsetOrdering(S)
  <2> HIDE DEF HasNone
  <2> QED BY <1>1, <1>2, WFMin
<1>4. PICK x \in X : TRUE
  OBVIOUS
<1>5. X \ {x} # {}
  BY <1>4
<1>6. <<X \ {x}, X>> \in StrictSubsetOrdering(S)
  BY <1>4 DEF StrictSubsetOrdering
<1>7. X \ {x} \notin HasNone
  BY <1>3, <1>6
<1>8. PICK m \in X \ {x} : \A s \in X \ {x} : s <= m
  BY <1>5, <1>7
<1>9. CASE x <= m
  BY <1>8, <1>9
<1>10. CASE ~(x <= m)
  <2>1. m \in Int /\ x \in Int
    OBVIOUS
  <2>2. \A s \in X : s <= x
    BY <1>8, <1>10, <2>1
  <2> QED BY <2>2
<1> QED BY <1>9, <1>10

\* What the values of a function on a finite set are, is finite.
LEMMA FiniteValues ==
  ASSUME NEW S, IsFiniteSet(S), NEW f, DOMAIN f = S
  PROVE  IsFiniteSet({f[x] : x \in S})
<1> DEFINE g == [x \in S |-> f[x]]
           T == {f[x] : x \in S}
<1>1. g \in Surjection(S, T)
  BY DEF Surjection
<1> HIDE DEF g, T
<1>2. IsFiniteSet(T)
  BY <1>1, FS_Surjection
<1> QED BY <1>2 DEF T

\* The widest gap between two tickets is one.
LEMMA HeadwayCovers ==
  ASSUME NEW t \in Tickets, NEW u \in Tickets
  PROVE  Headway \in Nat /\ Base[t] - Base[u] + 95 < 10 * (1 + Headway)
<1> DEFINE pairs == Tickets \X Tickets
           gap == [p \in pairs |-> Base[p[1]] - Base[p[2]]]
           gaps == {Base[p[1]] - Base[p[2]] : p \in pairs}
           widest == Max(gaps)
<1>0. Base \in [Tickets -> Int] /\ IsFiniteSet(Tickets)
  BY GraphAssumption
<1>1. IsFiniteSet(pairs)
  BY <1>0, FS_Product
<1>2. gaps = {gap[p] : p \in pairs}
  OBVIOUS
<1>3. IsFiniteSet(gaps)
  <2>1. DOMAIN gap = pairs
    OBVIOUS
  <2> HIDE DEF gap, pairs, gaps
  <2> QED BY <1>1, <1>2, <2>1, FiniteValues
<1>5. \A v, w \in Tickets : Base[v] - Base[w] \in gaps
  <2>1. \A v, w \in Tickets : <<v, w>> \in pairs /\ gap[<<v, w>>] = Base[v] - Base[w]
    OBVIOUS
  <2> HIDE DEF gap, pairs, gaps
  <2> QED BY <1>2, <2>1
<1>4. gaps \in SUBSET Int /\ gaps # {}
  <2>1. \A p \in pairs : gap[p] \in Int
    BY <1>0
  <2> HIDE DEF gap, pairs, gaps
  <2> QED BY <1>2, <1>5, <2>1
<1>6. widest \in gaps /\ \A g \in gaps : widest >= g
  <2> HIDE DEF gaps
  <2>1. PICK m \in gaps : \A g \in gaps : g <= m
    BY <1>3, <1>4, FiniteHasGreatest
  <2>2. \E x \in gaps : \A y \in gaps : x >= y
    BY <1>4, <2>1
  <2> QED BY <2>2 DEF Max
<1>7. Headway = (95 + widest) \div 10
  BY DEF Headway
<1>8. Base[t] - Base[t] \in gaps /\ Base[t] - Base[u] \in gaps /\ Base[t] - Base[t] = 0
  <2> HIDE DEF gaps
  <2>1. Base[t] \in Int
    BY <1>0
  <2> QED BY <1>5, <2>1
<1> HIDE DEF gaps
<1>9. widest \in Int
  BY <1>4, <1>6
<1>10. widest >= 0 /\ widest >= Base[t] - Base[u] /\ Base[t] - Base[u] \in Int
  BY <1>4, <1>6, <1>8
<1> HIDE DEF widest
<1>11. ASSUME NEW w \in Int, NEW b \in Int, w >= 0, w >= b
       PROVE  (95 + w) \div 10 \in Nat /\ b + 95 < 10 * (1 + (95 + w) \div 10)
  BY <1>11
<1> QED BY <1>7, <1>9, <1>10, <1>11

\* A pass is behind no ticket with much less credit: the graph and a start on the
\* work give 95 points at most, every pass 10.
LEMMA OutrankedByCredit ==
  ASSUME TypeOK, NEW t \in Tickets, NEW u \in Tickets,
         ~entry[t].conflict, ~(Score(t) > Score(u))
  PROVE  entry[u].passedOver + Headway >= entry[t].passedOver
<1> DEFINE begun(v)  == IF status[v] = "in_progress" THEN 30 ELSE 0
           fanOut(v) == Least(40, 8 * Cardinality(Downstream(v)))
           chain(v)  == IF v \in CriticalPath THEN 25 ELSE 0
           clash(v)  == IF entry[v].conflict THEN 30 ELSE 0
<1>1. \A v \in Tickets :
        Score(v) = Base[v] + begun(v) + fanOut(v) + chain(v) + 10 * entry[v].passedOver - clash(v)
  BY DEF Score
<1>2. \A v \in Tickets : begun(v) \in 0 .. 30 /\ chain(v) \in 0 .. 25 /\ clash(v) \in 0 .. 30
  OBVIOUS
<1>3. ASSUME NEW v \in Tickets
      PROVE  fanOut(v) \in 0 .. 40
  <2>1. Downstream(v) \in SUBSET Tickets
    BY DEF Downstream, OnBoard
  <2> DEFINE n == Cardinality(Downstream(v))
  <2>2. n \in Nat
    BY <2>1, GraphAssumption, FS_Subset, FS_CardinalityType
  <2> HIDE DEF n
  <2>3. Least(40, 8 * n) \in 0 .. 40
    BY <2>2 DEF Least
  <2> QED BY <2>3 DEF n
<1>4. clash(t) = 0
  OBVIOUS
<1>5. \A v \in Tickets : entry[v].passedOver \in Nat
  BY DEF TypeOK, Entry
<1>6. Headway \in Nat /\ Base[u] - Base[t] + 95 < 10 * (1 + Headway)
  BY HeadwayCovers
<1>7. Base[t] \in Int /\ Base[u] \in Int
  BY GraphAssumption
<1> HIDE DEF begun, fanOut, chain, clash
<1>8. ASSUME NEW bt \in Int, NEW bu \in Int, NEW p \in Nat, NEW q \in Nat, NEW h \in Nat,
             NEW f1 \in 0 .. 30, NEW f2 \in 0 .. 40, NEW f3 \in 0 .. 25,
             NEW g1 \in 0 .. 30, NEW g2 \in 0 .. 40, NEW g3 \in 0 .. 25, NEW c \in 0 .. 30,
             bu - bt + 95 < 10 * (1 + h),
             ~(bt + f1 + f2 + f3 + 10 * p - 0 > bu + g1 + g2 + g3 + 10 * q - c)
      PROVE  q + h >= p
  BY <1>8
<1>9. ~(Base[t] + begun(t) + fanOut(t) + chain(t) + 10 * entry[t].passedOver - 0
        > Base[u] + begun(u) + fanOut(u) + chain(u) + 10 * entry[u].passedOver - clash(u))
  BY <1>1, <1>4
<1> QED BY <1>2, <1>3, <1>5, <1>6, <1>7, <1>8, <1>9

\* What a pass makes of the credits.
LEMMA CreditAfterPass ==
  ASSUME TypeOK, NEW D, NEW W, D \cap W = {}, NEW t \in Tickets
  PROVE  LET p == NotePassedOver(D, W)[t].passedOver
         IN  /\ t \in D => p = 0
             /\ t \in W => p = entry[t].passedOver + 1
             /\ t \notin D /\ t \notin W => p = entry[t].passedOver
<1> DEFINE reset(e) == [e EXCEPT !.passedOver = 0]
           more(e)  == [e EXCEPT !.known = TRUE, !.passedOver = @ + 1]
<1>1. NotePassedOver(D, W)[t] =
        CASE t \in D -> reset(entry[t]) [] t \in W -> more(entry[t]) [] OTHER -> entry[t]
  BY DEF NotePassedOver
<1>2. entry[t] \in Entry
  BY DEF TypeOK
<1>3. reset(entry[t]).passedOver = 0
  BY <1>2 DEF Entry
<1>4. more(entry[t]).passedOver = entry[t].passedOver + 1
  BY <1>2 DEF Entry
<1> HIDE DEF reset, more
<1>5. CASE t \in D
  BY <1>1, <1>3, <1>5
<1>6. CASE t \notin D /\ t \in W
  BY <1>1, <1>4, <1>6
<1>7. CASE t \notin D /\ t \notin W
  BY <1>1, <1>7
<1> QED BY <1>5, <1>6, <1>7

\* The tickets of a ready set that a pass dispatches.
First(S, place) ==
  {t \in S : Cardinality({u \in S : place[u] < place[t]}) < FreeSlots}

\* A ticket that a pass leaves waiting has not collided, and all that the pass
\* dispatches, somebody at least, is placed before it.
LEMMA WaitsBehind ==
  ASSUME TypeOK, IsFiniteSet(lanes), FreeSlots > 0,
         NEW score, DOMAIN score = Candidates,
         NEW place \in Rankings(score), NEW S \in SUBSET DOMAIN place,
         IsReadySet(S, place), NEW t \in S \ First(S, place)
  PROVE  /\ ~entry[t].conflict
         /\ First(S, place) # {}
         /\ \A u \in First(S, place) : ~(score[t] > score[u])
<1> DEFINE first == First(S, place)
           N == Cardinality(Candidates)
           Ahead(v) == {u \in S : place[u] < place[v]}
<1>1. place \in [Candidates -> 1..N]
      /\ \A p, q \in Candidates : place[p] = place[q] => p = q
      /\ \A v, w \in Candidates : score[v] > score[w] => place[v] < place[w]
  BY DEF Rankings, Bijection, Injection, Surjection, IsInjective
<1>2. S \subseteq Candidates /\ Candidates \subseteq Tickets /\ IsFiniteSet(Tickets)
  BY <1>1, GraphAssumption DEF Candidates
<1>3. IsFiniteSet(S) /\ IsFiniteSet(Candidates)
  BY <1>2, FS_Subset
<1>4. N \in Nat
  BY <1>3, FS_CardinalityType
<1> HIDE DEF N
<1>5. \A v \in S : place[v] \in Int
  BY <1>1, <1>2, <1>4
<1>6. FreeSlots \in Int
  BY GraphAssumption, FS_CardinalityType DEF FreeSlots
<1>7. \A v \in S : v \in first <=> Cardinality(Ahead(v)) < FreeSlots
  BY DEF First
<1>70. first \subseteq S
  BY DEF First
<1> HIDE DEF first
<1>8. \A v \in S : Ahead(v) \in SUBSET S /\ IsFiniteSet(Ahead(v)) /\ Cardinality(Ahead(v)) \in Nat
  BY <1>3, FS_Subset, FS_CardinalityType
<1>9. \A v \in S : Ahead(v) = {} => v \in first
  BY <1>7, FS_EmptySet
<1>10. Ahead(t) # {}
  BY <1>9 DEF first
<1>11. ~entry[t].conflict
  <2>1. Admits(t, Ahead(t))
    BY <1>1, <1>2 DEF IsReadySet
  <2>2. Claimed(Ahead(t)) # {}
    BY <1>10 DEF Claimed
  <2> QED BY <2>1, <2>2 DEF Admits, RunsAlone
<1>12. first # {}
  <2> DEFINE far == [v \in S |-> 0 - place[v]]
  <2>1. \A v \in S : far[v] = 0 - place[v] /\ far[v] \in Int
    BY <1>5
  <2>2. DOMAIN far = S
    OBVIOUS
  <2> HIDE DEF far
  <2>3. IsFiniteSet({far[v] : v \in S})
    BY <1>3, <2>2, FiniteValues
  <2>4. {far[v] : v \in S} \in SUBSET Int /\ {far[v] : v \in S} # {}
    BY <2>1
  <2>5. PICK m \in {far[v] : v \in S} : \A n \in {far[v] : v \in S} : n <= m
    BY <2>3, <2>4, FiniteHasGreatest
  <2>6. PICK v \in S : m = far[v]
    BY <2>5
  <2>7. ASSUME NEW w \in S PROVE ~(place[w] < place[v])
    <3>1. far[w] <= far[v]
      BY <2>5, <2>6
    <3>2. far[w] = 0 - place[w] /\ far[v] = 0 - place[v] /\ place[w] \in Int /\ place[v] \in Int
      BY <1>5, <2>1
    <3> QED BY <3>1, <3>2
  <2>8. Ahead(v) = {}
    BY <2>7
  <2> QED BY <1>9, <2>8
<1>13. ASSUME NEW u \in first
       PROVE  ~(score[t] > score[u])
  <2>0. u \in S
    BY <1>70
  <2>1. SUFFICES ASSUME place[t] < place[u] PROVE FALSE
    BY <1>1, <1>2, <2>0
  <2>2. Ahead(t) \in SUBSET Ahead(u)
    BY <1>5, <2>0, <2>1
  <2>3. Cardinality(Ahead(t)) <= Cardinality(Ahead(u))
    BY <1>8, <2>0, <2>2, FS_Subset
  <2>4. Cardinality(Ahead(u)) < FreeSlots /\ ~(Cardinality(Ahead(t)) < FreeSlots)
    BY <1>7, <2>0 DEF first
  <2>5. Cardinality(Ahead(t)) \in Nat /\ Cardinality(Ahead(u)) \in Nat
    BY <1>8, <2>0
  <2> HIDE DEF Ahead
  <2> QED BY <1>6, <2>3, <2>4, <2>5
<1> QED BY <1>11, <1>12, <1>13 DEF first

\* The tickets that were passed over more than level times the headway.
Above(level) == {t \in Tickets : entry[t].passedOver > level * (1 + Headway)}

\* The higher the level, the fewer: to raise a ticket over a level, a pass must
\* dispatch a rival that was over the level below, and that one starts over.
CreditInv ==
  /\ IsFiniteSet(lanes)
  /\ \A level \in 0 .. Cardinality(Tickets) - 1 :
       Cardinality(Above(level)) <= Cardinality(Tickets) - 1 - level

LEMMA AboveIsFinite ==
  ASSUME NEW level
  PROVE  /\ IsFiniteSet(Above(level)) /\ Cardinality(Above(level)) \in Nat
         /\ IsFiniteSet(Tickets) /\ Cardinality(Tickets) \in Nat
  BY GraphAssumption, FS_Subset, FS_CardinalityType DEF Above

\* Steps after which no ticket has more credit than before.
LEMMA NoCreditKeepsCreditInv ==
  ASSUME LaneInv, LaneInv', CreditInv, IsFiniteSet(lanes'),
         \A t \in Tickets : entry'[t].passedOver <= entry[t].passedOver
  PROVE  CreditInv'
<1> SUFFICES ASSUME NEW level \in 0 .. Cardinality(Tickets) - 1
             PROVE  Cardinality(Above(level)') <= Cardinality(Tickets) - 1 - level
  BY DEF CreditInv
<1>1. Above(level)' \subseteq Above(level)
  <2> SUFFICES ASSUME NEW t \in Tickets, entry'[t].passedOver > level * (1 + Headway)
               PROVE  entry[t].passedOver > level * (1 + Headway)
    BY DEF Above
  <2> DEFINE h == level * (1 + Headway)
  <2>1. h \in Int
    BY HeadwayCovers, AboveIsFinite
  <2>2. entry[t].passedOver \in Nat /\ entry'[t].passedOver \in Nat
    BY DEF LaneInv, TypeOK, Entry
  <2> HIDE DEF h
  <2>3. entry'[t].passedOver > h => entry[t].passedOver > h
    BY <2>1, <2>2
  <2> QED BY <2>3 DEF h
<1>2. Cardinality(Above(level)') <= Cardinality(Above(level))
  BY <1>1, AboveIsFinite, FS_Subset
<1>3. Cardinality(Above(level)) <= Cardinality(Tickets) - 1 - level
  BY DEF CreditInv
<1>4. Cardinality(Above(level)') \in Nat
  BY <1>1, AboveIsFinite, FS_Subset, FS_CardinalityType
<1> QED BY <1>2, <1>3, <1>4, AboveIsFinite

LEMMA DispatchKeepsCreditInv ==
  ASSUME LaneInv, LaneInv', CreditInv, Dispatch
  PROVE  CreditInv'
<1> USE DEF LaneInv
<1>1. PICK score \in {[t \in Candidates |-> Score(t)]} :
        \E place \in Rankings(score) : \E S \in SUBSET DOMAIN place :
          LET first == {t \in S : Cardinality({u \in S : place[u] < place[t]}) < FreeSlots}
          IN  /\ IsReadySet(S, place)
              /\ entry' = NotePassedOver(first, S \ first)
              /\ lanes' = lanes \cup
                   {[ticket |-> t, terr |-> TerritoryOf(t)] : t \in first}
  BY DEF Dispatch
<1>20. PICK place \in Rankings(score) : \E S \in SUBSET DOMAIN place :
          LET first == {t \in S : Cardinality({u \in S : place[u] < place[t]}) < FreeSlots}
          IN  /\ IsReadySet(S, place)
              /\ entry' = NotePassedOver(first, S \ first)
              /\ lanes' = lanes \cup
                   {[ticket |-> t, terr |-> TerritoryOf(t)] : t \in first}
  BY <1>1
<1>2. PICK S \in SUBSET DOMAIN place :
          LET first == {t \in S : Cardinality({u \in S : place[u] < place[t]}) < FreeSlots}
          IN  /\ IsReadySet(S, place)
              /\ entry' = NotePassedOver(first, S \ first)
              /\ lanes' = lanes \cup
                   {[ticket |-> t, terr |-> TerritoryOf(t)] : t \in first}
  BY <1>20
<1> DEFINE first == {t \in S : Cardinality({u \in S : place[u] < place[t]}) < FreeSlots}
           waiting == S \ first
           p(t) == entry[t].passedOver
           q(t) == entry'[t].passedOver
           N == Cardinality(Tickets)
           h == 1 + Headway
<1>3. /\ IsReadySet(S, place)
      /\ entry' = NotePassedOver(first, waiting)
      /\ lanes' = lanes \cup {[ticket |-> t, terr |-> TerritoryOf(t)] : t \in first}
  BY <1>2
<1>4. score = [t \in Candidates |-> Score(t)] /\ DOMAIN score = Candidates
  BY <1>1
<1>5. S \subseteq Candidates /\ Candidates \subseteq Tickets
  BY <1>4 DEF Rankings, Bijection, Injection, Candidates
<1>6. FreeSlots > 0 /\ IsFiniteSet(lanes)
  BY DEF Dispatch, Dispatchable, CreditInv
<1>7. first \subseteq S /\ waiting \subseteq S /\ first \cap waiting = {}
  OBVIOUS
<1>8. \A t \in waiting : /\ ~entry[t].conflict /\ first # {}
                         /\ \A u \in first : ~(score[t] > score[u])
  <2> SUFFICES ASSUME NEW t \in S \ first
               PROVE  /\ ~entry[t].conflict /\ first # {}
                      /\ \A u \in first : ~(score[t] > score[u])
    OBVIOUS
  <2> HIDE DEF first
  <2>1. first = First(S, place)
    BY DEF first, First
  <2>2. IsReadySet(S, place) /\ t \in S \ first /\ TypeOK
    BY <1>3
  <2>3. place \in Rankings(score) /\ S \in SUBSET DOMAIN place
    BY <1>20, <1>2
  <2>4. DOMAIN score = Candidates
    BY <1>4
  <2> QED BY ONLY <1>6, <2>1, <2>2, <2>3, <2>4, WaitsBehind
<1> HIDE DEF first, waiting
<1>9. \A t \in Tickets : /\ t \in first => q(t) = 0
                         /\ t \in waiting => q(t) = p(t) + 1
                         /\ t \notin first /\ t \notin waiting => q(t) = p(t)
  BY <1>3, <1>7, CreditAfterPass
<1>10. \A t \in Tickets : p(t) \in Nat /\ q(t) \in Nat
  BY DEF TypeOK, Entry
<1>11. ASSUME NEW t \in waiting, NEW u \in first
       PROVE  p(u) + Headway >= p(t)
  <2>1. t \in Candidates /\ u \in Candidates /\ t \in Tickets /\ u \in Tickets
    BY <1>5, <1>7
  <2>2. ~(Score(t) > Score(u))
    BY <1>4, <1>8, <2>1
  <2> QED BY <1>8, <2>1, <2>2, OutrankedByCredit
<1>12. IsFiniteSet(lanes')
  <2> DEFINE launched == [t \in first |-> [ticket |-> t, terr |-> TerritoryOf(t)]]
  <2>1. IsFiniteSet(first)
    BY <1>5, <1>7, GraphAssumption, FS_Subset
  <2>2. IsFiniteSet({launched[t] : t \in first})
    <3>1. DOMAIN launched = first
      OBVIOUS
    <3> HIDE DEF launched
    <3> QED BY <2>1, <3>1, FiniteValues
  <2>3. lanes' = lanes \cup {launched[t] : t \in first}
    BY <1>3
  <2> HIDE DEF launched
  <2> QED BY <1>6, <2>2, <2>3, FS_Union
<1> SUFFICES ASSUME NEW level \in 0 .. N - 1
             PROVE  Cardinality(Above(level)') <= N - 1 - level
  BY <1>12 DEF CreditInv
<1>13. N \in Nat /\ IsFiniteSet(Tickets)
  BY AboveIsFinite
<1>14. h \in Nat /\ h > Headway /\ Headway \in Nat /\ h = Headway + 1
  BY <1>13, HeadwayCovers, FS_EmptySet
<1>15. \A k \in 0 .. N - 1 :
         /\ Above(k) = {t \in Tickets : p(t) > k * h}
         /\ Above(k)' = {t \in Tickets : q(t) > k * h}
         /\ IsFiniteSet(Above(k)) /\ Cardinality(Above(k)) \in Nat
         /\ Cardinality(Above(k)) <= N - 1 - k
  BY AboveIsFinite DEF Above, CreditInv
<1> HIDE DEF p, q, h
<1>16. CASE Above(level)' \subseteq Above(level)
  <2>1. Cardinality(Above(level)') <= Cardinality(Above(level)) /\ Cardinality(Above(level)') \in Nat
    BY <1>15, <1>16, FS_Subset, FS_CardinalityType
  <2> HIDE DEF N
  <2> QED BY <1>13, <1>15, <2>1
<1>17. CASE ~(Above(level)' \subseteq Above(level))
  <2>0. level * h \in Nat
    BY <1>13, <1>14
  <2>1. PICK t \in Tickets : q(t) > level * h /\ ~(p(t) > level * h)
    BY <1>15, <1>17
  <2>2. t \in waiting /\ q(t) = p(t) + 1
    BY <1>9, <1>10, <2>0, <2>1
  <2>3. p(t) = level * h
    BY <1>10, <2>0, <2>1, <2>2
  <2>4. PICK u \in first : TRUE
    BY <1>8, <2>2
  <2>5. u \in Tickets /\ q(u) = 0
    BY <1>5, <1>7, <1>9
  <2>6. u \notin Above(level)'
    <3>1. ~(q(u) > level * h)
      BY <2>0, <2>5
    <3> QED BY <1>15, <3>1
  <2>7. CASE level = 0
    <3>1. Above(level)' \subseteq Tickets \ {u}
      BY <1>15, <2>6
    <3>2. IsFiniteSet(Tickets \ {u}) /\ Cardinality(Tickets \ {u}) = N - 1
      BY <1>13, <2>5, FS_RemoveElement
    <3>3. Cardinality(Above(level)') <= N - 1
      BY <3>1, <3>2, FS_Subset
    <3> HIDE DEF N
    <3> QED BY <1>13, <2>7, <3>3
  <2>8. CASE level # 0
    <3> DEFINE below == level - 1
    <3>1. below \in 0 .. N - 1 /\ level = below + 1 /\ level \in Nat /\ below \in Nat
      BY <1>13, <2>8
    <3> HIDE DEF below
    <3>2. level * h = below * h + h /\ below * h \in Nat
      BY <1>14, <3>1
    <3>3. u \in Above(below)
      <4>1. p(u) + Headway >= p(t)
        BY <1>11, <2>2
      <4>2. p(u) > below * h
        BY <1>10, <1>14, <2>3, <2>5, <3>2, <4>1
      <4> QED BY <1>15, <2>5, <3>1, <4>2
    <3>4. Above(level)' \subseteq Above(below) \ {u}
      <4> SUFFICES ASSUME NEW v \in Tickets, q(v) > level * h
                   PROVE  p(v) > below * h
        BY <1>15, <2>6, <3>1
      <4>1. q(v) <= p(v) + 1
        BY <1>9, <1>10
      <4>2. h >= 1
        BY <1>14
      <4> QED BY <1>10, <1>14, <3>2, <4>1, <4>2
    <3>5. IsFiniteSet(Above(below) \ {u}) /\ Cardinality(Above(below) \ {u}) = Cardinality(Above(below)) - 1
      BY <1>15, <3>1, <3>3, FS_RemoveElement
    <3>6. Cardinality(Above(level)') <= Cardinality(Above(below)) - 1 /\ Cardinality(Above(level)') \in Nat
      BY <3>4, <3>5, FS_Subset, FS_CardinalityType
    <3>7. Cardinality(Above(below)) <= N - 1 - below /\ Cardinality(Above(below)) \in Nat
      BY <1>15, <3>1
    <3> HIDE DEF N
    <3> QED BY <1>13, <3>1, <3>6, <3>7
  <2> QED BY <2>7, <2>8
<1> QED BY <1>16, <1>17

LEMMA InitCreditInv == Init => CreditInv
<1> SUFFICES ASSUME Init, NEW level \in 0 .. Cardinality(Tickets) - 1
             PROVE  Cardinality(Above(level)) <= Cardinality(Tickets) - 1 - level
  BY FS_EmptySet DEF CreditInv, Init
<1>1. \A t \in Tickets : ~(entry[t].passedOver > level * (1 + Headway))
  <2> SUFFICES ASSUME NEW t \in Tickets PROVE ~(entry[t].passedOver > level * (1 + Headway))
    OBVIOUS
  <2>1. entry[t].passedOver = 0
    BY DEF Init, NoEntry
  <2>2. level * (1 + Headway) \in Nat
    BY HeadwayCovers, AboveIsFinite
  <2> QED BY <2>1, <2>2
<1>2. Above(level) = {}
  BY <1>1 DEF Above
<1> QED BY <1>2, AboveIsFinite, FS_EmptySet

LEMMA NextCreditInv == LaneInv /\ CreditInv /\ [Next]_vars => CreditInv'
<1> SUFFICES ASSUME LaneInv, CreditInv, [Next]_vars PROVE CreditInv'
  OBVIOUS
<1>0. LaneInv'
  BY NextLaneInv
<1>1. \A t \in Tickets : entry[t] \in Entry /\ entry[t].passedOver \in Nat
  BY DEF LaneInv, TypeOK, Entry
<1>2. IsFiniteSet(lanes)
  BY DEF CreditInv
<1>3. CASE Dispatch
  BY <1>0, <1>3, DispatchKeepsCreditInv
<1>4. ASSUME NEW l \in lanes, LaneEnds(l)
      PROVE  CreditInv'
  <2>1. IsFiniteSet(lanes')
    BY <1>2, <1>4, FS_Subset DEF LaneEnds
  <2>2. PICK res \in Results : entry' = AfterLane(l, res)
    BY <1>4 DEF LaneEnds
  <2>3. l.ticket \in Tickets
    BY DEF LaneInv, TypeOK, Lane
  <2>4. \A t \in Tickets : entry'[t].passedOver = entry[t].passedOver
    <3> SUFFICES ASSUME NEW t \in Tickets PROVE entry'[t].passedOver = entry[t].passedOver
      OBVIOUS
    <3>1. CASE t # l.ticket
      BY <2>2, <3>1 DEF AfterLane, LaneInv, TypeOK
    <3>2. CASE t = l.ticket
      BY <1>1, <2>2, <2>3, <3>2 DEF AfterLane, LaneInv, TypeOK, Entry
    <3> QED BY <3>1, <3>2
  <2> QED BY <1>0, <1>1, <2>1, <2>4, NoCreditKeepsCreditInv
<1>5. ASSUME NEW u \in Tickets, Move(u) \/ ReleasePark(u) \/ Refile(u)
      PROVE  CreditInv'
  <2>1. lanes' = lanes
    BY <1>5 DEF Move, ReleasePark, Refile
  <2>2. \A t \in Tickets : entry'[t].passedOver \in {0, entry[t].passedOver}
    <3> SUFFICES ASSUME NEW t \in Tickets
                 PROVE  entry'[t].passedOver \in {0, entry[t].passedOver}
      OBVIOUS
    <3>1. CASE Move(u)
      BY <3>1 DEF Move
    <3>2. CASE ReleasePark(u)
      BY <1>1, <3>2 DEF ReleasePark, LaneInv, TypeOK, Entry
    <3>3. CASE Refile(u)
      BY <3>3 DEF Refile, NoEntry, LaneInv, TypeOK
    <3> QED BY <1>5, <3>1, <3>2, <3>3
  <2>3. \A t \in Tickets : entry'[t].passedOver <= entry[t].passedOver
    BY <1>1, <2>2
  <2> QED BY <1>0, <1>2, <2>1, <2>3, NoCreditKeepsCreditInv
<1>6. CASE Wait \/ SettleDrained \/ SettleBlocked \/ Wake \/ Resume
           \/ ClaimsChange \/ UNCHANGED vars
  <2>1. UNCHANGED <<entry, lanes>>
    BY <1>6 DEF Wait, SettleDrained, SettleBlocked, Wake, Resume, ClaimsChange, vars
  <2>2. \A t \in Tickets : entry'[t].passedOver <= entry[t].passedOver
    BY <1>1, <2>1
  <2> QED BY <1>0, <1>2, <2>1, <2>2, NoCreditKeepsCreditInv
<1> QED BY <1>3, <1>4, <1>5, <1>6 DEF Next, Pass

\* _notePassedOver and GRAPH_SCORE: on every board and for every number of slots,
\* no ticket's credit passes a bound that only the board's size and priorities set.
THEOREM WaitBounded == Spec => []WaitIsBounded
<1>1. LaneInv /\ CreditInv => WaitIsBounded
  <2> SUFFICES ASSUME LaneInv, CreditInv, NEW t \in Tickets
               PROVE  entry[t].passedOver <= (Cardinality(Tickets) - 1) * (1 + Headway)
    BY DEF WaitIsBounded
  <2> DEFINE N == Cardinality(Tickets)
             bound == (N - 1) * (1 + Headway)
  <2>1. N \in Nat /\ N # 0 /\ Headway \in Nat
    BY AboveIsFinite, HeadwayCovers, FS_EmptySet
  <2>2. Cardinality(Above(N - 1)) = 0
    <3>1. Cardinality(Above(N - 1)) <= N - 1 - (N - 1)
      BY <2>1 DEF CreditInv
    <3>2. Cardinality(Above(N - 1)) \in Nat
      BY AboveIsFinite
    <3> HIDE DEF N
    <3> QED BY <2>1, <3>1, <3>2
  <2>3. Above(N - 1) = {}
    BY <2>2, AboveIsFinite, FS_EmptySet
  <2>4. ~(entry[t].passedOver > bound)
    BY <2>3 DEF Above
  <2>5. bound \in Int /\ entry[t].passedOver \in Nat
    BY <2>1 DEF LaneInv, TypeOK, Entry
  <2> HIDE DEF bound
  <2>6. entry[t].passedOver <= bound
    BY <2>4, <2>5
  <2> QED BY <2>6 DEF bound
<1> QED BY InitLaneInv, NextLaneInv, InitCreditInv, NextCreditInv, <1>1, PTL DEF Spec

============================================================================
