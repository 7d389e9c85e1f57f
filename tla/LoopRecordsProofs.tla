-------------------------- MODULE LoopRecordsProofs --------------------------
(***************************************************************************)
(* The store's mutations keep a record well formed: its fields keep their  *)
(* types, its iterations stay numbered upwards, and only the newest        *)
(* execution of a running loop is open.  They also say what each mutation  *)
(* leaves alone, which is what the supervisor's proofs cite.               *)
(***************************************************************************)
EXTENDS LoopRecords, FiniteSetTheorems, SequenceTheorems, TLAPS

\* Totals of a window are counts.
LEMMA EndedType ==
  ASSUME NEW its \in Seq(Iteration), NEW outcomes
  PROVE  Ended(its, outcomes) \in Nat
<1>1. IsFiniteSet(1 .. Len(its))
  BY FS_Interval
<1>2. {i \in DOMAIN its : its[i].outcome \in outcomes} \in SUBSET (1 .. Len(its))
  OBVIOUS
<1> QED
  BY <1>1, <1>2, FS_Subset, FS_CardinalityType DEF Ended

LEMMA StreakType ==
  ASSUME NEW its \in Seq(Iteration)
  PROVE  Streak(its) \in Nat
<1> DEFINE S == {i \in DOMAIN its :
                   /\ its[i].outcome = "failed"
                   /\ \A j \in DOMAIN its : j > i => its[j].outcome # "succeeded"}
<1>1. IsFiniteSet(1 .. Len(its))
  BY FS_Interval
<1>2. S \in SUBSET (1 .. Len(its))
  OBVIOUS
<1>3. Cardinality(S) \in Nat
  BY <1>1, <1>2, FS_Subset, FS_CardinalityType
<1> QED
  BY <1>3 DEF Streak

LEMMA SpentType ==
  ASSUME NEW its \in Seq(Iteration)
  PROVE  Spent(its) \in Nat
<1> DEFINE f == [i \in DOMAIN its |-> {i} \X (1 .. its[i].usd)]
           S == {{i} \X (1 .. its[i].usd) : i \in DOMAIN its}
<1>1. IsFiniteSet(DOMAIN its)
  BY FS_Interval
<1>2. f \in Surjection(DOMAIN its, S)
  BY DEF Surjection
<1>3. IsFiniteSet(S)
  BY <1>1, <1>2, FS_Surjection
<1>4. \A T \in S : IsFiniteSet(T)
  <2> SUFFICES ASSUME NEW i \in DOMAIN its
               PROVE  IsFiniteSet({i} \X (1 .. its[i].usd))
    OBVIOUS
  <2>1. its[i].usd \in Nat
    <3> HIDE DEF f, S
    <3>1. its[i] \in Iteration
      BY ElementOfSeq
    <3> QED
      BY <3>1 DEF Iteration
  <2>2. IsFiniteSet(1 .. its[i].usd)
    BY <2>1, FS_Interval
  <2>3. IsFiniteSet({i})
    BY FS_Singleton
  <2> QED
    BY <2>2, <2>3, FS_Product
<1>5. IsFiniteSet(UNION S)
  BY <1>3, <1>4, FS_UNION
<1>6. Cardinality(UNION S) \in Nat
  BY <1>5, FS_CardinalityType
<1> QED
  BY <1>6 DEF Spent

LEMMA FoldIterationsType ==
  ASSUME NEW its \in Seq(Iteration)
  PROVE  FoldIterations(its) \in Totals
<1>1. /\ Ended(its, {"succeeded"}) \in Nat
      /\ Ended(its, {"failed", "abandoned"}) \in Nat
      /\ Ended(its, {"parked"}) \in Nat
  BY EndedType
<1>2. Spent(its) \in Nat /\ Streak(its) \in Nat /\ Len(its) \in Nat
  BY SpentType, StreakType
<1> QED
  BY <1>1, <1>2 DEF FoldIterations, Totals

LEMMA AddTotalsType ==
  ASSUME NEW a \in Totals, NEW b \in Totals
  PROVE  AddTotals(a, b) \in Totals
<1>1. /\ a.dispatched + b.dispatched \in Nat /\ a.succeeded + b.succeeded \in Nat
      /\ a.failed + b.failed \in Nat /\ a.parked + b.parked \in Nat
      /\ a.usd + b.usd \in Nat
  BY DEF Totals
<1> QED
  BY <1>1 DEF AddTotals, Totals

LEMMA ApplyExecutionOutcomeType ==
  ASSUME NEW totals \in Totals, NEW outcome, NEW usd \in Nat
  PROVE  ApplyExecutionOutcome(totals, outcome, usd) \in Totals
<1> DEFINE paid == [totals EXCEPT !.usd = @ + usd]
<1>1. /\ totals.usd + usd \in Nat /\ totals.failed + 1 \in Nat
      /\ totals.streak + 1 \in Nat /\ totals.succeeded + 1 \in Nat
      /\ totals.parked + 1 \in Nat
  BY DEF Totals
<1>2. /\ paid \in Totals /\ paid.failed = totals.failed /\ paid.streak = totals.streak
      /\ paid.succeeded = totals.succeeded /\ paid.parked = totals.parked
  BY <1>1 DEF Totals
<1>3. CASE outcome = "succeeded"
  BY <1>1, <1>2, <1>3 DEF Totals, ApplyExecutionOutcome
<1>4. CASE outcome \in {"failed", "abandoned"}
  BY <1>1, <1>2, <1>4 DEF Totals, ApplyExecutionOutcome
<1>5. CASE outcome = "parked"
  BY <1>1, <1>2, <1>5 DEF Totals, ApplyExecutionOutcome
<1>6. CASE outcome \notin {"succeeded", "failed", "abandoned", "parked"}
  BY <1>2, <1>6 DEF ApplyExecutionOutcome
<1> QED
  BY <1>3, <1>4, <1>5, <1>6

----------------------------------------------------------------------------
(* Numbering *)

LEMMA MaxChosen ==
  ASSUME NEW S \in SUBSET Nat, NEW x \in S, \A n \in S : n <= x
  PROVE  (CHOOSE n \in S : \A m \in S : m <= n) = x
<1> DEFINE c == CHOOSE n \in S : \A m \in S : m <= n
<1>1. c \in S /\ \A m \in S : m <= c
  OBVIOUS
<1>2. c <= x /\ x <= c /\ c \in Nat /\ x \in Nat
  BY <1>1
<1> HIDE DEF c
<1>3. c = x
  BY <1>2
<1> QED
  BY <1>3 DEF c

\* A new iteration gets a number above every one in the window: the last
\* iteration holds the highest.
LEMMA NextSeqIsLast ==
  ASSUME NEW r \in LoopRecord, SeqsOrdered(r.iterations)
  PROVE  LET its == r.iterations
         IN  /\ its = <<>> => NextSeq(r) = 1
             /\ its # <<>> => NextSeq(r) = its[Len(its)].seq + 1
             /\ NextSeq(r) \in Nat /\ NextSeq(r) > 0
             /\ \A i \in DOMAIN its : its[i].seq < NextSeq(r)
<1> DEFINE its == r.iterations
           seqs == {its[i].seq : i \in DOMAIN its}
<1>1. /\ its \in Seq(Iteration) /\ Len(its) \in Nat /\ DOMAIN its = 1 .. Len(its)
      /\ \A i \in DOMAIN its : its[i].seq \in Nat
  <2>1. its \in Seq(Iteration)
    BY DEF LoopRecord
  <2>2. \A i \in DOMAIN its : its[i] \in Iteration
    BY <2>1, ElementOfSeq
  <2> QED
    BY <2>1, <2>2, LenProperties DEF Iteration
<1>2. ASSUME its = <<>>
      PROVE  NextSeq(r) = 1 /\ DOMAIN its = {}
  BY <1>2 DEF NextSeq
<1>3. ASSUME its # <<>>
      PROVE  /\ NextSeq(r) = its[Len(its)].seq + 1
             /\ NextSeq(r) \in Nat /\ NextSeq(r) > 0
             /\ \A i \in DOMAIN its : its[i].seq < NextSeq(r)
  <2> DEFINE last == its[Len(its)].seq
  <2>1. Len(its) \in DOMAIN its
    BY <1>1, <1>3, EmptySeq, SeqEqual
  <2>2. last \in seqs /\ \A n \in seqs : n <= last
    BY <1>1, <2>1 DEF SeqsOrdered
  <2>3. seqs \subseteq Nat
    BY <1>1
  <2>4. (CHOOSE n \in seqs : \A m \in seqs : m <= n) = last
    <3> HIDE DEF seqs, last
    <3> QED
      BY <2>2, <2>3, MaxChosen
  <2>5. NextSeq(r) = last + 1
    <3>1. NextSeq(r) = 1 + last
      BY <2>2, <2>4 DEF NextSeq
    <3> QED
      BY <1>1, <2>1, <3>1
  <2>6. last \in Nat /\ \A i \in DOMAIN its : its[i].seq <= last
    BY <1>1, <2>1, <2>2
  <2>7. last + 1 \in Nat /\ last + 1 > 0 /\ \A i \in DOMAIN its : its[i].seq < last + 1
    <3>1. \A i \in DOMAIN its : its[i].seq \in Nat
      BY <1>1
    <3> HIDE DEF last, its
    <3> QED
      BY <2>6, <3>1
  <2> QED
    BY <2>5, <2>7
<1> HIDE DEF its
<1>4. /\ its = <<>> => NextSeq(r) = 1
      /\ its # <<>> => NextSeq(r) = its[Len(its)].seq + 1
      /\ NextSeq(r) \in Nat /\ NextSeq(r) > 0
      /\ \A i \in DOMAIN its : its[i].seq < NextSeq(r)
  BY <1>2, <1>3
<1> QED
  BY <1>4 DEF its

LEMMA TrimKeeps ==
  ASSUME NEW r, WellFormed(r), MaxRetained \in Nat \ {0}
  PROVE  LET q == TrimIterations(r)
         IN  /\ WellFormed(q) /\ NextSeq(q) = NextSeq(r)
             /\ q.status = r.status /\ q.executions = r.executions
             /\ q.tstate = r.tstate
<1> DEFINE its  == r.iterations
           n    == Len(its)
           over == n - MaxRetained
           kept == SubSeq(its, over + 1, n)
           gone == SubSeq(its, 1, over)
           q    == TrimIterations(r)
<1>1. its \in Seq(Iteration) /\ n \in Nat /\ r \in LoopRecord /\ SeqsOrdered(its)
  BY DEF WellFormed, LoopRecord
<1>2. CASE n <= MaxRetained
  BY <1>2 DEF TrimIterations
<1>3. CASE ~(n <= MaxRetained)
  <2>1. over \in Nat /\ over + 1 <= n /\ over + 1 \in 1 .. n /\ over > 0 /\ over <= n
    BY <1>1, <1>3
  <2>2. /\ kept \in Seq(Iteration) /\ Len(kept) = MaxRetained
        /\ \A i \in 1 .. MaxRetained : kept[i] = its[over + i]
    BY <1>1, <2>1, SubSeqProperties
  <2>3. gone \in Seq(Iteration)
    BY <1>1, <2>1, SubSeqProperties
  <2>4. AddTotals(r.retired, FoldIterations(gone)) \in Totals
    BY <1>1, <2>3, FoldIterationsType, AddTotalsType DEF LoopRecord
  <2>5. q = [r EXCEPT !.iterations = kept,
                      !.retired = AddTotals(r.retired, FoldIterations(gone))]
    BY <1>3 DEF TrimIterations
  <2>6. /\ q \in LoopRecord /\ q.iterations = kept /\ q.status = r.status
        /\ q.executions = r.executions /\ q.tstate = r.tstate
    <3> DEFINE retired == AddTotals(r.retired, FoldIterations(gone))
    <3> HIDE DEF kept, q, gone, retired
    <3>1. q = [r EXCEPT !.iterations = kept, !.retired = retired]
      BY <2>5 DEF retired
    <3>2. retired \in Totals
      BY <2>4 DEF retired
    <3>3. r \in LoopRecord /\ kept \in Seq(Iteration)
      BY <1>1, <2>2
    <3>4. q \in LoopRecord
      BY <3>1, <3>2, <3>3 DEF LoopRecord
    <3> QED
      BY <3>1, <3>3, <3>4, SMTT(30) DEF LoopRecord
  <2>7. SeqsOrdered(kept)
    <3>1. DOMAIN kept = 1 .. MaxRetained
      BY <2>2
    <3>2. \A i \in DOMAIN kept : over + i \in DOMAIN its /\ kept[i] = its[over + i]
      BY <1>1, <2>1, <2>2, <3>1, SMTT(30)
    <3>3. \A i, j \in DOMAIN kept : i < j => over + i < over + j
      BY <2>1, <3>1
    <3> HIDE DEF kept, over, n, its
    <3> QED
      BY <1>1, <3>2, <3>3 DEF SeqsOrdered
  <2>8. NextSeq(q) = NextSeq(r)
    <3>1. kept # <<>> /\ its # <<>> /\ kept[Len(kept)] = its[n]
      <4>1. Len(kept) # 0 /\ n # 0
        BY <1>1, <1>3, <2>2
      <4>2. over + MaxRetained = n /\ MaxRetained \in 1 .. MaxRetained
        BY <1>1
      <4>3. kept[MaxRetained] = its[n]
        <5> HIDE DEF kept, over
        <5> QED
          BY <2>2, <4>2
      <4>4. kept # <<>> /\ its # <<>>
        <5> HIDE DEF kept, its
        <5> QED
          BY <4>1 DEF n
      <4>5. Len(kept) = MaxRetained
        BY <2>2
      <4> HIDE DEF kept, its
      <4> QED
        BY <4>3, <4>4, <4>5
    <3> QED
      BY <1>1, <2>6, <2>7, <3>1, NextSeqIsLast
  <2> QED
    BY <2>6, <2>7, <2>8 DEF WellFormed, OnlyNewestOpen
<1> QED
  BY <1>2, <1>3

----------------------------------------------------------------------------
(* Mutations *)

LEMMA OpenExecutionType ==
  ASSUME NEW r \in LoopRecord, OnlyNewestOpen(r)
  PROVE  LET e == OpenExecution(r.executions)
         IN  /\ e \in Nat
             /\ e # 0 => e = Len(r.executions) /\ e \in DOMAIN r.executions
             /\ e # 0 => r.status = "running"
             /\ e = 0 => \A i \in DOMAIN r.executions : ~r.executions[i].open
<1> DEFINE es   == r.executions
           open == {i \in DOMAIN es : es[i].open}
<1>1. es \in Seq(Execution) /\ Len(es) \in Nat /\ DOMAIN es = 1 .. Len(es)
  BY DEF LoopRecord
<1>2. CASE open = {}
  BY <1>2 DEF OpenExecution
<1>3. CASE open # {}
  <2>1. open = {Len(es)} /\ r.status = "running"
    BY <1>3 DEF OnlyNewestOpen
  <2>2. (CHOOSE i \in open : \A j \in open : j <= i) = Len(es)
    BY <1>1, <2>1
  <2>3. OpenExecution(es) = Len(es)
    BY <1>3, <2>2 DEF OpenExecution
  <2>4. Len(es) \in DOMAIN es /\ Len(es) # 0
    BY <1>1, <2>1
  <2> QED
    BY <1>1, <2>1, <2>3, <2>4
<1> QED
  BY <1>2, <1>3

\* A status change closes the execution it leaves; any status but "running"
\* leaves none open.
LEMMA SetStatusKeeps ==
  ASSUME NEW r, WellFormed(r), NEW s \in LoopStatus, s # "running",
         MaxRetained \in Nat \ {0}
  PROVE  LET q == SetStatus(r, s)
         IN  /\ WellFormed(q) /\ NextSeq(q) = NextSeq(r)
             /\ q.status = s /\ q.tstate = r.tstate
<1> DEFINE e == OpenExecution(r.executions)
           q == [r EXCEPT !.status = s,
                          !.executions = IF r.status = "running" /\ e # 0
                                         THEN [@ EXCEPT ![e].status = s, ![e].open = FALSE]
                                         ELSE @]
<1>1. r \in LoopRecord /\ OnlyNewestOpen(r) /\ SeqsOrdered(r.iterations)
  BY DEF WellFormed
<1>2. CASE r.status = s
  BY <1>2 DEF SetStatus
<1>3. CASE r.status # s
  <2>1. /\ e \in Nat
        /\ e # 0 => e = Len(r.executions) /\ e \in DOMAIN r.executions
        /\ e # 0 => r.status = "running"
        /\ e = 0 => \A i \in DOMAIN r.executions : ~r.executions[i].open
    BY <1>1, OpenExecutionType
  <2>2. r.executions \in Seq(Execution)
    BY <1>1 DEF LoopRecord
  <2>3. /\ q.executions \in Seq(Execution)
        /\ \A i \in DOMAIN q.executions : ~q.executions[i].open
    <3>1. CASE e = 0
      <4>1. q.executions = r.executions
        BY <1>1, <3>1 DEF LoopRecord
      <4> QED
        BY <2>1, <2>2, <3>1, <4>1
    <3>2. CASE e # 0
      <4> DEFINE x == [r.executions[e] EXCEPT !.status = s, !.open = FALSE]
      <4>1. r.executions[e] \in Execution
        BY <2>1, <2>2, <3>2, ElementOfSeq
      <4>2. x \in Execution /\ ~x.open
        BY <4>1 DEF Execution
      <4>3. q.executions = [r.executions EXCEPT ![e] = x]
        BY <1>1, <2>1, <2>2, <3>2 DEF LoopRecord
      <4> HIDE DEF x, q, e
      <4>4. q.executions \in Seq(Execution)
        BY <2>1, <2>2, <3>2, <4>2, <4>3, ExceptSeq
      <4>5. DOMAIN q.executions = DOMAIN r.executions
        BY <4>3
      <4>6. \A i \in DOMAIN r.executions : i # e => ~r.executions[i].open
        BY <1>1, <2>1, <3>2 DEF OnlyNewestOpen
      <4> QED
        BY <2>1, <3>2, <4>2, <4>3, <4>4, <4>5, <4>6
    <3> QED
      BY <3>1, <3>2
  <2>4. /\ q \in LoopRecord /\ q.status = s /\ q.iterations = r.iterations
        /\ q.tstate = r.tstate
    <3>1. q.executions = (IF r.status = "running" /\ e # 0
                          THEN [r.executions EXCEPT ![e].status = s, ![e].open = FALSE]
                          ELSE r.executions)
      BY <1>1 DEF LoopRecord
    <3> HIDE DEF e
    <3> QED
      BY <1>1, <2>3, <3>1 DEF LoopRecord
  <2>5. WellFormed(q) /\ NextSeq(q) = NextSeq(r)
    BY <1>1, <2>3, <2>4 DEF WellFormed, OnlyNewestOpen, NextSeq
  <2>6. SetStatus(r, s) = TrimIterations(q)
    BY <1>3 DEF SetStatus
  <2> HIDE DEF q
  <2> QED
    BY <2>4, <2>5, <2>6, TrimKeeps
<1> QED
  BY <1>2, <1>3

LEMMA BeginExecutionKeeps ==
  ASSUME NEW r, WellFormed(r), r.status # "running", MaxRetained \in Nat \ {0}
  PROVE  LET q == BeginExecution(r)
         IN  /\ WellFormed(q) /\ NextSeq(q) = NextSeq(r)
             /\ q.status = "running" /\ q.tstate = r.tstate
<1> DEFINE x == [status |-> "running", open |-> TRUE, totals |-> EmptyTotals]
           es == Append(r.executions, x)
           q == [r EXCEPT !.status = "running", !.executions = es]
<1>1. r \in LoopRecord /\ OnlyNewestOpen(r) /\ SeqsOrdered(r.iterations)
  BY DEF WellFormed
<1>2. x \in Execution /\ x.open
  BY DEF Execution, LoopStatus, Totals, EmptyTotals
<1>3. r.executions \in Seq(Execution) /\ Len(r.executions) \in Nat
  BY <1>1 DEF LoopRecord
<1>4. /\ es \in Seq(Execution) /\ Len(es) = Len(r.executions) + 1
      /\ \A i \in 1 .. Len(r.executions) : es[i] = r.executions[i]
      /\ es[Len(es)] = x
  <2> HIDE DEF x
  <2> QED
    BY <1>2, <1>3, AppendProperties
<1>5. \A i \in DOMAIN es : es[i].open <=> i = Len(es)
  <2>1. \A i \in 1 .. Len(r.executions) : ~r.executions[i].open
    BY <1>1, <1>3 DEF OnlyNewestOpen
  <2>2. DOMAIN es = 1 .. Len(r.executions) + 1
    BY <1>4
  <2> HIDE DEF es, x
  <2> QED
    BY <1>2, <1>3, <1>4, <2>1, <2>2
<1>6. /\ q \in LoopRecord /\ q.status = "running" /\ q.executions = es
      /\ q.iterations = r.iterations /\ q.tstate = r.tstate
  <2> HIDE DEF es
  <2> QED
    BY <1>1, <1>4 DEF LoopRecord, LoopStatus
<1>7. WellFormed(q) /\ NextSeq(q) = NextSeq(r)
  BY <1>1, <1>5, <1>6 DEF WellFormed, OnlyNewestOpen, NextSeq
<1>8. BeginExecution(r) = TrimIterations(q)
  BY DEF BeginExecution
<1> HIDE DEF q
<1> QED
  BY <1>6, <1>7, <1>8, TrimKeeps

\* Rewriting an iteration's verdict in place keeps the window's numbering.
LEMMA RewriteKeepsOrder ==
  ASSUME NEW its \in Seq(Iteration), SeqsOrdered(its), NEW i \in DOMAIN its,
         NEW it \in Iteration, it.seq = its[i].seq
  PROVE  LET new == [its EXCEPT ![i] = it]
         IN  /\ new \in Seq(Iteration) /\ SeqsOrdered(new)
             /\ DOMAIN new = DOMAIN its
             /\ \A j \in DOMAIN its : new[j].seq = its[j].seq
<1> DEFINE new == [its EXCEPT ![i] = it]
<1>1. DOMAIN new = DOMAIN its /\ \A j \in DOMAIN its : new[j].seq = its[j].seq
  OBVIOUS
<1>2. new \in Seq(Iteration)
  BY ExceptSeq
<1> HIDE DEF new
<1>3. SeqsOrdered(new)
  BY <1>1 DEF SeqsOrdered
<1> QED
  BY <1>1, <1>2, <1>3 DEF new

\* A changed window with the same numbers gives the next iteration the same
\* number.
LEMMA SameSeqsSameNext ==
  ASSUME NEW r \in LoopRecord, NEW q \in LoopRecord,
         DOMAIN q.iterations = DOMAIN r.iterations,
         \A j \in DOMAIN r.iterations : q.iterations[j].seq = r.iterations[j].seq
  PROVE  NextSeq(q) = NextSeq(r)
<1> DEFINE qs == {q.iterations[i].seq : i \in DOMAIN q.iterations}
           rs == {r.iterations[i].seq : i \in DOMAIN r.iterations}
           next(S) == IF S = {} THEN 1 ELSE 1 + (CHOOSE n \in S : \A m \in S : m <= n)
<1>1. qs = rs
  OBVIOUS
<1>2. NextSeq(q) = next(qs) /\ NextSeq(r) = next(rs)
  BY DEF NextSeq
<1> HIDE DEF qs, rs, next
<1> QED
  BY <1>1, <1>2

LEMMA AppendIterationKeeps ==
  ASSUME NEW r, WellFormed(r), NEW t \in Tickets, MaxRetained \in Nat \ {0}
  PROVE  LET q == AppendIteration(r, t)
         IN  /\ WellFormed(q) /\ NextSeq(q) = NextSeq(r) + 1
             /\ q.status = r.status /\ q.tstate = r.tstate
<1> DEFINE e   == OpenExecution(r.executions)
           it  == [seq |-> NextSeq(r), exec |-> e, ticket |-> t,
                   outcome |-> "running", usd |-> 0]
           its == Append(r.iterations, it)
           es  == CountDispatch(r.executions, e)
           q   == [r EXCEPT !.iterations = its, !.executions = es]
<1>1. /\ r \in LoopRecord /\ OnlyNewestOpen(r) /\ SeqsOrdered(r.iterations)
      /\ r.iterations \in Seq(Iteration) /\ r.executions \in Seq(Execution)
      /\ Len(r.iterations) \in Nat
  BY DEF WellFormed, LoopRecord
<1>2. e \in Nat /\ (e # 0 => e \in DOMAIN r.executions)
  BY <1>1, OpenExecutionType
<1>3. /\ NextSeq(r) \in Nat /\ NextSeq(r) > 0
      /\ \A i \in DOMAIN r.iterations : r.iterations[i].seq < NextSeq(r)
  BY <1>1, NextSeqIsLast
<1>4. it \in Iteration /\ it.seq = NextSeq(r)
  BY <1>2, <1>3 DEF Iteration, Outcomes
<1>5. /\ its \in Seq(Iteration) /\ Len(its) = Len(r.iterations) + 1
      /\ \A i \in 1 .. Len(r.iterations) : its[i] = r.iterations[i]
      /\ its[Len(its)] = it
  <2> HIDE DEF it
  <2> QED
    BY <1>1, <1>4, AppendProperties
<1>6. SeqsOrdered(its)
  <2>1. DOMAIN its = 1 .. Len(r.iterations) + 1
    BY <1>5
  <2> HIDE DEF its, it
  <2>2. DOMAIN r.iterations = 1 .. Len(r.iterations)
    BY <1>1
  <2>3. \A i \in DOMAIN r.iterations : its[i].seq = r.iterations[i].seq /\ i \in DOMAIN its
    BY <1>1, <1>5, <2>1, <2>2
  <2>4. its[Len(r.iterations) + 1].seq = NextSeq(r)
    BY <1>4, <1>5
  <2>5. \A i \in DOMAIN its : i \in DOMAIN r.iterations \/ i = Len(r.iterations) + 1
    BY <1>1, <2>1, <2>2
  <2>6. ASSUME NEW i \in DOMAIN its, NEW j \in DOMAIN its, i < j
        PROVE  its[i].seq < its[j].seq
    <3>1. i \in DOMAIN r.iterations
      BY <1>1, <2>1, <2>2, <2>6
    <3> QED
      BY <1>1, <1>3, <2>3, <2>4, <2>5, <2>6, <3>1 DEF SeqsOrdered
  <2>7. ASSUME NEW i \in DOMAIN its
        PROVE  its[i].seq > 0
    BY <1>1, <1>3, <2>3, <2>4, <2>5 DEF SeqsOrdered
  <2> QED
    BY <2>6, <2>7 DEF SeqsOrdered
<1>7. /\ es \in Seq(Execution) /\ DOMAIN es = DOMAIN r.executions
      /\ \A i \in DOMAIN r.executions : es[i].open = r.executions[i].open
  <2>1. CASE e = 0
    BY <1>1, <2>1 DEF CountDispatch
  <2>2. CASE e # 0
    <3> DEFINE old == r.executions[e]
               x   == [old EXCEPT !.totals.dispatched = @ + 1]
    <3>1. old \in Execution
      BY <1>1, <1>2, <2>2, ElementOfSeq
    <3>2. old.totals \in Totals /\ old.totals.dispatched + 1 \in Nat
      BY <3>1 DEF Execution, Totals
    <3>3. [old.totals EXCEPT !.dispatched = @ + 1] \in Totals
      <4> HIDE DEF old
      <4> QED
        BY <3>2 DEF Totals
    <3>4. x \in Execution /\ x.open = old.open
      <4> HIDE DEF old
      <4> QED
        BY <3>1, <3>3 DEF Execution
    <3>5. es = [r.executions EXCEPT ![e] = x]
      BY <2>2 DEF CountDispatch
    <3> HIDE DEF es, x, e
    <3> QED
      BY <1>1, <1>2, <2>2, <3>4, <3>5, ExceptSeq
  <2> QED
    BY <2>1, <2>2
<1>8. /\ q \in LoopRecord /\ q.iterations = its /\ q.executions = es
      /\ q.status = r.status /\ q.tstate = r.tstate
  <2> HIDE DEF its, es
  <2> QED
    BY <1>1, <1>5, <1>7 DEF LoopRecord
<1>9. OnlyNewestOpen(q)
  <2>1. Len(es) = Len(r.executions)
    <3> HIDE DEF es
    <3> QED
      BY <1>1, <1>7, LenProperties
  <2> HIDE DEF es, q
  <2> QED
    BY <1>1, <1>7, <1>8, <2>1 DEF OnlyNewestOpen
<1>10. NextSeq(q) = NextSeq(r) + 1
  <2> HIDE DEF its, q, it
  <2>1. its # <<>>
    BY <1>1, <1>5
  <2> QED
    BY <1>4, <1>5, <1>6, <1>8, <2>1, NextSeqIsLast
<1>11. AppendIteration(r, t) = TrimIterations(q)
  BY <1>1 DEF AppendIteration, LoopRecord
<1>12. WellFormed(q)
  BY <1>6, <1>8, <1>9 DEF WellFormed
<1> HIDE DEF q
<1> QED
  BY <1>8, <1>10, <1>11, <1>12, TrimKeeps

LEMMA UpdateTicketStateKeeps ==
  ASSUME NEW r, WellFormed(r), NEW t \in Tickets, NEW s \in TicketState,
         MaxRetained \in Nat \ {0}
  PROVE  LET q == UpdateTicketState(r, t, s)
         IN  /\ WellFormed(q) /\ NextSeq(q) = NextSeq(r) /\ q.status = r.status
             /\ q.tstate = [r.tstate EXCEPT ![t] = [s EXCEPT !.known = TRUE]]
<1> DEFINE x == [s EXCEPT !.known = TRUE]
           q == [r EXCEPT !.tstate[t] = x]
<1>1. r \in LoopRecord /\ OnlyNewestOpen(r) /\ SeqsOrdered(r.iterations)
  BY DEF WellFormed
<1>2. x \in TicketState
  BY DEF TicketState
<1>3. /\ q \in LoopRecord /\ q.status = r.status /\ q.executions = r.executions
      /\ q.iterations = r.iterations /\ q.tstate = [r.tstate EXCEPT ![t] = x]
  <2> HIDE DEF x
  <2> QED
    BY <1>1, <1>2 DEF LoopRecord
<1>4. WellFormed(q) /\ NextSeq(q) = NextSeq(r)
  BY <1>1, <1>3 DEF WellFormed, OnlyNewestOpen, NextSeq
<1>5. UpdateTicketState(r, t, s) = TrimIterations(q)
  BY DEF UpdateTicketState
<1> HIDE DEF q
<1> QED
  BY <1>3, <1>4, <1>5, TrimKeeps

LEMMA CountOutcomeKeeps ==
  ASSUME NEW es \in Seq(Execution), NEW e \in Nat, NEW outcome, NEW usd \in Nat
  PROVE  LET new == CountOutcome(es, e, outcome, usd)
         IN  /\ new \in Seq(Execution) /\ DOMAIN new = DOMAIN es /\ Len(new) = Len(es)
             /\ \A i \in DOMAIN es : new[i].open = es[i].open
<1>1. CASE e \notin DOMAIN es
  BY <1>1 DEF CountOutcome
<1>2. CASE e \in DOMAIN es
  <2> DEFINE old == es[e]
             x == [old EXCEPT !.totals = ApplyExecutionOutcome(@, outcome, usd)]
             new == CountOutcome(es, e, outcome, usd)
  <2>1. old \in Execution
    BY <1>2, ElementOfSeq
  <2>2. ApplyExecutionOutcome(old.totals, outcome, usd) \in Totals
    BY <2>1, ApplyExecutionOutcomeType DEF Execution
  <2>3. x \in Execution /\ x.open = old.open
    <3> HIDE DEF old
    <3> QED
      BY <2>1, <2>2 DEF Execution
  <2>4. new = [es EXCEPT ![e] = x]
    BY <1>2 DEF CountOutcome
  <2> HIDE DEF x, new
  <2>5. new \in Seq(Execution) /\ Len(new) = Len(es)
    BY <1>2, <2>3, <2>4, ExceptSeq
  <2> QED
    BY <1>2, <2>3, <2>4, <2>5 DEF new
<1> QED
  BY <1>1, <1>2

\* The record with iteration i and the executions replaced, as it is written.
Rewritten(r, i, it, es) ==
  TrimIterations([r EXCEPT !.iterations = [r.iterations EXCEPT ![i] = it],
                           !.executions = es])

\* A record whose window is rewritten in place and whose executions keep
\* their open marks is as well formed as before.
LEMMA RewriteKeeps ==
  ASSUME NEW r, WellFormed(r), NEW i \in DOMAIN r.iterations,
         NEW it \in Iteration, it.seq = r.iterations[i].seq,
         NEW es \in Seq(Execution), Len(es) = Len(r.executions),
         \A e \in DOMAIN r.executions : es[e].open = r.executions[e].open,
         MaxRetained \in Nat \ {0}
  PROVE  LET q == Rewritten(r, i, it, es)
         IN  /\ WellFormed(q) /\ NextSeq(q) = NextSeq(r)
             /\ q.status = r.status /\ q.tstate = r.tstate
<1> DEFINE its == [r.iterations EXCEPT ![i] = it]
           p   == [r EXCEPT !.iterations = its, !.executions = es]
<1>1. /\ r \in LoopRecord /\ OnlyNewestOpen(r) /\ SeqsOrdered(r.iterations)
      /\ r.iterations \in Seq(Iteration) /\ r.executions \in Seq(Execution)
  BY DEF WellFormed, LoopRecord
<1>2. /\ its \in Seq(Iteration) /\ SeqsOrdered(its)
      /\ DOMAIN its = DOMAIN r.iterations
      /\ \A j \in DOMAIN r.iterations : its[j].seq = r.iterations[j].seq
  BY <1>1, RewriteKeepsOrder
<1>3. /\ p \in LoopRecord /\ p.iterations = its /\ p.executions = es
      /\ p.status = r.status /\ p.tstate = r.tstate
  <2> HIDE DEF its
  <2> QED
    BY <1>1, <1>2 DEF LoopRecord
<1>4. OnlyNewestOpen(p)
  <2> HIDE DEF p
  <2>1. DOMAIN es = DOMAIN r.executions
    BY <1>1, LenProperties
  <2> QED
    BY <1>1, <1>3, <2>1 DEF OnlyNewestOpen
<1>5. WellFormed(p)
  BY <1>2, <1>3, <1>4 DEF WellFormed
<1>6. NextSeq(p) = NextSeq(r)
  <2> HIDE DEF p, its
  <2> QED
    BY <1>1, <1>2, <1>3, SameSeqsSameNext
<1> HIDE DEF p
<1>7. Rewritten(r, i, it, es) = TrimIterations(p)
  BY DEF Rewritten, p
<1> QED
  BY <1>3, <1>5, <1>6, <1>7, TrimKeeps

LEMMA SettleIterationKeeps ==
  ASSUME NEW r, WellFormed(r), NEW seq, NEW outcome \in Outcomes, NEW usd \in Nat,
         MaxRetained \in Nat \ {0}
  PROVE  LET q == SettleIteration(r, seq, outcome, usd)
         IN  /\ WellFormed(q) /\ NextSeq(q) = NextSeq(r)
             /\ q.status = r.status /\ q.tstate = r.tstate
<1>1. CASE IterationAt(r, seq) = {}
  BY <1>1 DEF SettleIteration
<1>2. CASE IterationAt(r, seq) # {}
  <2> DEFINE i   == CHOOSE p \in IterationAt(r, seq) : TRUE
             old == r.iterations[i]
             it  == [old EXCEPT !.outcome = outcome, !.usd = usd]
             es  == IF old.outcome = "running"
                    THEN CountOutcome(r.executions, old.exec, outcome, usd)
                    ELSE r.executions
  <2>1. i \in DOMAIN r.iterations
    BY <1>2 DEF IterationAt
  <2>2. r \in LoopRecord /\ r.iterations \in Seq(Iteration) /\ r.executions \in Seq(Execution)
    BY DEF WellFormed, LoopRecord
  <2>3. old \in Iteration
    BY <2>1, <2>2, ElementOfSeq
  <2>4. it \in Iteration /\ it.seq = old.seq
    <3> HIDE DEF old
    <3> QED
      BY <2>3 DEF Iteration
  <2>5. old.exec \in Nat
    <3> HIDE DEF old
    <3> QED
      BY <2>3 DEF Iteration
  <2>6. /\ es \in Seq(Execution) /\ Len(es) = Len(r.executions)
        /\ \A e \in DOMAIN r.executions : es[e].open = r.executions[e].open
    <3> HIDE DEF old
    <3> QED
      BY <2>2, <2>5, CountOutcomeKeeps
  <2>7. SettleIteration(r, seq, outcome, usd)
          = Rewritten(r, i, it, es)
    BY <1>2, <2>2 DEF SettleIteration, Rewritten, LoopRecord
  <2> HIDE DEF i, it, es
  <2> QED
    BY <2>1, <2>4, <2>6, <2>7, RewriteKeeps
<1> QED
  BY <1>1, <1>2

LEMMA AbandonIterationKeeps ==
  ASSUME NEW r, WellFormed(r), NEW i \in DOMAIN r.iterations, MaxRetained \in Nat \ {0}
  PROVE  LET q == AbandonIteration(r, i)
         IN  /\ WellFormed(q) /\ NextSeq(q) = NextSeq(r)
             /\ q.status = r.status /\ q.tstate = r.tstate
<1> DEFINE old == r.iterations[i]
           it  == [old EXCEPT !.outcome = "abandoned"]
<1>1. r \in LoopRecord /\ r.iterations \in Seq(Iteration) /\ r.executions \in Seq(Execution)
  BY DEF WellFormed, LoopRecord
<1>2. old \in Iteration
  BY <1>1, ElementOfSeq
<1>3. it \in Iteration /\ it.seq = old.seq
  <2> HIDE DEF old
  <2> QED
    BY <1>2 DEF Iteration, Outcomes
<1>4. AbandonIteration(r, i) = Rewritten(r, i, it, r.executions)
  BY <1>1 DEF AbandonIteration, Rewritten, LoopRecord
<1> HIDE DEF it
<1> QED
  BY <1>1, <1>3, <1>4, RewriteKeeps

LEMMA NewRecordWellFormed == WellFormed(NewRecord)
<1>1. NewRecord \in LoopRecord
  BY DEF NewRecord, LoopRecord, LoopStatus, UnknownTicket, TicketState, EmptyTotals, Totals
<1> QED
  BY <1>1 DEF WellFormed, NewRecord, SeqsOrdered, OnlyNewestOpen

----------------------------------------------------------------------------
(* Counting in a window *)

\* How many iterations of the window are in S.
Those(its, S) == Cardinality({i \in DOMAIN its : its[i] \in S})
One(x, S) == IF x \in S THEN 1 ELSE 0

LEMMA ThoseType ==
  ASSUME NEW its \in Seq(Iteration), NEW S
  PROVE  /\ Those(its, S) \in Nat /\ IsFiniteSet({i \in DOMAIN its : its[i] \in S})
         /\ Those(its, S) <= Len(its)
<1>1. IsFiniteSet(1 .. Len(its)) /\ Cardinality(1 .. Len(its)) = Len(its)
  <2>1. Len(its) \in Nat
    OBVIOUS
  <2> QED
    BY <2>1, FS_Interval
<1>2. {i \in DOMAIN its : its[i] \in S} \in SUBSET (1 .. Len(its))
  OBVIOUS
<1> QED
  BY <1>1, <1>2, FS_Subset, FS_CardinalityType DEF Those

\* An iteration is added behind the others.
LEMMA ThoseAppend ==
  ASSUME NEW its \in Seq(Iteration), NEW x \in Iteration, NEW S
  PROVE  Those(Append(its, x), S) = Those(its, S) + One(x, S)
<1> DEFINE new == Append(its, x)
           n   == Len(its)
           A   == {i \in DOMAIN its : its[i] \in S}
           B   == {i \in DOMAIN new : new[i] \in S}
<1>1. /\ n \in Nat /\ DOMAIN its = 1 .. n /\ DOMAIN new = 1 .. n + 1
      /\ \A i \in 1 .. n : new[i] = its[i]
      /\ new[n + 1] = x
  BY AppendProperties
<1>2. IsFiniteSet(A) /\ Cardinality(A) = Those(its, S) /\ Those(its, S) \in Nat
  BY ThoseType DEF Those
<1> HIDE DEF new, n
<1>3. CASE x \in S
  <2>1. B = A \cup {n + 1} /\ n + 1 \notin A
    BY <1>1, <1>3
  <2> HIDE DEF A, B
  <2>2. Cardinality(B) = Cardinality(A) + 1
    BY <1>2, <2>1, FS_AddElement
  <2> QED
    BY <1>2, <1>3, <2>2 DEF Those, One, B, new
<1>4. CASE x \notin S
  <2>1. B = A
    BY <1>1, <1>4
  <2>2. Those(new, S) = Those(its, S)
    BY <2>1 DEF Those
  <2> QED
    BY <1>2, <1>4, <2>2 DEF One, new
<1> QED
  BY <1>3, <1>4

\* An iteration is rewritten where it stands.
LEMMA ThoseRewrite ==
  ASSUME NEW its \in Seq(Iteration), NEW p \in DOMAIN its, NEW x, NEW S
  PROVE  Those([its EXCEPT ![p] = x], S) + One(its[p], S) = Those(its, S) + One(x, S)
<1> DEFINE new == [its EXCEPT ![p] = x]
           A   == {i \in DOMAIN its : its[i] \in S}
           B   == {i \in DOMAIN new : new[i] \in S}
<1>1. DOMAIN new = DOMAIN its /\ new[p] = x /\ \A i \in DOMAIN its : i # p => new[i] = its[i]
  OBVIOUS
<1>2. IsFiniteSet(A) /\ Cardinality(A) = Those(its, S) /\ Those(its, S) \in Nat
  BY ThoseType DEF Those
<1>3. Cardinality(B) = Those(new, S)
  BY DEF Those
<1> HIDE DEF new
<1>4. CASE x \in S /\ its[p] \in S
  <2>1. A = B
    BY <1>1, <1>4
  <2> HIDE DEF A, B
  <2> QED
    BY <1>2, <1>3, <1>4, <2>1 DEF One, new
<1>5. CASE x \notin S /\ its[p] \notin S
  <2>1. A = B
    BY <1>1, <1>5
  <2> HIDE DEF A, B
  <2> QED
    BY <1>2, <1>3, <1>5, <2>1 DEF One, new
<1>6. CASE x \in S /\ its[p] \notin S
  <2>1. B = A \cup {p} /\ p \notin A
    BY <1>1, <1>6
  <2> HIDE DEF A, B
  <2>2. Cardinality(B) = Cardinality(A) + 1
    BY <1>2, <2>1, FS_AddElement
  <2> QED
    BY <1>2, <1>3, <1>6, <2>2 DEF One, new
<1>7. CASE x \notin S /\ its[p] \in S
  <2>1. B = A \ {p} /\ p \in A
    BY <1>1, <1>7
  <2> HIDE DEF A, B
  <2>2. Cardinality(B) = Cardinality(A) - 1
    BY <1>2, <2>1, FS_RemoveElement
  <2> QED
    BY <1>2, <1>3, <1>7, <2>2 DEF One, new
<1> QED
  BY <1>4, <1>5, <1>6, <1>7

\* The oldest iteration is dropped.
LEMMA ThoseDrop ==
  ASSUME NEW its \in Seq(Iteration), NEW new \in Seq(Iteration), Len(new) + 1 = Len(its),
         \A i \in 1 .. Len(new) : new[i] = its[i + 1], NEW S
  PROVE  Those(new, S) + One(its[1], S) = Those(its, S)
<1> DEFINE n == Len(new)
           A == {i \in DOMAIN its : its[i] \in S}
           B == {i \in DOMAIN new : new[i] \in S}
           C == {i + 1 : i \in B}
           f == [i \in B |-> i + 1]
<1>1. n \in Nat /\ DOMAIN its = 1 .. n + 1 /\ DOMAIN new = 1 .. n
  BY LenProperties
<1>2. /\ IsFiniteSet(A) /\ Cardinality(A) = Those(its, S) /\ Those(its, S) \in Nat
      /\ IsFiniteSet(B) /\ Cardinality(B) = Those(new, S) /\ Those(new, S) \in Nat
  BY ThoseType DEF Those
<1>3. f \in Bijection(B, C)
  <2>1. \A i \in B : i \in Nat
    BY <1>1
  <2> HIDE DEF B
  <2>2. f \in [B -> C] /\ \A j \in C : \E i \in B : f[i] = j
    OBVIOUS
  <2>3. \A i, j \in B : f[i] = f[j] => i = j
    BY <2>1
  <2> QED
    BY <2>2, <2>3 DEF Bijection, Injection, Surjection, IsInjective
<1>4. Cardinality(C) = Cardinality(B) /\ IsFiniteSet(C)
  <2> HIDE DEF f, B, C
  <2> QED
    BY <1>2, <1>3, FS_Bijection DEF ExistsBijection
<1>5. A \ {1} = C
  <2>1. \A j \in A \ {1} : j \in C
    <3> TAKE j \in A \ {1}
    <3>1. j - 1 \in 1 .. n /\ (j - 1) + 1 = j
      BY <1>1
    <3> QED
      BY <1>1, <3>1
  <2>2. \A j \in C : j \in A \ {1}
    BY <1>1
  <2> QED
    BY <2>1, <2>2
<1>6. 1 \in DOMAIN its /\ (1 \in A <=> its[1] \in S)
  BY <1>1
<1>7. CASE its[1] \in S
  <2> HIDE DEF A, B, C
  <2>1. Cardinality(A \ {1}) = Cardinality(A) - 1
    BY <1>2, <1>6, <1>7, FS_RemoveElement
  <2>2. Those(new, S) = Those(its, S) - 1
    BY <1>2, <1>4, <1>5, <2>1
  <2>3. One(its[1], S) = 1
    BY <1>7 DEF One
  <2> QED
    BY <1>2, <2>2, <2>3
<1>8. CASE its[1] \notin S
  <2> HIDE DEF A, B, C
  <2>1. A \ {1} = A
    BY <1>6, <1>8
  <2>2. Those(new, S) = Those(its, S)
    BY <1>2, <1>4, <1>5, <2>1
  <2>3. One(its[1], S) = 0
    BY <1>8 DEF One
  <2> QED
    BY <1>2, <2>2, <2>3
<1> QED
  BY <1>7, <1>8

----------------------------------------------------------------------------
(* Sums counted pair by pair *)

Heap(D, f)  == UNION {{i} \X (1 .. f[i]) : i \in D}
Coins(D, f) == Cardinality(Heap(D, f))

LEMMA UpTo ==
  ASSUME NEW n \in Nat
  PROVE  IsFiniteSet(1 .. n) /\ Cardinality(1 .. n) = n
  BY FS_Interval

LEMMA HeapFinite ==
  ASSUME NEW D, IsFiniteSet(D), NEW f, \A i \in D : f[i] \in Nat
  PROVE  IsFiniteSet(Heap(D, f)) /\ Coins(D, f) \in Nat
<1> DEFINE g == [i \in D |-> {i} \X (1 .. f[i])]
           S == {{i} \X (1 .. f[i]) : i \in D}
<1>1. g \in Surjection(D, S)
  BY DEF Surjection
<1>2. IsFiniteSet(S)
  BY <1>1, FS_Surjection
<1>3. \A T \in S : IsFiniteSet(T)
  <2> SUFFICES ASSUME NEW i \in D
               PROVE  IsFiniteSet({i} \X (1 .. f[i]))
    OBVIOUS
  <2>1. IsFiniteSet(1 .. f[i]) /\ IsFiniteSet({i})
    BY UpTo, FS_Singleton
  <2> QED
    BY <2>1, FS_Product
<1>4. IsFiniteSet(UNION S)
  BY <1>2, <1>3, FS_UNION
<1> QED
  BY <1>4, FS_CardinalityType DEF Heap, Coins

\* One summand taken out of the sum.
LEMMA CoinsSplit ==
  ASSUME NEW D, IsFiniteSet(D), NEW f, \A i \in D : f[i] \in Nat, NEW j \in D
  PROVE  Coins(D, f) = Coins(D \ {j}, f) + f[j] /\ Coins(D \ {j}, f) \in Nat
<1> DEFINE E == D \ {j}
           A == Heap(E, f)
           B == {j} \X (1 .. f[j])
<1>1. IsFiniteSet(E)
  BY FS_Subset
<1>2. IsFiniteSet(A) /\ Cardinality(A) \in Nat
  BY <1>1, HeapFinite DEF Coins
<1>3. IsFiniteSet(B) /\ Cardinality(B) = f[j]
  <2>1. /\ IsFiniteSet(1 .. f[j]) /\ IsFiniteSet({j})
        /\ Cardinality(1 .. f[j]) = f[j] /\ Cardinality({j}) = 1
    BY UpTo, FS_Singleton
  <2>2. IsFiniteSet(B) /\ Cardinality(B) = Cardinality({j}) * Cardinality(1 .. f[j])
    BY <2>1, FS_Product
  <2> HIDE DEF B
  <2> QED
    BY <2>1, <2>2
<1>4. Heap(D, f) = A \cup B /\ A \cap B = {}
  BY DEF Heap
<1> HIDE DEF A, B
<1>5. Cardinality(A \cup B) = Cardinality(A) + Cardinality(B)
  <2>1. Cardinality(A \cup B) = Cardinality(A) + Cardinality(B) - Cardinality(A \cap B)
    BY <1>2, <1>3, FS_Union
  <2>2. Cardinality(A \cap B) = 0
    BY <1>4, FS_EmptySet
  <2>3. Cardinality(A) \in Nat /\ Cardinality(B) \in Nat
    BY <1>2, <1>3
  <2> QED
    BY <2>1, <2>2, <2>3
<1> QED
  BY <1>2, <1>3, <1>4, <1>5 DEF Coins, A

LEMMA CoinsSame ==
  ASSUME NEW D, NEW f, NEW g, \A i \in D : f[i] = g[i]
  PROVE  Coins(D, f) = Coins(D, g)
<1>1. Heap(D, f) = Heap(D, g)
  BY DEF Heap
<1> QED
  BY <1>1 DEF Coins

LEMMA CoinsNone ==
  ASSUME NEW D, NEW f, \A i \in D : f[i] = 0
  PROVE  Coins(D, f) = 0
<1>1. Heap(D, f) = {}
  BY DEF Heap
<1> QED
  BY <1>1, FS_EmptySet DEF Coins

\* One summand changes.
LEMMA CoinsChange ==
  ASSUME NEW D, IsFiniteSet(D), NEW f, NEW g, NEW j \in D,
         \A i \in D : f[i] \in Nat /\ g[i] \in Nat,
         \A i \in D \ {j} : g[i] = f[i]
  PROVE  Coins(D, g) + f[j] = Coins(D, f) + g[j]
<1>1. Coins(D, f) = Coins(D \ {j}, f) + f[j] /\ Coins(D \ {j}, f) \in Nat
  BY CoinsSplit
<1>2. Coins(D, g) = Coins(D \ {j}, g) + g[j]
  BY CoinsSplit
<1>3. Coins(D \ {j}, g) = Coins(D \ {j}, f)
  BY CoinsSame
<1> QED
  BY <1>1, <1>2, <1>3

\* The summands of 1 .. n moved up by one.
LEMMA CoinsShift ==
  ASSUME NEW n \in Nat, NEW f, NEW g, \A i \in 1 .. n : f[i] \in Nat /\ g[i + 1] = f[i]
  PROVE  Coins(1 .. n, f) = Coins(2 .. n + 1, g)
<1> DEFINE A == Heap(1 .. n, f)
           B == Heap(2 .. n + 1, g)
           m == [c \in A |-> <<c[1] + 1, c[2]>>]
<1>1. \A c : c \in A <=> \E i \in 1 .. n : \E k \in 1 .. f[i] : c = <<i, k>>
  BY DEF Heap
<1>2. \A c : c \in B <=> \E i \in 2 .. n + 1 : \E k \in 1 .. g[i] : c = <<i, k>>
  BY DEF Heap
<1>3. IsFiniteSet(A)
  BY UpTo, HeapFinite
<1> HIDE DEF A, B
<1>4. \A c \in A : m[c] \in B
  <2> TAKE c \in A
  <2>1. PICK i \in 1 .. n : \E k \in 1 .. f[i] : c = <<i, k>>
    BY <1>1
  <2>3. PICK k \in 1 .. f[i] : c = <<i, k>>
    BY <2>1
  <2>2. m[c] = <<i + 1, k>> /\ i + 1 \in 2 .. n + 1 /\ k \in 1 .. g[i + 1]
    BY <2>3
  <2> QED
    BY <1>2, <2>2
<1>5. \A d \in B : \E c \in A : m[c] = d
  <2> TAKE d \in B
  <2>6. PICK i \in 2 .. n + 1 : \E k \in 1 .. g[i] : d = <<i, k>>
    BY <1>2
  <2>1. PICK k \in 1 .. g[i] : d = <<i, k>>
    BY <2>6
  <2>2. i - 1 \in 1 .. n /\ (i - 1) + 1 = i
    BY <2>1
  <2>3. k \in 1 .. f[i - 1]
    BY <2>1, <2>2
  <2>4. <<i - 1, k>> \in A
    BY <1>1, <2>2, <2>3
  <2>5. m[<<i - 1, k>>] = d
    BY <2>1, <2>2, <2>4
  <2> QED
    BY <2>4, <2>5
<1>6. \A c, d \in A : m[c] = m[d] => c = d
  <2> TAKE c, d \in A
  <2>5. PICK i \in 1 .. n : \E k \in 1 .. f[i] : c = <<i, k>>
    BY <1>1
  <2>1. PICK k \in 1 .. f[i] : c = <<i, k>>
    BY <2>5
  <2>6. PICK j \in 1 .. n : \E q \in 1 .. f[j] : d = <<j, q>>
    BY <1>1
  <2>2. PICK q \in 1 .. f[j] : d = <<j, q>>
    BY <2>6
  <2>3. m[c] = <<i + 1, k>> /\ m[d] = <<j + 1, q>>
    BY <2>1, <2>2
  <2>4. i + 1 = j + 1 => i = j
    BY <2>1, <2>2
  <2> QED
    BY <2>1, <2>2, <2>3, <2>4
<1>7. m \in Bijection(A, B)
  <2>1. m \in [A -> B]
    BY <1>4
  <2> QED
    BY <1>5, <1>6, <2>1 DEF Bijection, Injection, Surjection, IsInjective
<1> HIDE DEF m
<1>8. Cardinality(A) = Cardinality(B)
  BY <1>3, <1>7, FS_Bijection DEF ExistsBijection
<1> QED
  BY <1>8 DEF Coins, A, B

Usd(its) == [i \in DOMAIN its |-> its[i].usd]

LEMMA SpentIsCoins ==
  ASSUME NEW its \in Seq(Iteration)
  PROVE  /\ Spent(its) = Coins(DOMAIN its, Usd(its)) /\ IsFiniteSet(DOMAIN its)
         /\ \A i \in DOMAIN its : Usd(its)[i] = its[i].usd /\ Usd(its)[i] \in Nat
<1>1. \A i \in DOMAIN its : Usd(its)[i] = its[i].usd
  BY DEF Usd
<1>2. \A i \in DOMAIN its : its[i].usd \in Nat
  <2>1. \A i \in DOMAIN its : its[i] \in Iteration
    BY ElementOfSeq
  <2> QED
    BY <2>1 DEF Iteration
<1>3. Heap(DOMAIN its, Usd(its)) = UNION {{i} \X (1 .. its[i].usd) : i \in DOMAIN its}
  BY <1>1 DEF Heap
<1>4. IsFiniteSet(DOMAIN its)
  BY UpTo
<1> QED
  BY <1>1, <1>2, <1>3, <1>4 DEF Spent, Coins

LEMMA SpentAppend ==
  ASSUME NEW its \in Seq(Iteration), NEW x \in Iteration
  PROVE  Spent(Append(its, x)) = Spent(its) + x.usd
<1> DEFINE n   == Len(its)
           new == Append(its, x)
<1>1. /\ new \in Seq(Iteration) /\ n \in Nat /\ DOMAIN its = 1 .. n /\ DOMAIN new = 1 .. n + 1
      /\ \A i \in 1 .. n : new[i] = its[i]
      /\ new[n + 1] = x
  BY AppendProperties
<1> HIDE DEF new, n
<1>2. DOMAIN new \ {n + 1} = DOMAIN its /\ n + 1 \in DOMAIN new
  BY <1>1
<1>3. Spent(new) = Coins(DOMAIN its, Usd(new)) + x.usd
  <2> DEFINE D == DOMAIN new
             f == Usd(new)
             j == n + 1
  <2>1. /\ Spent(new) = Coins(D, f) /\ IsFiniteSet(D) /\ \A i \in D : f[i] \in Nat
        /\ f[j] = x.usd /\ j \in D /\ D \ {j} = DOMAIN its
    BY <1>1, <1>2, SpentIsCoins
  <2> HIDE DEF D, f, j
  <2>2. Coins(D, f) = Coins(D \ {j}, f) + f[j]
    BY <2>1, CoinsSplit
  <2> QED
    BY <2>1, <2>2 DEF f
<1>4. Coins(DOMAIN its, Usd(new)) = Coins(DOMAIN its, Usd(its))
  <2>1. \A i \in DOMAIN its : Usd(new)[i] = Usd(its)[i]
    BY <1>1 DEF Usd
  <2> QED
    BY <2>1, CoinsSame
<1> QED
  BY <1>3, <1>4, SpentIsCoins DEF new

LEMMA SpentRewrite ==
  ASSUME NEW its \in Seq(Iteration), NEW p \in DOMAIN its, NEW x \in Iteration
  PROVE  Spent([its EXCEPT ![p] = x]) + its[p].usd = Spent(its) + x.usd
<1> DEFINE new == [its EXCEPT ![p] = x]
<1>1. /\ new \in Seq(Iteration) /\ DOMAIN new = DOMAIN its /\ new[p] = x
      /\ \A i \in DOMAIN its : i # p => new[i] = its[i]
  BY ExceptSeq
<1> HIDE DEF new
<1>2. /\ Spent(its) = Coins(DOMAIN its, Usd(its)) /\ IsFiniteSet(DOMAIN its)
      /\ \A i \in DOMAIN its : Usd(its)[i] = its[i].usd /\ Usd(its)[i] \in Nat
  BY SpentIsCoins
<1>3. /\ Spent(new) = Coins(DOMAIN its, Usd(new))
      /\ \A i \in DOMAIN its : Usd(new)[i] = new[i].usd /\ Usd(new)[i] \in Nat
  BY <1>1, SpentIsCoins
<1>4. \A i \in DOMAIN its \ {p} : Usd(new)[i] = Usd(its)[i]
  BY <1>1, <1>2, <1>3
<1>5. Coins(DOMAIN its, Usd(new)) + Usd(its)[p] = Coins(DOMAIN its, Usd(its)) + Usd(new)[p]
  <2> DEFINE D == DOMAIN its
             f == Usd(its)
             g == Usd(new)
  <2>1. /\ IsFiniteSet(D) /\ \A i \in D : f[i] \in Nat /\ g[i] \in Nat
        /\ p \in D /\ \A i \in D \ {p} : g[i] = f[i]
    BY <1>2, <1>3, <1>4
  <2> HIDE DEF D, f, g
  <2>2. Coins(D, g) + f[p] = Coins(D, f) + g[p]
    BY <2>1, CoinsChange
  <2> QED
    BY <2>2 DEF D, f, g
<1> QED
  BY <1>1, <1>2, <1>3, <1>5 DEF new

LEMMA SpentDrop ==
  ASSUME NEW its \in Seq(Iteration), NEW new \in Seq(Iteration), Len(new) + 1 = Len(its),
         \A i \in 1 .. Len(new) : new[i] = its[i + 1]
  PROVE  Spent(new) + its[1].usd = Spent(its)
<1> DEFINE n == Len(new)
<1>1. n \in Nat /\ DOMAIN its = 1 .. n + 1 /\ DOMAIN new = 1 .. n
  BY LenProperties
<1> HIDE DEF n
<1>2. 1 \in DOMAIN its /\ DOMAIN its \ {1} = 2 .. n + 1
  BY <1>1
<1>3. Spent(its) = Coins(2 .. n + 1, Usd(its)) + its[1].usd
      /\ Coins(2 .. n + 1, Usd(its)) \in Nat /\ its[1].usd \in Nat
  <2> DEFINE D == DOMAIN its
             f == Usd(its)
  <2>1. /\ Spent(its) = Coins(D, f) /\ IsFiniteSet(D) /\ \A i \in D : f[i] \in Nat
        /\ f[1] = its[1].usd /\ 1 \in D /\ D \ {1} = 2 .. n + 1
    BY <1>2, SpentIsCoins
  <2> HIDE DEF D, f
  <2>2. Coins(D, f) = Coins(D \ {1}, f) + f[1] /\ Coins(D \ {1}, f) \in Nat
    BY <2>1, CoinsSplit
  <2> QED
    BY <2>1, <2>2 DEF f
<1>4. \A i \in 1 .. n : Usd(new)[i] \in Nat /\ Usd(its)[i + 1] = Usd(new)[i]
  <2> TAKE i \in 1 .. n
  <2>1. i \in DOMAIN new /\ i + 1 \in DOMAIN its /\ new[i] = its[i + 1]
    BY <1>1 DEF n
  <2> QED
    BY <2>1, SpentIsCoins
<1>5. Spent(new) = Coins(2 .. n + 1, Usd(its))
  <2> DEFINE f == Usd(new)
             g == Usd(its)
  <2>1. Spent(new) = Coins(1 .. n, f)
    BY <1>1, SpentIsCoins
  <2>2. \A i \in 1 .. n : f[i] \in Nat /\ g[i + 1] = f[i]
    BY <1>4
  <2> HIDE DEF f, g
  <2>3. Coins(1 .. n, f) = Coins(2 .. n + 1, g)
    BY <1>1, <2>2, CoinsShift
  <2> QED
    BY <2>1, <2>3 DEF g
<1> QED
  BY <1>3, <1>5

----------------------------------------------------------------------------
(* The window under each mutation *)

\* A record no write has to trim.
LEMMA NothingToTrim ==
  ASSUME NEW r, Len(r.iterations) <= MaxRetained
  PROVE  TrimIterations(r) = r
  BY DEF TrimIterations

LEMMA WindowNext ==
  ASSUME NEW r, WellFormed(r), Windowed(r)
  PROVE  /\ NextSeq(r) = r.retired.dispatched + Len(r.iterations) + 1
         /\ r.retired.dispatched \in Nat /\ Len(r.iterations) \in Nat
         /\ r.iterations \in Seq(Iteration) /\ r.executions \in Seq(Execution)
         /\ DOMAIN r.iterations = 1 .. Len(r.iterations)
<1> DEFINE its == r.iterations
           d == r.retired.dispatched
<1>1. /\ its \in Seq(Iteration) /\ Len(its) \in Nat /\ DOMAIN its = 1 .. Len(its)
      /\ d \in Nat /\ SeqsOrdered(its) /\ r \in LoopRecord /\ r.executions \in Seq(Execution)
  BY DEF WellFormed, LoopRecord, Totals
<1>2. /\ its = <<>> => NextSeq(r) = 1
      /\ its # <<>> => NextSeq(r) = its[Len(its)].seq + 1
  BY <1>1, NextSeqIsLast
<1>3. CASE its = <<>>
  BY <1>1, <1>2, <1>3 DEF Windowed
<1>4. CASE its # <<>>
  <2>1. Len(its) \in DOMAIN its
    BY <1>1, <1>4, EmptySeq, SeqEqual
  <2>2. its[Len(its)].seq = d + Len(its)
    BY <2>1 DEF Windowed
  <2> HIDE DEF its, d
  <2>3. NextSeq(r) = d + Len(its) + 1
    BY <1>2, <1>4, <2>2
  <2> QED
    BY <1>1, <2>3 DEF its, d
<1> QED
  BY <1>3, <1>4

\* The place of an iteration in the window follows from its number.
LEMMA PlaceOf ==
  ASSUME NEW r, WellFormed(r), Windowed(r), NEW seq \in Nat
  PROVE  LET p == seq - r.retired.dispatched
         IN  /\ p \in DOMAIN r.iterations => IterationAt(r, seq) = {p}
             /\ p \notin DOMAIN r.iterations => IterationAt(r, seq) = {}
             /\ p \in DOMAIN r.iterations <=>
                  seq > r.retired.dispatched /\ seq < NextSeq(r)
<1> DEFINE d == r.retired.dispatched
           p == seq - d
           D == DOMAIN r.iterations
           n == Len(r.iterations)
<1>1. d \in Nat /\ D = 1 .. n /\ n \in Nat /\ NextSeq(r) = d + n + 1
  BY WindowNext
<1>2. \A i \in D : r.iterations[i].seq = d + i
  BY DEF Windowed
<1>3. IterationAt(r, seq) = {i \in D : d + i = seq}
  BY <1>2 DEF IterationAt
<1> HIDE DEF d, D, n
<1>4. \A i \in D : d + i = seq <=> i = p
  BY <1>1
<1>5. p \in D <=> seq > d /\ seq < NextSeq(r)
  BY <1>1
<1> HIDE DEF p
<1>6. /\ p \in D => IterationAt(r, seq) = {p}
      /\ p \notin D => IterationAt(r, seq) = {}
  BY <1>3, <1>4
<1> QED
  BY <1>5, <1>6 DEF p, d, D

\* new holds the accounts of old, and of executions that have run nothing.
Accounted(new, old) ==
  /\ Len(new) >= Len(old)
  /\ \A e \in DOMAIN new :
       new[e].totals = IF e \in DOMAIN old THEN old[e].totals ELSE EmptyTotals

SameBooks(q, r) ==
  /\ q.iterations = r.iterations /\ q.retired = r.retired
  /\ Accounted(q.executions, r.executions)

LEMMA SameBooksWindowed ==
  ASSUME NEW q, NEW r, Windowed(r), SameBooks(q, r)
  PROVE  Windowed(q)
  BY DEF Windowed, SameBooks

LEMMA SetStatusBooks ==
  ASSUME NEW r, WellFormed(r), Windowed(r), NEW s \in LoopStatus
  PROVE  SameBooks(SetStatus(r, s), r)
<1> DEFINE e  == OpenExecution(r.executions)
           es == IF r.status = "running" /\ e # 0
                 THEN [r.executions EXCEPT ![e].status = s, ![e].open = FALSE]
                 ELSE r.executions
           q  == [r EXCEPT !.status = s,
                           !.executions = IF r.status = "running" /\ e # 0
                                          THEN [@ EXCEPT ![e].status = s, ![e].open = FALSE]
                                          ELSE @]
<1>1. /\ r \in LoopRecord /\ OnlyNewestOpen(r) /\ r.executions \in Seq(Execution)
      /\ Len(r.executions) \in Nat
  BY DEF WellFormed, LoopRecord
<1>2. CASE r.status = s
  <2>1. SetStatus(r, s) = r
    BY <1>2 DEF SetStatus
  <2> QED
    BY <1>1, <2>1 DEF SameBooks, Accounted
<1>3. CASE r.status # s
  <2>1. e \in Nat /\ (e # 0 => e \in DOMAIN r.executions)
    BY <1>1, OpenExecutionType
  <2>2. /\ q.executions = es /\ q.iterations = r.iterations /\ q.retired = r.retired
    <3> HIDE DEF e
    <3> QED
      BY <1>1 DEF LoopRecord
  <2>3. Accounted(es, r.executions)
    <3>1. CASE r.status = "running" /\ e # 0
      <4> DEFINE x == [r.executions[e] EXCEPT !.status = s, !.open = FALSE]
      <4>1. r.executions[e] \in Execution
        BY <1>1, <2>1, <3>1, ElementOfSeq
      <4>2. x \in Execution /\ x.totals = r.executions[e].totals
        BY <4>1 DEF Execution
      <4>3. es = [r.executions EXCEPT ![e] = x]
        BY <1>1, <2>1, <3>1
      <4> HIDE DEF x, e, es
      <4>4. es \in Seq(Execution) /\ Len(es) = Len(r.executions)
        BY <1>1, <2>1, <3>1, <4>2, <4>3, ExceptSeq
      <4>5. DOMAIN es = DOMAIN r.executions
        BY <4>3
      <4> QED
        BY <1>1, <2>1, <3>1, <4>2, <4>3, <4>4, <4>5 DEF Accounted
    <3>2. CASE ~(r.status = "running" /\ e # 0)
      <4>1. es = r.executions
        BY <3>2
      <4> HIDE DEF es
      <4> QED
        BY <1>1, <4>1 DEF Accounted
    <3> QED
      BY <3>1, <3>2
  <2>4. SetStatus(r, s) = TrimIterations(q)
    BY <1>3 DEF SetStatus
  <2> HIDE DEF q, es, e
  <2>5. TrimIterations(q) = q
    BY <2>2, NothingToTrim DEF Windowed
  <2> QED
    BY <2>2, <2>3, <2>4, <2>5 DEF SameBooks
<1> QED
  BY <1>2, <1>3

LEMMA BeginExecutionBooks ==
  ASSUME NEW r, WellFormed(r), Windowed(r)
  PROVE  SameBooks(BeginExecution(r), r)
<1> DEFINE x  == [status |-> "running", open |-> TRUE, totals |-> EmptyTotals]
           es == Append(r.executions, x)
           q  == [r EXCEPT !.status = "running", !.executions = es]
<1>1. r \in LoopRecord /\ r.executions \in Seq(Execution) /\ Len(r.executions) \in Nat
  BY DEF WellFormed, LoopRecord
<1>2. x \in Execution /\ x.totals = EmptyTotals
  BY DEF Execution, LoopStatus, Totals, EmptyTotals
<1> HIDE DEF x
<1>3. /\ Len(es) = Len(r.executions) + 1 /\ DOMAIN es = 1 .. Len(r.executions) + 1
      /\ DOMAIN r.executions = 1 .. Len(r.executions)
      /\ \A i \in 1 .. Len(r.executions) : es[i] = r.executions[i]
      /\ es[Len(r.executions) + 1] = x
  BY <1>1, <1>2, AppendProperties
<1> HIDE DEF es
<1>4. Accounted(es, r.executions)
  BY <1>1, <1>2, <1>3 DEF Accounted
<1>5. q.executions = es /\ q.iterations = r.iterations /\ q.retired = r.retired
  BY <1>1 DEF LoopRecord
<1>6. BeginExecution(r) = TrimIterations(q)
  BY DEF BeginExecution, es, x
<1> HIDE DEF q
<1>7. TrimIterations(q) = q
  BY <1>5, NothingToTrim DEF Windowed
<1> QED
  BY <1>4, <1>5, <1>6, <1>7 DEF SameBooks

LEMMA UpdateTicketStateBooks ==
  ASSUME NEW r, r \in LoopRecord, Len(r.iterations) <= MaxRetained, NEW t, NEW s
  PROVE  LET q == UpdateTicketState(r, t, s)
         IN  /\ q.iterations = r.iterations /\ q.retired = r.retired
             /\ q.executions = r.executions
<1> DEFINE q == [r EXCEPT !.tstate[t] = [s EXCEPT !.known = TRUE]]
<1>1. /\ q.iterations = r.iterations /\ q.retired = r.retired
      /\ q.executions = r.executions
  BY DEF LoopRecord
<1>2. UpdateTicketState(r, t, s) = TrimIterations(q)
  BY DEF UpdateTicketState
<1> HIDE DEF q
<1>3. TrimIterations(q) = q
  BY <1>1, NothingToTrim
<1> QED
  BY <1>1, <1>2, <1>3

\* An iteration with its verdict.
Closed(it, outcome, usd) == [it EXCEPT !.outcome = outcome, !.usd = usd]

LEMMA ClosedType ==
  ASSUME NEW it \in Iteration, NEW outcome \in Outcomes, NEW usd \in Nat
  PROVE  LET x == Closed(it, outcome, usd)
         IN  /\ x \in Iteration /\ x.outcome = outcome /\ x.usd = usd
             /\ x.seq = it.seq /\ x.exec = it.exec /\ x.ticket = it.ticket
  BY DEF Closed, Iteration

\* q is r with the iteration of this number closed, if the window still has it.
ClosedIn(q, r, seq, outcome, usd) ==
  LET p   == seq - r.retired.dispatched
      old == r.iterations[p]
  IN  /\ q.retired = r.retired /\ Len(q.iterations) = Len(r.iterations)
      /\ p \notin DOMAIN r.iterations =>
           q.iterations = r.iterations /\ q.executions = r.executions
      /\ p \in DOMAIN r.iterations =>
           /\ old \in Iteration
           /\ q.iterations = [r.iterations EXCEPT ![p] = Closed(old, outcome, usd)]
           /\ q.executions = IF old.outcome = "running"
                             THEN CountOutcome(r.executions, old.exec, outcome, usd)
                             ELSE r.executions

\* A verdict is written where the iteration stands.
LEMMA SettleBooks ==
  ASSUME NEW r, WellFormed(r), Windowed(r), NEW seq \in Nat,
         NEW outcome \in Outcomes, NEW usd \in Nat
  PROVE  ClosedIn(SettleIteration(r, seq, outcome, usd), r, seq, outcome, usd)
<1> DEFINE p   == seq - r.retired.dispatched
           old == r.iterations[p]
           its == [r.iterations EXCEPT ![p] = Closed(old, outcome, usd)]
           es  == IF old.outcome = "running"
                  THEN CountOutcome(r.executions, old.exec, outcome, usd)
                  ELSE r.executions
           q   == [r EXCEPT !.iterations = its, !.executions = es]
<1>1. CASE p \notin DOMAIN r.iterations
  BY <1>1, PlaceOf DEF SettleIteration, ClosedIn
<1>2. CASE p \in DOMAIN r.iterations
  <2>1. IterationAt(r, seq) = {p}
    BY <1>2, PlaceOf
  <2>2. (CHOOSE i \in IterationAt(r, seq) : TRUE) = p
    BY <2>1
  <2>3. r \in LoopRecord /\ r.iterations \in Seq(Iteration) /\ Len(r.iterations) \in Nat
    BY DEF WellFormed, LoopRecord
  <2>4. SettleIteration(r, seq, outcome, usd)
          = TrimIterations(
              [r EXCEPT !.iterations[p] = Closed(old, outcome, usd),
                        !.executions = IF old.outcome = "running"
                                       THEN CountOutcome(@, old.exec, outcome, usd) ELSE @])
    BY <2>1, <2>2 DEF SettleIteration, Closed
  <2> HIDE DEF p, old
  <2>5. SettleIteration(r, seq, outcome, usd) = TrimIterations(q)
    BY <2>3, <2>4 DEF LoopRecord
  <2>6. /\ q.iterations = its /\ q.executions = es /\ q.retired = r.retired
    <3> HIDE DEF its, es
    <3> QED
      BY <2>3 DEF LoopRecord
  <2>9. old \in Iteration
    BY <1>2, <2>3, ElementOfSeq DEF p, old
  <2>7. Len(its) = Len(r.iterations)
    <3> DEFINE x == Closed(old, outcome, usd)
    <3>2. x \in Iteration
      BY <2>9, ClosedType
    <3> HIDE DEF x
    <3> QED
      BY <1>2, <2>3, <3>2, ExceptSeq DEF p
  <2> HIDE DEF q, its, es
  <2>8. TrimIterations(q) = q
    BY <2>6, <2>7, NothingToTrim DEF Windowed
  <2> QED
    BY <1>2, <2>5, <2>6, <2>7, <2>8, <2>9 DEF ClosedIn, p, old, its, es
<1> QED
  BY <1>1, <1>2

LEMMA AbandonBooks ==
  ASSUME NEW r, WellFormed(r), Windowed(r), NEW i \in DOMAIN r.iterations
  PROVE  LET q == AbandonIteration(r, i)
         IN  /\ q.retired = r.retired /\ q.executions = r.executions
             /\ q.iterations = [r.iterations EXCEPT
                                  ![i] = [r.iterations[i] EXCEPT !.outcome = "abandoned"]]
<1> DEFINE x   == [r.iterations[i] EXCEPT !.outcome = "abandoned"]
           its == [r.iterations EXCEPT ![i] = x]
           q   == [r EXCEPT !.iterations = its]
<1>1. r \in LoopRecord /\ r.iterations \in Seq(Iteration) /\ Len(r.iterations) \in Nat
  BY DEF WellFormed, LoopRecord
<1>2. AbandonIteration(r, i) = TrimIterations(q)
  BY <1>1 DEF AbandonIteration, LoopRecord
<1>3. x \in Iteration
  <2>1. r.iterations[i] \in Iteration
    BY <1>1, ElementOfSeq
  <2> QED
    BY <2>1 DEF Iteration, Outcomes
<1> HIDE DEF x
<1>4. its \in Seq(Iteration) /\ Len(its) = Len(r.iterations)
  BY <1>1, <1>3, ExceptSeq
<1> HIDE DEF its
<1>5. q.iterations = its /\ q.executions = r.executions /\ q.retired = r.retired
  BY <1>1 DEF LoopRecord
<1> HIDE DEF q
<1>6. TrimIterations(q) = q
  BY <1>4, <1>5, NothingToTrim DEF Windowed
<1> QED
  BY <1>2, <1>5, <1>6 DEF its, x

\* The iterations that ended, or not, in one of these ways.
Ending(outcomes) == {x \in Iteration : x.outcome \in outcomes}

LEMMA EndedIsThose ==
  ASSUME NEW its \in Seq(Iteration), NEW outcomes
  PROVE  Ended(its, outcomes) = Those(its, Ending(outcomes))
<1>1. \A i \in DOMAIN its : its[i] \in Iteration
  BY ElementOfSeq
<1>2. {i \in DOMAIN its : its[i].outcome \in outcomes}
        = {i \in DOMAIN its : its[i] \in Ending(outcomes)}
  BY <1>1 DEF Ending
<1> QED
  BY <1>2 DEF Ended, Those

LEMMA DisjointCounts ==
  ASSUME NEW A, NEW B, IsFiniteSet(A), IsFiniteSet(B), A \cap B = {}
  PROVE  /\ IsFiniteSet(A \cup B) /\ Cardinality(A \cup B) = Cardinality(A) + Cardinality(B)
         /\ Cardinality(A) \in Nat /\ Cardinality(B) \in Nat
<1>1. /\ IsFiniteSet(A \cup B)
      /\ Cardinality(A \cup B) = Cardinality(A) + Cardinality(B) - Cardinality(A \cap B)
  BY FS_Union
<1>2. Cardinality(A \cap B) = 0
  BY FS_EmptySet
<1>3. Cardinality(A) \in Nat /\ Cardinality(B) \in Nat
  BY FS_CardinalityType
<1> QED
  BY <1>1, <1>2, <1>3

\* Every iteration of a window counts under one heading or is still open.
LEMMA WindowAddsUp ==
  ASSUME NEW its \in Seq(Iteration)
  PROVE  Len(its) = Ended(its, {"succeeded"}) + Ended(its, {"failed", "abandoned"})
                    + Ended(its, {"parked"}) + Ended(its, {"running"})
<1> DEFINE D       == DOMAIN its
           part(O) == {i \in D : its[i].outcome \in O}
           A == part({"succeeded"})
           B == part({"failed", "abandoned"})
           C == part({"parked"})
           E == part({"running"})
<1>1. \A i \in D : its[i].outcome \in Outcomes
  <2>1. \A i \in D : its[i] \in Iteration
    BY ElementOfSeq
  <2> QED
    BY <2>1 DEF Iteration
<1>2. /\ ((A \cup B) \cup C) \cup E = D
      /\ A \cap B = {} /\ (A \cup B) \cap C = {} /\ ((A \cup B) \cup C) \cap E = {}
  BY <1>1 DEF Outcomes
<1>3. /\ IsFiniteSet(D) /\ Cardinality(D) = Len(its)
      /\ A \in SUBSET D /\ B \in SUBSET D /\ C \in SUBSET D /\ E \in SUBSET D
  <2>1. Len(its) \in Nat /\ D = 1 .. Len(its)
    OBVIOUS
  <2> QED
    BY <2>1, UpTo
<1>4. /\ Ended(its, {"succeeded"}) = Cardinality(A)
      /\ Ended(its, {"failed", "abandoned"}) = Cardinality(B)
      /\ Ended(its, {"parked"}) = Cardinality(C)
      /\ Ended(its, {"running"}) = Cardinality(E)
  BY DEF Ended
<1> HIDE DEF D, A, B, C, E
<1>5. IsFiniteSet(A) /\ IsFiniteSet(B) /\ IsFiniteSet(C) /\ IsFiniteSet(E)
  BY <1>3, FS_Subset
<1>6. /\ IsFiniteSet(A \cup B) /\ Cardinality(A \cup B) = Cardinality(A) + Cardinality(B)
      /\ Cardinality(A) \in Nat /\ Cardinality(B) \in Nat
  BY <1>2, <1>5, DisjointCounts
<1>7. /\ IsFiniteSet((A \cup B) \cup C) /\ Cardinality(C) \in Nat
      /\ Cardinality((A \cup B) \cup C) = Cardinality(A \cup B) + Cardinality(C)
  BY <1>2, <1>5, <1>6, DisjointCounts
<1>8. /\ Cardinality(((A \cup B) \cup C) \cup E)
           = Cardinality((A \cup B) \cup C) + Cardinality(E)
      /\ Cardinality(E) \in Nat
  BY <1>2, <1>5, <1>7, DisjointCounts
<1> QED
  BY <1>2, <1>3, <1>4, <1>6, <1>7, <1>8

\* The totals of what was retired after one more iteration went.
LEMMA RetireOne ==
  ASSUME NEW its \in Seq(Iteration), its # <<>>, NEW totals \in Totals
  PROVE  LET new == AddTotals(totals, FoldIterations(SubSeq(its, 1, 1)))
         IN  /\ its[1] \in Iteration
             /\ new.dispatched = totals.dispatched + 1
             /\ new.succeeded = totals.succeeded + One(its[1], Ending({"succeeded"}))
             /\ new.failed = totals.failed + One(its[1], Ending({"failed", "abandoned"}))
             /\ new.parked = totals.parked + One(its[1], Ending({"parked"}))
             /\ new.usd = totals.usd + its[1].usd
<1> DEFINE h   == SubSeq(its, 1, 1)
           x   == its[1]
           new == AddTotals(totals, FoldIterations(h))
<1>1. x \in Iteration
  BY EmptySeq, ElementOfSeq
<1>2. h = Append(<<>>, x)
  <2>1. 1 \in Nat /\ Len(its) >= 1
    BY EmptySeq
  <2>2. h \in Seq(Iteration) /\ Len(h) = 1 /\ h[1] = x
    BY <2>1, SubSeqProperties
  <2>3. /\ Append(<<>>, x) \in Seq(Iteration) /\ Len(Append(<<>>, x)) = 1
        /\ Append(<<>>, x)[1] = x
    BY <1>1
  <2> HIDE DEF h, x
  <2> QED
    BY <2>2, <2>3, SeqEqual
<1>3. <<>> \in Seq(Iteration) /\ h \in Seq(Iteration) /\ Len(h) = 1
  BY <1>1, <1>2
<1>4. \A S : Those(h, S) = One(x, S)
  <2> TAKE S
  <2>1. Those(<<>>, S) = 0
    BY FS_EmptySet DEF Those
  <2>2. Those(Append(<<>>, x), S) = Those(<<>>, S) + One(x, S)
    BY <1>1, <1>3, ThoseAppend
  <2>3. One(x, S) \in Nat
    BY DEF One
  <2> HIDE DEF h, x
  <2> QED
    BY <1>2, <2>1, <2>2, <2>3
<1>5. Spent(h) = x.usd
  <2>1. Spent(<<>>) = 0
    <3>1. UNION {{i} \X (1 .. <<>>[i].usd) : i \in DOMAIN <<>>} = {}
      OBVIOUS
    <3> QED
      BY <3>1, FS_EmptySet DEF Spent
  <2>2. Spent(Append(<<>>, x)) = Spent(<<>>) + x.usd
    BY <1>1, <1>3, SpentAppend
  <2>3. x.usd \in Nat
    BY <1>1 DEF Iteration
  <2> HIDE DEF h, x
  <2> QED
    BY <1>2, <2>1, <2>2, <2>3
<1> HIDE DEF h, x
<1>6. /\ FoldIterations(h).dispatched = 1
      /\ FoldIterations(h).succeeded = One(x, Ending({"succeeded"}))
      /\ FoldIterations(h).failed = One(x, Ending({"failed", "abandoned"}))
      /\ FoldIterations(h).parked = One(x, Ending({"parked"}))
      /\ FoldIterations(h).usd = x.usd
  BY <1>3, <1>4, <1>5, EndedIsThose DEF FoldIterations
<1>7. /\ new.dispatched = totals.dispatched + FoldIterations(h).dispatched
      /\ new.succeeded = totals.succeeded + FoldIterations(h).succeeded
      /\ new.failed = totals.failed + FoldIterations(h).failed
      /\ new.parked = totals.parked + FoldIterations(h).parked
      /\ new.usd = totals.usd + FoldIterations(h).usd
  BY DEF AddTotals, Totals
<1> QED
  BY <1>1, <1>6, <1>7 DEF h, x

\* The iteration a launch opens.
Opened(r, ticket) ==
  [seq |-> NextSeq(r), exec |-> OpenExecution(r.executions), ticket |-> ticket,
   outcome |-> "running", usd |-> 0]

\* A launch writes its iteration behind the others, and at most the oldest goes.
LEMMA AppendBooks ==
  ASSUME NEW r, WellFormed(r), Windowed(r), NEW t \in Tickets, MaxRetained \in Nat \ {0}
  PROVE  LET q      == AppendIteration(r, t)
             longer == Append(r.iterations, Opened(r, t))
         IN  /\ Opened(r, t) \in Iteration /\ longer \in Seq(Iteration)
             /\ Len(longer) = Len(r.iterations) + 1 /\ longer[Len(longer)] = Opened(r, t)
             /\ \A i \in DOMAIN r.iterations : longer[i] = r.iterations[i]
             /\ q.executions = CountDispatch(r.executions, OpenExecution(r.executions))
             /\ \/ q.iterations = longer /\ q.retired = r.retired
                \/ /\ q.iterations \in Seq(Iteration)
                   /\ Len(q.iterations) + 1 = Len(longer) /\ Len(r.iterations) > 0
                   /\ \A i \in 1 .. Len(q.iterations) : q.iterations[i] = longer[i + 1]
                   /\ q.retired = AddTotals(r.retired, FoldIterations(SubSeq(longer, 1, 1)))
             /\ Windowed(q)
<1> DEFINE n      == Len(r.iterations)
           x      == Opened(r, t)
           longer == Append(r.iterations, x)
           es     == CountDispatch(r.executions, OpenExecution(r.executions))
           p      == [r EXCEPT !.iterations = longer, !.executions = es]
           q      == AppendIteration(r, t)
           d      == r.retired.dispatched
<1>1. /\ r \in LoopRecord /\ OnlyNewestOpen(r) /\ r.retired \in Totals
      /\ r.iterations \in Seq(Iteration) /\ n \in Nat /\ DOMAIN r.iterations = 1 .. n
      /\ d \in Nat /\ NextSeq(r) = d + n + 1
  BY WindowNext DEF WellFormed, LoopRecord
<1>2. x \in Iteration /\ x.seq = d + n + 1
  <2>1. OpenExecution(r.executions) \in Nat
    BY <1>1, OpenExecutionType
  <2> HIDE DEF d, n
  <2> QED
    BY <1>1, <2>1 DEF Iteration, Outcomes, Opened
<1>3. q = TrimIterations(p)
  BY <1>1 DEF AppendIteration, Opened, LoopRecord
<1> HIDE DEF x
<1>4. /\ longer \in Seq(Iteration) /\ Len(longer) = n + 1 /\ longer[n + 1] = x
      /\ \A i \in 1 .. n : longer[i] = r.iterations[i]
  BY <1>1, <1>2, AppendProperties
<1> HIDE DEF longer
<1>5. \A i \in 1 .. n + 1 : longer[i].seq = d + i
  <2> TAKE i \in 1 .. n + 1
  <2>1. CASE i = n + 1
    BY <1>1, <1>2, <1>4, <2>1
  <2>2. CASE i \in 1 .. n
    BY <1>1, <1>4, <2>2 DEF Windowed
  <2> QED
    BY <1>1, <2>1, <2>2
<1> HIDE DEF es
<1>6. /\ p.iterations = longer /\ p.executions = es /\ p.retired = r.retired
      /\ p \in [status : {r.status}, executions : {es}, iterations : {longer},
                tstate : {r.tstate}, retired : {r.retired}]
  BY <1>1 DEF LoopRecord
<1>7. r.retired.succeeded + r.retired.failed + r.retired.parked <= d /\ n <= MaxRetained
  BY DEF Windowed
<1>8. /\ q.executions = es
      /\ \/ q.iterations = longer /\ q.retired = r.retired
         \/ /\ q.iterations \in Seq(Iteration)
            /\ Len(q.iterations) + 1 = Len(longer) /\ n > 0
            /\ \A i \in 1 .. Len(q.iterations) : q.iterations[i] = longer[i + 1]
            /\ q.retired = AddTotals(r.retired, FoldIterations(SubSeq(longer, 1, 1)))
      /\ Windowed(q)
  <2>1. CASE n < MaxRetained
    <3>1. q = p
      <4>1. Len(p.iterations) <= MaxRetained
        BY <1>1, <1>4, <1>6, <2>1
      <4> HIDE DEF p, q
      <4> QED
        BY <1>3, <4>1, NothingToTrim
    <3>2. Windowed(p)
      <4>1. longer # <<>>
        BY <1>1, <1>4
      <4> HIDE DEF p, n
      <4> QED
        BY <1>1, <1>4, <1>5, <1>6, <1>7, <2>1, <4>1 DEF Windowed
    <3> HIDE DEF q, p
    <3> QED
      BY <1>6, <3>1, <3>2
  <2>2. CASE ~(n < MaxRetained)
    <3> DEFINE kept    == SubSeq(longer, 2, n + 1)
               retired == AddTotals(r.retired, FoldIterations(SubSeq(longer, 1, 1)))
    <3>1. n = MaxRetained /\ n > 0 /\ n + 1 - MaxRetained = 1
      BY <1>1, <1>7, <2>2
    <3>2. q = [p EXCEPT !.iterations = kept, !.retired = retired]
      <4>1. /\ ~(Len(p.iterations) <= MaxRetained)
            /\ Len(p.iterations) - MaxRetained = 1 /\ Len(p.iterations) = n + 1
        BY <1>1, <1>4, <1>6, <3>1
      <4>2. TrimIterations(p)
              = [p EXCEPT !.iterations = SubSeq(p.iterations, 1 + 1, n + 1),
                          !.retired = AddTotals(p.retired,
                                                FoldIterations(SubSeq(p.iterations, 1, 1)))]
        <5> HIDE DEF p, n
        <5> QED
          BY <4>1 DEF TrimIterations
      <4>3. 1 + 1 = 2
        OBVIOUS
      <4> HIDE DEF p, q
      <4> QED
        BY <1>3, <1>6, <4>2, <4>3
    <3>3. q.executions = es /\ q.iterations = kept /\ q.retired = retired
      <4> HIDE DEF kept, retired, p, q
      <4> QED
        BY <1>6, <3>2
    <3>4. /\ kept \in Seq(Iteration) /\ Len(kept) = n
          /\ \A i \in 1 .. n : kept[i] = longer[i + 1]
      <4>1. 2 \in 1 .. n + 1 /\ n + 1 \in 1 .. n + 1
        BY <1>1, <3>1
      <4>2. /\ kept \in Seq(Iteration) /\ Len(kept) = (n + 1) - 2 + 1
            /\ \A i \in 1 .. (n + 1) - 2 + 1 : kept[i] = longer[2 + i - 1]
        BY <1>1, <1>4, <4>1, SubSeqProperties
      <4>3. (n + 1) - 2 + 1 = n /\ \A i \in 1 .. n : 2 + i - 1 = i + 1
        BY <1>1
      <4> HIDE DEF kept, n
      <4> QED
        BY <4>2, <4>3
    <3>5. /\ retired.dispatched = d + 1
          /\ retired.succeeded + retired.failed + retired.parked <= d + 1
      <4>1. longer # <<>> /\ longer[1] \in Iteration
        BY <1>1, <1>4
      <4>2. /\ One(longer[1], Ending({"succeeded"}))
               + One(longer[1], Ending({"failed", "abandoned"}))
               + One(longer[1], Ending({"parked"})) <= 1
            /\ One(longer[1], Ending({"succeeded"})) \in Nat
            /\ One(longer[1], Ending({"failed", "abandoned"})) \in Nat
            /\ One(longer[1], Ending({"parked"})) \in Nat
        BY <4>1 DEF One, Ending
      <4>3. /\ retired.dispatched = r.retired.dispatched + 1
            /\ retired.succeeded = r.retired.succeeded + One(longer[1], Ending({"succeeded"}))
            /\ retired.failed = r.retired.failed
                                + One(longer[1], Ending({"failed", "abandoned"}))
            /\ retired.parked = r.retired.parked + One(longer[1], Ending({"parked"}))
        BY <1>1, <1>4, <4>1, RetireOne
      <4>4. /\ r.retired.succeeded \in Nat /\ r.retired.failed \in Nat
            /\ r.retired.parked \in Nat
        BY <1>1 DEF Totals
      <4> DEFINE a == One(longer[1], Ending({"succeeded"}))
                 b == One(longer[1], Ending({"failed", "abandoned"}))
                 c == One(longer[1], Ending({"parked"}))
      <4>5. /\ a + b + c <= 1 /\ a \in Nat /\ b \in Nat /\ c \in Nat
            /\ retired.dispatched = d + 1 /\ retired.succeeded = r.retired.succeeded + a
            /\ retired.failed = r.retired.failed + b
            /\ retired.parked = r.retired.parked + c
        BY <4>2, <4>3
      <4>6. d \in Nat /\ r.retired.succeeded + r.retired.failed + r.retired.parked <= d
        BY <1>1, <1>7
      <4> HIDE DEF retired, a, b, c, d
      <4>7. (r.retired.succeeded + a) + (r.retired.failed + b) + (r.retired.parked + c) <= d + 1
        BY <4>4, <4>5, <4>6
      <4> QED
        BY <4>5, <4>7
    <3> HIDE DEF kept, retired, q
    <3>6. Windowed(q)
      <4>1. kept # <<>>
        BY <1>1, <3>1, <3>4
      <4>2. \A i \in 1 .. n : kept[i].seq = d + 1 + i
        <5> TAKE i \in 1 .. n
        <5>1. i + 1 \in 1 .. n + 1 /\ d + (i + 1) = d + 1 + i
          BY <1>1
        <5> QED
          BY <1>5, <3>4, <5>1
      <4>3. DOMAIN kept = 1 .. n
        BY <3>4, LenProperties
      <4> QED
        BY <3>1, <3>3, <3>4, <3>5, <4>1, <4>2, <4>3 DEF Windowed
    <3> QED
      BY <1>1, <1>4, <3>1, <3>3, <3>4, <3>6 DEF retired
  <2> QED
    BY <2>1, <2>2
<1> QED
  BY <1>1, <1>2, <1>4, <1>8 DEF x, longer, es

=============================================================================
