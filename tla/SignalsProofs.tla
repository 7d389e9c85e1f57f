---------------------------- MODULE SignalsProofs ----------------------------
(***************************************************************************)
(* What the signal service keeps of a signal once it is journalled, for    *)
(* every board, every size of a journal file and every mix of deaths,      *)
(* faults, prunes and changes of the setting.                              *)
(*                                                                         *)
(* The cursors tell what was done from what is owed.  That works because   *)
(* the journal is numbered in order and a cursor never passes its last     *)
(* number (CursorInv), and because whatever is beyond a consumer's cursor  *)
(* is on its way to it (PastInv): so a cursor that moves passes only what  *)
(* was in the batch.                                                       *)
(***************************************************************************)
EXTENDS Signals, FiniteSetTheorems, SequenceTheorems, TLAPS

----------------------------------------------------------------------------
(* Numbers and sequences *)

\* A finite set of numbers has a greatest one: of the sets that have none, a
\* smallest one would still have none with an element less.
LEMMA FiniteHasGreatest ==
  ASSUME NEW S \in SUBSET Nat, IsFiniteSet(S), S # {}
  PROVE  \E m \in S : \A s \in S : m >= s
<1> DEFINE HasNone == {X \in SUBSET S : X # {} /\ ~ \E m \in X : \A s \in X : m >= s}
<1> SUFFICES ASSUME HasNone # {} PROVE FALSE
  OBVIOUS
<1>1. IsWellFoundedOn(StrictSubsetOrdering(S), FiniteSubsetsOf(S))
  BY FS_StrictSubsetOrderingWellFounded
<1>2. HasNone \subseteq FiniteSubsetsOf(S)
  BY FS_FiniteSubsetsOfFinite
<1>3. PICK X \in HasNone : \A Y \in HasNone : <<Y, X>> \notin StrictSubsetOrdering(S)
  <2> HIDE DEF HasNone
  <2> QED BY <1>1, <1>2, WFMin
<1>4. PICK x \in X : TRUE
  OBVIOUS
<1>5. X \ {x} # {}
  BY <1>4
<1>6. <<X \ {x}, X>> \in StrictSubsetOrdering(S)
  BY <1>4 DEF StrictSubsetOrdering
<1>7. X \ {x} \notin HasNone
  BY <1>3, <1>6
<1>8. PICK m \in X \ {x} : \A s \in X \ {x} : m >= s
  BY <1>5, <1>7
<1>9. x \in Nat /\ m \in Nat /\ \A s \in X : s \in Nat
  BY <1>4
<1>10. CASE m >= x
  BY <1>8, <1>9, <1>10
<1>11. CASE ~(m >= x)
  <2>1. \A s \in X : x >= s
    BY <1>8, <1>9, <1>11
  <2> QED BY <1>4, <2>1
<1> QED BY <1>10, <1>11

\* The number a batch moves the cursors to, and a host goes on from.
LEMMA LastSeqIsGreatest ==
  ASSUME NEW lines \in SUBSET Line, IsFiniteSet(lines)
  PROVE  /\ LastSeq(lines) \in Nat
         /\ \A l \in lines : l.seq <= LastSeq(lines)
         /\ LastSeq(lines) = 0 \/ \E l \in lines : l.seq = LastSeq(lines)
<1> DEFINE seqs == {l.seq : l \in lines}
           all  == seqs \cup {0}
<1>1. all \in SUBSET Nat /\ all # {}
  BY DEF Line
<1>2. IsFiniteSet(seqs)
  <2>1. [l \in lines |-> l.seq] \in Surjection(lines, seqs)
    BY DEF Surjection
  <2> QED BY <2>1, FS_Surjection DEF ExistsSurjection
<1>3. IsFiniteSet(all)
  <2> HIDE DEF seqs
  <2> QED BY <1>2, FS_AddElement
<1>4. \E m \in all : \A s \in all : m >= s
  <2> HIDE DEF all
  <2> QED BY <1>1, <1>3, FiniteHasGreatest
<1>5. Max(all) \in all /\ \A s \in all : Max(all) >= s
  <2> HIDE DEF all
  <2> QED BY <1>4 DEF Max
<1>6. LastSeq(lines) = Max(all)
  BY DEF LastSeq
<1>7. \A l \in lines : l.seq \in all /\ l.seq \in Nat
  BY DEF Line
<1>8. Max(all) \in Nat /\ (Max(all) = 0 \/ \E l \in lines : l.seq = Max(all))
  <2>1. \A n \in all : n = 0 \/ \E l \in lines : l.seq = n
    OBVIOUS
  <2> HIDE DEF all
  <2> QED BY <1>1, <1>5, <2>1
<1> HIDE DEF all
<1> QED BY <1>5, <1>6, <1>7, <1>8

\* A replay starts at or below every cursor.
LEMMA LowestCursor ==
  ASSUME cursors \in [Consumers -> Nat]
  PROVE  LET low == Min({cursors[c] : c \in Consumers})
         IN  low \in Nat /\ \A c \in Consumers : low <= cursors[c]
<1> DEFINE held == {cursors[c] : c \in Consumers}
<1>1. \E x \in held : \A y \in held : x =< y
  <2>1. PICK x \in Consumers : \A y \in Consumers : cursors[x] =< cursors[y]
    <3>1. /\ cursors["loop-wake"] \in Nat /\ cursors["loop-unblocked"] \in Nat
          /\ cursors["reassess"] \in Nat /\ cursors["ticket-notes"] \in Nat
      BY DEF Consumers
    <3> QED BY <3>1 DEF Consumers
  <2> QED BY <2>1
<1>2. Min(held) \in held /\ \A y \in held : Min(held) =< y
  <2> HIDE DEF held
  <2> QED BY <1>1 DEF Min
<1> QED BY <1>2

\* The order the members of a set are told in is some order of them.
LEMMA SetToSeqType ==
  ASSUME NEW S, IsFiniteSet(S)
  PROVE  SetToSeq(S) \in Seq(S)
<1>1. PICK n \in Nat : ExistsBijection(1 .. n, S)
  BY FS_NatBijection
<1>2. Cardinality(S) = n
  BY <1>1, FS_CountingElements
<1>3. \E f \in [1 .. Cardinality(S) -> S] : IsInjective(f)
  BY <1>1, <1>2 DEF ExistsBijection, Bijection, Injection
<1>4. SetToSeq(S) \in [1 .. n -> S]
  BY <1>2, <1>3 DEF SetToSeq
<1> QED BY <1>4, SeqDef

\* The numbers of facts told after the first n.
LEMMA NumberedFrom ==
  ASSUME NEW n \in Nat, NEW m \in Nat
  PROVE  /\ [i \in 1 .. m |-> n + i] \in Seq(Nat)
         /\ Len([i \in 1 .. m |-> n + i]) = m
<1> DEFINE f == [i \in 1 .. m |-> n + i]
<1>1. f \in [1 .. m -> Nat]
  OBVIOUS
<1>2. f \in Seq(Nat)
  <2> HIDE DEF f
  <2> QED BY <1>1, SeqDef
<1>3. Len(f) = m
  <2>1. DOMAIN f = 1 .. m
    OBVIOUS
  <2>2. DOMAIN f = 1 .. Len(f) /\ Len(f) \in Nat
    <3> HIDE DEF f
    <3> QED BY <1>2, LenProperties
  <2> HIDE DEF f
  <2> QED BY <2>1, <2>2
<1> QED BY <1>2, <1>3

\* A fact about each of some tickets.
Told(kind, src, S) ==
  {[kind |-> kind, source |-> src[t], ticket |-> t, loop |-> FALSE] : t \in S}

LEMMA ToldType ==
  ASSUME NEW S \in SUBSET Tickets, NEW kind \in Kinds, NEW src \in [Tickets -> Sources]
  PROVE  IsFiniteSet(Told(kind, src, S)) /\ Told(kind, src, S) \in SUBSET Fact
<1> DEFINE told(t) == [kind |-> kind, source |-> src[t], ticket |-> t, loop |-> FALSE]
           T == {told(t) : t \in S}
<1>1. IsFiniteSet(S)
  BY SignalsAssumption, FS_Subset
<1>2. [t \in S |-> told(t)] \in Surjection(S, T)
  <2> HIDE DEF told
  <2> QED BY DEF Surjection
<1>3. \A t \in S : told(t) \in Fact
  BY DEF Fact
<1>4. IsFiniteSet(T)
  BY <1>1, <1>2, FS_Surjection DEF ExistsSurjection
<1>5. T \in SUBSET Fact
  <2> HIDE DEF told
  <2> QED BY <1>3
<1>6. Told(kind, src, S) = T
  BY DEF Told
<1> QED BY <1>4, <1>5, <1>6

\* What became of the board, and what it made ready, in the order it is told.
LEMMA NewsType ==
  ASSUME board \in [Tickets -> Ticket]
  PROVE  /\ \A old, new \in [Tickets -> Ticket] : SetToSeq(Changes(old, new)) \in Seq(Fact)
         /\ \A fact \in Fact : Follows(fact) \in Seq(Fact)
<1>1. ASSUME NEW old \in [Tickets -> Ticket], NEW new \in [Tickets -> Ticket]
      PROVE  SetToSeq(Changes(old, new)) \in Seq(Fact)
  <2> DEFINE src == [t \in Tickets |-> new[t].by]
             done    == {t \in Tickets : old[t].status # "closed" /\ new[t].status = "closed"}
             undone  == {t \in Tickets : old[t].status = "closed" /\ new[t].status # "closed"}
             waiting == {t \in Tickets : ~(new[t].blockedBy \subseteq old[t].blockedBy)}
  <2>1. src \in [Tickets -> Sources]
    BY DEF Ticket, Sources
  <2>2. Changes(old, new) = Told("work_completed", src, done)
          \cup Told("verification_failed", src, undone)
          \cup Told("dependency_discovered", src, waiting)
    BY DEF Changes, Told
  <2>3. /\ done \in SUBSET Tickets /\ undone \in SUBSET Tickets /\ waiting \in SUBSET Tickets
        /\ "work_completed" \in Kinds /\ "verification_failed" \in Kinds
        /\ "dependency_discovered" \in Kinds
    BY DEF Kinds
  <2> HIDE DEF src, done, undone, waiting
  <2>4. /\ IsFiniteSet(Told("work_completed", src, done))
        /\ IsFiniteSet(Told("verification_failed", src, undone))
        /\ IsFiniteSet(Told("dependency_discovered", src, waiting))
        /\ Told("work_completed", src, done) \in SUBSET Fact
        /\ Told("verification_failed", src, undone) \in SUBSET Fact
        /\ Told("dependency_discovered", src, waiting) \in SUBSET Fact
    BY <2>1, <2>3, ToldType
  <2>5. IsFiniteSet(Changes(old, new)) /\ Changes(old, new) \in SUBSET Fact
    BY <2>2, <2>4, FS_Union
  <2> QED BY <2>5, SetToSeqType, SeqMonotonic
<1>2. ASSUME NEW fact \in Fact
      PROVE  Follows(fact) \in Seq(Fact)
  <2> DEFINE src == [t \in Tickets |-> fact.source]
             S == Told("integration_ready", src, MadeReady(fact))
  <2>1. MadeReady(fact) \in SUBSET Tickets
    BY DEF MadeReady
  <2>2. Follows(fact) = SetToSeq(S)
    <3>1. S = {[kind |-> "integration_ready", source |-> fact.source, ticket |-> t,
                loop |-> FALSE] : t \in MadeReady(fact)}
      BY <2>1 DEF Told
    <3> QED BY <3>1 DEF Follows
  <2>3. IsFiniteSet(S) /\ S \in SUBSET Fact
    BY <2>1, ToldType DEF Fact, Kinds
  <2> HIDE DEF S
  <2> QED BY <2>2, <2>3, SetToSeqType, SeqMonotonic
<1> QED BY <1>1, <1>2

----------------------------------------------------------------------------
(* The files of the journal *)

\* The older file holds the lower numbers.
InOrder(f) == \A l \in f.previous, m \in f.current : l.seq < m.seq

\* The journal has not lost the number n: a host that loads it goes on beyond.
Reaches(f, n) == n = 0 \/ \E l \in Lines(f) : n <= l.seq

\* g holds some of the lines of f, the last one among them.
Keeps(f, g) ==
  /\ g \in Files /\ Lines(g) \subseteq Lines(f)
  /\ InOrder(f) => InOrder(g)
  /\ InOrder(f) => \A n \in Nat : Reaches(f, n) => Reaches(g, n)

\* A rotation drops the older file; the last line is in the other one.
LEMMA RotateKeeps ==
  ASSUME NEW f \in Files, IsFiniteSet(Lines(f))
  PROVE  /\ Keeps(f, Rotate(f)) /\ (f.torn = FALSE => Rotate(f).torn = FALSE)
         /\ Keeps(f, HalfRotated(f)) /\ (f.torn = FALSE => HalfRotated(f).torn = FALSE)
         /\ Keeps(f, [Rotate(f) EXCEPT !.torn = TRUE])
         /\ Keeps(f, WriteRecord(f)) /\ WriteRecord(f).torn = FALSE
         /\ Lines([Rotate(f) EXCEPT !.torn = TRUE]) = Lines(Rotate(f))
         /\ Lines(WriteRecord(f)) = Lines(Rotate(f))
<1>1. Rotate(f) \in Files
  BY DEF Rotate, Files
<1>2. Lines(Rotate(f)) \subseteq Lines(f)
  BY DEF Rotate, Lines, Files
<1>3. InOrder(f) => InOrder(Rotate(f))
  BY DEF Rotate, InOrder, Files
<1>4. ASSUME InOrder(f), NEW n \in Nat, Reaches(f, n)
      PROVE  Reaches(Rotate(f), n)
  <2>1. CASE Cardinality(f.current) < Capacity
    BY <1>4, <2>1 DEF Rotate
  <2>2. CASE ~(Cardinality(f.current) < Capacity)
    <3>1. PICK m \in f.current : TRUE
      <4>1. Cardinality({}) = 0
        BY FS_EmptySet
      <4> QED BY <2>2, <4>1, CapacityAssumption
    <3>2. Lines(Rotate(f)) = f.current
      BY <2>2 DEF Rotate, Lines
    <3>3. \A l \in Lines(f) : l.seq \in Nat
      BY DEF Files, Line, Lines
    <3>4. m \in Lines(f) /\ m \in Line
      BY <3>1 DEF Files, Lines
    <3>5. ASSUME NEW l \in f.previous, n <= l.seq
          PROVE  n <= m.seq
      <4>1. l.seq < m.seq
        BY <1>4, <3>1 DEF InOrder
      <4>2. l.seq \in Nat /\ m.seq \in Nat
        BY <3>3, <3>4 DEF Lines
      <4> QED BY <3>5, <4>1, <4>2
    <3> QED BY <1>4, <3>1, <3>2, <3>5 DEF Reaches, Lines
  <2> QED BY <2>1, <2>2
<1>5. Keeps(f, Rotate(f))
  BY <1>1, <1>2, <1>3, <1>4 DEF Keeps
<1>6. f.torn = FALSE => Rotate(f).torn = FALSE
  BY DEF Rotate
<1> DEFINE g(b) == [Rotate(f) EXCEPT !.torn = b]
<1>7. ASSUME NEW b \in BOOLEAN
      PROVE  Keeps(f, g(b)) /\ Lines(g(b)) = Lines(Rotate(f)) /\ g(b).torn = b
  <2>1. /\ g(b) \in Files /\ g(b).previous = Rotate(f).previous
        /\ g(b).current = Rotate(f).current /\ g(b).torn = b
    BY <1>1 DEF Files
  <2> HIDE DEF g
  <2> QED BY <1>5, <2>1 DEF Keeps, Lines, InOrder, Reaches
<1>8. Keeps(f, HalfRotated(f)) /\ (f.torn = FALSE => HalfRotated(f).torn = FALSE)
  <2>1. CASE HalfRotated(f) = f
    BY <2>1 DEF Keeps
  <2>2. CASE HalfRotated(f) # f
    <3>1. /\ HalfRotated(f) = [f EXCEPT !.previous = {}]
          /\ ~(Cardinality(f.current) < Capacity)
      BY <2>2 DEF HalfRotated
    <3>2. /\ HalfRotated(f) \in Files /\ HalfRotated(f).previous = {}
          /\ HalfRotated(f).current = f.current /\ HalfRotated(f).torn = f.torn
      BY <3>1 DEF Files
    <3>3. Lines(HalfRotated(f)) = Lines(Rotate(f))
      BY <3>1, <3>2 DEF Rotate, Lines
    <3> QED BY <1>2, <1>4, <3>2, <3>3 DEF Keeps, InOrder, Reaches
  <2> QED BY <2>1, <2>2
<1> QED BY <1>5, <1>6, <1>7, <1>8 DEF WriteRecord

\* A line that is written is in the journal, unless it continues a torn one.
LEMMA WriteAdds ==
  ASSUME NEW f \in Files, IsFiniteSet(Lines(f)), NEW line \in Line
  PROVE  LET g == Write(f, line)
         IN  /\ g \in Files
             /\ Lines(g) = Lines(Rotate(f)) \cup (IF Rotate(f).torn THEN {} ELSE {line})
             /\ g.previous = Rotate(f).previous
             /\ g.current \subseteq Rotate(f).current \cup {line}
             /\ g.torn = FALSE
<1>1. Rotate(f) \in Files
  BY RotateKeeps DEF Keeps
<1> DEFINE r == Rotate(f)
<1>2. Write(f, line) = IF r.torn THEN [r EXCEPT !.torn = FALSE]
                       ELSE [r EXCEPT !.current = @ \cup {line}]
  BY DEF Write
<1> HIDE DEF r
<1>3. r \in Files
  BY <1>1 DEF r
<1>4. CASE r.torn
  BY <1>2, <1>3, <1>4 DEF Files, Lines, r
<1>5. CASE ~r.torn
  BY <1>2, <1>3, <1>5 DEF Files, Lines, r
<1> QED BY <1>4, <1>5

\* Retention and age leave the numbers alone.
LEMMA PruneAndAge ==
  ASSUME NEW f \in Files
  PROVE  /\ Prune(f) \in Files
         /\ Lines(Prune(f)) = {l \in Lines(f) : ~l.old}
         /\ InOrder(f) => InOrder(Prune(f))
         /\ f.torn = FALSE => Prune(f).torn = FALSE
         /\ LET g == [f EXCEPT !.previous = Aged(@), !.current = Aged(@)]
            IN  /\ g \in Files /\ g.torn = f.torn
                /\ Lines(g) = Aged(Lines(f)) /\ (InOrder(f) => InOrder(g))
<1>1. /\ f.previous \in SUBSET Line /\ f.current \in SUBSET Line /\ f.torn \in BOOLEAN
      /\ f = [previous |-> f.previous, current |-> f.current, torn |-> f.torn]
  BY DEF Files
<1>2. \A l \in Line : l.old \in BOOLEAN
  BY DEF Line
<1>3. Prune(f) \in Files /\ (f.torn = FALSE => Prune(f).torn = FALSE)
  BY <1>1 DEF Prune, Young, Files
<1>4. /\ Prune(f).previous = {l \in f.previous : ~l.old}
      /\ Prune(f).current = {l \in f.current : ~l.old}
  BY DEF Prune, Young
<1>5. Lines(Prune(f)) = {l \in Lines(f) : ~l.old} /\ (InOrder(f) => InOrder(Prune(f)))
  BY <1>4 DEF Lines, InOrder
<1> DEFINE g == [f EXCEPT !.previous = Aged(@), !.current = Aged(@)]
<1>6. \A lines \in SUBSET Line : Aged(lines) \in SUBSET Line
  BY DEF Aged, Line
<1>7. /\ g \in Files /\ g.torn = f.torn
      /\ g.previous = Aged(f.previous) /\ g.current = Aged(f.current)
  BY <1>1, <1>6 DEF Files
<1> HIDE DEF g
<1>8. Lines(g) = Aged(Lines(f))
  BY <1>7 DEF Lines, Aged
<1>9. ASSUME InOrder(f) PROVE InOrder(g)
  <2>1. SUFFICES ASSUME NEW l \in f.previous, NEW m \in f.current
                 PROVE  [l EXCEPT !.old = TRUE].seq < [m EXCEPT !.old = TRUE].seq
    BY <1>7 DEF InOrder, Aged
  <2>2. l.seq < m.seq /\ l \in Line /\ m \in Line
    BY <1>1, <1>9 DEF InOrder
  <2> QED BY <2>2 DEF Line
<1> QED BY <1>3, <1>5, <1>7, <1>8, <1>9 DEF g

\* What a host that touches the journal for the first time learns.
LEMMA LoadType ==
  ASSUME NEW f \in Files, IsFiniteSet(Lines(f))
  PROVE  /\ Load(f) \in Memory /\ Load(f).loaded
         /\ \A l \in Lines(f) : l.seq <= Load(f).seq /\ l.id \in Load(f).seen
         /\ Reaches(f, Load(f).seq)
<1>1. Lines(f) \in SUBSET Line
  BY DEF Lines, Files
<1>2. /\ LastSeq(Lines(f)) \in Nat /\ \A l \in Lines(f) : l.seq <= LastSeq(Lines(f))
      /\ LastSeq(Lines(f)) = 0 \/ \E l \in Lines(f) : l.seq = LastSeq(Lines(f))
  BY <1>1, LastSeqIsGreatest
<1>3. Ids(Lines(f)) \in SUBSET Nat
  BY <1>1 DEF Ids, Line
<1>4. \A l \in Lines(f) : l.id \in Ids(Lines(f))
  BY DEF Ids
<1>5. Reaches(f, LastSeq(Lines(f)))
  <2>1. CASE LastSeq(Lines(f)) = 0
    BY <2>1 DEF Reaches
  <2>2. CASE \E l \in Lines(f) : l.seq = LastSeq(Lines(f))
    BY <1>2, <2>2 DEF Reaches
  <2> QED BY <1>2, <2>1, <2>2
<1>6. Load(f) = [loaded |-> TRUE, seq |-> LastSeq(Lines(f)), seen |-> Ids(Lines(f))]
  BY DEF Load
<1> HIDE DEF Load
<1> QED BY <1>2, <1>3, <1>4, <1>5, <1>6 DEF Memory


----------------------------------------------------------------------------
(* What is known of the facts *)

\* Whatever is told of was observed, and there is only so much of it.
KnownInv ==
  /\ \A l \in Lines(files) \cup pending \cup work.batch : l.id \in DOMAIN facts
  /\ \A i \in DOMAIN drafts : drafts[i] \in DOMAIN facts
  /\ accepted \subseteq DOMAIN facts
  /\ IsFiniteSet(Lines(files)) /\ IsFiniteSet(pending) /\ IsFiniteSet(work.batch)

BaseInv == TypeOK /\ KnownInv

\* What was observed stays as it was.
Grown == /\ facts' \in Seq(Fact) /\ DOMAIN facts \subseteq DOMAIN facts'
         /\ \A id \in DOMAIN facts : facts'[id] = facts[id]

DraftsKnown == drafts' \in Seq(Nat) /\ \A i \in DOMAIN drafts' : drafts'[i] \in DOMAIN facts'

LEMMA FactsAppended ==
  ASSUME facts \in Seq(Fact), NEW news \in Seq(Fact), facts' = facts \o news
  PROVE  Grown /\ DOMAIN facts' = 1 .. Len(facts) + Len(news)
<1>1. /\ facts' \in Seq(Fact) /\ Len(facts') = Len(facts) + Len(news)
      /\ \A i \in 1 .. Len(facts) + Len(news) :
           facts'[i] = IF i <= Len(facts) THEN facts[i] ELSE news[i - Len(facts)]
  BY ConcatProperties
<1>2. /\ DOMAIN facts = 1 .. Len(facts) /\ DOMAIN facts' = 1 .. Len(facts')
      /\ Len(facts) \in Nat /\ Len(news) \in Nat
  BY <1>1, LenProperties
<1> QED BY <1>1, <1>2 DEF Grown

LEMMA DerivedIsKnown ==
  ASSUME facts \in Seq(Fact), NEW news \in Seq(Fact), Derive(news)
  PROVE  Grown /\ DraftsKnown
<1>1. /\ facts' = facts \o news
      /\ drafts' = [i \in 1 .. Len(news) |-> Len(facts) + i]
  BY DEF Derive
<1>2. Grown /\ DOMAIN facts' = 1 .. Len(facts) + Len(news)
  BY <1>1, FactsAppended
<1>3. Len(facts) \in Nat /\ Len(news) \in Nat
  BY LenProperties
<1>4. drafts' \in Seq(Nat)
  BY <1>1, <1>3, NumberedFrom
<1>5. \A i \in DOMAIN drafts' : drafts'[i] \in DOMAIN facts'
  BY <1>1, <1>2, <1>3
<1> QED BY <1>2, <1>4, <1>5 DEF DraftsKnown

\* The next draft, and what is left of the drafts.
LEMMA NextDraft ==
  ASSUME BaseInv, drafts # <<>>
  PROVE  /\ Head(drafts) \in DOMAIN facts /\ Head(drafts) \in Nat
         /\ Tail(drafts) \in Seq(Nat)
         /\ \A i \in DOMAIN Tail(drafts) : Tail(drafts)[i] \in DOMAIN facts
<1>1. drafts \in Seq(Nat) /\ \A i \in DOMAIN drafts : drafts[i] \in DOMAIN facts
  BY DEF BaseInv, TypeOK, KnownInv
<1>2. /\ Head(drafts) \in Nat /\ Tail(drafts) \in Seq(Nat)
      /\ Len(Tail(drafts)) = Len(drafts) - 1
      /\ \A i \in 1 .. Len(Tail(drafts)) : Tail(drafts)[i] = drafts[i + 1]
  BY <1>1, HeadTailProperties
<1>3. /\ DOMAIN drafts = 1 .. Len(drafts) /\ Len(drafts) \in Nat \ {0}
      /\ DOMAIN Tail(drafts) = 1 .. Len(Tail(drafts))
  BY <1>1, <1>2, LenProperties, EmptySeq
<1>4. Head(drafts) = drafts[1]
  BY <1>1
<1> QED BY <1>1, <1>2, <1>3, <1>4

LEMMA LinesType ==
  ASSUME BaseInv
  PROVE  /\ Lines(files) \in SUBSET Line /\ IsFiniteSet(Lines(files))
         /\ pending \in SUBSET Line /\ work.batch \in SUBSET Line
         /\ files.torn \in BOOLEAN
         /\ \A l \in Line : l.id \in Nat /\ l.seq \in Nat /\ l.old \in BOOLEAN
BY DEF BaseInv, TypeOK, KnownInv, Files, Lines, Work, Line

LEMMA RememberedType ==
  ASSUME BaseInv
  PROVE  Remembered \in Memory /\ Remembered.loaded
<1>1. files \in Files /\ IsFiniteSet(Lines(files)) /\ memory \in Memory
  BY DEF BaseInv, TypeOK, KnownInv
<1>2. Load(files) \in Memory /\ Load(files).loaded
  BY <1>1, LoadType
<1> QED BY <1>1, <1>2 DEF Remembered

\* A signal that is told now.
LEMMA SignalType ==
  ASSUME BaseInv, drafts # <<>>
  PROVE  Signal(Head(drafts)) \in Line
BY NextDraft, RememberedType DEF Signal, Line, Memory

LEMMA ConsumerType ==
  ASSUME BaseInv, work.todo # <<>>
  PROVE  Consumer \in Consumers /\ Tail(work.todo) \in Seq(Consumers)
<1>1. work.todo \in Seq(Consumers)
  BY DEF BaseInv, TypeOK, Work
<1> QED BY <1>1, HeadTailProperties DEF Consumer

\* Counters that promise something while they are zero.
Counted ==
  /\ used'.crashes = 0 => used.crashes = 0
  /\ used'.torn = 0 => used.torn = 0
  /\ used'.modes = 0 => used.modes = 0
  /\ used'.offs = 0 => used.offs = 0
  /\ used'.faults = 0 => used.faults = 0
  /\ used'.ages = 0 => used.ages = 0
  /\ used'.modes = 0 => used'.offs = used.offs

LEMMA CountType ==
  ASSUME used \in Counters
  PROVE  /\ UNCHANGED used => used' \in Counters /\ Counted
         /\ Count("edits") => /\ used' \in Counters /\ Counted
                              /\ used' = [used EXCEPT !.edits = used.edits + 1]
         /\ Count("rounds") => /\ used' \in Counters /\ Counted
                               /\ used' = [used EXCEPT !.rounds = used.rounds + 1]
         /\ Count("faults") => /\ used' \in Counters /\ Counted /\ used'.faults # 0
                               /\ used' = [used EXCEPT !.faults = used.faults + 1]
         /\ Count("ages") => /\ used' \in Counters /\ Counted /\ used'.ages # 0
                             /\ used' = [used EXCEPT !.ages = used.ages + 1]
         /\ Count("crashes") => /\ used' \in Counters /\ Counted /\ used'.crashes # 0
                                /\ used' = [used EXCEPT !.crashes = used.crashes + 1]
BY DEF Counters, Counted, Count

----------------------------------------------------------------------------
(* Kinds of steps *)

\* Nothing the journal or its consumers hold changes: the board, the loop and its
\* user move, a draft comes to nothing, the setting changes.
Quiet ==
  /\ Grown /\ DraftsKnown /\ Counted /\ loop'.flags = loop.flags
  /\ drafts' = drafts \/ (up /\ (work.todo = <<>> \/ drafts # <<>>))
  /\ memory' = memory \/ (up /\ memory' = Remembered)
  /\ mode' = mode \/ (used'.modes # 0 /\ (mode' = "off" => used'.offs # 0))
  /\ UNCHANGED <<files, cursors, up, pending, work, accepted, delivered, emptied, dropped>>

LEMMA ReadyType == Ready \in SUBSET Tickets
BY SignalsAssumption DEF Ready, ReadyOn

LEMMA EditIsQuiet ==
  ASSUME BaseInv, NEW b \in [Tickets -> Ticket], Edit(b)
  PROVE  TypeOK' /\ Quiet
<1>1. /\ TypeOK /\ facts \in Seq(Fact)
      /\ snap = Unseen \/ snap \in [Tickets -> Ticket]
  BY DEF BaseInv, TypeOK
<1>2. Count("edits") /\ used' \in Counters /\ Counted
  BY <1>1, CountType DEF Edit, TypeOK
<1>3. /\ board' = b /\ Grown /\ DraftsKnown
      /\ snap' = Unseen \/ snap' \in [Tickets -> Ticket]
  <2>1. CASE mode = "off"
    <3>1. board' = b /\ UNCHANGED <<snap, facts, drafts>>
      BY <2>1 DEF Edit, Observe
    <3> QED BY <1>1, <3>1 DEF Grown, DraftsKnown, BaseInv, KnownInv, TypeOK
  <2>2. CASE mode # "off"
    <3> DEFINE news == IF snap = Unseen THEN <<>> ELSE SetToSeq(Changes(snap, b))
    <3>1. board' = b /\ snap' = b /\ Derive(news)
      BY <2>2 DEF Edit, Observe
    <3>2. news \in Seq(Fact)
      <4>1. CASE snap = Unseen
        BY <4>1, EmptySeq
      <4>2. CASE snap # Unseen
        BY <1>1, <4>2, NewsType DEF TypeOK
      <4> QED BY <4>1, <4>2
    <3> HIDE DEF news
    <3> QED BY <1>1, <3>1, <3>2, DerivedIsKnown
  <2> QED BY <2>1, <2>2
<1>4. /\ Idle
      /\ UNCHANGED <<effects, mode, disk, up, memory, pending, work, prunable, ghosts>>
      /\ missed' \in BOOLEAN
  BY <1>1 DEF Edit, TypeOK
<1> QED BY <1>1, <1>2, <1>3, <1>4 DEF TypeOK, Quiet, Idle, effects, disk, ghosts, Grown, DraftsKnown

LEMMA LaneReturnsIsQuiet ==
  ASSUME BaseInv, NEW t \in Tickets, LaneReturns(t)
  PROVE  TypeOK' /\ Quiet
<1>1. /\ TypeOK /\ facts \in Seq(Fact)
      /\ snap = Unseen \/ snap \in [Tickets -> Ticket]
  BY DEF BaseInv, TypeOK
<1>2. PICK told \in {<<"work_completed", "host">>, <<"verification_failed", "host">>,
                  <<"progress_stalled", "host">>, <<"dependency_discovered", "model">>} :
       LET b == IF told[1] = "work_completed"
                THEN [board EXCEPT ![t].status = "review", ![t].by = "model"] ELSE board
           news == <<[kind |-> told[1], source |-> told[2], ticket |-> t, loop |-> TRUE]>>
       IN  /\ board' = b
           /\ loop' = [loop EXCEPT !.worked = @ \cup {t}, !.passed = ReadyOn(b)]
           /\ IF mode = "off" THEN UNCHANGED <<snap, facts, drafts>>
              ELSE /\ snap' = b
                   /\ Derive(IF snap = Unseen THEN news
                             ELSE news \o SetToSeq(Changes(snap, b)))
  BY DEF LaneReturns
<1> DEFINE b == IF told[1] = "work_completed"
                THEN [board EXCEPT ![t].status = "review", ![t].by = "model"] ELSE board
           first == [kind |-> told[1], source |-> told[2], ticket |-> t, loop |-> TRUE]
           news == IF snap = Unseen THEN <<first>>
                   ELSE <<first>> \o SetToSeq(Changes(snap, b))
<1>3. b \in [Tickets -> Ticket]
  <2>1. \A e \in Ticket : [[e EXCEPT !.status = "review"] EXCEPT !.by = "model"] \in Ticket
    BY DEF Ticket, Statuses
  <2> QED BY <1>1, <2>1 DEF TypeOK
<1>4. news \in Seq(Fact)
  <2>1. first \in Fact
    BY DEF Fact, Kinds, Sources
  <2>2. <<first>> \in Seq(Fact)
    BY <2>1
  <2> HIDE DEF first, b
  <2>3. CASE snap = Unseen
    BY <2>2, <2>3
  <2>4. CASE snap # Unseen
    <3>1. SetToSeq(Changes(snap, b)) \in Seq(Fact)
      BY <1>1, <1>3, <2>4, NewsType DEF TypeOK
    <3> QED BY <2>2, <2>4, <3>1, ConcatProperties
  <2> QED BY <2>3, <2>4
<1>5. /\ board' = b
      /\ loop' = [loop EXCEPT !.worked = @ \cup {t}, !.passed = ReadyOn(b)]
      /\ IF mode = "off" THEN UNCHANGED <<snap, facts, drafts>>
         ELSE snap' = b /\ Derive(news)
  BY <1>2
<1> HIDE DEF b, news
<1>6. Grown /\ DraftsKnown /\ (snap' = Unseen \/ snap' \in [Tickets -> Ticket])
  <2>1. CASE mode = "off"
    BY <1>1, <1>5, <2>1 DEF Grown, DraftsKnown, BaseInv, KnownInv, TypeOK
  <2>2. CASE mode # "off"
    BY <1>1, <1>3, <1>4, <1>5, <2>2, DerivedIsKnown
  <2> QED BY <2>1, <2>2
<1>7. /\ Idle /\ loop.status = "running" /\ missed' = FALSE
      /\ UNCHANGED <<notes, item, mode, disk, up, memory, pending, work, prunable, ghosts,
                     used>>
  BY DEF LaneReturns
<1>8. ReadyOn(b) \in SUBSET Tickets
  BY SignalsAssumption DEF ReadyOn
<1>9. loop' \in Loop /\ loop'.flags = loop.flags /\ loop'.offer = {}
  BY <1>1, <1>5, <1>7, <1>8 DEF TypeOK, Loop
<1>10. Counted
  BY <1>1, <1>7, CountType DEF TypeOK
<1> QED BY <1>1, <1>3, <1>5, <1>6, <1>7, <1>9, <1>10
     DEF TypeOK, Quiet, Idle, disk, ghosts, Grown, DraftsKnown

LEMMA RedeliverIsQuiet ==
  ASSUME BaseInv, Redeliver
  PROVE  TypeOK' /\ Quiet
<1>1. TypeOK
  BY DEF BaseInv
<1>2. used' \in Counters /\ Counted
  BY <1>1, CountType DEF Redeliver, TypeOK
<1>3. PICK id \in DOMAIN facts : drafts' = <<id>>
  BY DEF Redeliver
<1>4. DOMAIN facts = 1 .. Len(facts) /\ Len(facts) \in Nat /\ facts' = facts
  BY <1>1, LenProperties DEF TypeOK, Redeliver
<1>5. Grown /\ DraftsKnown
  <2>1. id \in Nat
    BY <1>4
  <2>2. drafts' \in Seq(Nat) /\ DOMAIN drafts' = {1} /\ drafts'[1] = id
    BY <1>3, <2>1
  <2> QED BY <1>1, <1>4, <2>2 DEF Grown, DraftsKnown, TypeOK
<1> QED BY <1>1, <1>2, <1>5
     DEF Redeliver, TypeOK, Quiet, Idle, effects, disk, ghosts, Grown, DraftsKnown

LEMMA LoopMovesAreQuiet ==
  ASSUME BaseInv, LoopBlocks \/ LoopRests \/ LoopStarts
  PROVE  TypeOK' /\ Quiet
<1>1. TypeOK
  BY DEF BaseInv
<1>2. /\ UNCHANGED <<board, notes, mode, facts, disk, up, memory, snap, drafts, pending,
                     work, prunable, ghosts>>
      /\ Idle /\ missed' \in BOOLEAN /\ item' \in BOOLEAN
  BY <1>1 DEF LoopBlocks, LoopRests, LoopStarts, TypeOK
<1>3. used' \in Counters /\ Counted
  BY <1>1, CountType DEF LoopBlocks, LoopRests, LoopStarts, TypeOK
<1>4. /\ loop' \in Loop /\ loop'.flags = loop.flags
      /\ loop'.offer # {} => loop'.status = "blocked" /\ loop'.why = "dependencies"
  BY <1>1, ReadyType DEF LoopBlocks, LoopRests, LoopStarts, TypeOK, Loop
<1>5. Grown /\ DraftsKnown
  BY <1>1, <1>2 DEF Grown, DraftsKnown, TypeOK, BaseInv, KnownInv
<1> QED BY <1>1, <1>2, <1>3, <1>4, <1>5
     DEF TypeOK, Quiet, Idle, disk, ghosts, Grown, DraftsKnown

LEMMA WorldIsQuiet ==
  ASSUME BaseInv, World
  PROVE  TypeOK' /\ Quiet
<1>1. board \in [Tickets -> Ticket]
  BY DEF BaseInv, TypeOK
<1>2. ASSUME NEW t \in Tickets, SetTicketStatus(t)
      PROVE  TypeOK' /\ Quiet
  <2>1. PICK s \in GivenStatuses, actor \in {"user", "model"} :
          Edit([board EXCEPT ![t].status = s, ![t].by = actor])
    BY <1>2 DEF SetTicketStatus
  <2>2. [board EXCEPT ![t].status = s, ![t].by = actor] \in [Tickets -> Ticket]
    <3>1. \A e \in Ticket : [[e EXCEPT !.status = s] EXCEPT !.by = actor] \in Ticket
      BY SignalsAssumption DEF Ticket
    <3> QED BY <1>1, <3>1
  <2> QED BY <2>1, <2>2, EditIsQuiet
<1>3. ASSUME NEW t \in Tickets, Relink(t)
      PROVE  TypeOK' /\ Quiet
  <2>1. PICK us \in SUBSET Tickets, actor \in {"user", "model"} :
          Edit([board EXCEPT ![t].blockedBy = us, ![t].by = actor])
    BY <1>3 DEF Relink
  <2>2. [board EXCEPT ![t].blockedBy = us, ![t].by = actor] \in [Tickets -> Ticket]
    <3>1. \A e \in Ticket : [[e EXCEPT !.blockedBy = us] EXCEPT !.by = actor] \in Ticket
      BY DEF Ticket
    <3> QED BY <1>1, <3>1
  <2> QED BY <2>1, <2>2, EditIsQuiet
<1> QED BY <1>2, <1>3, LaneReturnsIsQuiet, RedeliverIsQuiet, LoopMovesAreQuiet DEF World

\* A consumer was handed its batch; some of what it asked for may have failed.
Handing ==
  /\ up /\ work.todo # <<>> /\ ~work.applied /\ work' = [work EXCEPT !.applied = TRUE]
  /\ delivered' = [delivered EXCEPT ![Consumer] = @ \cup Ids(Batch)]
  /\ files' = files \/ files' = WriteRecord(files)
  /\ Drops /\ Counted /\ loop.flags \subseteq loop'.flags
  /\ Consumer = "reassess" /\ work.act /\ used'.faults = 0 => ToFlag(Batch) \subseteq loop'.flags
  /\ UNCHANGED <<facts, mode, cursors, up, memory, drafts, pending, accepted, emptied>>

\* The host dies, whatever it was doing.
Death ==
  /\ up /\ ~up' /\ memory' = NotLoaded /\ drafts' = <<>> /\ pending' = {} /\ work' = NoWork
  /\ Keeps(files, files') /\ Drops
  /\ files.torn = FALSE => files'.torn = FALSE \/ used'.torn # 0
  /\ Counted /\ used'.crashes # 0 /\ loop.flags \subseteq loop'.flags
  /\ UNCHANGED <<facts, mode, cursors, accepted, delivered, emptied>>

LEMMA SilenceIsQuiet ==
  ASSUME BaseInv, EmitRepeat \/ AppendFails
  PROVE  TypeOK' /\ Quiet
<1>1. TypeOK /\ Remembered \in Memory
  BY RememberedType DEF BaseInv
<1>2. /\ up /\ drafts # <<>> /\ memory' = Remembered /\ drafts' = Tail(drafts)
      /\ UNCHANGED <<board, effects, mode, facts, disk, up, snap, pending, work, prunable,
                     ghosts, missed>>
  BY DEF EmitRepeat, AppendFails
<1>3. used' \in Counters /\ Counted
  BY <1>1, CountType DEF EmitRepeat, AppendFails, TypeOK
<1>4. /\ Tail(drafts) \in Seq(Nat)
      /\ \A i \in DOMAIN Tail(drafts) : Tail(drafts)[i] \in DOMAIN facts
  BY <1>2, NextDraft
<1>5. Grown /\ DraftsKnown
  BY <1>1, <1>2, <1>4 DEF Grown, DraftsKnown, TypeOK
<1> QED BY <1>1, <1>2, <1>3, <1>4, <1>5 DEF TypeOK, Quiet, effects, disk, ghosts

LEMMA DropsType ==
  ASSUME BaseInv, Drops
  PROVE  dropped' \in SUBSET Nat
<1>1. Ids(Lines(files)) \in SUBSET Nat
  BY LinesType DEF Ids
<1> QED BY <1>1 DEF Drops, BaseInv, TypeOK

\* The journal's memory with one more signal.
Learnt(m, id) == [loaded |-> TRUE, seq |-> m.seq + 1, seen |-> m.seen \cup {id}]

LEMMA EmitType ==
  ASSUME BaseInv, Emit
  PROVE  /\ TypeOK' /\ Grown /\ DraftsKnown /\ Counted
         /\ memory' = Learnt(Remembered, Head(drafts))
<1> DEFINE id == Head(drafts)
           follow == Follows(facts[id])
<1>1. /\ up /\ drafts # <<>>
      /\ files' = Write(files, Signal(id)) /\ Drops
      /\ memory' = [Remembered EXCEPT !.seq = @ + 1, !.seen = @ \cup {id}]
      /\ pending' = pending \cup {Signal(id)}
      /\ accepted' = accepted \cup {id}
      /\ facts' = facts \o follow
      /\ drafts' = [i \in 1 .. Len(follow) |-> Len(facts) + i] \o Tail(drafts)
      /\ missed' \in BOOLEAN
      /\ UNCHANGED <<board, effects, mode, cursors, up, snap, work, prunable, delivered,
                     emptied, used>>
  BY DEF Emit, BaseInv, TypeOK
<1>2. /\ TypeOK /\ Remembered \in Memory /\ Signal(id) \in Line
      /\ id \in DOMAIN facts /\ id \in Nat /\ Tail(drafts) \in Seq(Nat)
      /\ \A i \in DOMAIN Tail(drafts) : Tail(drafts)[i] \in DOMAIN facts
  BY <1>1, RememberedType, SignalType, NextDraft DEF BaseInv
<1>3. follow \in Seq(Fact)
  <2>1. facts[id] \in Fact
    BY <1>2, ElementOfSeq, LenProperties DEF TypeOK
  <2> QED BY <1>2, <2>1, NewsType DEF TypeOK
<1> HIDE DEF follow
<1>4. Grown /\ DOMAIN facts' = 1 .. Len(facts) + Len(follow)
  BY <1>1, <1>2, <1>3, FactsAppended DEF TypeOK
<1>5. DraftsKnown
  <2> DEFINE fresh == [i \in 1 .. Len(follow) |-> Len(facts) + i]
  <2>1. Len(facts) \in Nat /\ Len(follow) \in Nat
    BY <1>2, <1>3, LenProperties DEF TypeOK
  <2>2. fresh \in Seq(Nat) /\ Len(fresh) = Len(follow)
    BY <2>1, NumberedFrom
  <2>3. \A i \in 1 .. Len(fresh) : fresh[i] \in DOMAIN facts'
    BY <1>4, <2>1, <2>2
  <2> HIDE DEF fresh
  <2>4. drafts' = fresh \o Tail(drafts)
    BY <1>1 DEF fresh
  <2>5. /\ drafts' \in Seq(Nat) /\ Len(drafts') = Len(fresh) + Len(Tail(drafts))
        /\ \A i \in 1 .. Len(fresh) + Len(Tail(drafts)) :
             drafts'[i] = IF i <= Len(fresh) THEN fresh[i] ELSE Tail(drafts)[i - Len(fresh)]
    BY <1>2, <2>2, <2>4, ConcatProperties
  <2>6. /\ DOMAIN drafts' = 1 .. Len(drafts') /\ Len(Tail(drafts)) \in Nat
        /\ DOMAIN Tail(drafts) = 1 .. Len(Tail(drafts)) /\ Len(fresh) \in Nat
    BY <1>2, <2>2, <2>5, LenProperties
  <2>7. ASSUME NEW i \in DOMAIN drafts'
        PROVE  drafts'[i] \in DOMAIN facts'
    <3>1. CASE i <= Len(fresh)
      BY <2>3, <2>5, <2>6, <3>1
    <3>2. CASE ~(i <= Len(fresh))
      <4>1. i - Len(fresh) \in DOMAIN Tail(drafts)
        BY <2>5, <2>6, <3>2
      <4>2. drafts'[i] = Tail(drafts)[i - Len(fresh)]
        BY <2>5, <2>6, <3>2
      <4> QED BY <1>2, <1>4, <4>1, <4>2 DEF Grown
    <3> QED BY <3>1, <3>2
  <2> QED BY <2>5, <2>7 DEF DraftsKnown
<1>6. files' \in Files
  BY <1>1, <1>2, WriteAdds, LinesType DEF TypeOK
<1>7. dropped' \in SUBSET Nat
  BY <1>1, DropsType
<1>8. memory' \in Memory /\ memory' = Learnt(Remembered, id)
  <2>1. ASSUME NEW m \in Memory, NEW n \in Nat
        PROVE  [m EXCEPT !.seq = @ + 1, !.seen = @ \cup {n}]
                 = [loaded |-> m.loaded, seq |-> m.seq + 1, seen |-> m.seen \cup {n}]
    <3> DEFINE next == [m EXCEPT !.seq = m.seq + 1]
    <3>1. next = [loaded |-> m.loaded, seq |-> m.seq + 1, seen |-> m.seen]
      BY DEF Memory
    <3>2. [m EXCEPT !.seq = @ + 1, !.seen = @ \cup {n}]
            = [next EXCEPT !.seen = next.seen \cup {n}]
      OBVIOUS
    <3> HIDE DEF next
    <3>3. [next EXCEPT !.seen = next.seen \cup {n}]
            = [loaded |-> m.loaded, seq |-> m.seq + 1, seen |-> m.seen \cup {n}]
      BY <3>1
    <3> QED BY <3>2, <3>3
  <2>2. memory' = [loaded |-> Remembered.loaded, seq |-> Remembered.seq + 1,
                   seen |-> Remembered.seen \cup {id}]
    <3> HIDE DEF id
    <3> QED BY <1>1, <1>2, <2>1
  <2>3. Remembered.loaded = TRUE /\ Remembered.seq \in Nat /\ Remembered.seen \in SUBSET Nat
    BY <1>2, RememberedType DEF Memory
  <2> HIDE DEF id
  <2>4. memory' = [loaded |-> TRUE, seq |-> Remembered.seq + 1,
                   seen |-> Remembered.seen \cup {id}]
    BY <2>2, <2>3
  <2>5. Remembered.seq + 1 \in Nat /\ Remembered.seen \cup {id} \in SUBSET Nat
    BY <1>2, <2>3
  <2>6. memory' \in Memory
    BY <2>4, <2>5 DEF Memory
  <2> QED BY <2>4, <2>6 DEF Learnt
<1>9. Counted
  BY <1>1, <1>2, CountType DEF TypeOK
<1>10. memory' = Learnt(Remembered, Head(drafts))
  BY <1>8
<1> HIDE DEF id
<1> QED BY <1>1, <1>2, <1>4, <1>5, <1>6, <1>7, <1>8, <1>9, <1>10
     DEF TypeOK, Grown, DraftsKnown, effects

LEMMA BeginType ==
  ASSUME mode \in Modes, NEW batch \in SUBSET Line, IsFiniteSet(batch), NEW replay \in BOOLEAN
  PROVE  /\ Begin(batch, replay) \in Work
         /\ Begin(batch, replay) = [todo |-> ConsumerOrder, batch |-> batch,
                                    last |-> LastSeq(batch), replay |-> replay,
                                    act |-> mode = "act", applied |-> FALSE]
<1>1. ConsumerOrder \in Seq(Consumers)
  BY DEF ConsumerOrder, Consumers
<1>2. LastSeq(batch) \in Nat
  BY LastSeqIsGreatest
<1> QED BY <1>1, <1>2 DEF Begin, Work

LEMMA NoWorkType == NoWork \in Work /\ NotLoaded \in Memory
BY DEF NoWork, Work, NotLoaded, Memory

LEMMA FlushType ==
  ASSUME BaseInv, Flush
  PROVE  TypeOK'
<1>1. TypeOK
  BY DEF BaseInv
<1>2. work' \in Work
  BY LinesType, BeginType DEF BaseInv, KnownInv, TypeOK, Flush
<1> QED BY <1>1, <1>2 DEF TypeOK, Flush, effects, disk, ghosts

LEMMA EffectsType ==
  ASSUME BaseInv, work.todo # <<>>, NEW batch \in SUBSET work.batch, Leaves(Consumer, batch)
  PROVE  /\ loop' \in Loop /\ notes' \in SUBSET Nat /\ loop.flags \subseteq loop'.flags
         /\ loop'.offer # {} => loop'.status = "blocked" /\ loop'.why = "dependencies"
         /\ ItemAfter(Consumer, batch) \in BOOLEAN
         /\ Consumer = "reassess" /\ work.act => ToFlag(batch) \subseteq loop'.flags
<1>1. /\ loop \in Loop /\ notes \in SUBSET Nat
      /\ loop.offer # {} => loop.status = "blocked" /\ loop.why = "dependencies"
  BY DEF BaseInv, TypeOK
<1>2. Ids(batch) \in SUBSET Nat
  BY LinesType DEF Ids
<1>3. ToFlag(batch) \in SUBSET Nat /\ ToNote(batch) \in SUBSET Nat
  BY <1>2 DEF ToFlag, ToNote
<1>4. Consumer \in Consumers
  BY ConsumerType
<1>5. /\ Woken(batch) \in Loop /\ Woken(batch).flags = loop.flags
      /\ Woken(batch).offer = loop.offer
      /\ Woken(batch).status = loop.status /\ Woken(batch).why = loop.why
  BY <1>1, ReadyType DEF Woken, Loop
<1>6. /\ Offered(batch) \in Loop /\ Offered(batch).flags = loop.flags
      /\ Offered(batch).offer # {} =>
           Offered(batch).status = "blocked" /\ Offered(batch).why = "dependencies"
  BY <1>1, ReadyType DEF Offered, OfferDue, Loop
<1>7. /\ Flagged(batch) \in Loop /\ loop.flags \subseteq Flagged(batch).flags
      /\ Flagged(batch).offer = loop.offer
      /\ Flagged(batch).status = loop.status /\ Flagged(batch).why = loop.why
  BY <1>1, <1>3 DEF Flagged, Mark, Loop
<1>8. LET after == LoopAfter(Consumer, batch)
      IN  /\ after \in Loop /\ loop.flags \subseteq after.flags
          /\ after.offer # {} => after.status = "blocked" /\ after.why = "dependencies"
  BY <1>1, <1>4, <1>5, <1>6, <1>7 DEF LoopAfter, Consumers
<1>9. NotesAfter(Consumer, batch) \in SUBSET Nat
  BY <1>1, <1>3 DEF NotesAfter, Mark
<1>10. ItemAfter(Consumer, batch) \in BOOLEAN \/ ItemAfter(Consumer, batch) = item
  BY DEF ItemAfter
<1>11. ItemAfter(Consumer, batch) \in BOOLEAN
  BY <1>10 DEF BaseInv, TypeOK
<1>12. Flagged(batch).flags = loop.flags \cup ToFlag(batch)
  BY <1>1 DEF Flagged, Mark, Loop
<1>13. Consumer = "reassess" => LoopAfter(Consumer, batch) = Flagged(batch)
  BY DEF LoopAfter
<1> QED BY <1>1, <1>8, <1>9, <1>11, <1>12, <1>13 DEF Leaves

LEMMA HandingType ==
  ASSUME BaseInv, Reconcile \/ ReconcileFails
  PROVE  TypeOK' /\ Handing
<1>1. /\ TypeOK /\ up /\ work.todo # <<>> /\ ~work.applied
      /\ work' = [work EXCEPT !.applied = TRUE]
      /\ delivered' = [delivered EXCEPT ![Consumer] = @ \cup Ids(Batch)]
      /\ files' \in {files, Recorded} /\ Drops
      /\ UNCHANGED <<board, mode, facts, cursors, up, memory, snap, drafts, pending,
                     prunable, accepted, emptied>>
  BY DEF Reconcile, ReconcileFails, BaseInv, effects
<1>2. Batch \in SUBSET work.batch
  BY DEF Batch
<1>3. Consumer \in Consumers
  BY <1>1, ConsumerType
<1>4. files' = files \/ files' = WriteRecord(files)
  BY <1>1 DEF Recorded
<1>5. files' \in Files
  BY <1>1, <1>4, LinesType, RotateKeeps DEF TypeOK, Keeps
<1>6. work' \in Work
  BY <1>1 DEF TypeOK, Work
<1>7. delivered' \in [Consumers -> SUBSET Nat]
  <2>1. Ids(Batch) \in SUBSET Nat
    BY <1>2, LinesType DEF Ids
  <2> QED BY <1>1, <1>3, <2>1 DEF TypeOK
<1>8. dropped' \in SUBSET Nat
  BY <1>1, DropsType
<1>9. used' \in Counters /\ Counted /\ missed' \in BOOLEAN
  BY <1>1, CountType DEF Reconcile, ReconcileFails, TypeOK
<1>10. /\ loop' \in Loop /\ notes' \in SUBSET Nat /\ loop.flags \subseteq loop'.flags
       /\ loop'.offer # {} => loop'.status = "blocked" /\ loop'.why = "dependencies"
       /\ item' \in BOOLEAN
       /\ Consumer = "reassess" /\ work.act /\ used'.faults = 0 =>
            ToFlag(Batch) \subseteq loop'.flags
  <2>1. CASE Reconcile
    <3>1. Leaves(Consumer, Batch) /\ (item' = IF work.act THEN ItemAfter(Consumer, Batch) ELSE item)
      BY <2>1 DEF Reconcile, Apply
    <3> QED BY <1>1, <1>2, <3>1, EffectsType DEF TypeOK
  <2>2. CASE ReconcileFails
    BY <1>1, <2>2, CountType DEF ReconcileFails, effects, TypeOK
  <2> QED BY <2>1, <2>2
<1> QED BY <1>1, <1>4, <1>5, <1>6, <1>7, <1>8, <1>9, <1>10 DEF TypeOK, Handing

LEMMA SaveCursorType ==
  ASSUME BaseInv, SaveCursor
  PROVE  /\ TypeOK' /\ Counted
         /\ work.last \in Nat /\ cursors[Consumer] \in Nat /\ Consumer \in Consumers
         /\ cursors' = [cursors EXCEPT ![Consumer] =
                          IF cursors[Consumer] >= work.last THEN cursors[Consumer] ELSE work.last]
<1>1. /\ TypeOK /\ Consumer \in Consumers /\ Tail(work.todo) \in Seq(Consumers)
  BY ConsumerType DEF BaseInv, SaveCursor
<1>2. work.last \in Nat /\ cursors[Consumer] \in Nat
  BY <1>1 DEF TypeOK, Work
<1>3. \A x, y \in Nat : Max({x, y}) = IF x >= y THEN x ELSE y
  <2> SUFFICES ASSUME NEW x \in Nat, NEW y \in Nat
               PROVE  Max({x, y}) = IF x >= y THEN x ELSE y
    OBVIOUS
  <2>1. \E z \in {x, y} : \A w \in {x, y} : z >= w
    OBVIOUS
  <2>2. Max({x, y}) \in {x, y} /\ \A w \in {x, y} : Max({x, y}) >= w
    BY <2>1 DEF Max
  <2> QED BY <2>2
<1>4. cursors' = [cursors EXCEPT ![Consumer] =
                    IF cursors[Consumer] >= work.last THEN cursors[Consumer] ELSE work.last]
  BY <1>2, <1>3 DEF SaveCursor
<1>5. cursors' \in [Consumers -> Nat]
  BY <1>1, <1>2, <1>4 DEF TypeOK
<1>6. work' \in Work
  BY <1>1, NoWorkType DEF SaveCursor, TypeOK, Work
<1>7. Counted
  BY <1>1, CountType DEF SaveCursor, TypeOK
<1> QED BY <1>1, <1>2, <1>4, <1>5, <1>6, <1>7 DEF TypeOK, SaveCursor, effects, ghosts

\* Two counters move at once.
LEMMA TwoCount ==
  ASSUME used \in Counters, NEW n \in Nat
  PROVE  /\ used' = [used EXCEPT !.modes = @ + 1, !.offs = n] /\ n >= used.offs =>
              used' \in Counters /\ Counted /\ used'.modes # 0 /\ used'.offs = n
         /\ used' = [used EXCEPT !.crashes = @ + 1, !.torn = @ + 1] =>
              used' \in Counters /\ Counted /\ used'.crashes # 0 /\ used'.torn # 0
<1>1. ASSUME used' = [used EXCEPT !.modes = @ + 1, !.offs = n], n >= used.offs
      PROVE  used' \in Counters /\ Counted /\ used'.modes # 0 /\ used'.offs = n
  <2> DEFINE next == [used EXCEPT !.modes = used.modes + 1]
  <2>1. /\ next \in Counters /\ next.modes = used.modes + 1 /\ next.crashes = used.crashes
        /\ next.torn = used.torn /\ next.faults = used.faults /\ next.ages = used.ages
    BY DEF Counters
  <2>2. used' = [next EXCEPT !.offs = n]
    BY <1>1
  <2> HIDE DEF next
  <2>3. /\ used' \in Counters /\ used'.modes = next.modes /\ used'.crashes = next.crashes
        /\ used'.torn = next.torn /\ used'.faults = next.faults /\ used'.ages = next.ages
        /\ used'.offs = n
    BY <2>1, <2>2 DEF Counters
  <2> QED BY <1>1, <2>1, <2>3 DEF Counters, Counted
<1>2. ASSUME used' = [used EXCEPT !.crashes = @ + 1, !.torn = @ + 1]
      PROVE  used' \in Counters /\ Counted /\ used'.crashes # 0 /\ used'.torn # 0
  <2> DEFINE next == [used EXCEPT !.crashes = used.crashes + 1]
  <2>1. /\ next \in Counters /\ next.crashes = used.crashes + 1 /\ next.torn = used.torn
        /\ next.modes = used.modes /\ next.offs = used.offs
        /\ next.faults = used.faults /\ next.ages = used.ages
    BY DEF Counters
  <2>2. used' = [next EXCEPT !.torn = next.torn + 1]
    BY <1>2
  <2> HIDE DEF next
  <2>3. /\ used' \in Counters /\ used'.torn = next.torn + 1 /\ used'.crashes = next.crashes
        /\ used'.modes = next.modes /\ used'.offs = next.offs
        /\ used'.faults = next.faults /\ used'.ages = next.ages
    BY <2>1, <2>2 DEF Counters
  <2> QED BY <2>1, <2>3 DEF Counters, Counted
<1> QED BY <1>1, <1>2

LEMMA SetModeIsQuiet ==
  ASSUME BaseInv, SetMode
  PROVE  TypeOK' /\ Quiet
<1>1. TypeOK
  BY DEF BaseInv
<1>2. /\ mode' \in Modes
      /\ used' = [used EXCEPT !.modes = @ + 1, !.offs = IF mode' = "off" THEN @ + 1 ELSE @]
  BY DEF SetMode
<1>3. /\ used' \in Counters /\ Counted /\ used'.modes # 0
      /\ mode' = "off" => used'.offs # 0
  <2> DEFINE n == IF mode' = "off" THEN used.offs + 1 ELSE used.offs
  <2>1. n \in Nat /\ n >= used.offs /\ (mode' = "off" => n # 0)
    BY <1>1 DEF TypeOK, Counters
  <2>2. used' = [used EXCEPT !.modes = @ + 1, !.offs = n]
    BY <1>2
  <2> HIDE DEF n
  <2> QED BY <1>1, <2>1, <2>2, TwoCount DEF TypeOK
<1>4. Grown /\ DraftsKnown
  BY <1>1 DEF SetMode, Grown, DraftsKnown, TypeOK, BaseInv, KnownInv
<1> QED BY <1>1, <1>2, <1>3, <1>4 DEF TypeOK, SetMode, Quiet, effects, disk, ghosts

LEMMA RetentionType ==
  ASSUME BaseInv, Age \/ PruneOnce
  PROVE  TypeOK' /\ Counted
<1>1. TypeOK
  BY DEF BaseInv
<1>2. CASE Age
  <2>1. used' \in Counters /\ Counted
    BY <1>1, <1>2, CountType DEF Age, TypeOK
  <2>2. files' \in Files
    BY <1>1, <1>2, PruneAndAge DEF Age, TypeOK
  <2> QED BY <1>1, <1>2, <2>1, <2>2 DEF TypeOK, Age, effects, ghosts
<1>3. CASE PruneOnce
  <2>1. files' \in Files
    BY <1>1, <1>3, PruneAndAge DEF PruneOnce, TypeOK
  <2>2. Counted
    BY <1>1, <1>3, CountType DEF PruneOnce, TypeOK
  <2> QED BY <1>1, <1>3, <2>1, <2>2 DEF TypeOK, PruneOnce, effects
<1> QED BY <1>2, <1>3

LEMMA DeathType ==
  ASSUME BaseInv, Crash \/ CrashMidWrite \/ CrashMidReconcile \/ CrashMidRecord
  PROVE  TypeOK' /\ Death
<1>1. /\ TypeOK /\ up /\ used \in Counters /\ files \in Files /\ IsFiniteSet(Lines(files))
      /\ Dies
  BY DEF Crash, CrashMidWrite, CrashMidReconcile, CrashMidRecord, BaseInv, KnownInv, TypeOK
<1>2. /\ up' = FALSE /\ memory' = NotLoaded /\ snap' = Unseen /\ item' = FALSE
      /\ drafts' = <<>> /\ pending' = {} /\ work' = NoWork /\ prunable' = FALSE
      /\ UNCHANGED <<board, mode, facts, cursors, missed, emptied, accepted, delivered>>
  BY <1>1 DEF Crash, CrashMidWrite, CrashMidReconcile, CrashMidRecord, Dies
<1>3. ASSUME files' = files, dropped' = dropped, Count("crashes")
      PROVE  /\ Keeps(files, files') /\ Drops /\ files'.torn = files.torn
             /\ used' \in Counters /\ Counted /\ used'.crashes # 0
  BY <1>1, <1>3, CountType DEF Keeps, Drops
<1>4. ASSUME CutShort
      PROVE  /\ Keeps(files, files') /\ Drops
             /\ files.torn = FALSE => files'.torn = FALSE \/ used'.torn # 0
             /\ used' \in Counters /\ Counted /\ used'.crashes # 0
  <2>1. CASE files' \in {HalfRotated(files), Rotate(files)} /\ Count("crashes")
    BY <1>1, <1>4, <2>1, RotateKeeps, CountType DEF CutShort
  <2>2. CASE /\ files' = [Rotate(files) EXCEPT !.torn = TRUE]
             /\ used' = [used EXCEPT !.crashes = @ + 1, !.torn = @ + 1]
    <3>1. Keeps(files, files') /\ Drops
      BY <1>1, <1>4, <2>2, RotateKeeps DEF CutShort
    <3>2. used' \in Counters /\ Counted /\ used'.crashes # 0 /\ used'.torn # 0
      <4>1. 0 \in Nat
        OBVIOUS
      <4> QED BY <1>1, <2>2, <4>1, TwoCount
    <3> QED BY <3>1, <3>2
  <2> QED BY <1>4, <2>1, <2>2 DEF CutShort
<1>5. /\ loop' \in Loop /\ notes' \in SUBSET Nat /\ loop.flags \subseteq loop'.flags
      /\ loop'.offer # {} => loop'.status = "blocked" /\ loop'.why = "dependencies"
  <2>1. CASE Crash \/ CrashMidWrite
    BY <1>1, <2>1 DEF Crash, CrashMidWrite, TypeOK
  <2>2. CASE CrashMidReconcile
    <3>1. PICK l \in Batch : Leaves(Consumer, {m \in Batch : m.seq <= l.seq})
      BY <2>2 DEF CrashMidReconcile
    <3>2. {m \in Batch : m.seq <= l.seq} \in SUBSET work.batch
      BY DEF Batch
    <3>3. work.todo # <<>>
      BY <2>2 DEF CrashMidReconcile
    <3> QED BY <3>1, <3>2, <3>3, EffectsType
  <2>3. CASE CrashMidRecord
    <3>1. Batch \in SUBSET work.batch
      BY DEF Batch
    <3> QED BY <2>3, <3>1, EffectsType DEF CrashMidRecord
  <2> QED BY <2>1, <2>2, <2>3
<1>6. /\ Keeps(files, files') /\ Drops
      /\ files.torn = FALSE => files'.torn = FALSE \/ used'.torn # 0
      /\ used' \in Counters /\ Counted /\ used'.crashes # 0
  BY <1>3, <1>4 DEF Crash, CrashMidWrite, CrashMidReconcile, CrashMidRecord
<1>7. dropped' \in SUBSET Nat /\ files' \in Files
  BY <1>6, DropsType DEF Keeps
<1>8. <<>> \in Seq(Nat)
  BY EmptySeq
<1> QED BY <1>1, <1>2, <1>5, <1>6, <1>7, <1>8, NoWorkType DEF TypeOK, Death

LEMMA BacklogType ==
  ASSUME BaseInv
  PROVE  /\ Backlog \in SUBSET Lines(files) /\ IsFiniteSet(Backlog)
         /\ \A c \in Consumers, l \in Lines(files) : l.seq > cursors[c] => l \in Backlog
<1> DEFINE low == Min({cursors[c] : c \in Consumers})
<1>1. Backlog = {l \in Lines(files) : l.seq > low}
  BY DEF Backlog, SignalsAfter
<1>2. low \in Nat /\ \A c \in Consumers : low <= cursors[c]
  BY LowestCursor DEF BaseInv, TypeOK
<1>3. \A c \in Consumers : cursors[c] \in Nat
  BY DEF BaseInv, TypeOK
<1>4. \A l \in Lines(files) : l.seq \in Nat
  BY LinesType
<1> HIDE DEF low
<1>5. Backlog \in SUBSET Lines(files)
  BY <1>1
<1> QED BY <1>1, <1>2, <1>3, <1>4, <1>5, LinesType, FS_Subset

LEMMA ActivateType ==
  ASSUME BaseInv, Activate
  PROVE  TypeOK' /\ Counted /\ loop'.flags = loop.flags
<1>1. TypeOK /\ files \in Files /\ IsFiniteSet(Lines(files))
  BY DEF BaseInv, KnownInv, TypeOK
<1>2. Counted
  BY <1>1, CountType DEF Activate, TypeOK
<1>3. /\ loop' \in Loop /\ loop'.flags = loop.flags
      /\ loop'.offer # {} => loop'.status = "blocked" /\ loop'.why = "dependencies"
  BY <1>1 DEF Activate, TypeOK, Loop
<1>4. memory' \in Memory /\ work' \in Work /\ (snap' = Unseen \/ snap' \in [Tickets -> Ticket])
  <2>1. CASE mode = "off"
    BY <1>1, <2>1 DEF Activate, TypeOK
  <2>2. CASE mode # "off"
    <3>1. memory' \in Memory
      BY <1>1, <2>2, LoadType DEF Activate
    <3>2. Begin(Backlog, TRUE) \in Work
      <4>1. Backlog \in SUBSET Line
        BY BacklogType, LinesType
      <4> QED BY <1>1, <4>1, BacklogType, BeginType DEF TypeOK
    <3> QED BY <1>1, <2>2, <3>1, <3>2, NoWorkType DEF Activate, TypeOK
  <2> QED BY <2>1, <2>2
<1> QED BY <1>1, <1>2, <1>3, <1>4 DEF TypeOK, Activate, disk, ghosts

LEMMA NothingIsQuiet ==
  ASSUME BaseInv, UNCHANGED vars
  PROVE  TypeOK' /\ Quiet
<1>1. TypeOK
  BY DEF BaseInv
<1>2. Counted
  BY <1>1, CountType DEF vars, TypeOK
<1>3. Grown /\ DraftsKnown
  BY <1>1 DEF vars, Grown, DraftsKnown, TypeOK, BaseInv, KnownInv
<1>4. TypeOK'
  BY <1>1 DEF vars, TypeOK
<1> QED BY <1>2, <1>3, <1>4 DEF vars, Quiet

\* Every step is of one of these kinds.
LEMMA KindsOfSteps ==
  ASSUME BaseInv, [Next]_vars
  PROVE  /\ TypeOK'
         /\ \/ Quiet \/ Emit \/ Flush \/ Handing \/ SaveCursor
            \/ Age \/ PruneOnce \/ Death \/ Activate
<1>1. CASE UNCHANGED vars
  BY <1>1, NothingIsQuiet
<1>2. CASE Service
  BY <1>2, SilenceIsQuiet, EmitType, FlushType, HandingType, SaveCursorType DEF Service
<1>3. CASE Failure
  BY <1>3, SilenceIsQuiet, HandingType DEF Failure
<1>4. CASE World
  BY <1>4, WorldIsQuiet
<1>5. CASE Host
  BY <1>5, SetModeIsQuiet, RetentionType, DeathType, ActivateType DEF Host
<1> QED BY <1>1, <1>2, <1>3, <1>4, <1>5 DEF Next

LEMMA AgedLines ==
  ASSUME NEW S \in SUBSET Line
  PROVE  /\ IsFiniteSet(S) => IsFiniteSet(Aged(S))
         /\ \A l \in Aged(S) : l.old /\ \E m \in S : l.id = m.id /\ l.seq = m.seq
         /\ \A m \in S : \E l \in Aged(S) : l.id = m.id /\ l.seq = m.seq
         /\ \A k, l \in Aged(S) : k.id = l.id /\ k.seq = l.seq => k = l
<1> DEFINE aged(l) == [l EXCEPT !.old = TRUE]
<1>1. \A l \in Line : /\ aged(l) \in Line /\ aged(l).id = l.id
                       /\ aged(l).seq = l.seq /\ aged(l).old = TRUE
  BY DEF Line
<1>2. \A k, l \in Line : k.id = l.id /\ k.seq = l.seq /\ k.old = l.old => k = l
  BY DEF Line
<1>3. Aged(S) = {aged(l) : l \in S}
  BY DEF Aged
<1> HIDE DEF aged
<1>4. IsFiniteSet(S) => IsFiniteSet(Aged(S))
  <2>1. [l \in S |-> aged(l)] \in Surjection(S, Aged(S))
    BY <1>3 DEF Surjection
  <2> QED BY <2>1, FS_Surjection DEF ExistsSurjection
<1>5. \A l \in Aged(S) : l \in Line /\ l.old = TRUE /\ \E m \in S : l.id = m.id /\ l.seq = m.seq
  BY <1>1, <1>3
<1>6. \A m \in S : \E l \in Aged(S) : l.id = m.id /\ l.seq = m.seq
  BY <1>1, <1>3
<1> QED BY <1>2, <1>4, <1>5, <1>6

LEMMA KnownStep ==
  ASSUME BaseInv, [Next]_vars
  PROVE  KnownInv'
<1>1. /\ TypeOK /\ KnownInv /\ TypeOK' /\ Lines(files) \in SUBSET Line
      /\ work.todo \in Seq(Consumers)
  BY KindsOfSteps, LinesType DEF BaseInv, TypeOK, Work
<1>2. CASE Quiet
  BY <1>1, <1>2 DEF KnownInv, Quiet, Grown, DraftsKnown
<1>3. CASE Emit
  <2> DEFINE id == Head(drafts)
  <2>1. /\ files' = Write(files, Signal(id)) /\ pending' = pending \cup {Signal(id)}
        /\ accepted' = accepted \cup {id} /\ work' = work /\ drafts # <<>>
    BY <1>3 DEF Emit
  <2>2. id \in DOMAIN facts /\ Signal(id) \in Line /\ Signal(id).id = id
    BY <2>1, NextDraft, SignalType DEF Signal
  <2>3. Lines(files') \subseteq Lines(files) \cup {Signal(id)}
    <3>1. files \in Files /\ IsFiniteSet(Lines(files))
      BY <1>1 DEF KnownInv, TypeOK
    <3>2. Lines(Rotate(files)) \subseteq Lines(files)
      BY <3>1, RotateKeeps DEF Keeps
    <3>3. Lines(Write(files, Signal(id))) \subseteq Lines(Rotate(files)) \cup {Signal(id)}
      <4> HIDE DEF id
      <4> QED BY <2>2, <3>1, WriteAdds
    <3> QED BY <2>1, <3>2, <3>3
  <2>4. IsFiniteSet(Lines(files')) /\ IsFiniteSet(pending')
    BY <1>1, <2>1, <2>3, FS_AddElement, FS_Subset DEF KnownInv
  <2>5. Grown /\ DraftsKnown
    BY <1>3, EmitType
  <2> HIDE DEF id
  <2> QED BY <1>1, <2>1, <2>2, <2>3, <2>4, <2>5 DEF KnownInv, Grown, DraftsKnown
<1>4. CASE Flush
  BY <1>1, <1>4, FS_EmptySet DEF KnownInv, Flush, Begin, disk, ghosts
<1>5. CASE Handing
  <2>1. Lines(files') \subseteq Lines(files)
    BY <1>1, <1>5, RotateKeeps DEF Handing, Keeps, KnownInv, TypeOK
  <2>2. IsFiniteSet(Lines(files'))
    BY <1>1, <2>1, FS_Subset DEF KnownInv
  <2>3. work'.batch = work.batch
    BY <1>1, <1>5 DEF Handing, TypeOK, Work
  <2> QED BY <1>1, <1>5, <2>1, <2>2, <2>3 DEF KnownInv, Handing
<1>6. CASE SaveCursor
  <2>1. work'.batch = work.batch \/ work'.batch = {}
    BY <1>1, <1>6 DEF SaveCursor, NoWork, TypeOK, Work
  <2>2. Lines(files') = Lines(files)
    BY <1>6 DEF SaveCursor
  <2> QED BY <1>1, <1>6, <2>1, <2>2, FS_EmptySet DEF KnownInv, SaveCursor, ghosts
<1>7. CASE Age
  <2>1. Lines(files') = Aged(Lines(files))
    BY <1>1, <1>7, PruneAndAge DEF Age, TypeOK
  <2> QED BY <1>1, <1>7, <2>1, AgedLines DEF KnownInv, Age, ghosts
<1>8. CASE PruneOnce
  <2>1. Lines(files') \subseteq Lines(files)
    BY <1>1, <1>8, PruneAndAge DEF PruneOnce, TypeOK
  <2> QED BY <1>1, <1>8, <2>1, FS_Subset DEF KnownInv, PruneOnce
<1>9. CASE Death
  <2>1. Lines(files') \subseteq Lines(files)
    BY <1>9 DEF Death, Keeps
  <2>2. work'.batch = {} /\ pending' = {} /\ drafts' = <<>>
    BY <1>9 DEF Death, NoWork
  <2> QED BY <1>1, <1>9, <2>1, <2>2, FS_Subset, FS_EmptySet DEF KnownInv, Death
<1>10. CASE Activate
  <2>1. Backlog \in SUBSET Lines(files) /\ IsFiniteSet(Backlog)
    BY BacklogType
  <2>2. work'.batch \in {work.batch, {}, Backlog}
    BY <1>10 DEF Activate, NoWork, Begin
  <2> QED BY <1>1, <1>10, <2>1, <2>2, FS_EmptySet DEF KnownInv, Activate, disk, ghosts
<1> QED BY <1>2, <1>3, <1>4, <1>5, <1>6, <1>7, <1>8, <1>9, <1>10, KindsOfSteps

LEMMA InitBase == Init => BaseInv
<1> SUFFICES ASSUME Init PROVE BaseInv
  OBVIOUS
<1>1. Lines(NoFiles) = {} /\ NoFiles \in Files
  BY DEF Lines, NoFiles, Files
<1>2. Load(NoFiles) \in Memory
  BY <1>1, LoadType, FS_EmptySet
<1>3. /\ board \in [Tickets -> Ticket]
      /\ \A t \in Tickets : board[t].status = "open"
  BY SignalsAssumption DEF Init, Ticket, Statuses
<1>4. loop \in Loop /\ loop.offer = {}
  BY ReadyType DEF Init, Loop
<1>5. <<>> \in Seq(Fact) /\ <<>> \in Seq(Nat) /\ DOMAIN <<>> = {}
  OBVIOUS
<1>6. used \in Counters
  BY DEF Init, Counters
<1>7. TypeOK
  BY <1>1, <1>2, <1>3, <1>4, <1>5, <1>6, NoWorkType DEF Init, TypeOK, Modes
<1>8. KnownInv
  BY <1>1, <1>5, FS_EmptySet DEF Init, KnownInv, NoWork
<1> QED BY <1>7, <1>8 DEF BaseInv

\* The state of the service has its type, and an offer is held by a loop blocked on
\* dependencies only (TypeOK; setStatus, setResumeOffer).
THEOREM SignalsTyped == Spec => []TypeOK
<1>1. BaseInv /\ [Next]_vars => BaseInv'
  BY KindsOfSteps, KnownStep DEF BaseInv
<1>2. BaseInv => TypeOK
  BY DEF BaseInv
<1> QED BY <1>1, <1>2, InitBase, PTL DEF Spec

----------------------------------------------------------------------------
(* What holds *)

ListensFor(c, id) == facts[id].kind \in KindsOf(c)

\* No line was torn and no prune took the last one.
Sound == used.torn = 0 /\ ~emptied

\* What is left of ConsumerOrder.
Rests == {ConsumerOrder, <<"loop-unblocked", "reassess", "ticket-notes">>,
          <<"reassess", "ticket-notes">>, <<"ticket-notes">>, <<>>}
Left == Range(work.todo)

\* One thing at a time: while a batch is handed over nothing is emitted.
HostInv ==
  /\ work.todo \in Rests
  /\ IF work.todo = <<>> THEN work = NoWork
     ELSE drafts = <<>> /\ pending = {} /\ work.last = LastSeq(work.batch)
  /\ ~up => drafts = <<>> /\ pending = {} /\ work = NoWork /\ ~memory.loaded
  /\ used.crashes = 0 => up /\ ~work.replay
  /\ mode = "off" => used.offs # 0
  /\ used.modes = 0 => mode = "act" /\ used.offs = 0 /\ (work.todo # <<>> => work.act)
  /\ used.torn = 0 => files.torn = FALSE

\* Signals are numbered in the order they are told, each fact once: a number or a
\* fact names one line, the older file and the older lines hold the lower
\* numbers, and a loaded host knows them all.
OrderInv ==
  /\ InOrder(files)
  /\ \A l, m \in Lines(files) : l.seq = m.seq \/ l.id = m.id => l = m
  /\ \A l, m \in Lines(files) : l.old /\ ~m.old => l.seq < m.seq
  /\ memory.loaded => \A l \in Lines(files) : l.seq <= memory.seq /\ l.id \in memory.seen

\* No cursor is beyond the journal, whatever rotations took from it: a number
\* given later is beyond every cursor.
CursorInv ==
  Sound => /\ \A c \in Consumers : Reaches(files, cursors[c])
           /\ Reaches(files, work.last)
           /\ \A l \in pending : Reaches(files, l.seq)

\* What is beyond a consumer's cursor is on its way to it.
PastInv ==
  used.offs = 0 /\ up =>
    \A c \in Consumers, l \in Lines(files) :
      l.seq > cursors[c] => l \in pending \/ (c \in Left /\ l \in work.batch)

YoungInv == \A l \in pending : ~l.old

----------------------------------------------------------------------------
(* Steps under the invariants *)

LEMMA RestsFacts ==
  /\ Range(ConsumerOrder) = Consumers /\ Range(<<>>) = {} /\ ConsumerOrder # <<>>
  /\ ConsumerOrder \in Rests /\ <<>> \in Rests
  /\ \A todo \in Rests : todo # <<>> =>
       /\ Tail(todo) \in Rests
       /\ Range(todo) = {Head(todo)} \cup Range(Tail(todo))
       /\ Head(todo) \notin Range(Tail(todo)) /\ Head(todo) \in Consumers
       /\ Len(todo) = 1 <=> Tail(todo) = <<>>
<1>1. \A a : Range(<<a>>) = {a}
  BY DEF Range
<1>2. \A a, b : Range(<<a, b>>) = {a, b}
  BY DEF Range
<1>3. \A a, b, c : Range(<<a, b, c>>) = {a, b, c}
  BY DEF Range
<1>4. \A a, b, c, d : Range(<<a, b, c, d>>) = {a, b, c, d}
  BY DEF Range
<1>5. Range(<<>>) = {}
  BY DEF Range
<1>6. /\ Range(ConsumerOrder) = Consumers /\ ConsumerOrder # <<>>
      /\ ConsumerOrder \in Rests /\ <<>> \in Rests
  BY <1>4 DEF ConsumerOrder, Consumers, Rests
<1>7. ASSUME NEW todo \in Rests, todo # <<>>
      PROVE  /\ Tail(todo) \in Rests
             /\ Range(todo) = {Head(todo)} \cup Range(Tail(todo))
             /\ Head(todo) \notin Range(Tail(todo)) /\ Head(todo) \in Consumers
             /\ Len(todo) = 1 <=> Tail(todo) = <<>>
  <2>1. CASE todo = ConsumerOrder
    <3>1. /\ Head(todo) = "loop-wake" /\ Len(todo) = 4
          /\ Tail(todo) = <<"loop-unblocked", "reassess", "ticket-notes">>
      BY <2>1 DEF ConsumerOrder
    <3>2. /\ Range(todo) = Consumers
          /\ Range(Tail(todo)) = {"loop-unblocked", "reassess", "ticket-notes"}
      <4>1. Range(todo) = Consumers
        BY <1>6, <2>1
      <4>2. Range(Tail(todo)) = {"loop-unblocked", "reassess", "ticket-notes"}
        BY <1>3, <3>1, Zenon
      <4> QED BY <4>1, <4>2
    <3>3. Tail(todo) \in Rests /\ Tail(todo) # <<>>
      BY <3>1 DEF Rests
    <3>4. Len(todo) # 1
      BY <3>1
    <3>5. Consumers = {Head(todo)} \cup Range(Tail(todo)) /\ Head(todo) \notin Range(Tail(todo))
      BY <3>1, <3>2 DEF Consumers
    <3> QED BY <3>2, <3>3, <3>4, <3>5
  <2>2. CASE todo = <<"loop-unblocked", "reassess", "ticket-notes">>
    <3>1. /\ Head(todo) = "loop-unblocked" /\ Len(todo) = 3
          /\ Tail(todo) = <<"reassess", "ticket-notes">>
      BY <2>2
    <3> QED BY <1>2, <1>3, <2>2, <3>1 DEF Rests, Consumers
  <2>3. CASE todo = <<"reassess", "ticket-notes">>
    <3>1. /\ Head(todo) = "reassess" /\ Len(todo) = 2
          /\ Tail(todo) = <<"ticket-notes">>
      BY <2>3
    <3> QED BY <1>1, <1>2, <2>3, <3>1 DEF Rests, Consumers
  <2>4. CASE todo = <<"ticket-notes">>
    <3>1. Head(todo) = "ticket-notes" /\ Len(todo) = 1 /\ Tail(todo) = <<>>
      BY <2>4
    <3> QED BY <1>1, <1>5, <2>4, <3>1 DEF Rests, Consumers
  <2> QED BY <1>7, <2>1, <2>2, <2>3, <2>4 DEF Rests
<1> QED BY <1>5, <1>6, <1>7

\* The journal's memory, read from the files if need be, covers what is in them.
LEMMA RememberedCovers ==
  ASSUME BaseInv, OrderInv
  PROVE  /\ Remembered \in Memory /\ Remembered.loaded
         /\ \A l \in Lines(files) : l.seq <= Remembered.seq /\ l.id \in Remembered.seen
<1>1. files \in Files /\ IsFiniteSet(Lines(files))
  BY DEF BaseInv, KnownInv, TypeOK
<1>2. \A l \in Lines(files) : l.seq <= Load(files).seq /\ l.id \in Load(files).seen
  BY <1>1, LoadType
<1> QED BY <1>2, RememberedType DEF Remembered, OrderInv

\* A new signal: beyond all the others, and kept unless it continues a torn line.
Emitting(sig) ==
  /\ up /\ work = NoWork /\ Grown /\ Counted /\ Drops
  /\ sig \in Line /\ sig.id \in DOMAIN facts /\ ~sig.old /\ sig.seq # 0
  /\ \A l \in Lines(files) : l.seq < sig.seq /\ l.id # sig.id
  /\ files' \in Files /\ Lines(files') \subseteq Lines(files) \cup {sig} /\ InOrder(files')
  /\ used.torn = 0 => sig \in Lines(files')
  /\ \A n \in Nat : Reaches(files, n) /\ used.torn = 0 => Reaches(files', n)
  /\ files'.torn = FALSE
  /\ memory'.loaded /\ memory'.seq = sig.seq
  /\ sig.id \in memory'.seen /\ \A l \in Lines(files) : l.id \in memory'.seen
  /\ pending' = pending \cup {sig} /\ accepted' = accepted \cup {sig.id}
  /\ UNCHANGED <<loop, mode, cursors, up, work, delivered, emptied, used>>

LEMMA EmitFacts ==
  ASSUME BaseInv, HostInv, OrderInv, Emit
  PROVE  \E sig : Emitting(sig)
<1> DEFINE id == Head(drafts)
           sig == Signal(id)
<1>1. /\ up /\ drafts # <<>> /\ id \notin Remembered.seen
      /\ files' = Write(files, sig) /\ Drops
      /\ pending' = pending \cup {sig} /\ accepted' = accepted \cup {id}
      /\ UNCHANGED <<loop, mode, cursors, up, work, delivered, emptied, used>>
  BY DEF Emit, effects
<1>2. /\ Grown /\ Counted
      /\ memory' = [loaded |-> TRUE, seq |-> Remembered.seq + 1, seen |-> Remembered.seen \cup {id}]
  BY EmitType DEF Learnt
<1>3. work = NoWork
  BY <1>1 DEF HostInv
<1>4. /\ sig \in Line /\ id \in DOMAIN facts
      /\ sig.id = id /\ sig.seq = Remembered.seq + 1 /\ sig.old = FALSE
  BY <1>1, NextDraft, SignalType DEF Signal
<1> HIDE DEF id, sig
<1>5. /\ files \in Files /\ IsFiniteSet(Lines(files)) /\ Lines(files) \in SUBSET Line
      /\ \A l \in Line : l.seq \in Nat
      /\ Remembered.seq \in Nat
  BY LinesType, RememberedType DEF BaseInv, KnownInv, TypeOK, Memory
<1>6. \A l \in Lines(files) : l.seq < sig.seq /\ l.id # sig.id
  BY <1>1, <1>4, <1>5, RememberedCovers
<1>7. /\ Keeps(files, Rotate(files)) /\ (files.torn = FALSE => Rotate(files).torn = FALSE)
  BY <1>5, RotateKeeps
<1>8. /\ files' \in Files
      /\ Lines(files') = Lines(Rotate(files)) \cup (IF Rotate(files).torn THEN {} ELSE {sig})
      /\ files'.previous = Rotate(files).previous
      /\ files'.current \subseteq Rotate(files).current \cup {sig}
      /\ files'.torn = FALSE
  BY <1>1, <1>4, <1>5, WriteAdds
<1>9. Lines(files') \subseteq Lines(files) \cup {sig}
  BY <1>7, <1>8 DEF Keeps
<1>10. InOrder(files')
  <2>1. InOrder(Rotate(files))
    BY <1>7 DEF Keeps, OrderInv
  <2>2. Rotate(files).previous \subseteq Lines(files)
    BY <1>7 DEF Keeps, Lines
  <2> QED BY <1>6, <1>8, <2>1, <2>2 DEF InOrder
<1>11. used.torn = 0 => sig \in Lines(files')
  BY <1>7, <1>8 DEF HostInv
<1>12. ASSUME NEW n \in Nat, Reaches(files, n), used.torn = 0
       PROVE  Reaches(files', n)
  <2>1. Reaches(Rotate(files), n)
    BY <1>7, <1>12 DEF Keeps, OrderInv
  <2> QED BY <1>8, <2>1 DEF Reaches
<1>13. /\ memory'.loaded /\ memory'.seq = sig.seq /\ sig.id \in memory'.seen
       /\ \A l \in Lines(files) : l.id \in memory'.seen
  BY <1>2, <1>4, RememberedCovers
<1>14. sig.seq # 0
  BY <1>4, <1>5
<1> QED BY <1>1, <1>2, <1>3, <1>4, <1>14, <1>6, <1>8, <1>9, <1>10, <1>11, <1>12, <1>13 DEF Emitting

\* A cursor moves past the batch it was handed, and the next consumer is asked.
Saving ==
  /\ up /\ work.todo # <<>> /\ work.applied /\ Consumer \in Consumers
  /\ drafts = <<>> /\ pending = {} /\ work.last = LastSeq(work.batch)
  /\ work'.todo \in Rests /\ ~work'.applied
  /\ Left = {Consumer} \cup Left' /\ Consumer \notin Left'
  /\ IF work'.todo = <<>> THEN work' = NoWork
     ELSE /\ work'.batch = work.batch /\ work'.last = work.last
          /\ work'.replay = work.replay /\ work'.act = work.act
  /\ \A c \in Consumers :
       /\ c # Consumer => cursors'[c] = cursors[c]
       /\ cursors'[c] \in {cursors[c], work.last} /\ cursors'[c] >= cursors[c]
  /\ cursors'[Consumer] >= work.last
  /\ UNCHANGED <<facts, loop, mode, files, up, memory, drafts, pending, accepted, delivered,
                 emptied, dropped, used>>

LEMMA SaveFacts ==
  ASSUME BaseInv, HostInv, SaveCursor
  PROVE  Saving
<1>1. /\ up /\ work.todo # <<>> /\ work.applied
      /\ work' = IF Len(work.todo) = 1 THEN NoWork
                 ELSE [work EXCEPT !.todo = Tail(@), !.applied = FALSE]
      /\ UNCHANGED <<facts, loop, mode, files, up, memory, drafts, pending, accepted, delivered,
                     emptied, dropped, used>>
  BY DEF SaveCursor, effects, ghosts
<1>2. /\ work.todo \in Rests /\ drafts = <<>> /\ pending = {} /\ work.last = LastSeq(work.batch)
  BY <1>1 DEF HostInv
<1>3. /\ Tail(work.todo) \in Rests
      /\ Range(work.todo) = {Consumer} \cup Range(Tail(work.todo))
      /\ Consumer \notin Range(Tail(work.todo)) /\ Consumer \in Consumers
      /\ Len(work.todo) = 1 <=> Tail(work.todo) = <<>>
  BY <1>1, <1>2, RestsFacts DEF Consumer
<1>4. work \in Work
  BY DEF BaseInv, TypeOK
<1>5. /\ work'.todo = Tail(work.todo) /\ ~work'.applied
      /\ IF work'.todo = <<>> THEN work' = NoWork
         ELSE /\ work'.batch = work.batch /\ work'.last = work.last
              /\ work'.replay = work.replay /\ work'.act = work.act
  <2>1. CASE Len(work.todo) = 1
    BY <1>1, <1>3, <2>1 DEF NoWork
  <2>2. CASE Len(work.todo) # 1
    <3>1. work' = [work EXCEPT !.todo = Tail(work.todo), !.applied = FALSE]
      BY <1>1, <2>2
    <3>2. /\ work'.todo = Tail(work.todo) /\ work'.applied = FALSE
          /\ work'.batch = work.batch /\ work'.last = work.last
          /\ work'.replay = work.replay /\ work'.act = work.act
      BY <1>4, <3>1 DEF Work
    <3> QED BY <1>3, <2>2, <3>2
  <2> QED BY <2>1, <2>2
<1>6. /\ work.last \in Nat /\ cursors[Consumer] \in Nat /\ cursors \in [Consumers -> Nat]
      /\ cursors' = [cursors EXCEPT ![Consumer] =
                       IF cursors[Consumer] >= work.last THEN cursors[Consumer] ELSE work.last]
  BY SaveCursorType DEF BaseInv, TypeOK
<1>7. /\ \A c \in Consumers :
           /\ c # Consumer => cursors'[c] = cursors[c]
           /\ cursors'[c] \in {cursors[c], work.last} /\ cursors'[c] >= cursors[c]
      /\ cursors'[Consumer] >= work.last
  BY <1>3, <1>6
<1> QED BY <1>1, <1>2, <1>3, <1>5, <1>7 DEF Saving, Left

\* What is pending becomes the batch, for every consumer.
Flushing ==
  /\ up /\ drafts = <<>> /\ work = NoWork
  /\ work' = Begin(pending, FALSE) /\ work'.todo = ConsumerOrder /\ work'.batch = pending
  /\ work'.last = LastSeq(pending) /\ ~work'.replay /\ ~work'.applied
  /\ Left' = Consumers /\ pending' = {}
  /\ UNCHANGED <<facts, loop, mode, files, cursors, up, memory, drafts, accepted, delivered,
                 emptied, dropped, used>>

LEMMA FlushFacts ==
  ASSUME HostInv, Flush
  PROVE  Flushing
BY RestsFacts DEF Flush, Flushing, HostInv, Idle, Begin, Left, effects, disk, ghosts

\* Lines grow old or are pruned, which nothing is under way for.
Retaining ==
  /\ work.todo = <<>> /\ work = NoWork /\ drafts = <<>> /\ Counted
  /\ UNCHANGED <<facts, loop, mode, cursors, up, memory, drafts, pending, work, accepted,
                 delivered, dropped>>

LEMMA RetentionFacts ==
  ASSUME BaseInv, HostInv, Age \/ PruneOnce
  PROVE  /\ Retaining
         /\ Age => /\ Lines(files') = Aged(Lines(files)) /\ files'.torn = files.torn
                   /\ InOrder(files) => InOrder(files')
                   /\ pending = {} /\ used'.ages # 0 /\ emptied' = emptied
         /\ PruneOnce => /\ Lines(files') = {l \in Lines(files) : ~l.old}
                         /\ files.torn = FALSE => files'.torn = FALSE
                         /\ InOrder(files) => InOrder(files')
                         /\ up /\ (~emptied' => ~emptied /\ Lines(files') # {})
                         /\ \E l \in Lines(files) : l.old
<1>1. TypeOK /\ files \in Files /\ Counted
  BY RetentionType DEF BaseInv, TypeOK
<1>2. Retaining
  BY <1>1, NoWorkType DEF HostInv, Age, PruneOnce, Retaining, Idle, NoWork, effects, ghosts
<1>3. ASSUME Age
      PROVE  /\ Lines(files') = Aged(Lines(files)) /\ files'.torn = files.torn
             /\ InOrder(files) => InOrder(files')
             /\ pending = {} /\ used'.ages # 0 /\ emptied' = emptied
  <2>1. files' = [files EXCEPT !.previous = Aged(@), !.current = Aged(@)]
    BY <1>3 DEF Age
  <2>2. /\ Lines(files') = Aged(Lines(files)) /\ files'.torn = files.torn
        /\ InOrder(files) => InOrder(files')
    BY <1>1, <2>1, PruneAndAge
  <2>3. used'.ages # 0
    BY <1>1, <1>3, CountType DEF Age, TypeOK
  <2> QED BY <1>3, <2>2, <2>3 DEF Age, HostInv, ghosts
<1>4. ASSUME PruneOnce
      PROVE  /\ Lines(files') = {l \in Lines(files) : ~l.old}
             /\ files.torn = FALSE => files'.torn = FALSE
             /\ InOrder(files) => InOrder(files')
             /\ up /\ (~emptied' => ~emptied /\ Lines(files') # {})
             /\ \E l \in Lines(files) : l.old
  BY <1>1, <1>4, PruneAndAge DEF PruneOnce, Idle, SomeOld
<1> QED BY <1>2, <1>3, <1>4

\* What was journalled and not reconciled is replayed.
Activating ==
  /\ ~up /\ up' /\ work = NoWork /\ pending = {} /\ drafts = <<>> /\ Counted
  /\ loop'.flags = loop.flags
  /\ IF mode = "off" THEN UNCHANGED <<memory, work>>
     ELSE memory' = Load(files) /\ IF Backlog = {} THEN work' = NoWork
          ELSE /\ work' = Begin(Backlog, TRUE)
               /\ work'.todo = ConsumerOrder /\ work'.batch = Backlog
               /\ work'.last = LastSeq(Backlog) /\ work'.replay /\ ~work'.applied
               /\ Left' = Consumers
  /\ UNCHANGED <<facts, mode, files, cursors, drafts, pending, accepted, delivered, emptied,
                 dropped, used>>

LEMMA ActivateFacts ==
  ASSUME BaseInv, HostInv, Activate
  PROVE  Activating
<1>1. Counted /\ loop'.flags = loop.flags
  BY ActivateType
<1> QED BY <1>1, RestsFacts DEF Activate, Activating, HostInv, Begin, Left, disk, ghosts

\* The batch is handed to the consumer that is asked; nothing else moves.
LEMMA HandingFacts ==
  ASSUME BaseInv, HostInv, Handing
  PROVE  /\ pending = {} /\ drafts = <<>> /\ Consumer \in Consumers
         /\ work'.todo = work.todo /\ work'.batch = work.batch /\ work'.last = work.last
         /\ work'.replay = work.replay /\ work'.act = work.act /\ work'.applied = TRUE
         /\ Left' = Left /\ Consumer' = Consumer
         /\ Keeps(files, files') /\ (files.torn = FALSE => files'.torn = FALSE)
         /\ \A c \in Consumers : delivered'[c] =
              IF c = Consumer THEN delivered[c] \cup Ids(Batch) ELSE delivered[c]
<1>1. /\ work \in Work /\ files \in Files /\ IsFiniteSet(Lines(files))
      /\ delivered \in [Consumers -> SUBSET Nat]
  BY DEF BaseInv, KnownInv, TypeOK
<1>2. /\ work.todo # <<>> /\ work' = [work EXCEPT !.applied = TRUE]
      /\ delivered' = [delivered EXCEPT ![Consumer] = @ \cup Ids(Batch)]
      /\ files' = files \/ files' = WriteRecord(files)
  BY DEF Handing
<1>3. /\ work'.todo = work.todo /\ work'.batch = work.batch /\ work'.last = work.last
      /\ work'.replay = work.replay /\ work'.act = work.act /\ work'.applied = TRUE
  BY <1>1, <1>2 DEF Work
<1>4. Keeps(files, files') /\ (files.torn = FALSE => files'.torn = FALSE)
  BY <1>1, <1>2, RotateKeeps DEF Keeps
<1>5. Consumer \in Consumers /\ pending = {} /\ drafts = <<>>
  BY <1>2, ConsumerType DEF HostInv
<1>6. \A c \in Consumers : delivered'[c] =
        IF c = Consumer THEN delivered[c] \cup Ids(Batch) ELSE delivered[c]
  BY <1>1, <1>2, <1>5
<1> QED BY <1>3, <1>4, <1>5, <1>6 DEF Left, Consumer

LEMMA StepsNow ==
  ASSUME BaseInv, HostInv, OrderInv, [Next]_vars
  PROVE  Quiet \/ (\E sig : Emitting(sig)) \/ Flushing \/ Handing \/ Saving
         \/ Age \/ PruneOnce \/ Death \/ Activating
BY KindsOfSteps, EmitFacts, FlushFacts, SaveFacts, ActivateFacts

LEMMA HostStep ==
  ASSUME BaseInv, HostInv, OrderInv, [Next]_vars
  PROVE  HostInv'
<1>1. CASE Quiet
  BY <1>1 DEF Quiet, HostInv, Counted
<1>2. ASSUME NEW sig, Emitting(sig)
      PROVE  HostInv'
  <2>1. work.todo = <<>> /\ work' = work
    BY <1>2 DEF Emitting, NoWork
  <2> QED BY <1>2, <2>1 DEF Emitting, HostInv
<1>3. CASE Flushing
  <2>1. work'.act = (mode = "act")
    BY <1>3 DEF Flushing, Begin
  <2> QED BY <1>3, <2>1, RestsFacts DEF Flushing, HostInv
<1>4. CASE Handing
  BY <1>4, HandingFacts DEF Handing, HostInv, Counted
<1>5. CASE Saving
  BY <1>5 DEF Saving, HostInv, NoWork
<1>6. CASE Age
  BY <1>6, RetentionFacts DEF Retaining, HostInv, Counted
<1>7. CASE PruneOnce
  BY <1>7, RetentionFacts DEF Retaining, HostInv, Counted
<1>8. CASE Death
  BY <1>8, RestsFacts DEF Death, HostInv, Counted, NoWork, NotLoaded
<1>9. CASE Activating
  <2>1. work'.todo # <<>> => work'.act = (mode = "act")
    BY <1>9 DEF Activating, Begin, NoWork
  <2>2. used.crashes # 0
    BY <1>9 DEF Activating, HostInv
  <2> QED BY <1>9, <2>1, <2>2, RestsFacts DEF Activating, HostInv, NoWork
<1> QED BY <1>1, <1>2, <1>3, <1>4, <1>5, <1>6, <1>7, <1>8, <1>9, StepsNow

\* Fewer lines, in the same order, under a host that knows no less.
LEMMA OrderOfFewer ==
  ASSUME BaseInv, OrderInv, Lines(files') \subseteq Lines(files),
         InOrder(files) => InOrder(files'),
         memory' = memory \/ memory' = Remembered \/ memory' = NotLoaded
  PROVE  OrderInv'
BY RememberedCovers DEF OrderInv, NotLoaded

LEMMA OrderStep ==
  ASSUME BaseInv, HostInv, OrderInv, [Next]_vars
  PROVE  OrderInv'
<1>1. /\ Lines(files) \in SUBSET Line /\ \A l \in Line : l.seq \in Nat
      /\ files \in Files /\ IsFiniteSet(Lines(files))
  BY LinesType DEF BaseInv, TypeOK
<1>2. CASE Quiet
  BY <1>2, OrderOfFewer DEF Quiet
<1>3. ASSUME NEW sig, Emitting(sig)
      PROVE  OrderInv'
  <2>1. /\ Lines(files') \subseteq Lines(files) \cup {sig} /\ InOrder(files')
        /\ sig \in Line /\ ~sig.old
        /\ \A l \in Lines(files) : l.seq < sig.seq /\ l.id # sig.id
        /\ memory'.seq = sig.seq /\ sig.id \in memory'.seen
        /\ \A l \in Lines(files) : l.id \in memory'.seen
    BY <1>3 DEF Emitting
  <2>2. \A l \in Lines(files') : l.seq \in Nat /\ l.seq <= sig.seq /\ l.id \in memory'.seen
    BY <1>1, <2>1
  <2>3. \A l, m \in Lines(files') : l.seq = m.seq \/ l.id = m.id => l = m
    BY <1>1, <2>1 DEF OrderInv
  <2>4. \A l, m \in Lines(files') : l.old /\ ~m.old => l.seq < m.seq
    BY <1>1, <2>1 DEF OrderInv
  <2> QED BY <2>1, <2>2, <2>3, <2>4 DEF OrderInv
<1>4. CASE Flushing
  BY <1>4, OrderOfFewer DEF Flushing
<1>5. CASE Handing
  BY <1>5, HandingFacts, OrderOfFewer DEF Handing, Keeps
<1>6. CASE Saving
  BY <1>6, OrderOfFewer DEF Saving
<1>7. CASE Age
  <2>1. /\ Lines(files') = Aged(Lines(files)) /\ InOrder(files') /\ memory' = memory
    BY <1>7, RetentionFacts DEF Retaining, OrderInv
  <2>2. /\ \A l \in Lines(files') : l.old /\ \E m \in Lines(files) : l.id = m.id /\ l.seq = m.seq
        /\ \A k, l \in Lines(files') : k.id = l.id /\ k.seq = l.seq => k = l
    BY <1>1, <2>1, AgedLines
  <2>3. \A k, l \in Lines(files') : k.seq = l.seq \/ k.id = l.id => k = l
    BY <2>2 DEF OrderInv
  <2> QED BY <2>1, <2>2, <2>3 DEF OrderInv
<1>8. CASE PruneOnce
  BY <1>8, RetentionFacts, OrderOfFewer DEF Retaining
<1>9. CASE Death
  BY <1>9, OrderOfFewer DEF Death, Keeps
<1>10. CASE Activating
  <2>1. memory' = memory \/ memory' = Load(files)
    BY <1>10 DEF Activating
  <2>2. files' = files
    BY <1>10 DEF Activating
  <2>3. CASE memory' = memory
    BY <2>2, <2>3, OrderOfFewer
  <2>4. CASE memory' = Load(files)
    BY <1>1, <2>2, <2>4, LoadType DEF OrderInv
  <2> QED BY <2>1, <2>3, <2>4
<1> QED BY <1>2, <1>3, <1>4, <1>5, <1>6, <1>7, <1>8, <1>9, <1>10, StepsNow

LEMMA CursorStep ==
  ASSUME BaseInv, HostInv, OrderInv, CursorInv, [Next]_vars
  PROVE  CursorInv'
<1>1. /\ Lines(files) \in SUBSET Line /\ \A l \in Line : l.seq \in Nat
      /\ \A c \in Consumers : cursors[c] \in Nat
      /\ work.last \in Nat /\ pending \in SUBSET Line
  BY LinesType DEF BaseInv, TypeOK, Work
<1>2. SUFFICES ASSUME Sound'
               PROVE  /\ \A c \in Consumers : Reaches(files', cursors'[c])
                      /\ Reaches(files', work'.last)
                      /\ \A l \in pending' : Reaches(files', l.seq)
  BY DEF CursorInv
<1>3. ASSUME Sound
      PROVE  /\ \A c \in Consumers : Reaches(files, cursors[c])
             /\ Reaches(files, work.last)
             /\ \A l \in pending : Reaches(files, l.seq)
  BY <1>3 DEF CursorInv
<1>4. CASE Quiet
  BY <1>2, <1>3, <1>4 DEF Quiet, Counted, Sound
<1>5. ASSUME NEW sig, Emitting(sig)
      PROVE  CursorInv'
  <2>1. /\ Sound /\ cursors' = cursors /\ work' = work /\ pending' = pending \cup {sig}
        /\ \A n \in Nat : Reaches(files, n) => Reaches(files', n)
        /\ sig \in Lines(files') /\ sig \in Line
    BY <1>2, <1>5 DEF Emitting, Sound, Counted
  <2>2. Reaches(files', sig.seq)
    BY <1>1, <2>1 DEF Reaches
  <2> QED BY <1>1, <1>3, <2>1, <2>2 DEF CursorInv
<1>6. CASE Flushing
  <2>1. /\ Sound /\ cursors' = cursors /\ files' = files
        /\ work'.last = LastSeq(pending) /\ pending' = {}
    BY <1>2, <1>6 DEF Flushing, Sound
  <2>2. LastSeq(pending) = 0 \/ \E l \in pending : l.seq = LastSeq(pending)
    BY <1>1, LastSeqIsGreatest DEF BaseInv, KnownInv
  <2>3. Reaches(files, LastSeq(pending))
    BY <1>3, <2>1, <2>2 DEF Reaches
  <2> QED BY <1>3, <2>1, <2>3
<1>7. CASE Handing
  <2>1. /\ Sound /\ cursors' = cursors /\ work'.last = work.last /\ pending' = pending
        /\ Keeps(files, files')
    BY <1>2, <1>7, HandingFacts DEF Handing, Counted, Sound
  <2>2. \A n \in Nat : Reaches(files, n) => Reaches(files', n)
    BY <2>1 DEF Keeps, OrderInv
  <2> QED BY <1>1, <1>3, <2>1, <2>2
<1>8. CASE Saving
  <2>1. /\ Sound /\ files' = files /\ pending' = {}
        /\ \A c \in Consumers : cursors'[c] \in {cursors[c], work.last}
        /\ work'.last = work.last \/ work'.last = 0
    BY <1>2, <1>8 DEF Saving, Sound, NoWork
  <2> QED BY <1>3, <2>1 DEF Reaches
<1>9. CASE Age
  <2>1. /\ Sound /\ cursors' = cursors /\ work' = work /\ pending' = pending
        /\ Lines(files') = Aged(Lines(files))
    BY <1>2, <1>9, RetentionFacts DEF Retaining, Counted, Sound
  <2>2. \A m \in Lines(files) : \E l \in Lines(files') : l.seq = m.seq
    BY <1>1, <2>1, AgedLines
  <2>3. \A n \in Nat : Reaches(files, n) => Reaches(files', n)
    BY <2>2 DEF Reaches
  <2> QED BY <1>1, <1>3, <2>1, <2>3
<1>10. CASE PruneOnce
  <2>1. /\ Sound /\ cursors' = cursors /\ work' = work /\ pending' = pending
        /\ Lines(files') = {l \in Lines(files) : ~l.old} /\ Lines(files') # {}
    BY <1>2, <1>10, RetentionFacts DEF Retaining, Counted, Sound
  <2>2. PICK m \in Lines(files) : ~m.old
    BY <2>1
  <2>3. ASSUME NEW n \in Nat, Reaches(files, n)
        PROVE  Reaches(files', n)
    <3>1. ASSUME NEW l \in Lines(files), n <= l.seq
          PROVE  \E k \in Lines(files') : n <= k.seq
      <4>1. CASE ~l.old
        BY <2>1, <3>1, <4>1
      <4>2. CASE l.old
        <5>1. l.seq < m.seq /\ l.seq \in Nat /\ m.seq \in Nat
          BY <1>1, <2>2, <4>2 DEF OrderInv
        <5>2. n <= m.seq
          BY <3>1, <5>1
        <5> QED BY <2>1, <2>2, <5>2
      <4> QED BY <4>1, <4>2
    <3> QED BY <2>3, <3>1 DEF Reaches
  <2> QED BY <1>1, <1>3, <2>1, <2>3
<1>11. CASE Death
  <2>1. /\ Sound /\ cursors' = cursors /\ work'.last = 0 /\ pending' = {}
        /\ Keeps(files, files')
    BY <1>2, <1>11 DEF Death, Counted, Sound, NoWork
  <2>2. \A n \in Nat : Reaches(files, n) => Reaches(files', n)
    BY <2>1 DEF Keeps, OrderInv
  <2> QED BY <1>1, <1>3, <2>1, <2>2 DEF Reaches
<1>12. CASE Activating
  <2>1. /\ Sound /\ cursors' = cursors /\ files' = files /\ pending' = {}
        /\ work'.last \in {work.last, 0, LastSeq(Backlog)}
    BY <1>2, <1>12 DEF Activating, Sound, NoWork
  <2>2. Backlog \in SUBSET Lines(files) /\ IsFiniteSet(Backlog)
    BY BacklogType
  <2>3. LastSeq(Backlog) = 0 \/ \E l \in Backlog : l.seq = LastSeq(Backlog)
    BY <1>1, <2>2, LastSeqIsGreatest
  <2>4. Reaches(files, LastSeq(Backlog))
    <3>1. ASSUME NEW l \in Backlog, l.seq = LastSeq(Backlog)
          PROVE  \E k \in Lines(files) : LastSeq(Backlog) <= k.seq
      BY <1>1, <2>2, <3>1
    <3> QED BY <2>3, <3>1 DEF Reaches
  <2> QED BY <1>3, <2>1, <2>4 DEF Reaches
<1> QED BY <1>2, <1>4, <1>5, <1>6, <1>7, <1>8, <1>9, <1>10, <1>11, <1>12, StepsNow
     DEF CursorInv

LEMMA PastStep ==
  ASSUME BaseInv, HostInv, OrderInv, PastInv, [Next]_vars
  PROVE  PastInv'
<1>1. /\ Lines(files) \in SUBSET Line /\ \A l \in Line : l.seq \in Nat
      /\ \A c \in Consumers : cursors[c] \in Nat /\ cursors'[c] \in Nat
      /\ work.batch \in SUBSET Line /\ IsFiniteSet(work.batch)
  BY LinesType, KindsOfSteps DEF BaseInv, KnownInv, TypeOK
<1>2. SUFFICES ASSUME used'.offs = 0, up', NEW c \in Consumers, NEW l \in Lines(files'),
                      l.seq > cursors'[c]
               PROVE  l \in pending' \/ (c \in Left' /\ l \in work'.batch)
  BY DEF PastInv
<1>3. ASSUME used.offs = 0, up, l \in Lines(files), l.seq > cursors[c]
      PROVE  l \in pending \/ (c \in Left /\ l \in work.batch)
  BY <1>3 DEF PastInv
<1>4. CASE Quiet
  BY <1>2, <1>3, <1>4 DEF Quiet, Counted, Left
<1>5. ASSUME NEW sig, Emitting(sig)
      PROVE  l \in pending'
  BY <1>2, <1>3, <1>5 DEF Emitting, Left, NoWork
<1>6. CASE Flushing
  BY <1>2, <1>3, <1>6, RestsFacts DEF Flushing, Left, NoWork
<1>7. CASE Handing
  BY <1>2, <1>3, <1>7, HandingFacts DEF Handing, Counted, Keeps
<1>8. CASE Saving
  <2>1. /\ used.offs = 0 /\ up /\ l \in Lines(files) /\ pending = {}
        /\ cursors'[c] >= cursors[c] /\ work.last = LastSeq(work.batch)
        /\ Left = {Consumer} \cup Left' /\ (c = Consumer => cursors'[c] >= work.last)
    BY <1>2, <1>8 DEF Saving
  <2>2. c \in Left /\ l \in work.batch
    BY <1>1, <1>2, <1>3, <2>1
  <2>3. l.seq <= work.last /\ work.last \in Nat
    BY <1>1, <2>1, <2>2, LastSeqIsGreatest
  <2>4. c # Consumer
    BY <1>1, <1>2, <2>1, <2>3
  <2>5. c \in Left'
    BY <2>1, <2>2, <2>4
  <2>6. work'.batch = work.batch
    BY <1>8, <2>5, RestsFacts DEF Saving, Left, NoWork
  <2> QED BY <2>2, <2>5, <2>6
<1>9. CASE Age
  <2>1. /\ used.offs = 0 /\ up /\ cursors' = cursors /\ pending = {} /\ Left = {}
        /\ Lines(files') = Aged(Lines(files))
    BY <1>2, <1>9, RetentionFacts, RestsFacts DEF Retaining, Counted, Left
  <2>2. PICK m \in Lines(files) : l.seq = m.seq
    BY <1>1, <2>1, AgedLines
  <2> QED BY <1>2, <2>1, <2>2 DEF PastInv
<1>10. CASE PruneOnce
  <2>1. /\ used.offs = 0 /\ up /\ cursors' = cursors /\ pending' = pending /\ work' = work
        /\ l \in Lines(files)
    BY <1>2, <1>10, RetentionFacts DEF Retaining, Counted
  <2> QED BY <1>2, <1>3, <2>1 DEF Left
<1>11. CASE Death
  BY <1>2, <1>11 DEF Death
<1>12. CASE Activating
  <2>1. l \in Backlog
    BY <1>2, <1>12, BacklogType DEF Activating
  <2>2. mode # "off"
    BY <1>2, <1>12 DEF Activating, HostInv
  <2> QED BY <1>12, <2>1, <2>2 DEF Activating
<1> QED BY <1>4, <1>5, <1>6, <1>7, <1>8, <1>9, <1>10, <1>11, <1>12, StepsNow

LEMMA YoungStep ==
  ASSUME BaseInv, HostInv, OrderInv, YoungInv, [Next]_vars
  PROVE  YoungInv'
<1>1. CASE Age \/ PruneOnce
  BY <1>1, RetentionFacts DEF YoungInv, Retaining
<1>2. CASE ~(Age \/ PruneOnce)
  BY <1>2, StepsNow DEF YoungInv, Quiet, Emitting, Flushing, Handing, Saving, Death, Activating
<1> QED BY <1>1, <1>2

----------------------------------------------------------------------------
(* What the cursors say was handed over was *)

Got(c, l) == ListensFor(c, l.id) => l.id \in delivered[c]

\* Up to its cursor a consumer was handed everything; so it was what it is just
\* done with, and what a replay repeats.  What the journal does not hold any
\* more was rotated out, or handed to whoever listens.
DeliveryInv ==
  used.offs = 0 /\ Sound =>
    /\ \A c \in Consumers, l \in Lines(files) : l.seq <= cursors[c] => Got(c, l)
    /\ work.applied => \A l \in work.batch : Got(Consumer, l)
    /\ work.replay => \A c \in Consumers, l \in work.batch : l.seq <= cursors[c] => Got(c, l)
    /\ \A id \in accepted :
         \/ id \in Ids(Lines(files)) \cup dropped
         \/ \A c \in Consumers : ListensFor(c, id) => id \in delivered[c]

\* The facts about the line of a signal stay, and it is not taken back.
LEMMA GotGrows ==
  ASSUME BaseInv, Grown, NEW c \in Consumers, delivered[c] \subseteq delivered'[c]
  PROVE  /\ \A l \in Lines(files) \cup pending \cup work.batch : Got(c, l) => Got(c, l)'
         /\ \A id \in accepted :
              (ListensFor(c, id) => id \in delivered[c])
                => (ListensFor(c, id)' => id \in delivered'[c])
<1>1. /\ \A l \in Lines(files) \cup pending \cup work.batch : l.id \in DOMAIN facts
      /\ accepted \subseteq DOMAIN facts
  BY DEF BaseInv, KnownInv
<1>2. \A id \in DOMAIN facts : ListensFor(c, id)' <=> ListensFor(c, id)
  BY DEF Grown, ListensFor
<1> QED BY <1>1, <1>2 DEF Got

\* What a rotation took is known to be gone.
LEMMA DropsKept ==
  ASSUME Drops
  PROVE  Ids(Lines(files)) \cup dropped \subseteq Ids(Lines(files')) \cup dropped'
BY DEF Drops

LEMMA FactsStay ==
  ASSUME BaseInv, facts' = facts
  PROVE  Grown
BY DEF BaseInv, TypeOK, Grown

LEMMA DeliveryStep ==
  ASSUME BaseInv, HostInv, OrderInv, CursorInv, PastInv, YoungInv, DeliveryInv, [Next]_vars
  PROVE  DeliveryInv'
<1>1. /\ Lines(files) \in SUBSET Line /\ \A l \in Line : l.seq \in Nat
      /\ \A c \in Consumers : cursors[c] \in Nat /\ cursors'[c] \in Nat
      /\ work.batch \in SUBSET Line /\ IsFiniteSet(work.batch)
  BY LinesType, KindsOfSteps DEF BaseInv, KnownInv, TypeOK
<1>2. SUFFICES ASSUME used'.offs = 0, Sound'
      PROVE  /\ \A c \in Consumers, l \in Lines(files') : l.seq <= cursors'[c] => Got(c, l)'
             /\ work'.applied => \A l \in work'.batch : Got(Consumer, l)'
             /\ work'.replay => \A c \in Consumers, l \in work'.batch :
                                  l.seq <= cursors'[c] => Got(c, l)'
             /\ \A id \in accepted' :
                  \/ id \in Ids(Lines(files')) \cup dropped'
                  \/ \A c \in Consumers : ListensFor(c, id)' => id \in delivered'[c]
  BY DEF DeliveryInv
<1>3. ASSUME used.offs = 0, Sound
      PROVE  /\ \A c \in Consumers, l \in Lines(files) : l.seq <= cursors[c] => Got(c, l)
             /\ work.applied => \A l \in work.batch : Got(Consumer, l)
             /\ work.replay => \A c \in Consumers, l \in work.batch :
                                 l.seq <= cursors[c] => Got(c, l)
             /\ \A id \in accepted :
                  \/ id \in Ids(Lines(files)) \cup dropped
                  \/ \A c \in Consumers : ListensFor(c, id) => id \in delivered[c]
  BY <1>3 DEF DeliveryInv
<1>4. CASE Quiet
  <2>1. /\ used.offs = 0 /\ Sound /\ Grown
        /\ UNCHANGED <<files, cursors, work, accepted, delivered, dropped>>
    BY <1>2, <1>4 DEF Quiet, Counted, Sound
  <2>2. work.applied => Consumer \in Consumers
    BY ConsumerType DEF HostInv, NoWork
  <2> QED BY <1>3, <2>1, <2>2, GotGrows DEF Consumer
<1>5. ASSUME NEW sig, Emitting(sig)
      PROVE  DeliveryInv'
  <2>1. /\ used.offs = 0 /\ Sound /\ Grown /\ Drops
        /\ work' = NoWork /\ UNCHANGED <<cursors, delivered>>
        /\ accepted' = accepted \cup {sig.id} /\ sig \in Lines(files') /\ sig \in Line
        /\ Lines(files') \subseteq Lines(files) \cup {sig}
        /\ \A l \in Lines(files) : l.seq < sig.seq
    BY <1>2, <1>5 DEF Emitting, Counted, Sound
  <2>2. \A c \in Consumers : ~(sig.seq <= cursors[c])
    <3>1. SUFFICES ASSUME NEW c \in Consumers PROVE cursors[c] < sig.seq
      BY <1>1, <2>1
    <3>2. Reaches(files, cursors[c])
      BY <2>1 DEF CursorInv
    <3>3. sig.seq \in Nat /\ sig.seq # 0
      BY <1>1, <1>5, <2>1 DEF Emitting
    <3> QED BY <1>1, <2>1, <3>2, <3>3 DEF Reaches
  <2>3. \A c \in Consumers, l \in Lines(files') : l.seq <= cursors'[c] => Got(c, l)'
    BY <1>3, <2>1, <2>2, GotGrows
  <2>4. \A id \in accepted' :
          \/ id \in Ids(Lines(files')) \cup dropped'
          \/ \A c \in Consumers : ListensFor(c, id)' => id \in delivered'[c]
    <3>1. sig.id \in Ids(Lines(files'))
      BY <2>1 DEF Ids
    <3> QED BY <1>3, <2>1, <3>1, GotGrows, DropsKept
  <2> QED BY <2>1, <2>3, <2>4 DEF DeliveryInv, NoWork
<1>6. CASE Flushing
  <2>1. /\ used.offs = 0 /\ Sound /\ Grown /\ ~work'.applied /\ ~work'.replay
        /\ UNCHANGED <<files, cursors, accepted, delivered, dropped>>
    BY <1>2, <1>6, FactsStay DEF Flushing, Sound
  <2> QED BY <1>3, <2>1, GotGrows
<1>7. CASE Handing
  <2>1. /\ used.offs = 0 /\ Sound /\ Grown /\ Drops /\ UNCHANGED <<facts, cursors, accepted>>
        /\ work.todo # <<>> /\ Lines(files') \subseteq Lines(files)
    BY <1>2, <1>7, FactsStay, HandingFacts DEF Handing, Counted, Sound, Keeps
  <2>2. /\ work'.batch = work.batch /\ work'.replay = work.replay /\ Consumer' = Consumer
        /\ Consumer \in Consumers
        /\ \A c \in Consumers : delivered'[c] =
             IF c = Consumer THEN delivered[c] \cup Ids(Batch) ELSE delivered[c]
    BY <1>7, HandingFacts
  <2>3. \A l \in work.batch : Got(Consumer, l)'
    <3>1. SUFFICES ASSUME NEW l \in work.batch, ListensFor(Consumer, l.id)
                   PROVE  l.id \in delivered'[Consumer]
      BY <2>1, <2>2 DEF Got, ListensFor
    <3>2. CASE l \in Batch
      BY <2>2, <3>2 DEF Ids
    <3>3. CASE l \notin Batch
      <4>1. work.replay /\ ~(l.seq > cursors[Consumer])
        BY <3>1, <3>3 DEF Batch, ListensFor
      <4>2. l.seq <= cursors[Consumer]
        BY <1>1, <2>2, <4>1
      <4> QED BY <1>3, <2>1, <2>2, <3>1, <4>1, <4>2 DEF Got
    <3> QED BY <3>2, <3>3
  <2>4. \A c \in Consumers : delivered[c] \subseteq delivered'[c]
    BY <2>2
  <2>5. \A c \in Consumers, l \in Lines(files') : l.seq <= cursors'[c] => Got(c, l)'
    BY <1>3, <2>1, <2>4, GotGrows
  <2>6. work'.replay => \A c \in Consumers, l \in work'.batch :
                           l.seq <= cursors'[c] => Got(c, l)'
    BY <1>3, <2>1, <2>2, <2>4, GotGrows
  <2>7. \A id \in accepted' :
          \/ id \in Ids(Lines(files')) \cup dropped'
          \/ \A c \in Consumers : ListensFor(c, id)' => id \in delivered'[c]
    BY <1>3, <2>1, <2>4, GotGrows, DropsKept
  <2> QED BY <2>2, <2>3, <2>5, <2>6, <2>7
<1>8. CASE Saving
  <2>1. /\ used.offs = 0 /\ Sound /\ Grown /\ up /\ ~work'.applied /\ work.applied
        /\ pending = {} /\ Consumer \in Consumers
        /\ UNCHANGED <<files, accepted, delivered, dropped>>
        /\ \A c \in Consumers : c # Consumer => cursors'[c] = cursors[c]
        /\ work'.replay => work.replay /\ work'.batch = work.batch
    BY <1>2, <1>8, FactsStay DEF Saving, Sound, NoWork
  <2>2. \A l \in work.batch : Got(Consumer, l)
    BY <1>3, <2>1
  <2>3. ASSUME NEW c \in Consumers, NEW l \in Lines(files), l.seq <= cursors'[c]
        PROVE  Got(c, l)
    <3>1. CASE l.seq <= cursors[c]
      BY <1>3, <2>1, <3>1
    <3>2. CASE ~(l.seq <= cursors[c])
      <4>1. c = Consumer
        BY <2>1, <2>3, <3>2
      <4>2. l.seq > cursors[c]
        BY <1>1, <3>2
      <4>3. l \in work.batch
        BY <2>1, <4>2 DEF PastInv
      <4> QED BY <2>2, <4>1, <4>3
    <3> QED BY <3>1, <3>2
  <2>4. ASSUME work'.replay, NEW c \in Consumers, NEW l \in work'.batch, l.seq <= cursors'[c]
        PROVE  Got(c, l) /\ l \in work.batch
    BY <1>3, <2>1, <2>2, <2>4
  <2> QED BY <1>3, <2>1, <2>3, <2>4, GotGrows
<1>9. CASE Age
  <2>1. /\ used.offs = 0 /\ Sound /\ Grown /\ Lines(files') = Aged(Lines(files)) /\ work = NoWork
        /\ UNCHANGED <<facts, cursors, work, accepted, delivered, dropped>>
    BY <1>2, <1>9, RetentionFacts, FactsStay DEF Retaining, Counted, Sound
  <2>2. /\ \A l \in Lines(files') : \E m \in Lines(files) : l.id = m.id /\ l.seq = m.seq
        /\ \A m \in Lines(files) : \E l \in Lines(files') : l.id = m.id /\ l.seq = m.seq
    BY <1>1, <2>1, AgedLines
  <2>3. Ids(Lines(files')) = Ids(Lines(files))
    BY <2>2 DEF Ids
  <2>4. \A c \in Consumers, l \in Lines(files') : l.seq <= cursors'[c] => Got(c, l)'
    BY <1>3, <2>1, <2>2 DEF Got, ListensFor
  <2> QED BY <1>3, <2>1, <2>3, <2>4, GotGrows DEF NoWork
<1>10. CASE PruneOnce
  <2>1. /\ used.offs = 0 /\ Sound /\ Grown /\ up
        /\ Lines(files') = {l \in Lines(files) : ~l.old} /\ work = NoWork
        /\ UNCHANGED <<facts, cursors, work, accepted, delivered, dropped>>
    BY <1>2, <1>10, RetentionFacts, FactsStay DEF Retaining, Counted, Sound
  <2>2. ASSUME NEW l \in Lines(files), l.old, NEW c \in Consumers
        PROVE  Got(c, l)
    <3>1. l \notin pending /\ Left = {}
      BY <2>1, <2>2, RestsFacts DEF YoungInv, Left, NoWork
    <3>2. ~(l.seq > cursors[c])
      BY <2>1, <3>1 DEF PastInv
    <3> QED BY <1>1, <1>3, <2>1, <3>2
  <2>3. ASSUME NEW id \in accepted
        PROVE  \/ id \in Ids(Lines(files')) \cup dropped'
               \/ \A c \in Consumers : ListensFor(c, id) => id \in delivered[c]
    <3>1. CASE id \in Ids(Lines(files))
      <4>1. PICK l \in Lines(files) : l.id = id
        BY <3>1 DEF Ids
      <4>2. CASE l.old
        BY <2>2, <4>1, <4>2 DEF Got
      <4>3. CASE ~l.old
        BY <2>1, <4>1, <4>3 DEF Ids
      <4> QED BY <4>2, <4>3
    <3>2. CASE id \notin Ids(Lines(files))
      BY <1>3, <2>1, <3>2
    <3> QED BY <3>1, <3>2
  <2> QED BY <1>3, <2>1, <2>3, GotGrows DEF NoWork
<1>11. CASE Death
  <2>1. /\ used.offs = 0 /\ Sound /\ Grown /\ Drops /\ work' = NoWork
        /\ Lines(files') \subseteq Lines(files)
        /\ UNCHANGED <<cursors, accepted, delivered>>
    BY <1>2, <1>11, FactsStay DEF Death, Counted, Sound, Keeps
  <2> QED BY <1>3, <2>1, GotGrows, DropsKept DEF NoWork
<1>12. CASE Activating
  <2>1. /\ used.offs = 0 /\ Sound /\ Grown /\ mode # "off"
        /\ UNCHANGED <<files, cursors, accepted, delivered, dropped>>
    BY <1>2, <1>12, FactsStay DEF Activating, Counted, Sound, HostInv
  <2>2. /\ ~work'.applied /\ work'.batch \subseteq Lines(files)
    <3>1. CASE Backlog = {}
      <4>1. work' = NoWork
        BY <1>12, <2>1, <3>1 DEF Activating
      <4> QED BY <4>1 DEF NoWork
    <3>2. CASE Backlog # {}
      <4>1. work'.batch = Backlog /\ ~work'.applied
        BY <1>12, <2>1, <3>2 DEF Activating
      <4> QED BY <4>1, BacklogType
    <3> QED BY <3>1, <3>2
  <2>3. \A c \in Consumers, l \in Lines(files) : l.seq <= cursors'[c] => Got(c, l)'
    BY <1>3, <2>1, GotGrows
  <2>4. \A id \in accepted' :
          \/ id \in Ids(Lines(files')) \cup dropped'
          \/ \A c \in Consumers : ListensFor(c, id)' => id \in delivered'[c]
    BY <1>3, <2>1, GotGrows
  <2> QED BY <2>1, <2>2, <2>3, <2>4
<1> QED BY <1>2, <1>4, <1>5, <1>6, <1>7, <1>8, <1>9, <1>10, <1>11, <1>12, StepsNow
     DEF DeliveryInv

\* As long as the host lives, what was told and not handed over is in its memory,
\* whatever became of the files.
MemoryInv ==
  used.crashes = 0 =>
    /\ work.applied => \A l \in work.batch : Got(Consumer, l)
    /\ \A id \in accepted, c \in Consumers : ListensFor(c, id) =>
         \/ id \in delivered[c] \/ id \in Ids(pending)
         \/ c \in Left /\ id \in Ids(work.batch)

LEMMA MemoryStep ==
  ASSUME BaseInv, HostInv, OrderInv, MemoryInv, [Next]_vars
  PROVE  MemoryInv'
<1>1. SUFFICES ASSUME used'.crashes = 0
      PROVE  /\ work'.applied => \A l \in work'.batch : Got(Consumer, l)'
             /\ \A id \in accepted', c \in Consumers : ListensFor(c, id)' =>
                  \/ id \in delivered'[c] \/ id \in Ids(pending')
                  \/ c \in Left' /\ id \in Ids(work'.batch)
  BY DEF MemoryInv
<1>2. ASSUME used.crashes = 0
      PROVE  /\ work.applied => \A l \in work.batch : Got(Consumer, l)
             /\ \A id \in accepted, c \in Consumers : ListensFor(c, id) =>
                  \/ id \in delivered[c] \/ id \in Ids(pending)
                  \/ c \in Left /\ id \in Ids(work.batch)
  BY <1>2 DEF MemoryInv
<1>3. ASSUME Grown
      PROVE  /\ \A id \in accepted, c \in Consumers : ListensFor(c, id)' => ListensFor(c, id)
             /\ \A l \in work.batch, c \in Consumers : ListensFor(c, l.id)' => ListensFor(c, l.id)
  BY <1>3 DEF BaseInv, KnownInv, Grown, ListensFor
<1>4. CASE Quiet
  <2>1. /\ used.crashes = 0 /\ Grown
        /\ UNCHANGED <<pending, work, accepted, delivered>>
    BY <1>1, <1>4 DEF Quiet, Counted
  <2>2. work.applied => Consumer \in Consumers
    BY ConsumerType DEF HostInv, NoWork
  <2> QED BY <1>2, <1>3, <2>1, <2>2 DEF Got, Left, Consumer
<1>5. ASSUME NEW sig, Emitting(sig)
      PROVE  MemoryInv'
  <2>1. /\ used.crashes = 0 /\ Grown /\ work = NoWork /\ work' = NoWork /\ delivered' = delivered
        /\ pending' = pending \cup {sig} /\ accepted' = accepted \cup {sig.id}
    BY <1>1, <1>5 DEF Emitting, Counted
  <2>2. Left = {}
    BY <2>1, RestsFacts DEF Left, NoWork
  <2>3. Ids(pending') = Ids(pending) \cup {sig.id}
    BY <2>1 DEF Ids
  <2>4. \A id \in accepted', c \in Consumers : ListensFor(c, id)' =>
          id \in delivered'[c] \/ id \in Ids(pending')
    BY <1>2, <1>3, <2>1, <2>2, <2>3
  <2> QED BY <2>1, <2>4 DEF MemoryInv, NoWork
<1>6. CASE Flushing
  <2>1. /\ used.crashes = 0 /\ Grown /\ ~work'.applied /\ work'.batch = pending
        /\ Left' = Consumers /\ Left = {} /\ UNCHANGED <<accepted, delivered>>
    BY <1>1, <1>6, FactsStay, RestsFacts DEF Flushing, Left, NoWork
  <2> QED BY <1>2, <1>3, <2>1
<1>7. CASE Handing
  <2>1. /\ used.crashes = 0 /\ Grown /\ UNCHANGED <<facts, pending, accepted>>
        /\ ~work.replay
    BY <1>1, <1>7, FactsStay DEF Handing, Counted, HostInv
  <2>2. /\ work'.batch = work.batch /\ Consumer' = Consumer /\ Left' = Left
        /\ Consumer \in Consumers
        /\ \A c \in Consumers : delivered'[c] =
             IF c = Consumer THEN delivered[c] \cup Ids(Batch) ELSE delivered[c]
    BY <1>7, HandingFacts
  <2>3. \A l \in work.batch : Got(Consumer, l)'
    <3>1. SUFFICES ASSUME NEW l \in work.batch, ListensFor(Consumer, l.id)
                   PROVE  l.id \in delivered'[Consumer]
      BY <2>1, <2>2 DEF Got, ListensFor
    <3>2. l \in Batch
      BY <2>1, <3>1 DEF Batch, ListensFor
    <3> QED BY <2>2, <3>2 DEF Ids
  <2>4. \A c \in Consumers : delivered[c] \subseteq delivered'[c]
    BY <2>2
  <2> QED BY <1>2, <1>3, <2>1, <2>2, <2>3, <2>4
<1>8. CASE Saving
  <2>1. /\ used.crashes = 0 /\ Grown /\ ~work'.applied /\ work.applied /\ pending = {}
        /\ pending' = pending /\ UNCHANGED <<accepted, delivered>>
        /\ Left = {Consumer} \cup Left' /\ Consumer \in Consumers
    BY <1>1, <1>8, FactsStay DEF Saving
  <2>2. ASSUME NEW c \in Left'
        PROVE  work'.batch = work.batch
    BY <1>8, <2>2, RestsFacts DEF Saving, Left, NoWork
  <2>3. \A id \in Ids(work.batch) : ListensFor(Consumer, id) => id \in delivered[Consumer]
    BY <1>2, <2>1 DEF Got, Ids
  <2> QED BY <1>2, <1>3, <2>1, <2>2, <2>3
<1>9. CASE Age \/ PruneOnce
  <2>1. /\ used.crashes = 0 /\ Grown /\ UNCHANGED <<pending, work, accepted, delivered>>
        /\ work = NoWork
    BY <1>1, <1>9, RetentionFacts, FactsStay DEF Retaining, Counted
  <2> QED BY <1>2, <1>3, <2>1 DEF Left, NoWork
<1>10. CASE Death
  BY <1>1, <1>10 DEF Death
<1>11. CASE Activating
  BY <1>1, <1>11 DEF Activating, HostInv
<1> QED BY <1>1, <1>4, <1>5, <1>6, <1>7, <1>8, <1>9, <1>10, <1>11, StepsNow DEF MemoryInv

\* A signal that should flag the loop it names.
Owed(l) == facts[l.id].loop /\ NeedsReassessment(facts[l.id])

\* The same as DeliveryInv, for what the loop bears of it.
FlagInv ==
  used.modes = 0 /\ used.faults = 0 /\ Sound =>
    /\ \A l \in Lines(files) : Owed(l) /\ l.seq <= cursors["reassess"] => l.id \in loop.flags
    /\ work.applied /\ Consumer = "reassess" =>
         \A l \in work.batch : Owed(l) => l.id \in loop.flags
    /\ work.replay => \A l \in work.batch :
         Owed(l) /\ l.seq <= cursors["reassess"] => l.id \in loop.flags

LEMMA FlagStep ==
  ASSUME BaseInv, HostInv, OrderInv, CursorInv, PastInv, FlagInv, [Next]_vars
  PROVE  FlagInv'
<1>1. /\ Lines(files) \in SUBSET Line /\ \A l \in Line : l.seq \in Nat
      /\ cursors["reassess"] \in Nat /\ cursors'["reassess"] \in Nat
      /\ work.batch \in SUBSET Line /\ "reassess" \in Consumers
      /\ \A l \in Lines(files) \cup work.batch : l.id \in DOMAIN facts
  BY LinesType, KindsOfSteps DEF BaseInv, KnownInv, TypeOK, Consumers
<1>2. SUFFICES ASSUME used'.modes = 0, used'.faults = 0, Sound'
      PROVE  /\ \A l \in Lines(files') : Owed(l)' /\ l.seq <= cursors'["reassess"] =>
                                            l.id \in loop'.flags
             /\ work'.applied /\ Consumer' = "reassess" =>
                  \A l \in work'.batch : Owed(l)' => l.id \in loop'.flags
             /\ work'.replay => \A l \in work'.batch :
                  Owed(l)' /\ l.seq <= cursors'["reassess"] => l.id \in loop'.flags
  BY DEF FlagInv
<1>3. ASSUME used.modes = 0, used.faults = 0, Sound
      PROVE  /\ \A l \in Lines(files) : Owed(l) /\ l.seq <= cursors["reassess"] =>
                                           l.id \in loop.flags
             /\ work.applied /\ Consumer = "reassess" =>
                  \A l \in work.batch : Owed(l) => l.id \in loop.flags
             /\ work.replay => \A l \in work.batch :
                  Owed(l) /\ l.seq <= cursors["reassess"] => l.id \in loop.flags
  BY <1>3 DEF FlagInv
<1>4. ASSUME Grown
      PROVE  \A l \in Lines(files) \cup work.batch : Owed(l)' <=> Owed(l)
  BY <1>1, <1>4 DEF Grown, Owed, NeedsReassessment, MayChangeState
<1>5. CASE Quiet
  <2>1. /\ used.modes = 0 /\ used.faults = 0 /\ Sound /\ Grown /\ loop'.flags = loop.flags
        /\ UNCHANGED <<files, cursors, work>>
    BY <1>2, <1>5 DEF Quiet, Counted, Sound
  <2> QED BY <1>3, <1>4, <2>1 DEF Consumer
<1>6. ASSUME NEW sig, Emitting(sig)
      PROVE  FlagInv'
  <2>1. /\ used.modes = 0 /\ used.faults = 0 /\ Sound /\ Grown /\ loop' = loop
        /\ work' = NoWork /\ cursors' = cursors
        /\ Lines(files') \subseteq Lines(files) \cup {sig} /\ sig \in Line /\ sig.seq # 0
        /\ \A l \in Lines(files) : l.seq < sig.seq
    BY <1>2, <1>6 DEF Emitting, Counted, Sound
  <2>2. ~(sig.seq <= cursors["reassess"])
    <3>1. Reaches(files, cursors["reassess"])
      BY <1>1, <2>1 DEF CursorInv
    <3> QED BY <1>1, <2>1, <3>1 DEF Reaches
  <2>3. \A l \in Lines(files') : Owed(l)' /\ l.seq <= cursors'["reassess"] =>
                                    l.id \in loop'.flags
    BY <1>3, <1>4, <2>1, <2>2
  <2> QED BY <2>1, <2>3 DEF FlagInv, NoWork
<1>7. CASE Flushing
  <2>1. /\ used.modes = 0 /\ used.faults = 0 /\ Sound /\ Grown /\ loop' = loop
        /\ ~work'.applied /\ ~work'.replay /\ UNCHANGED <<files, cursors>>
    BY <1>2, <1>7, FactsStay DEF Flushing, Sound
  <2> QED BY <1>3, <1>4, <2>1
<1>8. CASE Handing
  <2>1. /\ used.modes = 0 /\ used.faults = 0 /\ Sound /\ Grown
        /\ loop.flags \subseteq loop'.flags /\ work.todo # <<>> /\ work.act
        /\ Consumer = "reassess" => ToFlag(Batch) \subseteq loop'.flags
        /\ cursors' = cursors /\ Lines(files') \subseteq Lines(files)
    BY <1>2, <1>8, FactsStay, HandingFacts DEF Handing, Counted, Sound, Keeps, HostInv
  <2>2. /\ work'.batch = work.batch /\ work'.replay = work.replay /\ Consumer' = Consumer
    BY <1>8, HandingFacts
  <2>3. ASSUME Consumer = "reassess", NEW l \in work.batch, Owed(l)
        PROVE  l.id \in loop'.flags
    <3>1. CASE l \in Batch
      <4>1. l.id \in Ids(Batch)
        BY <3>1 DEF Ids
      <4>2. l.id \in ToFlag(Batch)
        BY <2>3, <4>1 DEF ToFlag, Owed, Concerns
      <4> QED BY <2>1, <2>3, <4>2
    <3>2. CASE l \notin Batch
      <4>1. facts[l.id].kind \in Kinds
        <5>1. facts \in Seq(Fact) /\ l.id \in DOMAIN facts
          BY <1>1 DEF BaseInv, TypeOK
        <5>2. facts[l.id] \in Fact
          BY <5>1, ElementOfSeq, LenProperties
        <5> QED BY <5>2 DEF Fact
      <4>2. KindsOf("reassess") = Kinds
        BY DEF KindsOf
      <4>3. work.replay /\ ~(l.seq > cursors["reassess"])
        BY <2>3, <3>2, <4>1, <4>2 DEF Batch
      <4> QED BY <1>1, <1>3, <2>1, <2>3, <4>3
    <3> QED BY <3>1, <3>2
  <2> QED BY <1>3, <1>4, <2>1, <2>2, <2>3
<1>9. CASE Saving
  <2>1. /\ used.modes = 0 /\ used.faults = 0 /\ Sound /\ Grown /\ up /\ loop' = loop
        /\ ~work'.applied /\ work.applied /\ pending = {} /\ files' = files
        /\ work'.replay => work.replay /\ work'.batch = work.batch
        /\ Consumer # "reassess" => cursors'["reassess"] = cursors["reassess"]
        /\ used.offs = 0
    BY <1>1, <1>2, <1>9, FactsStay DEF Saving, Sound, NoWork, HostInv
  <2>2. Consumer = "reassess" => \A l \in work.batch : Owed(l) => l.id \in loop.flags
    BY <1>3, <2>1
  <2>3. ASSUME NEW l \in Lines(files), l.seq <= cursors'["reassess"], Owed(l)
        PROVE  l.id \in loop.flags
    <3>1. CASE l.seq <= cursors["reassess"]
      BY <1>3, <2>1, <2>3, <3>1
    <3>2. CASE ~(l.seq <= cursors["reassess"])
      <4>1. Consumer = "reassess"
        BY <2>1, <2>3, <3>2
      <4>2. l.seq > cursors["reassess"]
        BY <1>1, <3>2
      <4>3. l \in work.batch
        BY <1>1, <2>1, <4>2 DEF PastInv
      <4> QED BY <2>2, <2>3, <4>1, <4>3
    <3> QED BY <3>1, <3>2
  <2>4. ASSUME work'.replay, NEW l \in work'.batch, l.seq <= cursors'["reassess"], Owed(l)
        PROVE  l.id \in loop.flags
    BY <1>3, <2>1, <2>2, <2>4
  <2> QED BY <1>4, <2>1, <2>3, <2>4
<1>10. CASE Age
  <2>1. /\ used.modes = 0 /\ used.faults = 0 /\ Sound /\ work' = NoWork
        /\ Lines(files') = Aged(Lines(files)) /\ UNCHANGED <<facts, loop, cursors>>
    BY <1>2, <1>10, RetentionFacts DEF Retaining, Counted, Sound
  <2>2. \A l \in Lines(files') : \E m \in Lines(files) : l.id = m.id /\ l.seq = m.seq
    BY <1>1, <2>1, AgedLines
  <2> QED BY <1>3, <2>1, <2>2 DEF Owed, NoWork
<1>11. CASE PruneOnce
  <2>1. /\ used.modes = 0 /\ used.faults = 0 /\ Sound /\ work' = NoWork
        /\ Lines(files') \subseteq Lines(files) /\ UNCHANGED <<facts, loop, cursors>>
    BY <1>2, <1>11, RetentionFacts DEF Retaining, Counted, Sound
  <2> QED BY <1>3, <2>1 DEF Owed, NoWork
<1>12. CASE Death
  <2>1. /\ used.modes = 0 /\ used.faults = 0 /\ Sound /\ Grown /\ work' = NoWork
        /\ Lines(files') \subseteq Lines(files) /\ cursors' = cursors
        /\ loop.flags \subseteq loop'.flags
    BY <1>2, <1>12, FactsStay DEF Death, Counted, Sound, Keeps
  <2> QED BY <1>3, <1>4, <2>1 DEF NoWork
<1>13. CASE Activating
  <2>1. /\ used.modes = 0 /\ used.faults = 0 /\ Sound /\ Grown /\ mode # "off"
        /\ loop'.flags = loop.flags /\ UNCHANGED <<files, cursors>>
    BY <1>2, <1>13, FactsStay DEF Activating, Counted, Sound, HostInv
  <2>2. ~work'.applied /\ work'.batch \subseteq Lines(files)
    <3>1. CASE Backlog = {}
      <4>1. work' = NoWork
        BY <1>13, <2>1, <3>1 DEF Activating
      <4> QED BY <4>1 DEF NoWork
    <3>2. CASE Backlog # {}
      <4>1. work'.batch = Backlog /\ ~work'.applied
        BY <1>13, <2>1, <3>2 DEF Activating
      <4> QED BY <4>1, BacklogType
    <3> QED BY <3>1, <3>2
  <2> QED BY <1>3, <1>4, <2>1, <2>2
<1> QED BY <1>2, <1>5, <1>6, <1>7, <1>8, <1>9, <1>10, <1>11, <1>12, <1>13, StepsNow DEF FlagInv

\* Nothing is handed over that the journal did not take; and unless it forgot a
\* signal by age, by a torn line or by a rotation, what is on its way to a
\* consumer was not handed to it before.
HandedInv ==
  /\ Ids(Lines(files)) \cup Ids(pending) \cup Ids(work.batch) \subseteq accepted
  /\ \A c \in Consumers : delivered[c] \subseteq accepted
  /\ used.ages = 0 => \A l \in Lines(files) : ~l.old
  /\ used.ages = 0 /\ used.torn = 0 =>
       /\ accepted \subseteq Ids(Lines(files)) \cup dropped
       /\ \A c \in Consumers : Ids(pending) \cap delivered[c] \subseteq dropped
       /\ ~work.replay => \A c \in Left : (work.applied => c # Consumer) =>
             Ids(work.batch) \cap delivered[c] \subseteq dropped

LEMMA IdsOfFewer ==
  /\ Ids({}) = {}
  /\ \A S, T : S \subseteq T => Ids(S) \subseteq Ids(T)
  /\ \A S, l : Ids(S \cup {l}) = Ids(S) \cup {l.id}
BY DEF Ids

LEMMA HandedStep ==
  ASSUME BaseInv, HostInv, OrderInv, HandedInv, [Next]_vars
  PROVE  HandedInv'
<1>1. /\ Lines(files) \in SUBSET Line
      /\ Ids(Lines(files)) \cup Ids(pending) \cup Ids(work.batch) \subseteq accepted
      /\ \A c \in Consumers : delivered[c] \subseteq accepted
      /\ used.ages = 0 => \A l \in Lines(files) : ~l.old
      /\ Left \subseteq Consumers
  <2>1. Left \subseteq Consumers
    BY RestsFacts DEF HostInv, Left, Rests, Consumers, Range, ConsumerOrder
  <2> QED BY <2>1, LinesType DEF HandedInv
<1>2. ASSUME used.ages = 0, used.torn = 0
      PROVE  /\ accepted \subseteq Ids(Lines(files)) \cup dropped
             /\ \A c \in Consumers : Ids(pending) \cap delivered[c] \subseteq dropped
             /\ ~work.replay => \A c \in Left : (work.applied => c # Consumer) =>
                   Ids(work.batch) \cap delivered[c] \subseteq dropped
  BY <1>2 DEF HandedInv
<1>3. CASE Quiet
  BY <1>1, <1>2, <1>3 DEF Quiet, Counted, HandedInv, Left, Consumer
<1>4. ASSUME NEW sig, Emitting(sig)
      PROVE  HandedInv'
  <2>1. /\ pending' = pending \cup {sig} /\ accepted' = accepted \cup {sig.id} /\ work' = NoWork
        /\ Lines(files') \subseteq Lines(files) \cup {sig} /\ ~sig.old /\ Drops
        /\ delivered' = delivered /\ used' = used /\ (used.torn = 0 => sig \in Lines(files'))
        /\ \A l \in Lines(files) : l.id # sig.id
    BY <1>4 DEF Emitting
  <2>2. /\ Ids(pending') = Ids(pending) \cup {sig.id}
        /\ Ids(Lines(files')) \subseteq Ids(Lines(files)) \cup {sig.id}
        /\ Ids(work'.batch) = {} /\ Left' = {}
        /\ used.torn = 0 => sig.id \in Ids(Lines(files'))
        /\ sig.id \notin Ids(Lines(files))
    <3>1. work'.batch = {} /\ work'.todo = <<>>
      BY <2>1 DEF NoWork
    <3> QED BY <2>1, <3>1, RestsFacts DEF Ids, Left
  <2>3. ASSUME used.ages = 0, used.torn = 0
        PROVE  /\ accepted' \subseteq Ids(Lines(files')) \cup dropped'
               /\ \A c \in Consumers : Ids(pending') \cap delivered'[c] \subseteq dropped'
    <3>1. dropped \subseteq dropped'
      BY <2>1 DEF Drops
    <3> QED BY <1>1, <1>2, <2>1, <2>2, <2>3, <3>1, DropsKept
  <2> QED BY <1>1, <2>1, <2>2, <2>3 DEF HandedInv
<1>5. CASE Flushing
  <2>1. /\ work'.batch = pending /\ pending' = {} /\ Left' = Consumers /\ ~work'.applied
        /\ UNCHANGED <<files, accepted, delivered, dropped, used>>
    BY <1>5 DEF Flushing
  <2> QED BY <1>1, <1>2, <2>1, IdsOfFewer DEF HandedInv
<1>6. CASE Handing
  <2>1. /\ Counted /\ Drops /\ accepted' = accepted /\ pending' = pending /\ pending = {}
        /\ work'.batch = work.batch /\ work'.replay = work.replay /\ work'.applied
        /\ ~work.applied /\ Left' = Left /\ Consumer' = Consumer
        /\ Lines(files') \subseteq Lines(files)
        /\ \A c \in Consumers : delivered'[c] =
             IF c = Consumer THEN delivered[c] \cup Ids(Batch) ELSE delivered[c]
    BY <1>6, HandingFacts DEF Handing, Keeps
  <2>2. Ids(Batch) \subseteq Ids(work.batch) /\ Ids(Lines(files')) \subseteq Ids(Lines(files))
    BY <2>1, IdsOfFewer DEF Batch
  <2>3. /\ Ids(Lines(files')) \cup Ids(pending') \cup Ids(work'.batch) \subseteq accepted'
        /\ \A c \in Consumers : delivered'[c] \subseteq accepted'
        /\ used'.ages = 0 => \A l \in Lines(files') : ~l.old
    BY <1>1, <2>1, <2>2 DEF Counted
  <2>4. ASSUME used'.ages = 0, used'.torn = 0
        PROVE  /\ accepted' \subseteq Ids(Lines(files')) \cup dropped'
               /\ \A c \in Consumers : Ids(pending') \cap delivered'[c] \subseteq dropped'
               /\ ~work'.replay => \A c \in Left' : (work'.applied => c # Consumer') =>
                     Ids(work'.batch) \cap delivered'[c] \subseteq dropped'
    <3>1. used.ages = 0 /\ used.torn = 0 /\ dropped \subseteq dropped'
      BY <2>1, <2>4 DEF Counted, Drops
    <3>2. accepted' \subseteq Ids(Lines(files')) \cup dropped'
      BY <1>2, <2>1, <3>1, DropsKept
    <3>3. \A c \in Consumers : Ids(pending') \cap delivered'[c] \subseteq dropped'
      BY <2>1, IdsOfFewer
    <3>4. ASSUME ~work'.replay, NEW c \in Left', c # Consumer'
          PROVE  Ids(work'.batch) \cap delivered'[c] \subseteq dropped'
      BY <1>1, <1>2, <2>1, <3>1, <3>4
    <3> QED BY <2>1, <3>2, <3>3, <3>4
  <2> QED BY <2>3, <2>4 DEF HandedInv
<1>7. CASE Saving
  <2>1. /\ UNCHANGED <<files, pending, accepted, delivered, dropped, used>>
        /\ Left = {Consumer} \cup Left' /\ Consumer \notin Left' /\ ~work'.applied /\ work.applied
        /\ work'.batch = work.batch \/ work'.batch = {}
    BY <1>7 DEF Saving, NoWork
  <2>2. ASSUME NEW c \in Left'
        PROVE  work'.batch = work.batch /\ work'.replay = work.replay
    BY <1>7, <2>2, RestsFacts DEF Saving, Left, NoWork
  <2> QED BY <1>1, <1>2, <2>1, <2>2, IdsOfFewer DEF HandedInv
<1>8. CASE Age
  <2>1. /\ Lines(files') = Aged(Lines(files)) /\ used'.ages # 0
        /\ UNCHANGED <<pending, work, accepted, delivered>>
    BY <1>8, RetentionFacts DEF Retaining
  <2>2. \A l \in Lines(files') : \E m \in Lines(files) : l.id = m.id
    BY <1>1, <2>1, AgedLines
  <2>3. Ids(Lines(files')) \subseteq Ids(Lines(files))
    BY <2>2 DEF Ids
  <2> QED BY <1>1, <2>1, <2>3 DEF HandedInv
<1>9. CASE PruneOnce
  <2>1. /\ Lines(files') \subseteq Lines(files) /\ Counted
        /\ UNCHANGED <<pending, work, accepted, delivered>>
        /\ \E l \in Lines(files) : l.old
    BY <1>9, RetentionFacts DEF Retaining
  <2>2. used'.ages # 0
    BY <1>1, <2>1 DEF Counted
  <2> QED BY <1>1, <2>1, <2>2, IdsOfFewer DEF HandedInv
<1>10. CASE Death
  <2>1. /\ Lines(files') \subseteq Lines(files) /\ Counted /\ Drops
        /\ pending' = {} /\ work' = NoWork /\ UNCHANGED <<accepted, delivered>>
    BY <1>10 DEF Death, Keeps
  <2>2. work'.batch = {} /\ Left' = {}
    BY <2>1, RestsFacts DEF NoWork, Left
  <2>3. Ids(Lines(files')) \subseteq Ids(Lines(files)) /\ Ids(pending') = {} /\ Ids(work'.batch) = {}
    BY <2>1, <2>2, IdsOfFewer
  <2>4. used'.ages = 0 /\ used'.torn = 0 => accepted' \subseteq Ids(Lines(files')) \cup dropped'
    BY <1>2, <2>1, DropsKept DEF Counted
  <2>5. used'.ages = 0 => \A l \in Lines(files') : ~l.old
    BY <1>1, <2>1 DEF Counted
  <2> QED BY <1>1, <2>1, <2>2, <2>3, <2>4, <2>5 DEF HandedInv
<1>11. CASE Activating
  <2>1. /\ UNCHANGED <<files, pending, accepted, delivered, dropped, used>>
        /\ work = NoWork /\ pending = {}
    BY <1>11 DEF Activating
  <2>2. CASE work' = NoWork
    BY <1>1, <1>2, <2>1, <2>2 DEF HandedInv, Left, Consumer
  <2>3. CASE work' # NoWork
    <3>1. work'.batch = Backlog /\ work'.replay
      BY <1>11, <2>1, <2>3 DEF Activating
    <3>2. Ids(work'.batch) \subseteq Ids(Lines(files))
      BY <3>1, BacklogType, IdsOfFewer
    <3> QED BY <1>1, <1>2, <2>1, <3>1, <3>2 DEF HandedInv
  <2> QED BY <2>2, <2>3
<1> QED BY <1>3, <1>4, <1>5, <1>6, <1>7, <1>8, <1>9, <1>10, <1>11, StepsNow

----------------------------------------------------------------------------
(* Theorems *)

IInv ==
  /\ BaseInv /\ HostInv /\ OrderInv /\ CursorInv /\ PastInv /\ YoungInv
  /\ DeliveryInv /\ MemoryInv /\ FlagInv /\ HandedInv

LEMMA InitIInv == Init => IInv
<1> SUFFICES ASSUME Init PROVE IInv
  OBVIOUS
<1>1. /\ BaseInv /\ Lines(files) = {} /\ InOrder(files) /\ files.torn = FALSE
  BY InitBase DEF Init, NoFiles, Lines, InOrder
<1>2. /\ pending = {} /\ work = NoWork /\ work.todo = <<>> /\ work.batch = {}
      /\ work.last = 0 /\ work.replay = FALSE /\ work.applied = FALSE /\ accepted = {}
      /\ \A c \in Consumers : cursors[c] = 0 /\ delivered[c] = {}
      /\ up = TRUE /\ mode = "act" /\ used.modes = 0 /\ used.offs = 0
  BY DEF Init, NoWork
<1>3. HostInv
  BY <1>1, <1>2, RestsFacts DEF HostInv
<1>4. OrderInv /\ CursorInv /\ PastInv /\ YoungInv
  BY <1>1, <1>2 DEF OrderInv, CursorInv, PastInv, YoungInv, Reaches
<1>5. DeliveryInv /\ MemoryInv /\ FlagInv
  BY <1>1, <1>2 DEF DeliveryInv, MemoryInv, FlagInv
<1>6. HandedInv
  BY <1>1, <1>2, IdsOfFewer, RestsFacts DEF HandedInv, Left
<1> QED BY <1>1, <1>3, <1>4, <1>5, <1>6 DEF IInv

LEMMA StepIInv == IInv /\ [Next]_vars => IInv'
<1> SUFFICES ASSUME IInv, [Next]_vars PROVE IInv'
  OBVIOUS
<1> USE DEF IInv
<1>1. BaseInv'
  BY KindsOfSteps, KnownStep DEF BaseInv
<1> QED BY <1>1, HostStep, OrderStep, CursorStep, PastStep, YoungStep, DeliveryStep,
           MemoryStep, FlagStep, HandedStep

LEMMA IInvHolds == Spec => []IInv
BY InitIInv, StepIInv, PTL DEF Spec

\* Signals are numbered in the order they are told and each fact is told once:
\* the lines of the journal, through rotations, prunes, torn lines and restarts,
\* name every number and every fact once (SignalJournal.append, _load, _rotate).
THEOREM NumberedOnce ==
  Spec => [](\A l, m \in Lines(files) : l.seq = m.seq \/ l.id = m.id => l = m)
<1>1. IInv => \A l, m \in Lines(files) : l.seq = m.seq \/ l.id = m.id => l = m
  BY DEF IInv, OrderInv
<1> QED BY <1>1, IInvHolds, PTL

\* No signal is skipped (NothingSkipped): what SignalJournal.append returned
\* reaches every consumer that listens for its kind, or is still to.
THEOREM SignalsNothingSkipped == Spec => []NothingSkipped
<1>1. ASSUME IInv PROVE NothingSkipped
  <2>1. SUFFICES ASSUME used.offs = 0, Sound, NEW id \in accepted, NEW c \in Consumers,
                        ListensFor(c, id)
                 PROVE  \/ id \in delivered[c] \/ id \in Ids(pending)
                        \/ c \in Range(work.todo) /\ id \in Ids(work.batch)
                        \/ Replayable(c, id) \/ Outlived(id)
    BY DEF NothingSkipped, NothingIsSkipped, Sound, ListensFor
  <2>2. CASE used.crashes = 0
    BY <1>1, <2>1, <2>2 DEF IInv, MemoryInv, Left
  <2>3. CASE used.crashes # 0
    <3>1. /\ \A l \in Lines(files) : l.seq <= cursors[c] => Got(c, l)
          /\ \/ id \in Ids(Lines(files)) \cup dropped
             \/ ListensFor(c, id) => id \in delivered[c]
      BY <1>1, <2>1 DEF IInv, DeliveryInv
    <3>2. CASE id \in Ids(Lines(files))
      <4>1. PICK l \in Lines(files) : l.id = id
        BY <3>2 DEF Ids
      <4>2. CASE l.seq > cursors[c]
        BY <4>1, <4>2 DEF Replayable
      <4>3. CASE ~(l.seq > cursors[c])
        <5>1. l.seq \in Nat /\ cursors[c] \in Nat
          BY <1>1, <2>1, LinesType DEF IInv, BaseInv, TypeOK
        <5> QED BY <2>1, <3>1, <4>1, <4>3, <5>1 DEF Got
      <4> QED BY <4>2, <4>3
    <3>3. CASE id \in dropped
      <4>1. used.crashes \in Nat
        BY <1>1 DEF IInv, BaseInv, TypeOK, Counters
      <4> QED BY <2>3, <3>3, <4>1 DEF Outlived
    <3> QED BY <2>1, <3>1, <3>2, <3>3
  <2> QED BY <2>2, <2>3
<1> QED BY <1>1, IInvHolds, PTL

\* The cursor of the consumer that flags a loop never passes a signal that should
\* have flagged it and did not (FlagBeforeCursor; service.ts: effects first, then
\* the cursor).
THEOREM SignalsFlagBeforeCursor == Spec => []FlagBeforeCursor
<1>1. IInv => FlagBeforeCursor
  BY DEF IInv, FlagInv, FlagBeforeCursor, Sound, Owed
<1> QED BY <1>1, IInvHolds, PTL

\* A consumer is handed a signal again by a replay only, unless the journal forgot
\* it (HandedAgainOnlyByReplay; SignalJournal.has, _replayBacklog).
THEOREM SignalsHandedAgainOnlyByReplay == Spec => HandedAgainOnlyByReplay
<1>1. ASSUME IInv, [Next]_vars, used.ages = 0, used.torn = 0, Handed
      PROVE  work.replay \/ Ids(Batch) \cap delivered[Consumer] \subseteq dropped
  <2>1. ~work.applied /\ work'.applied
    BY <1>1 DEF Handed
  <2>2. work.todo # <<>> /\ Consumer \in Left
    <3>1. CASE Handing
      <4>1. Range(work.todo) = {Head(work.todo)} \cup Range(Tail(work.todo)) /\ work.todo # <<>>
        BY <1>1, <3>1, RestsFacts DEF IInv, HostInv, Handing
      <4> QED BY <4>1 DEF Left, Consumer
    <3>2. CASE ~Handing
      <4>1. ~work'.applied
        <5>1. CASE Activating
          <6>1. work' = work \/ work' = NoWork \/ ~work'.applied
            BY <5>1 DEF Activating
          <6> QED BY <2>1, <6>1 DEF NoWork
        <5>2. CASE ~Activating
          <6>1. \/ Quiet \/ (\E sig : Emitting(sig)) \/ Flushing \/ Saving
                \/ Retaining \/ Death
            BY <1>1, <3>2, <5>2, StepsNow, RetentionFacts DEF IInv
          <6> QED BY <2>1, <6>1 DEF Quiet, Emitting, Flushing, Saving, Retaining, Death, NoWork
        <5> QED BY <5>1, <5>2
      <4> QED BY <2>1, <4>1
    <3> QED BY <3>1, <3>2
  <2>3. ~work.replay => Ids(work.batch) \cap delivered[Consumer] \subseteq dropped
    BY <1>1, <2>1, <2>2 DEF IInv, HandedInv
  <2>4. Ids(Batch) \subseteq Ids(work.batch)
    BY IdsOfFewer DEF Batch
  <2> QED BY <2>3, <2>4
<1>2. IInv /\ [Next]_vars =>
        [used.ages = 0 /\ used.torn = 0 /\ Handed =>
           work.replay \/ Ids(Batch) \cap delivered[Consumer] \subseteq dropped]_vars
  BY <1>1
<1> QED BY <1>2, IInvHolds, PTL DEF Spec, HandedAgainOnlyByReplay

============================================================================
