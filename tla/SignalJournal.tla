--------------------------- MODULE SignalJournal ---------------------------
(***************************************************************************)
(* The signal journal on disk (src/orchestration/signals/journal.ts): the  *)
(* file being appended to and the one before it, and what a host learns    *)
(* from them when it first touches the journal.                            *)
(*                                                                         *)
(* The size of a file is counted in signals.  Reconciliation records share *)
(* the files and nothing reads them back, so they appear only where they   *)
(* matter: a record rotates a full file and ends a line that was left torn. *)
(*                                                                         *)
(* A file is the set of the signals that can be read from it: whoever      *)
(* reads one sorts by seq or takes the greatest, never the last line.      *)
(*                                                                         *)
(* A definition marked "mistake" is no part of the model, see LoopRecords. *)
(***************************************************************************)
EXTENDS Naturals, Sequences, FiniteSets, SequencesExt

CONSTANT Capacity            \* signals in a file before it is rotated out

ASSUME CapacityAssumption == Capacity \in Nat \ {0}

\* id stands for the fact the signal tells; old: beyond the retention period.
Line == [id : Nat, seq : Nat, old : BOOLEAN]

\* torn: the current file ends in part of a line.
Files == [previous : SUBSET Line, current : SUBSET Line, torn : BOOLEAN]

\* What SignalJournal keeps in memory once it has loaded.
Memory == [loaded : BOOLEAN, seq : Nat, seen : SUBSET Nat]

NoFiles   == [previous |-> {}, current |-> {}, torn |-> FALSE]
NotLoaded == [loaded |-> FALSE, seq |-> 0, seen |-> {}]

Ids(lines) == {l.id : l \in lines}
LastSeq(lines) == Max({l.seq : l \in lines} \cup {0})

\* The lines a reader can make out: a torn one is skipped.
Lines(files) == files.previous \cup files.current

\* mistake: a new host forgets which facts it has told.
LoadSeqOnly(files) == [loaded |-> TRUE, seq |-> LastSeq(Lines(files)), seen |-> {}]

\* _load: once per host, at the first use.
Load(files) == [loaded |-> TRUE, seq |-> LastSeq(Lines(files)), seen |-> Ids(Lines(files))]

\* The current file becomes the previous one, which is dropped.
Rotate(files) ==
  IF Cardinality(files.current) < Capacity THEN files
  ELSE [previous |-> files.current, current |-> {}, torn |-> FALSE]

\* The older file is removed before the other one takes its name.
HalfRotated(files) ==
  IF Cardinality(files.current) < Capacity THEN files ELSE [files EXCEPT !.previous = {}]

\* _write.  After a torn line the new one continues it: neither can be read.
Write(files, line) ==
  LET rotated == Rotate(files)
  IN  IF rotated.torn THEN [rotated EXCEPT !.torn = FALSE]
      ELSE [rotated EXCEPT !.current = @ \cup {line}]

\* _write of a reconciliation record, which ends a torn line.
WriteRecord(files) == [Rotate(files) EXCEPT !.torn = FALSE]

SignalsAfter(files, seq) == {l \in Lines(files) : l.seq > seq}

\* prune: each file is rewritten without its old lines, or removed.
Young(lines) == {l \in lines : ~l.old}
Prune(files) ==
  [previous |-> Young(files.previous), current |-> Young(files.current),
   torn |-> files.torn /\ Young(files.current) = files.current]

\* Thirty days pass.
Aged(lines) == {[l EXCEPT !.old = TRUE] : l \in lines}

============================================================================
