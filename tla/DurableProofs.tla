----------------------------- MODULE DurableProofs -----------------------------
(***************************************************************************)
(* Proofs about DurableFile, for every number of hosts, edits, retries,    *)
(* deaths, damages and deletions.                                          *)
(*                                                                         *)
(* Invariant is inductive.  Three things make it so: a temporary file that *)
(* may be renamed is complete; what is owed is in the document every host  *)
(* that is saving will put in place; and while saves are tidy one host at  *)
(* most is saving, and once its copy is done the backup is the document    *)
(* that its rename replaces.                                               *)
(***************************************************************************)
EXTENDS DurableFile, TLAPS

\* A temporary file that may be renamed is complete, and an idle host writes nothing.
Complete ==
  \A h \in Hosts :
    /\ step[h] \in {"written", "copying", "copied"} => temporary[h] = Whole(content[h])
    /\ step[h] \in {"down", "idle"} => content[h] = {}

\* Whatever a file holds was once put in place.
FromPast ==
  /\ primary.state = "whole" => primary.doc \in past /\ primary.doc = latest
  /\ backup.state = "whole" => backup.doc \in past
  /\ \A h \in Hosts : copied[h].state = "whole" => copied[h].doc \in past

\* What is owed is in the file, and in every document that may replace it.
OwedSafe ==
  /\ primary.state # "whole" => owed = {}
  /\ owed \subseteq latest
  /\ \A h \in Hosts : step[h] \in Saving => owed \subseteq content[h]

\* What a reader falls back to when the primary does not parse.
FallsBackTo == IF backup.state = "whole" THEN backup.doc ELSE {}

\* While saves are tidy: one save at a time, whose finished copy is the document in place.
Tidy ==
  /\ \A g, h \in Hosts : step[g] \in Saving /\ step[h] \in Saving => g = h
  /\ primary.state = "absent" => latest = {} /\ FallsBackTo = {}
  /\ \A h \in Hosts : step[h] = "copying" => copied[h] = Whole(latest)
  /\ \A h \in Hosts : step[h] = "copied" => FallsBackTo = latest
  /\ (\A h \in Hosts : step[h] # "copying") => FallsBackTo \in {latest, previous}

Invariant == TypeOK /\ Complete /\ FromPast /\ OwedSafe

Actions(h) ==
  \/ Activate(h) \/ Mutate(h)
  \/ OpenTemporary(h) \/ WriteTemporary(h) \/ WriteFails(h)
  \/ CopyBegins(h) \/ CopyEnds(h) \/ CopyFails(h) \/ CopySkipped(h)
  \/ Rename(h) \/ RenameBusy(h) \/ RenameFails(h)
  \/ Crash(h)

TidyInvariant == (tidy /\ KeepsBackup) => Tidy

-----------------------------------------------------------------------------

LEMMA ReadingTyped ==
  ASSUME NEW p \in File, NEW b \in File
  PROVE  /\ Reading(p, b) \in File
         /\ p.state = "whole" => Reading(p, b) = p
         /\ p.state = "absent" => Reading(p, b) = Absent
         /\ p.state = "torn" /\ b.state = "whole" => Reading(p, b) = b
         /\ p.state = "torn" /\ b.state # "whole" => Reading(p, b) = Absent
  BY DEF Reading, File, Absent, Document

LEMMA FilesTyped ==
  /\ Absent \in File /\ Torn \in File
  /\ \A d \in Document : Whole(d) \in File /\ Whole(d).state = "whole" /\ Whole(d).doc = d
  /\ Absent.state = "absent" /\ Absent.doc = {} /\ Torn.state = "torn" /\ Torn.doc = {}
  /\ \A f \in File : f.doc \in Document
  /\ \A f \in File : f = Absent <=> f.state = "absent"
  /\ \A f \in File : f.state = "whole" => f = Whole(f.doc)
<1>1. \A f \in File : f.state = "whole" => f \in [state : {"whole"}, doc : Document]
  BY DEF File
<1>2. \A f \in [state : {"whole"}, doc : Document] : f = [state |-> "whole", doc |-> f.doc]
  OBVIOUS
<1>3. \A f \in File : f.state = "whole" => f = Whole(f.doc)
  BY <1>1, <1>2 DEF Whole
<1>4. \A f \in File : f = Absent <=> f.state = "absent"
  BY DEF Absent, File, Document
<1>5. /\ Absent \in File /\ Torn \in File
      /\ \A d \in Document : Whole(d) \in File /\ Whole(d).state = "whole" /\ Whole(d).doc = d
  BY DEF Absent, Torn, Whole, File, Document
<1>6. \A f \in File : f.doc \in Document
  BY DEF File, Document
<1>7. Absent.state = "absent" /\ Absent.doc = {} /\ Torn.state = "torn" /\ Torn.doc = {}
  BY DEF Absent, Torn
<1> QED
  BY <1>3, <1>4, <1>5, <1>6, <1>7

\* Counting one more within a bound.
LEMMA Counted ==
  ASSUME DurableAssumption, count \in [crashes : 0..MaxCrashes, damages : 0..MaxDamages,
                                        deletes : 0..MaxDeletes]
  PROVE  /\ count.crashes < MaxCrashes =>
            [count EXCEPT !.crashes = @ + 1] \in
              [crashes : 0..MaxCrashes, damages : 0..MaxDamages, deletes : 0..MaxDeletes]
         /\ count.damages < MaxDamages =>
            [count EXCEPT !.damages = @ + 1] \in
              [crashes : 0..MaxCrashes, damages : 0..MaxDamages, deletes : 0..MaxDeletes]
         /\ count.deletes < MaxDeletes =>
            [count EXCEPT !.deletes = @ + 1] \in
              [crashes : 0..MaxCrashes, damages : 0..MaxDamages, deletes : 0..MaxDeletes]
  BY DEF DurableAssumption

LEMMA TypeStep ==
  TypeOK /\ DurableAssumption /\ Next => TypeOK'
<1> SUFFICES ASSUME TypeOK, DurableAssumption, Next
             PROVE  TypeOK'
  OBVIOUS
<1> USE FilesTyped DEF disk, history, Goto, DurableAssumption, Steps, Document, File, Whole,
          Absent, Torn, DelayLeft, BackupDue, Missing, Changed, Read, Reading, Edits
<1>1. ASSUME NEW h \in Hosts, Activate(h) PROVE TypeOK'
  BY <1>1 DEF Activate, TypeOK
<1>2. ASSUME NEW h \in Hosts, Mutate(h) PROVE TypeOK'
  BY <1>2 DEF Mutate, TypeOK
<1>3. ASSUME NEW h \in Hosts, OpenTemporary(h) PROVE TypeOK'
  BY <1>3 DEF OpenTemporary, TypeOK
<1>4. ASSUME NEW h \in Hosts, WriteTemporary(h) PROVE TypeOK'
  BY <1>4 DEF WriteTemporary, TypeOK
<1>5. ASSUME NEW h \in Hosts, WriteFails(h) PROVE TypeOK'
  BY <1>5 DEF WriteFails, TypeOK
<1>6. ASSUME NEW h \in Hosts, CopyBegins(h) PROVE TypeOK'
  BY <1>6 DEF CopyBegins, TypeOK
<1>7. ASSUME NEW h \in Hosts, CopyEnds(h) PROVE TypeOK'
  BY <1>7 DEF CopyEnds, TypeOK
<1>8. ASSUME NEW h \in Hosts, CopyFails(h) PROVE TypeOK'
  BY <1>8 DEF CopyFails, TypeOK
<1>9. ASSUME NEW h \in Hosts, CopySkipped(h) PROVE TypeOK'
  BY <1>9 DEF CopySkipped, TypeOK
<1>10. ASSUME NEW h \in Hosts, Rename(h) PROVE TypeOK'
  <2>1. content[h] \in Document /\ owed \in Document /\ past \subseteq Document
    BY DEF TypeOK
  <2>4. owed' \in Document
    BY <1>10, <2>1 DEF Rename
  <2>5. past' \subseteq Document
    BY <1>10, <2>1 DEF Rename
  <2>2. temporary[h] \in File /\ temporary' \in [Hosts -> File] /\ content' \in [Hosts -> Document]
    BY <1>10 DEF Rename, TypeOK
  <2>3. retries' \in [Hosts -> 0..MaxRetries] /\ step' \in [Hosts -> Steps]
    BY <1>10 DEF Rename, TypeOK
  <2> QED
    BY <1>10, <2>1, <2>2, <2>3, <2>4, <2>5 DEF Rename, TypeOK
<1>11. ASSUME NEW h \in Hosts, RenameBusy(h) PROVE TypeOK'
  BY <1>11 DEF RenameBusy, TypeOK
<1>12. ASSUME NEW h \in Hosts, RenameFails(h) PROVE TypeOK'
  BY <1>12 DEF RenameFails, TypeOK
<1>13. ASSUME NEW h \in Hosts, Crash(h) PROVE TypeOK'
  BY <1>13, Counted DEF Crash, TypeOK
<1>14. ASSUME Damage PROVE TypeOK'
  BY <1>14, Counted DEF Damage, TypeOK
<1>15. ASSUME UserDeletes PROVE TypeOK'
  BY <1>15, Counted DEF UserDeletes, TypeOK
<1> QED
  BY <1>1, <1>2, <1>3, <1>4, <1>5, <1>6, <1>7, <1>8,
     <1>9, <1>10, <1>11, <1>12, <1>13, <1>14, <1>15 DEF Next

LEMMA CompleteStep ==
  TypeOK /\ Complete /\ Next => Complete'
<1> SUFFICES ASSUME TypeOK, Complete, Next
             PROVE  Complete'
  OBVIOUS
<1> USE FilesTyped DEF disk, history, Goto, Missing
<1>1. ASSUME NEW h \in Hosts, Activate(h) PROVE Complete'
  BY <1>1 DEF Activate, TypeOK, Complete
<1>2. ASSUME NEW h \in Hosts, Mutate(h) PROVE Complete'
  BY <1>2 DEF Mutate, TypeOK, Complete
<1>3. ASSUME NEW h \in Hosts, OpenTemporary(h) PROVE Complete'
  BY <1>3 DEF OpenTemporary, TypeOK, Complete
<1>4. ASSUME NEW h \in Hosts, WriteTemporary(h) PROVE Complete'
  BY <1>4 DEF WriteTemporary, TypeOK, Complete
<1>5. ASSUME NEW h \in Hosts, WriteFails(h) PROVE Complete'
  BY <1>5 DEF WriteFails, TypeOK, Complete
<1>6. ASSUME NEW h \in Hosts, CopyBegins(h) PROVE Complete'
  BY <1>6 DEF CopyBegins, TypeOK, Complete
<1>7. ASSUME NEW h \in Hosts, CopyEnds(h) PROVE Complete'
  BY <1>7 DEF CopyEnds, TypeOK, Complete
<1>8. ASSUME NEW h \in Hosts, CopyFails(h) PROVE Complete'
  BY <1>8 DEF CopyFails, TypeOK, Complete
<1>9. ASSUME NEW h \in Hosts, CopySkipped(h) PROVE Complete'
  BY <1>9 DEF CopySkipped, TypeOK, Complete
<1>10. ASSUME NEW h \in Hosts, Rename(h) PROVE Complete'
  BY <1>10 DEF Rename, TypeOK, Complete
<1>11. ASSUME NEW h \in Hosts, RenameBusy(h) PROVE Complete'
  BY <1>11 DEF RenameBusy, TypeOK, Complete
<1>12. ASSUME NEW h \in Hosts, RenameFails(h) PROVE Complete'
  BY <1>12 DEF RenameFails, TypeOK, Complete
<1>13. ASSUME NEW h \in Hosts, Crash(h) PROVE Complete'
  BY <1>13 DEF Crash, TypeOK, Complete
<1>14. ASSUME Damage PROVE Complete'
  BY <1>14 DEF Damage, TypeOK, Complete
<1>15. ASSUME UserDeletes PROVE Complete'
  BY <1>15 DEF UserDeletes, TypeOK, Complete
<1> QED
  BY <1>1, <1>2, <1>3, <1>4, <1>5, <1>6, <1>7, <1>8,
     <1>9, <1>10, <1>11, <1>12, <1>13, <1>14, <1>15 DEF Next

LEMMA PastStep ==
  TypeOK /\ Complete /\ FromPast /\ Next => FromPast'
<1> SUFFICES ASSUME TypeOK, Complete, FromPast, Next
             PROVE  FromPast'
  OBVIOUS
<1> USE FilesTyped DEF disk, history, Goto, Missing
<1>1. ASSUME NEW h \in Hosts, Activate(h) PROVE FromPast'
  BY <1>1 DEF Activate, TypeOK, Complete, FromPast
<1>2. ASSUME NEW h \in Hosts, Mutate(h) PROVE FromPast'
  BY <1>2 DEF Mutate, TypeOK, Complete, FromPast
<1>3. ASSUME NEW h \in Hosts, OpenTemporary(h) PROVE FromPast'
  BY <1>3 DEF OpenTemporary, TypeOK, Complete, FromPast
<1>4. ASSUME NEW h \in Hosts, WriteTemporary(h) PROVE FromPast'
  BY <1>4 DEF WriteTemporary, TypeOK, Complete, FromPast
<1>5. ASSUME NEW h \in Hosts, WriteFails(h) PROVE FromPast'
  BY <1>5 DEF WriteFails, TypeOK, Complete, FromPast
<1>6. ASSUME NEW h \in Hosts, CopyBegins(h) PROVE FromPast'
  BY <1>6 DEF CopyBegins, TypeOK, Complete, FromPast
<1>7. ASSUME NEW h \in Hosts, CopyEnds(h) PROVE FromPast'
  BY <1>7 DEF CopyEnds, TypeOK, Complete, FromPast
<1>8. ASSUME NEW h \in Hosts, CopyFails(h) PROVE FromPast'
  BY <1>8 DEF CopyFails, TypeOK, Complete, FromPast
<1>9. ASSUME NEW h \in Hosts, CopySkipped(h) PROVE FromPast'
  BY <1>9 DEF CopySkipped, TypeOK, Complete, FromPast
<1>10. ASSUME NEW h \in Hosts, Rename(h) PROVE FromPast'
  BY <1>10 DEF Rename, TypeOK, Complete, FromPast
<1>11. ASSUME NEW h \in Hosts, RenameBusy(h) PROVE FromPast'
  BY <1>11 DEF RenameBusy, TypeOK, Complete, FromPast
<1>12. ASSUME NEW h \in Hosts, RenameFails(h) PROVE FromPast'
  BY <1>12 DEF RenameFails, TypeOK, Complete, FromPast
<1>13. ASSUME NEW h \in Hosts, Crash(h) PROVE FromPast'
  BY <1>13 DEF Crash, TypeOK, Complete, FromPast
<1>14. ASSUME Damage PROVE FromPast'
  BY <1>14 DEF Damage, TypeOK, Complete, FromPast
<1>15. ASSUME UserDeletes PROVE FromPast'
  BY <1>15 DEF UserDeletes, TypeOK, Complete, FromPast
<1> QED
  BY <1>1, <1>2, <1>3, <1>4, <1>5, <1>6, <1>7, <1>8,
     <1>9, <1>10, <1>11, <1>12, <1>13, <1>14, <1>15 DEF Next

LEMMA OwedStep ==
  TypeOK /\ Complete /\ FromPast /\ OwedSafe /\ Next => OwedSafe'
<1> SUFFICES ASSUME TypeOK, Complete, FromPast, OwedSafe, Next
             PROVE  OwedSafe'
  OBVIOUS
<1> USE FilesTyped DEF disk, history, Goto, Missing
<1>1. ASSUME NEW h \in Hosts, Activate(h) PROVE OwedSafe'
  BY <1>1 DEF Activate, TypeOK, Complete, FromPast, OwedSafe, OthersSaving, Saving
<1>2. ASSUME NEW h \in Hosts, Mutate(h) PROVE OwedSafe'
  BY <1>2, ReadingTyped DEF Mutate, TypeOK, Complete, FromPast, OwedSafe, OthersSaving, Saving, Changed, Read
<1>3. ASSUME NEW h \in Hosts, OpenTemporary(h) PROVE OwedSafe'
  BY <1>3 DEF OpenTemporary, TypeOK, Complete, FromPast, OwedSafe, OthersSaving, Saving
<1>4. ASSUME NEW h \in Hosts, WriteTemporary(h) PROVE OwedSafe'
  BY <1>4 DEF WriteTemporary, TypeOK, Complete, FromPast, OwedSafe, OthersSaving, Saving
<1>5. ASSUME NEW h \in Hosts, WriteFails(h) PROVE OwedSafe'
  BY <1>5 DEF WriteFails, TypeOK, Complete, FromPast, OwedSafe, OthersSaving, Saving
<1>6. ASSUME NEW h \in Hosts, CopyBegins(h) PROVE OwedSafe'
  BY <1>6 DEF CopyBegins, TypeOK, Complete, FromPast, OwedSafe, OthersSaving, Saving
<1>7. ASSUME NEW h \in Hosts, CopyEnds(h) PROVE OwedSafe'
  BY <1>7 DEF CopyEnds, TypeOK, Complete, FromPast, OwedSafe, OthersSaving, Saving
<1>8. ASSUME NEW h \in Hosts, CopyFails(h) PROVE OwedSafe'
  BY <1>8 DEF CopyFails, TypeOK, Complete, FromPast, OwedSafe, OthersSaving, Saving
<1>9. ASSUME NEW h \in Hosts, CopySkipped(h) PROVE OwedSafe'
  BY <1>9 DEF CopySkipped, TypeOK, Complete, FromPast, OwedSafe, OthersSaving, Saving
<1>10. ASSUME NEW h \in Hosts, Rename(h) PROVE OwedSafe'
  BY <1>10 DEF Rename, TypeOK, Complete, FromPast, OwedSafe, OthersSaving, Saving
<1>11. ASSUME NEW h \in Hosts, RenameBusy(h) PROVE OwedSafe'
  BY <1>11 DEF RenameBusy, TypeOK, Complete, FromPast, OwedSafe, OthersSaving, Saving
<1>12. ASSUME NEW h \in Hosts, RenameFails(h) PROVE OwedSafe'
  BY <1>12 DEF RenameFails, TypeOK, Complete, FromPast, OwedSafe, OthersSaving, Saving
<1>13. ASSUME NEW h \in Hosts, Crash(h) PROVE OwedSafe'
  BY <1>13 DEF Crash, TypeOK, Complete, FromPast, OwedSafe, OthersSaving, Saving
<1>14. ASSUME Damage PROVE OwedSafe'
  BY <1>14 DEF Damage, TypeOK, Complete, FromPast, OwedSafe, OthersSaving, Saving
<1>15. ASSUME UserDeletes PROVE OwedSafe'
  BY <1>15 DEF UserDeletes, TypeOK, Complete, FromPast, OwedSafe, OthersSaving, Saving
<1> QED
  BY <1>1, <1>2, <1>3, <1>4, <1>5, <1>6, <1>7, <1>8,
     <1>9, <1>10, <1>11, <1>12, <1>13, <1>14, <1>15 DEF Next

LEMMA TidyStep ==
  Invariant /\ TidyInvariant /\ Next => TidyInvariant'
<1> SUFFICES ASSUME Invariant, TidyInvariant, Next
             PROVE  TidyInvariant'
  OBVIOUS
<1> USE FilesTyped DEF disk, history, Goto, Missing, Invariant, BackupDue
<1>1. ASSUME NEW h \in Hosts, Activate(h) PROVE TidyInvariant'
  <2> SUFFICES ASSUME tidy', KeepsBackup PROVE Tidy'
    BY DEF TidyInvariant
  <2>1. tidy /\ (Missing => ~OthersSaving(h))
    BY <1>1, Zenon DEF Activate
  <2>2. Tidy
    BY <2>1 DEF TidyInvariant
  <2>3. tidy' => UNCHANGED latest /\ UNCHANGED previous
    BY <1>1 DEF Activate
  <2> QED
    BY <1>1, <2>1, <2>2, <2>3 DEF Activate, TypeOK, Complete, FromPast, Tidy, FallsBackTo, OthersSaving, Saving
<1>2. ASSUME NEW h \in Hosts, Mutate(h) PROVE TidyInvariant'
  <2> SUFFICES ASSUME tidy', KeepsBackup PROVE Tidy'
    BY DEF TidyInvariant
  <2>1. tidy /\ (~OthersSaving(h))
    BY <1>2, Zenon DEF Mutate
  <2>2. Tidy
    BY <2>1 DEF TidyInvariant
  <2>3. tidy' => UNCHANGED latest /\ UNCHANGED previous
    BY <1>2 DEF Mutate
  <2> QED
    BY <1>2, <2>1, <2>2, <2>3 DEF Mutate, TypeOK, Complete, FromPast, Tidy, FallsBackTo, OthersSaving, Saving
<1>3. ASSUME NEW h \in Hosts, OpenTemporary(h) PROVE TidyInvariant'
  BY <1>3 DEF OpenTemporary, TypeOK, Complete, FromPast, TidyInvariant, Tidy, FallsBackTo, OthersSaving, Saving
<1>4. ASSUME NEW h \in Hosts, WriteTemporary(h) PROVE TidyInvariant'
  BY <1>4 DEF WriteTemporary, TypeOK, Complete, FromPast, TidyInvariant, Tidy, FallsBackTo, OthersSaving, Saving
<1>5. ASSUME NEW h \in Hosts, WriteFails(h) PROVE TidyInvariant'
  BY <1>5 DEF WriteFails, TypeOK, Complete, FromPast, TidyInvariant, Tidy, FallsBackTo, OthersSaving, Saving
<1>6. ASSUME NEW h \in Hosts, CopyBegins(h) PROVE TidyInvariant'
  <2> SUFFICES ASSUME tidy', KeepsBackup PROVE Tidy'
    BY DEF TidyInvariant
  <2>1. tidy /\ (primary.state = "whole")
    BY <1>6, Zenon DEF CopyBegins
  <2>2. Tidy
    BY <2>1 DEF TidyInvariant
  <2>3. tidy' => UNCHANGED latest /\ UNCHANGED previous
    BY <1>6 DEF CopyBegins
  <2> QED
    BY <1>6, <2>1, <2>2, <2>3 DEF CopyBegins, TypeOK, Complete, FromPast, Tidy, FallsBackTo, OthersSaving, Saving
<1>7. ASSUME NEW h \in Hosts, CopyEnds(h) PROVE TidyInvariant'
  BY <1>7 DEF CopyEnds, TypeOK, Complete, FromPast, TidyInvariant, Tidy, FallsBackTo, OthersSaving, Saving
<1>8. ASSUME NEW h \in Hosts, CopyFails(h) PROVE TidyInvariant'
  BY <1>8 DEF CopyFails, TypeOK, Complete, FromPast, TidyInvariant, Tidy, FallsBackTo, OthersSaving, Saving
<1>9. ASSUME NEW h \in Hosts, CopySkipped(h) PROVE TidyInvariant'
  <2> SUFFICES ASSUME tidy', KeepsBackup PROVE Tidy'
    BY DEF TidyInvariant
  <2>1. tidy /\ Tidy
    BY <1>9 DEF CopySkipped, TidyInvariant
  <2>2. primary.state = "absent"
    BY <1>9 DEF CopySkipped
  <2>3. FallsBackTo' = FallsBackTo /\ latest' = latest /\ previous' = previous
    BY <1>9 DEF CopySkipped, FallsBackTo
  <2>4. FallsBackTo = latest
    BY <2>1, <2>2 DEF Tidy
  <2> QED
    BY <1>9, <2>1, <2>2, <2>3, <2>4 DEF CopySkipped, TypeOK, Tidy, Saving
<1>10. ASSUME NEW h \in Hosts, Rename(h) PROVE TidyInvariant'
  BY <1>10 DEF Rename, TypeOK, Complete, FromPast, TidyInvariant, Tidy, FallsBackTo, OthersSaving, Saving
<1>11. ASSUME NEW h \in Hosts, RenameBusy(h) PROVE TidyInvariant'
  BY <1>11 DEF RenameBusy, TypeOK, Complete, FromPast, TidyInvariant, Tidy, FallsBackTo, OthersSaving, Saving
<1>12. ASSUME NEW h \in Hosts, RenameFails(h) PROVE TidyInvariant'
  BY <1>12 DEF RenameFails, TypeOK, Complete, FromPast, TidyInvariant, Tidy, FallsBackTo, OthersSaving, Saving
<1>13. ASSUME NEW h \in Hosts, Crash(h) PROVE TidyInvariant'
  <2> SUFFICES ASSUME tidy', KeepsBackup PROVE Tidy'
    BY DEF TidyInvariant
  <2>1. tidy /\ (step[h] # "copying")
    BY <1>13, Zenon DEF Crash
  <2>2. Tidy
    BY <2>1 DEF TidyInvariant
  <2>3. tidy' => UNCHANGED latest /\ UNCHANGED previous
    BY <1>13 DEF Crash
  <2> QED
    BY <1>13, <2>1, <2>2, <2>3 DEF Crash, TypeOK, Complete, FromPast, Tidy, FallsBackTo, OthersSaving, Saving
<1>14. ASSUME Damage PROVE TidyInvariant'
  BY <1>14 DEF Damage, TypeOK, Complete, FromPast, TidyInvariant, Tidy, FallsBackTo, OthersSaving, Saving
<1>15. ASSUME UserDeletes PROVE TidyInvariant'
  BY <1>15 DEF UserDeletes, TypeOK, Complete, FromPast, TidyInvariant, Tidy, FallsBackTo, OthersSaving, Saving
<1> QED
  BY <1>1, <1>2, <1>3, <1>4, <1>5, <1>6, <1>7, <1>8,
     <1>9, <1>10, <1>11, <1>12, <1>13, <1>14, <1>15 DEF Next

-----------------------------------------------------------------------------

LEMMA Initially ==
  Init /\ DurableAssumption => Invariant /\ TidyInvariant
<1> USE FilesTyped DEF Init, DurableAssumption
<1>1. Init /\ DurableAssumption => TypeOK
  BY DEF TypeOK, Document, Steps
<1>2. Init => Complete /\ FromPast /\ OwedSafe
  BY DEF Complete, FromPast, OwedSafe, Saving
<1>3. Init => TidyInvariant
  BY DEF TidyInvariant, Tidy, FallsBackTo, Saving
<1> QED
  BY <1>1, <1>2, <1>3 DEF Invariant

LEMMA Stutters ==
  (Invariant /\ TidyInvariant) /\ UNCHANGED vars => Invariant' /\ TidyInvariant'
<1> SUFFICES ASSUME Invariant, TidyInvariant, UNCHANGED vars
             PROVE  Invariant' /\ TidyInvariant'
  OBVIOUS
<1> USE DEF vars, history, Invariant
<1>1. TypeOK'
  BY DEF TypeOK
<1>2. Complete' /\ FromPast' /\ OwedSafe'
  BY DEF Complete, FromPast, OwedSafe
<1>3. TidyInvariant'
  BY DEF TidyInvariant, Tidy, FallsBackTo
<1> QED
  BY <1>1, <1>2, <1>3

\* The inductive invariant holds in every reachable state.
THEOREM InvariantHolds == Spec => [](Invariant /\ TidyInvariant)
<1>1. Init => Invariant /\ TidyInvariant
  BY Initially, DurableAssumption
<1>2. (Invariant /\ TidyInvariant) /\ [Next]_vars => (Invariant /\ TidyInvariant)'
  <2> SUFFICES ASSUME Invariant, TidyInvariant, [Next]_vars
               PROVE  Invariant' /\ TidyInvariant'
    OBVIOUS
  <2>1. CASE Next
    BY <2>1, DurableAssumption, TypeStep, CompleteStep, PastStep, OwedStep, TidyStep
       DEF Invariant
  <2>2. CASE UNCHANGED vars
    BY <2>2, Stutters
  <2> QED
    BY <2>1, <2>2
<1> QED
  BY <1>1, <1>2, PTL DEF Spec

\* Every variable keeps its type.
THEOREM DurableTypeCorrect == Spec => []TypeOK
<1>1. Invariant => TypeOK
  BY DEF Invariant
<1> QED
  BY <1>1, InvariantHolds, PTL

\* However many windows save and die, an edit saved while no other window was saving is in
\* what every reader sees, until the file is damaged or deleted.
THEOREM NoEditLostAlone == Spec => []OwedIsRead
<1>1. Invariant => OwedIsRead
  <2> SUFFICES ASSUME Invariant PROVE owed \subseteq Read.doc
    BY DEF OwedIsRead
  <2>1. primary \in File /\ backup \in File /\ owed \in Document
    BY DEF Invariant, TypeOK
  <2>2. CASE primary.state = "whole"
    BY <2>1, <2>2, ReadingTyped DEF Invariant, OwedSafe, FromPast, Read
  <2>3. CASE primary.state # "whole"
    BY <2>3 DEF Invariant, OwedSafe
  <2> QED
    BY <2>2, <2>3
<1> QED
  BY <1>1, InvariantHolds, PTL

\* With backups on, damage to the file costs at most the last save, as long as saves were tidy.
THEOREM DamageCostsOneSave == ASSUME KeepsBackup PROVE Spec => []AtMostLastSave
<1>1. Invariant /\ TidyInvariant => AtMostLastSave
  <2> SUFFICES ASSUME Invariant, TidyInvariant, primary.state = "torn", tidy,
                      \A h \in Hosts : step[h] # "copying"
               PROVE  Read.doc \in {latest, previous}
    BY DEF AtMostLastSave
  <2>1. primary \in File /\ backup \in File
    BY DEF Invariant, TypeOK
  <2>2. FallsBackTo \in {latest, previous}
    BY KeepsBackup DEF TidyInvariant, Tidy
  <2>3. Read.doc = FallsBackTo
    BY <2>1, ReadingTyped, FilesTyped DEF Read, FallsBackTo
  <2> QED
    BY <2>2, <2>3
<1> QED
  BY <1>1, InvariantHolds, PTL
-----------------------------------------------------------------------------
(* The files implement the shared document.                                *)

\* Readers see a whole document that was once in place, or none.
LEMMA ReadIsWholeOrAbsent ==
  ASSUME NEW p \in File, NEW b \in File, NEW S,
         p.state = "whole" => p.doc \in S, b.state = "whole" => b.doc \in S
  PROVE  Reading(p, b) \in {Absent} \cup {Whole(d) : d \in S}
<1>1. p.state = "whole" => p = Whole(p.doc)
  BY FilesTyped
<1>2. b.state = "whole" => b = Whole(b.doc)
  BY FilesTyped
<1>3. p.state \in {"whole", "absent", "torn"}
  BY DEF File
<1> QED
  BY <1>1, <1>2, <1>3, ReadingTyped

LEMMA SharedInit == Init => Shared!Init
  BY DEF Init, Shared!Init, Shared!Nothing, Read, Reading, Intended, Saving, Absent

\* What the next state intends, by what a step does to one host.
LEMMA IntendedNext ==
  ASSUME TypeOK, NEW h \in Hosts, NEW s \in Steps, NEW d \in Document,
         step' = [step EXCEPT ![h] = s], content' = [content EXCEPT ![h] = d]
  PROVE  /\ s \in Saving => Intended' = [Intended EXCEPT ![h] = Whole(d)]
         /\ s \notin Saving => Intended' = [Intended EXCEPT ![h] = Absent]
<1>1. step \in [Hosts -> Steps] /\ content \in [Hosts -> Document]
  BY DEF TypeOK
<1>2. \A g \in Hosts : step'[g] = IF g = h THEN s ELSE step[g]
  BY <1>1
<1>3. \A g \in Hosts : content'[g] = IF g = h THEN d ELSE content[g]
  BY <1>1
<1>4. Intended' = [g \in Hosts |-> IF step'[g] \in Saving THEN Whole(content'[g]) ELSE Absent]
  BY DEF Intended, Whole, Absent, Saving
<1>5. Intended = [g \in Hosts |-> IF step[g] \in Saving THEN Whole(content[g]) ELSE Absent]
  BY DEF Intended
<1> DEFINE W == IF s \in Saving THEN Whole(d) ELSE Absent
<1>6. Intended' = [g \in Hosts |-> IF g = h THEN W ELSE Intended[g]]
  <2>1. \A g \in Hosts : (IF step'[g] \in Saving THEN Whole(content'[g]) ELSE Absent)
                        = IF g = h THEN W ELSE Intended[g]
    BY <1>2, <1>3, <1>5
  <2> QED
    BY <2>1, <1>4
<1>7. Intended' = [Intended EXCEPT ![h] = W]
  BY <1>6, <1>5
<1> QED
  BY <1>7

LEMMA IntendedDropped ==
  ASSUME TypeOK, NEW h \in Hosts, NEW s \in {"idle", "down"},
         step' = [step EXCEPT ![h] = s], content' = [content EXCEPT ![h] = {}]
  PROVE  Intended' = [Intended EXCEPT ![h] = Absent]
<1>1. {} \in Document /\ s \in Steps /\ s \notin Saving
  BY DEF Document, Steps, Saving
<1> QED
  BY <1>1, IntendedNext

LEMMA IntendedKept ==
  ASSUME TypeOK, NEW h \in Hosts, NEW s \in Steps,
         step' = [step EXCEPT ![h] = s], content' = content,
         s \in Saving <=> step[h] \in Saving
  PROVE  Intended' = Intended
<1>1. step \in [Hosts -> Steps]
  BY DEF TypeOK
<1>2. \A g \in Hosts : step'[g] \in Saving <=> step[g] \in Saving
  BY <1>1
<1>3. Intended' = [g \in Hosts |-> IF step'[g] \in Saving THEN Whole(content[g]) ELSE Absent]
  BY DEF Intended, Whole, Absent, Saving
<1> QED
  BY <1>2, <1>3 DEF Intended
\* Every step of the files is a step of the shared document or leaves it as it is.
LEMMA SharedStep ==
  ASSUME Invariant, DurableAssumption, Invariant', [Next]_vars
  PROVE  [Shared!Next]_Shared!vars
<1> USE DEF disk, history, Goto, Steps, Saving
<1>0. TypeOK /\ Read.doc \in Document
  BY ReadingTyped, FilesTyped DEF Invariant, TypeOK, Read
<1>1. ASSUME UNCHANGED disk, UNCHANGED past, Intended' = Intended
      PROVE  UNCHANGED Shared!vars
  BY <1>1 DEF Shared!vars, Read, Reading
<1>18. ASSUME primary'.state = "torn", UNCHANGED past, Intended' = Intended
      PROVE  Shared!Decay
  <2>1. /\ primary' \in File /\ backup' \in File
        /\ primary'.state = "whole" => primary'.doc \in past'
        /\ backup'.state = "whole" => backup'.doc \in past'
    BY DEF Invariant, TypeOK, FromPast
  <2>2. Reading(primary', backup') \in {Absent} \cup {Whole(d) : d \in past'}
    BY <2>1, ReadIsWholeOrAbsent
  <2>3. Read' = Reading(primary', backup')
    BY DEF Read, Reading
  <2> QED
    BY <1>18, <2>2, <2>3 DEF Shared!Decay, Shared!Nothing, Shared!Whole, Absent, Whole
<1>19. ASSUME UNCHANGED primary, UNCHANGED past, Intended' = Intended
      PROVE  [Shared!Next]_Shared!vars
  <2>1. CASE primary.state = "torn"
    BY <1>19, <1>18, <2>1 DEF Shared!Next
  <2>2. CASE primary.state # "torn"
    <3>1. primary \in File /\ primary.state \in {"whole", "absent"}
      BY <2>2 DEF Invariant, TypeOK, File
    <3>2. Read' = Read
      BY <1>19, <3>1 DEF Read, Reading
    <3> QED
      BY <1>19, <3>2 DEF Shared!vars
  <2> QED
    BY <2>1, <2>2
<1>20. ASSUME NEW h \in Hosts, UNCHANGED disk, UNCHANGED past,
             step[h] \in Saving, Intended' = [Intended EXCEPT ![h] = Absent]
      PROVE  Shared!Abandon(h)
  <2>1. Intended[h] # Absent
    BY <1>20 DEF Intended, Whole, Absent
  <2>2. Read' = Read
    BY <1>20 DEF Read, Reading
  <2> QED
    BY <1>20, <2>1, <2>2 DEF Shared!Abandon, Shared!Nothing, Absent
<1>2. ASSUME NEW h \in Hosts, Activate(h) PROVE [Shared!Next]_Shared!vars
  <2>1. CASE Missing
    <3>1. content' = [content EXCEPT ![h] = {}]
      BY <1>0, <1>2 DEF Activate, Invariant, Complete, TypeOK
    <3>2. Intended' = [Intended EXCEPT ![h] = Whole({})]
      BY <1>0, <1>2, <2>1, <3>1, IntendedNext DEF Activate, Document
    <3>3. Read = Absent /\ Read' = Read
      BY <1>2, <2>1 DEF Activate, Missing, Read, Reading, Absent
    <3>4. Intended[h] = Absent
      BY <1>2 DEF Activate, Intended
    <3>5. Shared!Start(h)
      BY <1>2, <3>2, <3>3, <3>4 DEF Activate, Shared!Start, Shared!Nothing, Shared!Whole, Absent, Whole
    <3> QED
      BY <3>5 DEF Shared!Next
  <2>2. CASE ~Missing
    <3>1. Intended' = Intended
      BY <1>0, <1>2, <2>2, IntendedKept DEF Activate
    <3> QED
      BY <1>1, <1>2, <3>1 DEF Activate
  <2> QED
    BY <2>1, <2>2
<1>3. ASSUME NEW h \in Hosts, Mutate(h) PROVE [Shared!Next]_Shared!vars
  <2>1. made + 1 \in Edits /\ Changed(made + 1) \in Document
    BY <1>0, <1>3, DurableAssumption DEF Mutate, TypeOK, DurableAssumption, Edits, Document, Changed
  <2>2. Intended' = [Intended EXCEPT ![h] = Whole(Read.doc \cup {made + 1})]
    BY <1>0, <1>3, <2>1, IntendedNext DEF Mutate, Changed
  <2>3. Intended[h] = Absent
    BY <1>3 DEF Mutate, Intended
  <2>4. Read' = Read
    BY <1>3 DEF Mutate, Read, Reading
  <2>5. Shared!Change(h)
    BY <1>3, <2>1, <2>2, <2>3, <2>4
       DEF Mutate, Shared!Change, Shared!Nothing, Shared!Whole, Absent, Whole
  <2> QED
    BY <2>5 DEF Shared!Next
<1>4. ASSUME NEW h \in Hosts, OpenTemporary(h) PROVE [Shared!Next]_Shared!vars
  <2>1. Intended' = Intended
    BY <1>0, <1>4, IntendedKept DEF OpenTemporary
  <2> QED
    BY <1>1, <1>4, <2>1 DEF OpenTemporary
<1>5. ASSUME NEW h \in Hosts, WriteTemporary(h) PROVE [Shared!Next]_Shared!vars
  <2>1. Intended' = Intended
    BY <1>0, <1>5, IntendedKept DEF WriteTemporary
  <2> QED
    BY <1>1, <1>5, <2>1 DEF WriteTemporary
<1>6. ASSUME NEW h \in Hosts, WriteFails(h) PROVE [Shared!Next]_Shared!vars
  <2>1. Intended' = [Intended EXCEPT ![h] = Absent]
    BY <1>0, <1>6, IntendedDropped DEF WriteFails
  <2> QED
    BY <1>20, <1>6, <2>1 DEF WriteFails, Shared!Next
<1>7. ASSUME NEW h \in Hosts, CopyBegins(h) PROVE [Shared!Next]_Shared!vars
  <2>1. Intended' = Intended
    BY <1>0, <1>7, IntendedKept DEF CopyBegins
  <2> QED
    BY <1>19, <1>7, <2>1 DEF CopyBegins
<1>8. ASSUME NEW h \in Hosts, CopyEnds(h) PROVE [Shared!Next]_Shared!vars
  <2>1. Intended' = Intended
    BY <1>0, <1>8, IntendedKept DEF CopyEnds
  <2> QED
    BY <1>19, <1>8, <2>1 DEF CopyEnds
<1>9. ASSUME NEW h \in Hosts, CopyFails(h) PROVE [Shared!Next]_Shared!vars
  <2>1. Intended' = Intended
    BY <1>0, <1>9, IntendedKept DEF CopyFails
  <2> QED
    BY <1>19, <1>9, <2>1 DEF CopyFails
<1>10. ASSUME NEW h \in Hosts, CopySkipped(h) PROVE [Shared!Next]_Shared!vars
  <2>1. Intended' = Intended
    BY <1>0, <1>10, IntendedKept DEF CopySkipped
  <2> QED
    BY <1>1, <1>10, <2>1 DEF CopySkipped
<1>11. ASSUME NEW h \in Hosts, Rename(h) PROVE [Shared!Next]_Shared!vars
  <2>1. Intended' = [Intended EXCEPT ![h] = Absent]
    BY <1>0, <1>11, IntendedDropped DEF Rename
  <2>2. temporary[h] = Whole(content[h]) /\ content[h] \in Document
    BY <1>11 DEF Rename, Invariant, Complete, TypeOK
  <2>3. Intended[h] = Whole(content[h]) /\ Intended[h] # Absent
    BY <1>11 DEF Rename, Intended, Whole, Absent
  <2>4. Read' = Whole(content[h]) /\ primary'.state # "torn"
    BY <1>11, <2>2 DEF Rename, Read, Reading, Whole
  <2>5. past' = past \cup {Intended[h].doc}
    BY <1>11, <2>2, <2>3, FilesTyped DEF Rename
  <2>6. Shared!Commit(h)
    BY <2>1, <2>3, <2>4, <2>5 DEF Shared!Commit, Shared!Nothing, Absent
  <2> QED
    BY <2>6 DEF Shared!Next
<1>12. ASSUME NEW h \in Hosts, RenameBusy(h) PROVE [Shared!Next]_Shared!vars
  <2>1. Intended' = Intended
    BY <1>12 DEF RenameBusy, Intended, Whole, Absent
  <2> QED
    BY <1>1, <1>12, <2>1 DEF RenameBusy
<1>13. ASSUME NEW h \in Hosts, RenameFails(h) PROVE [Shared!Next]_Shared!vars
  <2>1. Intended' = [Intended EXCEPT ![h] = Absent]
    BY <1>0, <1>13, IntendedDropped DEF RenameFails
  <2> QED
    BY <1>20, <1>13, <2>1 DEF RenameFails, Shared!Next
<1>14. ASSUME NEW h \in Hosts, Crash(h) PROVE [Shared!Next]_Shared!vars
  <2>1. Intended' = [Intended EXCEPT ![h] = Absent]
    BY <1>0, <1>14, IntendedDropped DEF Crash
  <2>2. CASE step[h] \in Saving
    BY <1>20, <1>14, <2>1, <2>2 DEF Crash, Shared!Next
  <2>3. CASE step[h] \notin Saving
    <3>1. Intended' = Intended
      BY <2>1, <2>3 DEF Intended
    <3> QED
      BY <1>1, <1>14, <3>1 DEF Crash
  <2> QED
    BY <2>2, <2>3
<1>15. ASSUME Damage PROVE [Shared!Next]_Shared!vars
  <2>1. Intended' = Intended
    BY <1>15 DEF Damage, Intended, Whole, Absent
  <2>2. primary'.state = "torn"
    BY <1>15 DEF Damage, Torn
  <2> QED
    BY <1>18, <1>15, <2>1, <2>2 DEF Damage, Shared!Next
<1>16. ASSUME UserDeletes PROVE [Shared!Next]_Shared!vars
  <2>1. Intended' = Intended
    BY <1>16 DEF UserDeletes, Intended, Whole, Absent
  <2>2. Read' = Absent /\ primary'.state # "torn"
    BY <1>16 DEF UserDeletes, Read, Reading, Absent
  <2> QED
    BY <1>16, <2>1, <2>2 DEF UserDeletes, Shared!Next, Shared!Delete, Shared!Nothing, Absent
<1>17. ASSUME UNCHANGED vars PROVE [Shared!Next]_Shared!vars
  <2>1. Intended' = Intended
    BY <1>17 DEF vars, Intended, Whole, Absent
  <2> QED
    BY <1>1, <1>17, <2>1 DEF vars
<1> QED
  BY <1>2, <1>3, <1>4, <1>5, <1>6, <1>7, <1>8, <1>9, <1>10, <1>11, <1>12, <1>13, <1>14, <1>15,
     <1>16, <1>17 DEF Next

\* The files, their temporaries, their copies and every failure between two steps implement a
\* document that changes all at once: readers see the old one or the new one.
THEOREM FilesImplementDocument == Spec => ImplementsSharedDocument
<1>1. Init => Shared!Init
  BY SharedInit
<1>2. Invariant /\ Invariant' /\ [Next]_vars => [Shared!Next]_Shared!vars
  BY SharedStep, DurableAssumption
<1> QED
  BY <1>1, <1>2, InvariantHolds, PTL DEF Spec, ImplementsSharedDocument, Shared!Spec
============================================================================
