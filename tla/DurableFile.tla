------------------------------ MODULE DurableFile ------------------------------
(***************************************************************************)
(* A JSON document kept the way src/shared/durable-file.ts keeps it        *)
(* (atomicWriteFile, readJsonDocument), under the stores that read it,     *)
(* change it and write it back (src/ticket-store.ts: ensureInitialized,    *)
(* read, write): a temporary file, a copy of the old document to .bak, a   *)
(* rename.                                                                 *)
(*                                                                         *)
(* Within one extension host all of it is one synchronous call, but        *)
(* several hosts may have the folder open (one per window), each host may  *)
(* die between two system calls, and any call may fail.  A temporary file  *)
(* has a fresh name (randomUUID), so a host's can be kept by host; what a  *)
(* dead or failed host leaves of it is never read again and is left out.   *)
(*                                                                         *)
(* A definition marked "mistake" is no part of the model, see LoopRecords. *)
(***************************************************************************)
EXTENDS Naturals, FiniteSets

CONSTANTS
  Hosts,        \* extension hosts with the folder open
  KeepsBackup,  \* options.backup: FALSE for loops.json and run.json
  MaxRetries,   \* length of RENAME_RETRY_DELAYS_MS
  MaxEdits,     \* changes hosts make to the document                (bound)
  MaxCrashes,   \* hosts that die                                   (bound)
  MaxDamages,   \* times the primary file becomes unparseable       (bound)
  MaxDeletes    \* times the user deletes it                        (bound)

ASSUME DurableAssumption ==
  /\ KeepsBackup \in BOOLEAN
  /\ MaxRetries \in Nat /\ MaxEdits \in Nat
  /\ MaxCrashes \in Nat /\ MaxDamages \in Nat /\ MaxDeletes \in Nat

\* Changes are numbered in the order they begin.
Edits == 1..MaxEdits

\* A document is the set of the edits it holds; a file that is there either parses
\* ("whole") or does not ("torn").
Document == SUBSET Edits
File == [state : {"whole"}, doc : Document] \cup [state : {"absent", "torn"}, doc : {{}}]

Absent   == [state |-> "absent", doc |-> {}]
Torn     == [state |-> "torn",   doc |-> {}]
Whole(d) == [state |-> "whole",  doc |-> d]

VARIABLES
  primary,   \* the file itself
  backup,    \* its .bak companion
  step,      \* by host: how far its call of atomicWriteFile has come
  content,   \* by host: the document it is writing, {} when none
  temporary, \* by host: its temporary file
  copied,    \* by host: what its copy to .bak reads
  retries,   \* by host: renames that found the file busy
  made,      \* edits begun so far
  count,     \* crashes, damages and deletions so far
  \* History, read by the properties only.
  past,      \* documents ever put in place
  owed,      \* edits saved while no other host was saving, since the last damage or deletion
  latest,    \* the document last put in place
  previous,  \* the one in place before it
  tidy       \* every save so far ran alone, over a file that parses, with its copy

disk    == <<primary, backup>>
history == <<past, owed, latest, previous, tidy>>
vars == <<primary, backup, step, content, temporary, copied, retries, made, count, history>>

Steps  == {"down", "idle", "begun", "open", "written", "copying", "copied"}
Saving == {"begun", "open", "written", "copying", "copied"}

Init ==
  /\ primary = Absent /\ backup = Absent
  /\ step = [h \in Hosts |-> "down"]
  /\ content = [h \in Hosts |-> {}]
  /\ temporary = [h \in Hosts |-> Absent]
  /\ copied = [h \in Hosts |-> Absent]
  /\ retries = [h \in Hosts |-> 0]
  /\ made = 0
  /\ count = [crashes |-> 0, damages |-> 0, deletes |-> 0]
  /\ past = {} /\ owed = {} /\ latest = {} /\ previous = {} /\ tidy = TRUE

OthersSaving(h) == \E g \in Hosts \ {h} : step[g] \in Saving

\* mistake: the backup stands in for a file that is not there either
ReadingOr(p, b) == IF p.state = "whole" THEN p ELSE b

\* readJsonDocument: the backup is consulted only when the primary is there and does not parse.
Reading(p, b) ==
  CASE p.state = "whole"                       -> p
    [] p.state = "absent"                      -> Absent
    [] p.state = "torn" /\ b.state = "whole"   -> b
    [] p.state = "torn" /\ b.state # "whole"   -> Absent

Read == Reading(primary, backup)

Goto(h, s) == step' = [step EXCEPT ![h] = s]

-----------------------------------------------------------------------------
(* The stores.                                                             *)

\* mistake: the default document is written whatever is there
MissingOrNot == TRUE

Missing == primary = Absent

\* ensureInitialized, as the extension starts: a missing file gets the default document.
Activate(h) ==
  /\ step[h] = "down"
  /\ Goto(h, IF Missing THEN "begun" ELSE "idle")
  /\ tidy' = (tidy /\ (Missing => ~OthersSaving(h)))
  /\ UNCHANGED <<disk, content, temporary, copied, retries, made, count, past, owed, latest,
                 previous>>

\* The document a mutation writes: what read() returns, changed; nothing reads as empty.
Changed(e) == Read.doc \cup {e}

\* A mutation: read(), change, write().
Mutate(h) ==
  /\ step[h] = "idle"
  /\ made < MaxEdits
  /\ made' = made + 1
  /\ content' = [content EXCEPT ![h] = Changed(made + 1)]
  /\ Goto(h, "begun")
  /\ tidy' = (tidy /\ ~OthersSaving(h))
  /\ UNCHANGED <<disk, temporary, copied, retries, count, past, owed, latest, previous>>

-----------------------------------------------------------------------------
(* atomicWriteFile.                                                        *)

\* writeFileSync with wx: the file is there before its content is.
OpenTemporary(h) ==
  /\ step[h] = "begun"
  /\ Goto(h, "open")
  /\ temporary' = [temporary EXCEPT ![h] = Torn]
  /\ UNCHANGED <<disk, content, copied, retries, made, count, history>>

WriteTemporary(h) ==
  /\ step[h] = "open"
  /\ Goto(h, "written")
  /\ temporary' = [temporary EXCEPT ![h] = Whole(content[h])]
  /\ UNCHANGED <<disk, content, copied, retries, made, count, history>>

\* The directory or the temporary file cannot be written: the call throws.
WriteFails(h) ==
  /\ step[h] \in {"begun", "open"}
  /\ Goto(h, "idle")
  /\ content' = [content EXCEPT ![h] = {}]
  /\ temporary' = [temporary EXCEPT ![h] = Absent]
  /\ UNCHANGED <<disk, copied, retries, made, count, history>>

\* mistake: a backup that is there already is kept
BackupDueOnce == KeepsBackup /\ primary # Absent /\ backup = Absent

BackupDue == KeepsBackup /\ primary # Absent

\* copyFileSync truncates .bak and fills it with what the primary held when it was opened.
CopyBegins(h) ==
  /\ step[h] = "written"
  /\ BackupDue
  /\ Goto(h, "copying")
  /\ backup' = Torn
  /\ copied' = [copied EXCEPT ![h] = primary]
  /\ tidy' = (tidy /\ primary.state = "whole")
  /\ UNCHANGED <<primary, content, temporary, retries, made, count, past, owed, latest, previous>>

\* Two hosts that copy at once write into one file.
CopyEnds(h) ==
  /\ step[h] = "copying"
  /\ Goto(h, "copied")
  /\ backup' \in {copied[h]} \cup
       {Torn : g \in {x \in Hosts \ {h} : step[x] = "copying"}}
  /\ copied' = [copied EXCEPT ![h] = Absent]
  /\ UNCHANGED <<primary, content, temporary, retries, made, count, history>>

\* A copy that fails, before it touched .bak or after, is ignored.
CopyFails(h) ==
  /\ \/ step[h] = "written" /\ BackupDue
     \/ step[h] = "copying"
  /\ Goto(h, "copied")
  /\ copied' = [copied EXCEPT ![h] = Absent]
  /\ tidy' = FALSE
  /\ UNCHANGED <<disk, content, temporary, retries, made, count, past, owed, latest, previous>>

CopySkipped(h) ==
  /\ step[h] = "written"
  /\ ~BackupDue
  /\ Goto(h, "copied")
  /\ UNCHANGED <<disk, content, temporary, copied, retries, made, count, history>>

\* The rename puts the new document in place.
Rename(h) ==
  /\ step[h] = "copied"
  /\ primary' = temporary[h]
  /\ Goto(h, "idle")
  /\ temporary' = [temporary EXCEPT ![h] = Absent]
  /\ retries' = [retries EXCEPT ![h] = 0]
  /\ past' = past \cup {content[h]}
  /\ owed' = IF OthersSaving(h) THEN owed ELSE owed \cup content[h]
  /\ latest' = content[h]
  /\ previous' = latest
  /\ content' = [content EXCEPT ![h] = {}]
  /\ UNCHANGED <<backup, copied, made, count, tidy>>

\* RENAME_RETRY_DELAYS_MS[attempt] is defined.
DelayLeft(h) == retries[h] < MaxRetries

\* Another process holds the file for a moment.
RenameBusy(h) ==
  /\ step[h] = "copied"
  /\ DelayLeft(h)
  /\ retries' = [retries EXCEPT ![h] = @ + 1]
  /\ UNCHANGED <<disk, step, content, temporary, copied, made, count, history>>

\* A permanent error, or busy once too often: the temporary file is removed and the call throws.
RenameFails(h) ==
  /\ step[h] = "copied"
  /\ Goto(h, "idle")
  /\ temporary' = [temporary EXCEPT ![h] = Absent]
  /\ content' = [content EXCEPT ![h] = {}]
  /\ retries' = [retries EXCEPT ![h] = 0]
  /\ UNCHANGED <<disk, copied, made, count, history>>

-----------------------------------------------------------------------------
(* What happens to the host and to the files.                              *)

Crash(h) ==
  /\ count.crashes < MaxCrashes
  /\ step[h] # "down"
  /\ Goto(h, "down")
  /\ count' = [count EXCEPT !.crashes = @ + 1]
  /\ temporary' = [temporary EXCEPT ![h] = Absent]
  /\ content' = [content EXCEPT ![h] = {}]
  /\ copied' = [copied EXCEPT ![h] = Absent]
  /\ retries' = [retries EXCEPT ![h] = 0]
  /\ tidy' = (tidy /\ step[h] # "copying")
  /\ UNCHANGED <<disk, made, past, owed, latest, previous>>

\* A file system or a tool outside the program leaves the primary unparseable; not in the
\* instant it is being copied.
Damage ==
  /\ count.damages < MaxDamages
  /\ \A h \in Hosts : step[h] # "copying"
  /\ primary.state = "whole"
  /\ primary' = Torn
  /\ count' = [count EXCEPT !.damages = @ + 1]
  /\ owed' = {}
  /\ UNCHANGED <<backup, step, content, temporary, copied, retries, made, past, latest, previous,
                 tidy>>

UserDeletes ==
  /\ count.deletes < MaxDeletes
  /\ primary # Absent
  /\ primary' = Absent
  /\ count' = [count EXCEPT !.deletes = @ + 1]
  /\ owed' = {} /\ tidy' = FALSE
  /\ UNCHANGED <<backup, step, content, temporary, copied, retries, made, past, latest, previous>>

Next ==
  \/ \E h \in Hosts :
       \/ Activate(h) \/ Mutate(h)
       \/ OpenTemporary(h) \/ WriteTemporary(h) \/ WriteFails(h)
       \/ CopyBegins(h) \/ CopyEnds(h) \/ CopyFails(h) \/ CopySkipped(h)
       \/ Rename(h) \/ RenameBusy(h) \/ RenameFails(h)
       \/ Crash(h)
  \/ Damage
  \/ UserDeletes

Spec == Init /\ [][Next]_vars

-----------------------------------------------------------------------------
(* Properties.                                                             *)

TypeOK ==
  /\ primary \in File /\ backup \in File
  /\ step \in [Hosts -> Steps]
  /\ content \in [Hosts -> Document]
  /\ temporary \in [Hosts -> File] /\ copied \in [Hosts -> File]
  /\ retries \in [Hosts -> 0..MaxRetries]
  /\ made \in 0..MaxEdits
  /\ count \in [crashes : 0..MaxCrashes, damages : 0..MaxDamages, deletes : 0..MaxDeletes]
  /\ past \subseteq Document
  /\ owed \in Document /\ latest \in Document /\ previous \in Document
  /\ tidy \in BOOLEAN

\* An edit whose save met no other host's save stays in what readers see, whatever saves,
\* failures and deaths follow, until the file is damaged or deleted: two windows lose edits
\* to each other only when one saves between the other's read and its rename (TicketStore.write
\* rewrites what read() returned).
OwedIsRead == owed \subseteq Read.doc

\* A primary that stops parsing costs at most the last save, as long as the saves before it
\* ran one at a time with their copies and nobody saved over the wreck (readJsonDocument;
\* LoopStore.read says so of loops.json).
AtMostLastSave ==
  primary.state = "torn" /\ tidy /\ (\A h \in Hosts : step[h] # "copying")
    => Read.doc \in {latest, previous}

\* The document each host is putting in place.
Intended == [h \in Hosts |-> IF step[h] \in Saving THEN Whole(content[h]) ELSE Absent]

\* The two files, the temporaries and the deaths between their steps are one document that
\* changes all at once (atomicWriteFile): it implements SharedDocument.
Shared == INSTANCE SharedDocument WITH
  shown <- Read, intact <- primary.state # "torn", past <- past, writing <- Intended

ImplementsSharedDocument == Shared!Spec
============================================================================
