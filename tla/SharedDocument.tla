---------------------------- MODULE SharedDocument ----------------------------
(***************************************************************************)
(* What a JSON document under .blacksite/ promises its readers, whatever   *)
(* files it is kept in: a reader sees the document the last save put in    *)
(* place, a save replaces it in one step, and only a document something    *)
(* outside the program has damaged may fall back to an earlier one.        *)
(*                                                                         *)
(* DurableFile implements it.                                              *)
(***************************************************************************)
CONSTANTS
  Hosts,   \* extension hosts with the folder open, one per window
  Edits    \* changes a host makes to the document

\* A document is the set of the edits it holds.
Document == SUBSET Edits

VARIABLES
  shown,     \* the document a reader sees, Nothing when there is none
  intact,    \* nothing outside the program has damaged it since it was put in place
  past,      \* every document that was ever put in place
  writing    \* by host: the document it is saving, or Nothing

vars == <<shown, intact, past, writing>>

Nothing  == [state |-> "absent", doc |-> {}]
Whole(d) == [state |-> "whole", doc |-> d]

Init ==
  /\ shown = Nothing
  /\ intact = TRUE
  /\ past = {}
  /\ writing = [h \in Hosts |-> Nothing]

\* A host changes the document it reads; no document reads as an empty one.
Change(h) ==
  /\ writing[h] = Nothing
  /\ \E e \in Edits : writing' = [writing EXCEPT ![h] = Whole(shown.doc \cup {e})]
  /\ UNCHANGED <<shown, intact, past>>

\* A host that finds no document starts an empty one.
Start(h) ==
  /\ writing[h] = Nothing
  /\ shown = Nothing
  /\ writing' = [writing EXCEPT ![h] = Whole({})]
  /\ UNCHANGED <<shown, intact, past>>

\* The save takes effect, for every reader at once.
Commit(h) ==
  /\ writing[h] # Nothing
  /\ shown' = writing[h]
  /\ intact' = TRUE
  /\ past' = past \cup {writing[h].doc}
  /\ writing' = [writing EXCEPT ![h] = Nothing]

\* The save fails or its host dies; no reader ever sees it.
Abandon(h) ==
  /\ writing[h] # Nothing
  /\ writing' = [writing EXCEPT ![h] = Nothing]
  /\ UNCHANGED <<shown, intact, past>>

\* The user deletes the document to start over: nothing older comes back.
Delete ==
  /\ shown' = Nothing
  /\ intact' = TRUE
  /\ UNCHANGED <<past, writing>>

\* Something outside the program damages the document, and may go on to lose what a
\* reader falls back to.
Decay ==
  /\ intact' = FALSE
  /\ shown' \in {Nothing} \cup {Whole(d) : d \in past}
  /\ UNCHANGED <<past, writing>>

Next ==
  \/ \E h \in Hosts : Change(h) \/ Start(h) \/ Commit(h) \/ Abandon(h)
  \/ Delete
  \/ Decay

Spec == Init /\ [][Next]_vars

============================================================================
