------------------------------ MODULE MCDurable ------------------------------
(***************************************************************************)
(* Instances of the durable document for TLC: windows over one folder that *)
(* make a few edits each.                                                  *)
(***************************************************************************)
EXTENDS DurableFile

CONSTANTS h1, h2

============================================================================
