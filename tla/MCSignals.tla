------------------------------ MODULE MCSignals ------------------------------
(***************************************************************************)
(* Instances of the signal service for TLC: a loop with one ticket in its  *)
(* queue that waits for a ticket the user works on.                        *)
(***************************************************************************)
EXTENDS Signals

CONSTANTS dep, tkt

\* tkt waits for dep.
Chain == (dep :> {}) @@ (tkt :> {dep})

============================================================================
