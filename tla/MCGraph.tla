------------------------------ MODULE MCGraph ------------------------------
(***************************************************************************)
(* Instances of the graph-aware scheduler for TLC.                         *)
(***************************************************************************)
EXTENDS GraphScheduler, TLC

CONSTANTS a, b, c, d, x, y, z, f1, f2, f3, f4

\* a and b keep arriving, c is the low one; d is large and waits for c; x,
\* y and z wait for each other, and c is a subtask of x.
TheFiles == (a :> {f1}) @@ (b :> {f2}) @@ (c :> {f3}) @@ (d :> {f1})
          @@ (x :> {}) @@ (y :> {f2}) @@ (z :> {f4})
TheLinks == (d :> {c}) @@ (x :> {y}) @@ (y :> {z}) @@ (z :> {x}) @@ [t \in {a, b, c} |-> {}]
TheBases == [t \in Tickets |-> IF t = c THEN 15 ELSE 70]
TheWeights == [t \in Tickets |-> IF t = d THEN 4 ELSE 1]
TheSubtasks == (x :> {c}) @@ [t \in {a, b, c, d, y, z} |-> {}]

\* Everything to do, or half of it done already.
Fresh == [t \in Tickets |-> "backlog"]
HalfDone == [t \in Tickets |-> IF t \in {a, b, d} THEN "backlog" ELSE "done"]
FreshBoard == {Fresh}
SomeBoards == {Fresh, HalfDone}

\* Three tickets over one file, not linked; c has the low score.
SameFile == [t \in Tickets |-> {f1}]
Unlinked == [t \in Tickets |-> {}]
BaseOf == [t \in Tickets |-> IF t = c THEN 15 ELSE 100]

Res(ok, parked, conflict) ==
  [ok |-> ok, parked |-> parked, conflict |-> conflict, touched |-> {}]
Ok == Res(TRUE, FALSE, FALSE)
Park == Res(FALSE, TRUE, FALSE)
Collided == [Res(FALSE, FALSE, TRUE) EXCEPT !.touched = {f2}]
SomeResults == {Ok, Park, Collided}
OkOnly == {Ok}
NoClaims == {{}}
SomeClaims == {{}, {f3}}

============================================================================
