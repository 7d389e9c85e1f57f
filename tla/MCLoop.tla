------------------------------- MODULE MCLoop -------------------------------
(***************************************************************************)
(* Instances of the ticket-loop supervisor for TLC: two or three tickets   *)
(* over two files.                                                         *)
(***************************************************************************)
EXTENDS LoopProperties

CONSTANTS t1, t2, t3, f1, f2

\* t1 and t3 are disjoint, t2 overlaps both.
Overlapping == (t1 :> {f1}) @@ (t2 :> {f1, f2}) @@ (t3 :> {f2})

\* t2 declares no territory, so it runs alone.
OneUntenanted == (t1 :> {f1}) @@ (t2 :> {}) @@ (t3 :> {f2})

Unblocked == [t \in Tickets |-> {}]

\* t2 waits for t1.
SecondAfterFirst == (t1 :> {}) @@ (t2 :> {t1})

PairApart  == (t1 :> {f1}) @@ (t2 :> {f2})

Plain(ok, parked) == [ok |-> ok, parked |-> parked, receipt |-> "none",
                      threw |-> FALSE, touched |-> {}]
Ok      == Plain(TRUE, FALSE)
Fail    == Plain(FALSE, FALSE)
Park    == Plain(FALSE, TRUE)
Threw   == [Fail EXCEPT !.threw = TRUE]
OkRefused == [Ok EXCEPT !.receipt = "failed"]
FailVerified == [Fail EXCEPT !.receipt = "verified"]
OkBlocked == [Ok EXCEPT !.receipt = "blocked"]
OkRefusedWider == [OkRefused EXCEPT !.touched = {f1, f2}]

SomeResults    == {Ok, Fail, Park}
\* Lanes overruled by their receipts: one fails and touched both files, one
\* succeeds, one is parked.
ReceiptResults == {OkRefusedWider, FailVerified, OkBlocked}

============================================================================
