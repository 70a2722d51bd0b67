------------------------------- MODULE Ledger -------------------------------
(***************************************************************************)
(* What the accounting of a load sample promises: every planned batch is   *)
(* given up or handed out once, every batch handed out gets one verdict,   *)
(* and the books are closed when nothing is open.                          *)
(***************************************************************************)
CONSTANT Batches

VARIABLES
    book,       \* the entry of each batch
    closed

Verdicts == {"accepted", "ambiguous", "rejected"}
Final == Verdicts \cup {"missed"}

Init == book = [b \in Batches |-> "planned"] /\ closed = FALSE

\* The generator gives up a set of batches: one, or the rest of the schedule.
Miss(bs) ==
    /\ \A b \in bs : book[b] = "planned"
    /\ book' = [b \in Batches |-> IF b \in bs THEN "missed" ELSE book[b]]
    /\ UNCHANGED closed

Enter(b, from, to) == book[b] = from /\ book' = [book EXCEPT ![b] = to] /\ UNCHANGED closed

Close ==
    /\ ~closed /\ \A b \in Batches : book[b] \in Final
    /\ closed' = TRUE
    /\ UNCHANGED book

Next ==
    \/ \E bs \in SUBSET Batches : Miss(bs)
    \/ \E b \in Batches : Enter(b, "planned", "out")
    \/ \E b \in Batches, v \in Verdicts : Enter(b, "out", v)
    \/ Close

Spec == Init /\ [][~closed /\ Next]_<<book, closed>>
=============================================================================
