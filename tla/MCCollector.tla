---------------------------- MODULE MCCollector -----------------------------
(* Values of Collector's constants for TLC. *)
EXTENDS Collector

CONSTANTS r1, r2, m1, p1, p2, k1, b1, b2

InP1 == [k \in Keys |-> p1]
InP2 == [k \in Keys |-> p2]

\* Requests carry the same event ID, with different content.
Conflict == [r \in Requests |-> <<[key |-> k1, body |-> IF r = r1 THEN b1 ELSE b2]>>]
=============================================================================
