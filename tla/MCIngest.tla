------------------------------ MODULE MCIngest ------------------------------
(* Values of Ingest's constants for TLC. *)
EXTENDS Ingest, TLC

CONSTANTS r1, r2, r3, p1, p2, k1, k2, b1

KeysSpread == [k \in Keys |-> IF k = k2 THEN p2 ELSE p1]
Event(k) == [key |-> k, body |-> b1]

\* A batch that spans two partitions, beside single events.
MixedBatch == [r \in Requests |-> IF r = r1 THEN <<Event(k1), Event(k2)>> ELSE <<Event(k1)>>]
=============================================================================
