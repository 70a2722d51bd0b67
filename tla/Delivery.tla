------------------------------ MODULE Delivery ------------------------------
(***************************************************************************)
(* What the worker promises (docs/delivery.md), without readers, groups or *)
(* failures: records are appended; a key gets a row at most once, with the *)
(* content that came first; a record that cannot be decoded is             *)
(* quarantined; the group's offset only moves forward, over settled        *)
(* records.  Reader implements this specification.                         *)
(***************************************************************************)
EXTENDS EventLog

vars == <<log, committed, rows, dlq>>

Produce ==
    /\ \/ \E e \in Events : AppendRecord(PartitionOf[e.key], e)
       \/ \E p \in Partitions : AppendRecord(p, Poison)
    /\ UNCHANGED <<committed, rows, dlq>>

Appears(k) == Carries(PartitionOf[k], 0, Len(log[PartitionOf[k]]), k) # {}

\* One statement gives some keys their first row, all together.
Store(K) ==
    /\ \A k \in K : rows[k] = NoRow /\ Appears(k)
    /\ rows' = [k \in Keys |-> IF k \in K THEN FirstContent(k) ELSE rows[k]]
    /\ UNCHANGED <<log, committed, dlq>>

Quarantine(p, o) ==
    /\ o < Len(log[p]) /\ At(p, o) = Poison
    /\ dlq' = dlq \cup {<<p, o>>}
    /\ UNCHANGED <<log, committed, rows>>

Advance(p, n) ==
    /\ committed[p] <= n /\ n <= Len(log[p])
    /\ \A o \in committed[p]..(n - 1) : Settled(p, o)
    /\ committed' = [committed EXCEPT ![p] = n]
    /\ UNCHANGED <<log, rows, dlq>>

Init == LogInit

Next ==
    \/ Produce
    \/ \E K \in SUBSET Keys : Store(K)
    \/ \E p \in Partitions : \E n \in 0..MaxLog : Quarantine(p, n) \/ Advance(p, n)

Spec == Init /\ [][Next]_vars
=============================================================================
