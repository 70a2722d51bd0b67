------------------------------ MODULE EventLog ------------------------------
(***************************************************************************)
(* What the collector's parts share: the event topic, the group's offsets, *)
(* the table ingestkit.events and the quarantine topic, with the meaning   *)
(* of "settled".  Offsets start at 0: offset o of partition p is           *)
(* log[p][o + 1].                                                          *)
(***************************************************************************)
EXTENDS Integers, Sequences, FiniteSets

CONSTANTS Partitions,   \* partitions of the event topic
          Keys,         \* (tenant_id, event_id) pairs
          Bodies,       \* the rest of an envelope
          PartitionOf,  \* the partition a record key hashes to
          Poison,       \* a record value that DecodeEnvelope refuses
          NoRow,        \* no row with this key in ingestkit.events
          MaxLog        \* bound: records appended to a partition

ASSUME LogAssumption == MaxLog \in Nat
ASSUME KeyAssumption == PartitionOf \in [Keys -> Partitions]
ASSUME NullAssumption == Poison \notin [key : Keys, body : Bodies] /\ NoRow \notin Bodies

VARIABLES
    log,        \* broker: the records of each partition, append-only
    committed,  \* broker: the group's committed offset of each partition
    rows,       \* PostgreSQL: the stored body of each key, or NoRow
    dlq         \* broker: source coordinates of the quarantined records

\* An envelope: the key that names it and everything else it carries.
Events == [key : Keys, body : Bodies]

At(p, o) == log[p][o + 1]

\* The offsets in [a, b) of p whose record is an envelope with key k.
Carries(p, a, b, k) == {o \in a..(b - 1) : At(p, o) # Poison /\ At(p, o).key = k}
First(S) == CHOOSE o \in S : \A x \in S : o <= x

\* A producer's record reaches the topic: an envelope goes to the partition
\* of its key, something that is not an envelope to any partition.
AppendRecord(p, r) ==
    /\ Len(log[p]) < MaxLog
    /\ log' = [log EXCEPT ![p] = Append(@, r)]

\* Mutant: ON CONFLICT DO UPDATE, the last record of a key wins.
WriteBatchUpserts(p, a, b) ==
    [k \in Keys |-> IF Carries(p, a, b, k) = {}
                    THEN rows[k]
                    ELSE At(p, CHOOSE o \in Carries(p, a, b, k) : \A x \in Carries(p, a, b, k) : x <= o).body]

(***************************************************************************)
(* INSERT ... ON CONFLICT DO NOTHING of the records [a, b) of p: one       *)
(* statement, all or nothing.  A key that has a row keeps it, and of two   *)
(* records with the same new key the first one is inserted.                *)
(***************************************************************************)
WriteBatch(p, a, b) ==
    [k \in Keys |-> IF rows[k] # NoRow \/ Carries(p, a, b, k) = {}
                    THEN rows[k]
                    ELSE At(p, First(Carries(p, a, b, k))).body]

LogInit ==
    /\ log = [p \in Partitions |-> <<>>]
    /\ committed = [p \in Partitions |-> 0]
    /\ rows = [k \in Keys |-> NoRow]
    /\ dlq = {}

LogTypeOK ==
    /\ log \in [Partitions -> Seq(Events \cup {Poison})]
    /\ committed \in [Partitions -> Nat]
    /\ rows \in [Keys -> Bodies \cup {NoRow}]
    /\ dlq \in SUBSET (Partitions \X Nat)

-----------------------------------------------------------------------------
\* A record is settled once its row exists or, if it cannot be decoded, once
\* the quarantine topic holds it.
Settled(p, o) ==
    IF At(p, o) = Poison THEN <<p, o>> \in dlq ELSE rows[At(p, o).key] # NoRow

(***************************************************************************)
(* No record is lost: whatever lies below the committed offset is stored   *)
(* or quarantined, through retries, fencing, restarts and late statements. *)
(* processPartition commits only after persist or an acknowledged          *)
(* quarantine write.                                                       *)
(***************************************************************************)
NoLoss == \A p \in Partitions : \A o \in 0..(committed[p] - 1) :
             o < Len(log[p]) /\ Settled(p, o)

(***************************************************************************)
(* The stored content of a key is the one that came first in its           *)
(* partition, even when a fenced member, a late statement or a replay      *)
(* writes a segment again (ON CONFLICT DO NOTHING, segments stored in      *)
(* order).                                                                 *)
(***************************************************************************)
FirstContent(k) ==
    At(PartitionOf[k], First(Carries(PartitionOf[k], 0, Len(log[PartitionOf[k]]), k))).body
FirstContentWins ==
    \A k \in Keys : rows[k] # NoRow =>
        /\ Carries(PartitionOf[k], 0, Len(log[PartitionOf[k]]), k) # {}
        /\ rows[k] = FirstContent(k)
=============================================================================
