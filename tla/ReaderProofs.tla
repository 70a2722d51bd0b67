---------------------------- MODULE ReaderProofs ----------------------------
(***************************************************************************)
(* Proofs about Reader, for every value of its constants, and about the    *)
(* collector in which it runs beside the API: the collector implements     *)
(* Reader, so that Reader's theorems hold of it, and with the origin of    *)
(* the records in the log they say where every stored row comes from.      *)
(***************************************************************************)
EXTENDS Collector, WellFoundedInduction, TLAPS

USE LogAssumption, KeyAssumption, NullAssumption, SizeAssumption, NobodyAssumption

-----------------------------------------------------------------------------
(* Helpers.                                                                *)

\* A nonempty set of offsets has a least element.
LEMMA LeastExists ==
    ASSUME NEW S \in SUBSET Nat, S # {}
    PROVE  \E o \in S : \A x \in S : o <= x
<1> DEFINE R == OpToRel(<, Nat)
<1>1. IsWellFoundedOn(R, Nat)
  BY NatLessThanWellFounded
<1>2. \A x, y \in Nat : <<x, y>> \in R <=> x < y
  BY DEF OpToRel
<1> HIDE DEF R
<1>3. PICK o \in S : \A x \in S : ~(<<x, o>> \in R)
  BY <1>1, WFMin
<1>4. \A x \in S : o <= x
  <2> TAKE x \in S
  <2>1. ~(<<x, o>> \in R)
    BY <1>3
  <2>2. ~(x < o)
    BY <1>2, <2>1
  <2>3. QED
    BY <2>2
<1>5. QED
  BY <1>4

\* First picks that element.
LEMMA FirstIsLeast ==
    ASSUME NEW S \in SUBSET Nat, S # {}
    PROVE  First(S) \in S /\ \A x \in S : First(S) <= x
BY LeastExists DEF First

\* What Carries collects are offsets of envelopes with that key.
LEMMA CarriesType ==
    ASSUME LogTypeOK, NEW p \in Partitions, NEW a \in Nat, NEW b \in Nat,
           b <= Len(log[p]), NEW k \in Keys
    PROVE  /\ Carries(p, a, b, k) \in SUBSET Nat
           /\ \A o \in Carries(p, a, b, k) :
                 o \in a..(b - 1) /\ At(p, o) \in Events /\ At(p, o).key = k
<1>1. Carries(p, a, b, k) \in SUBSET Nat
  BY DEF Carries
<1>2. ASSUME NEW o \in Carries(p, a, b, k)
      PROVE  o \in a..(b - 1) /\ At(p, o) \in Events /\ At(p, o).key = k
  <2>1. o \in a..(b - 1) /\ At(p, o) # Poison /\ At(p, o).key = k
    BY <1>2 DEF Carries
  <2>2. log[p] \in Seq(Events \cup {Poison}) /\ o + 1 \in 1..Len(log[p])
    BY <2>1 DEF LogTypeOK
  <2>3. At(p, o) \in Events \cup {Poison}
    BY <2>2 DEF At
  <2>4. QED
    BY <2>1, <2>3
<1>3. QED
  BY <1>1, <1>2

\* A statement yields rows of the right type, keeps the rows there are, gives
\* every envelope of the segment a row, and takes a new row from the segment.
LEMMA WriteBatchFacts ==
    ASSUME LogTypeOK, NEW p \in Partitions, NEW a \in Nat, NEW b \in Nat,
           b <= Len(log[p])
    PROVE  /\ WriteBatch(p, a, b) \in [Keys -> Bodies \cup {NoRow}]
           /\ \A k \in Keys : rows[k] # NoRow => WriteBatch(p, a, b)[k] = rows[k]
           /\ \A o \in a..(b - 1) :
                 At(p, o) # Poison => At(p, o).key \in Keys /\ WriteBatch(p, a, b)[At(p, o).key] # NoRow
           /\ \A k \in Keys : WriteBatch(p, a, b)[k] # rows[k] =>
                 /\ rows[k] = NoRow
                 /\ Carries(p, a, b, k) # {}
                 /\ WriteBatch(p, a, b)[k] = At(p, First(Carries(p, a, b, k))).body
<1> DEFINE W == WriteBatch(p, a, b)
<1>1. \A k \in Keys : W[k] = IF rows[k] # NoRow \/ Carries(p, a, b, k) = {}
                             THEN rows[k] ELSE At(p, First(Carries(p, a, b, k))).body
  BY DEF WriteBatch
<1>2. ASSUME NEW k \in Keys, Carries(p, a, b, k) # {}
      PROVE  At(p, First(Carries(p, a, b, k))).body \in Bodies
  <2>1. First(Carries(p, a, b, k)) \in Carries(p, a, b, k)
    BY <1>2, CarriesType, FirstIsLeast
  <2>2. At(p, First(Carries(p, a, b, k))) \in Events
    BY <2>1, CarriesType
  <2>3. QED
    BY <2>2 DEF Events
<1>3. \A k \in Keys : W[k] \in Bodies \cup {NoRow}
  BY <1>1, <1>2 DEF LogTypeOK
<1>4. W \in [Keys -> Bodies \cup {NoRow}]
  <2>1. W = [k \in Keys |-> W[k]]
    BY DEF WriteBatch
  <2> HIDE DEF W
  <2>2. QED
    BY <1>3, <2>1
<1>5. ASSUME NEW o \in a..(b - 1), At(p, o) # Poison
      PROVE  At(p, o).key \in Keys /\ W[At(p, o).key] # NoRow
  <2>1. log[p] \in Seq(Events \cup {Poison}) /\ o + 1 \in 1..Len(log[p])
    BY DEF LogTypeOK
  <2>2. At(p, o) \in Events
    BY <1>5, <2>1 DEF At
  <2>3. At(p, o).key \in Keys
    BY <2>2 DEF Events
  <2>4. o \in Carries(p, a, b, At(p, o).key)
    BY <1>5 DEF Carries
  <2>5. QED
    BY <1>1, <1>2, <2>3, <2>4
<1>6. QED
  BY <1>1, <1>4, <1>5

\* Adding elements above all those of S does not change the least one.
LEMMA SameFirst ==
    ASSUME NEW S \in SUBSET Nat, NEW T \in SUBSET Nat, S # {}, S \subseteq T,
           \A t \in T \ S : \A x \in S : x <= t
    PROVE  First(T) = First(S)
<1>1. First(S) \in S /\ \A x \in S : First(S) <= x
  BY FirstIsLeast
<1>2. First(T) \in T /\ \A x \in T : First(T) <= x
  BY FirstIsLeast
<1>3. First(T) <= First(S)
  BY <1>1, <1>2
<1>4. First(S) <= First(T)
  BY <1>1, <1>2
<1>5. First(S) \in Nat /\ First(T) \in Nat
  BY <1>1, <1>2
<1>6. QED
  BY <1>3, <1>4, <1>5

\* A segment above settled records gives a key no row but its first content:
\* had the key occurred below the segment, it would have a row already.
LEMMA WriteBatchFirst ==
    ASSUME LogTypeOK, KeysInPlace, FirstContentWins,
           NEW p \in Partitions, NEW a \in Nat, NEW b \in Nat,
           b <= Len(log[p]), SettledBelow(p, a),
           NEW k \in Keys, WriteBatch(p, a, b)[k] # NoRow
    PROVE  /\ Carries(PartitionOf[k], 0, Len(log[PartitionOf[k]]), k) # {}
           /\ WriteBatch(p, a, b)[k] = FirstContent(k)
<1>1. CASE rows[k] # NoRow
  BY <1>1, WriteBatchFacts DEF FirstContentWins
<1>2. CASE rows[k] = NoRow
  <2> DEFINE S == Carries(p, a, b, k)
             T == Carries(p, 0, Len(log[p]), k)
  <2>1. S # {} /\ WriteBatch(p, a, b)[k] = At(p, First(S)).body
    BY <1>2, WriteBatchFacts
  <2>2. Len(log[p]) \in Nat
    BY DEF LogTypeOK
  <2>3. S \in SUBSET Nat /\ \A o \in S : o \in a..(b - 1) /\ At(p, o) \in Events /\ At(p, o).key = k
    BY CarriesType
  <2>4. T \in SUBSET Nat /\ \A o \in T : o \in 0..(Len(log[p]) - 1) /\ At(p, o) \in Events /\ At(p, o).key = k
    BY <2>2, CarriesType
  <2>5. PartitionOf[k] = p
    <3>1. PICK o \in S : TRUE
      BY <2>1
    <3>2. At(p, o) # Poison /\ At(p, o).key = k /\ o \in 0..(Len(log[p]) - 1)
      BY <2>2, <2>3 DEF Events
    <3>3. QED
      BY <3>2 DEF KeysInPlace
  <2>6. \A o \in 0..(a - 1) : o \notin T
    <3>1. SUFFICES ASSUME NEW o \in 0..(a - 1), o \in T PROVE FALSE
      OBVIOUS
    <3>2. Settled(p, o)
      BY DEF SettledBelow
    <3>3. At(p, o) # Poison /\ At(p, o).key = k
      BY <2>4, <3>1 DEF Events
    <3>4. QED
      BY <1>2, <3>2, <3>3 DEF Settled
  <2>7. S \subseteq T
    BY <2>2, <2>3 DEF Carries
  <2>8. \A t \in T \ S : \A x \in S : x <= t
    <3>1. SUFFICES ASSUME NEW t \in T, t \notin S PROVE b <= t
      BY <2>3, <2>4
    <3>2. t \in Nat /\ a <= t
      BY <2>4, <2>6
    <3>3. ~(t \in a..(b - 1))
      BY <3>1, <2>4 DEF Carries
    <3>4. QED
      BY <3>2, <3>3
  <2>9. First(T) = First(S)
    BY <2>1, <2>3, <2>4, <2>7, <2>8, SameFirst
  <2>10. T # {}
    BY <2>1, <2>7
  <2>11. QED
    BY <2>1, <2>5, <2>9, <2>10 DEF FirstContent
<1>3. QED
  BY <1>1, <1>2

-----------------------------------------------------------------------------
(* What grows.                                                             *)

\* The log, the rows and the quarantine topic only ever gain.
Grow ==
    /\ \A p \in Partitions :
          /\ Len(log[p]) <= Len(log'[p])
          /\ \A o \in 0..(Len(log[p]) - 1) : log'[p][o + 1] = log[p][o + 1]
    /\ \A k \in Keys : rows[k] # NoRow => rows'[k] = rows[k]
    /\ dlq \subseteq dlq'

\* Hence what is settled stays settled.
LEMMA SettledStable ==
    ASSUME LogTypeOK, Grow, NEW p \in Partitions, NEW n \in Nat,
           n <= Len(log[p]), SettledBelow(p, n)
    PROVE  SettledBelow(p, n)'
<1> SUFFICES ASSUME NEW o \in 0..(n - 1) PROVE Settled(p, o)'
  BY DEF SettledBelow
<1>1. Settled(p, o)
  BY DEF SettledBelow
<1>2. o \in 0..(Len(log[p]) - 1) /\ log'[p][o + 1] = log[p][o + 1]
  BY DEF Grow, LogTypeOK
<1>3. log[p][o + 1] \in Events \cup {Poison}
  BY <1>2 DEF LogTypeOK
<1>4. CASE log[p][o + 1] = Poison
  BY <1>1, <1>2, <1>4 DEF Settled, At, Grow
<1>5. CASE log[p][o + 1] \in Events /\ log[p][o + 1] # Poison
  <2>1. log[p][o + 1].key \in Keys
    BY <1>5 DEF Events
  <2>2. QED
    BY <1>1, <1>2, <1>5, <2>1 DEF Settled, At, Grow
<1>6. QED
  BY <1>3, <1>4, <1>5

-----------------------------------------------------------------------------
(* Type correctness.                                                       *)

\* Every step keeps the variables in their types.
LEMMA TypeStep == Inv /\ [Next]_vars => TypeOK'
<1> SUFFICES ASSUME Inv, [Next]_vars PROVE TypeOK'
  OBVIOUS
<1>1. TypeOK /\ LogTypeOK
  BY DEF Inv, TypeOK
<1>2. \A m \in Members : pc[m] \in InPartition => part[m] \in Partitions
  BY DEF Inv, SegmentShape
<1> USE <1>1 DEF TypeOK, LogTypeOK, Labels, Kinds
<1>3. CASE UNCHANGED vars
  BY <1>3 DEF vars
<1>4. CASE Produce
  <2>1. UNCHANGED <<committed, owner, dlq, rows, late, assigned, pc, part, lo, cur, end, failed, faults>>
    BY <1>4 DEF Produce, storeVars, positions
  <2>2. PICK p \in Partitions, r \in Events \cup {Poison} : AppendRecord(p, r)
    BY <1>4 DEF Produce, Events
  <2>3. log' \in [Partitions -> Seq(Events \cup {Poison})]
    BY <2>2 DEF AppendRecord
  <2>4. QED
    BY <2>1, <2>3
<1>5. ASSUME NEW s \in late, LateCommit(s) PROVE TypeOK'
  <2>1. s.part \in Partitions /\ s.lo \in Nat /\ s.hi \in Nat /\ s.hi <= Len(log[s.part])
    BY DEF Inv, OffsetsInLog
  <2>2. rows' \in [Keys -> Bodies \cup {NoRow}]
    BY <1>1, <1>5, <2>1, WriteBatchFacts DEF LateCommit
  <2>3. UNCHANGED <<log, committed, owner, dlq, assigned, pc, part, lo, cur, end, failed, faults>> /\ late' \in SUBSET late
    BY <1>5 DEF LateCommit, brokerVars, positions
  <2>4. QED
    BY <2>2, <2>3
<1>6. ASSUME NEW m \in Members, Progress(m) PROVE TypeOK'
  <2>1. CASE Start(m)
    BY <2>1 DEF Start, Goto, brokerVars, storeVars, positions
  <2>2. CASE Poll(m)
    <3>1. PICK e \in [Partitions -> 0..MaxLog] : end' = [end EXCEPT ![m] = e]
      BY <2>2 DEF Poll
    <3>2. end' \in [Members -> [Partitions -> Nat]]
      BY <3>1
    <3>3. QED
      BY <2>2, <3>2 DEF Poll, Goto, brokerVars, storeVars
  <2>3. CASE NextPartition(m)
    BY <2>3, SMTT(30) DEF NextPartition, Goto, brokerVars, storeVars, positions
  <2>4. CASE EndCycle(m)
    BY <2>4 DEF EndCycle, Goto, brokerVars, storeVars, positions
  <2>5. CASE DecodeValid(m)
    BY <1>2, <2>5, SMTT(30) DEF DecodeValid, Goto, InPartition, brokerVars, storeVars
  <2>6. CASE DecodeInvalid(m)
    BY <2>6 DEF DecodeInvalid, Goto, brokerVars, storeVars, positions
  <2>7. CASE WriteOk(m)
    <3>1. part[m] \in Partitions /\ cur[m][part[m]] <= Len(log[part[m]])
      BY <1>2, <2>7 DEF WriteOk, InPartition, Inv, OffsetsInLog
    <3>2. rows' \in [Keys -> Bodies \cup {NoRow}]
      <4>1. lo[m][part[m]] \in Nat /\ cur[m][part[m]] \in Nat
        BY <3>1
      <4>2. WriteBatch(part[m], lo[m][part[m]], cur[m][part[m]]) \in [Keys -> Bodies \cup {NoRow}]
        BY ONLY LogTypeOK, <3>1, <4>1, WriteBatchFacts
      <4> QED
        BY ONLY <2>7, <4>2 DEF WriteOk
    <3>3. QED
      BY <2>7, <3>2 DEF WriteOk, Observe, Goto, brokerVars, positions
  <2>8. CASE Retry(m)
    BY <2>8 DEF Retry, Goto, brokerVars, storeVars, positions
  <2>9. CASE GiveUp(m)
    BY <2>9 DEF GiveUp, Goto, brokerVars, storeVars, positions
  <2>10. CASE QuarantineOk(m)
    <3>1. part[m] \in Partitions
      BY <1>2, <2>10 DEF QuarantineOk, InPartition
    <3>2. dlq' \in SUBSET (Partitions \X Nat)
      BY <2>10, <3>1 DEF QuarantineOk
    <3>3. cur' \in [Members -> [Partitions -> Nat]]
      BY <2>10, <3>1 DEF QuarantineOk
    <3>4. QED
      BY <2>10, <3>2, <3>3 DEF QuarantineOk, Observe, Goto, storeVars
  <2>11. CASE CommitOk(m)
    BY <1>2, <2>11, SMTT(30) DEF CommitOk, Observe, Goto, InPartition, storeVars
  <2>12. CASE CommitFenced(m)
    BY <2>12 DEF CommitFenced, Observe, Goto, brokerVars, storeVars, positions
  <2>13. CASE Close(m)
    BY <2>13 DEF Close, Goto, Disown, ResetPositions, storeVars
  <2>14. QED
    BY <1>6, <2>1, <2>2, <2>3, <2>4, <2>5, <2>6, <2>7, <2>8, <2>9, <2>10, <2>11, <2>12, <2>13 DEF Progress
<1>7. ASSUME NEW m \in Members, Failure(m) PROVE TypeOK'
  <2>1. CASE LeaveRun(m)
    BY <2>1, SMTT(30) DEF LeaveRun, Goto, Fault, brokerVars, storeVars, positions
  <2>2. CASE Deadline(m)
    BY <2>2 DEF Deadline, Goto, Fault, brokerVars, storeVars, positions
  <2>3. CASE WriteErr(m)
    <3>1. part[m] \in Partitions
      BY <1>2, <2>3 DEF WriteErr, InPartition
    <3>2. late' \in SUBSET [part : Partitions, lo : Nat, hi : Nat]
      BY <2>3, <3>1 DEF WriteErr
    <3>3. pc' \in [Members -> Labels]
      BY <2>3, ZenonT(30) DEF WriteErr, Goto
    <3>4. failed' \in [Members -> SUBSET Kinds] /\ faults' \in Nat
      BY <2>3 DEF WriteErr, Fault, Observe
    <3>5. UNCHANGED <<log, committed, owner, dlq, rows, assigned, part, lo, cur, end>>
      BY <2>3 DEF WriteErr, brokerVars, positions
    <3>6. QED
      BY <3>2, <3>3, <3>4, <3>5
  <2>4. CASE QuarantineErr(m)
    BY <1>2, <2>4, SMTT(30) DEF QuarantineErr, Goto, Fault, Observe, InPartition, storeVars, positions
  <2>5. CASE CommitErr(m)
    <3>1. part[m] \in Partitions
      BY <1>2, <2>5 DEF CommitErr, InPartition
    <3>2. committed' \in [Partitions -> Nat]
      <4>1. cur[m][part[m]] \in Nat
        BY <3>1
      <4>2. committed' = committed \/ committed' = [committed EXCEPT ![part[m]] = cur[m][part[m]]]
        BY <2>5 DEF CommitErr
      <4>3. QED
        BY <4>1, <4>2
    <3>3. QED
      BY <2>5, <3>2, SMTT(30) DEF CommitErr, Goto, Fault, Observe, storeVars, positions
  <2>6. CASE Crash(m)
    BY <2>6 DEF Crash, Goto, Fault, ResetPositions, brokerVars, storeVars
  <2>7. CASE ExpireAlive(m)
    BY <2>7 DEF ExpireAlive, Fault, Disown, storeVars, positions
  <2>8. ASSUME NEW p \in Partitions, Revoke(m, p) PROVE TypeOK'
    BY <2>8 DEF Revoke, Fault, ResetPositions, storeVars
  <2>9. QED
    BY <1>7, <2>1, <2>2, <2>3, <2>4, <2>5, <2>6, <2>7, <2>8 DEF Failure
<1>8. ASSUME NEW m \in Members, Group(m) PROVE TypeOK'
  <2>1. CASE ExpireDead(m)
    BY <2>1 DEF ExpireDead, Disown, storeVars, positions
  <2>2. CASE LoseAssignment(m)
    <3>1. assigned' \in [Members -> SUBSET Partitions]
      BY <2>2 DEF LoseAssignment
    <3>2. /\ lo' \in [Members -> [Partitions -> Nat]] /\ cur' \in [Members -> [Partitions -> Nat]]
          /\ end' \in [Members -> [Partitions -> Nat]]
      BY <2>2 DEF LoseAssignment, ResetPositions
    <3> QED
      BY <2>2, <3>1, <3>2 DEF LoseAssignment, brokerVars, storeVars
  <2>3. ASSUME NEW p \in Partitions, Assign(m, p) PROVE TypeOK'
    BY <2>3 DEF Assign, storeVars
  <2>4. QED
    BY <1>8, <2>1, <2>2, <2>3 DEF Group
<1>9. QED
  BY <1>3, <1>4, <1>5, <1>6, <1>7, <1>8 DEF Next

-----------------------------------------------------------------------------
(* The steps that touch the log, the rows or the quarantine topic.         *)

\* A step leaves the topic, the rows and the quarantine alone, or is one of
\* the few that write them.
LEMMA StepKinds ==
    ASSUME [Next]_vars
    PROVE  \/ UNCHANGED <<log, rows, dlq>>
           \/ Produce
           \/ \E s \in late : LateCommit(s)
           \/ \E m \in Members : WriteOk(m) \/ QuarantineOk(m) \/ QuarantineErr(m)
<1>1. CASE UNCHANGED vars
  BY <1>1 DEF vars
<1>2. ASSUME NEW m \in Members, Progress(m)
      PROVE  UNCHANGED <<log, rows, dlq>> \/ WriteOk(m) \/ QuarantineOk(m)
  BY <1>2 DEF Progress, Start, Poll, NextPartition, EndCycle, DecodeValid, DecodeInvalid, Retry,
              GiveUp, CommitOk, CommitFenced, Close, brokerVars, storeVars
<1>3. ASSUME NEW m \in Members, Failure(m)
      PROVE  UNCHANGED <<log, rows, dlq>> \/ QuarantineErr(m)
  BY <1>3 DEF Failure, LeaveRun, Deadline, WriteErr, CommitErr, Crash, ExpireAlive, Revoke,
              brokerVars, storeVars
<1>4. ASSUME NEW m \in Members, Group(m)
      PROVE  UNCHANGED <<log, rows, dlq>>
  BY <1>4 DEF Group, ExpireDead, LoseAssignment, Assign, brokerVars, storeVars
<1>5. QED
  BY <1>1, <1>2, <1>3, <1>4 DEF Next

\* Where a statement starts and ends: in the log, above settled records.
LEMMA WriteOkSegment ==
    ASSUME Inv, NEW m \in Members, WriteOk(m)
    PROVE  LET p == part[m] IN
           /\ p \in Partitions
           /\ lo[m][p] \in Nat /\ cur[m][p] \in Nat /\ cur[m][p] <= Len(log[p])
           /\ SettledBelow(p, lo[m][p])
           /\ rows' = WriteBatch(p, lo[m][p], cur[m][p])
           /\ UNCHANGED <<log, committed, owner, dlq>>
<1>1. part[m] \in Partitions
  BY DEF Inv, SegmentShape, WriteOk, InPartition
<1>2. log \in [Partitions -> Seq(Events \cup {Poison})]
  BY DEF Inv, TypeOK, LogTypeOK
<1>3. cur[m][part[m]] <= Len(log[part[m]])
  BY <1>1, <1>2 DEF Inv, TypeOK, OffsetsInLog
<1>4. QED
  BY <1>1, <1>3 DEF Inv, TypeOK, SettledSoFar, WriteOk, brokerVars

\* A statement that commits late writes a segment of the log whose prefix is
\* settled.
LEMMA LateSegment ==
    ASSUME Inv, NEW s \in late, LateCommit(s)
    PROVE  /\ s.part \in Partitions
           /\ s.lo \in Nat /\ s.hi \in Nat /\ s.hi <= Len(log[s.part])
           /\ SettledBelow(s.part, s.lo)
           /\ rows' = WriteBatch(s.part, s.lo, s.hi)
           /\ UNCHANGED <<log, committed, owner, dlq>>
BY DEF Inv, TypeOK, OffsetsInLog, SettledSoFar, LateCommit, brokerVars

\* The record a producer adds.
LEMMA ProduceFacts ==
    ASSUME LogTypeOK, Produce
    PROVE  \E p \in Partitions, r \in Events \cup {Poison} :
              /\ AppendRecord(p, r)
              /\ r # Poison => r \in Events /\ PartitionOf[r.key] = p
              /\ Len(log'[p]) = Len(log[p]) + 1
              /\ log'[p][Len(log[p]) + 1] = r
              /\ \A o \in 0..(Len(log[p]) - 1) : log'[p][o + 1] = log[p][o + 1]
              /\ \A q \in Partitions \ {p} : log'[q] = log[q]
<1>1. PICK p \in Partitions, r \in Events \cup {Poison} :
         AppendRecord(p, r) /\ (r # Poison => r \in Events /\ PartitionOf[r.key] = p)
  <2>1. CASE \E e \in Events : AppendRecord(PartitionOf[e.key], e)
    BY <2>1 DEF Events
  <2>2. CASE \E p \in Partitions : AppendRecord(p, Poison)
    BY <2>2
  <2>3. QED
    BY <2>1, <2>2 DEF Produce
<1>2. log[p] \in Seq(Events \cup {Poison}) /\ log'[p] = Append(log[p], r)
  BY <1>1 DEF LogTypeOK, AppendRecord
<1>3. Len(log'[p]) = Len(log[p]) + 1 /\ log'[p][Len(log[p]) + 1] = r
  BY <1>2
<1>4. \A o \in 0..(Len(log[p]) - 1) : log'[p][o + 1] = log[p][o + 1]
  BY <1>2
<1>5. \A q \in Partitions \ {p} : log'[q] = log[q]
  BY <1>1 DEF LogTypeOK, AppendRecord
<1>6. QED
  BY <1>1, <1>3, <1>4, <1>5

\* Every step only adds: records, rows and quarantined records stay.
LEMMA GrowStep == Inv /\ [Next]_vars => Grow
<1> SUFFICES ASSUME Inv, [Next]_vars PROVE Grow
  OBVIOUS
<1>1. LogTypeOK
  BY DEF Inv, TypeOK
<1>2. \A p \in Partitions : Len(log[p]) \in Nat
  BY <1>1 DEF LogTypeOK
<1>3. CASE UNCHANGED <<log, rows, dlq>>
  BY <1>2, <1>3 DEF Grow
<1>4. CASE Produce
  <2>1. PICK p \in Partitions, r \in Events \cup {Poison} :
              /\ Len(log'[p]) = Len(log[p]) + 1
              /\ \A o \in 0..(Len(log[p]) - 1) : log'[p][o + 1] = log[p][o + 1]
              /\ \A q \in Partitions \ {p} : log'[q] = log[q]
    BY <1>1, <1>4, ProduceFacts
  <2>2. UNCHANGED <<rows, dlq>>
    BY <1>4 DEF Produce, storeVars
  <2>3. ASSUME NEW q \in Partitions
        PROVE  Len(log[q]) <= Len(log'[q]) /\ \A o \in 0..(Len(log[q]) - 1) : log'[q][o + 1] = log[q][o + 1]
    <3>1. CASE q = p
      BY <1>2, <2>1, <3>1
    <3>2. CASE q # p
      BY <1>2, <2>1, <3>2
    <3>3. QED
      BY <3>1, <3>2
  <2>4. QED
    BY <2>2, <2>3 DEF Grow
<1>5. ASSUME NEW s \in late, LateCommit(s) PROVE Grow
  BY <1>1, <1>2, <1>5, LateSegment, WriteBatchFacts DEF Grow
<1>6. ASSUME NEW m \in Members, WriteOk(m) PROVE Grow
  BY <1>1, <1>2, <1>6, WriteOkSegment, WriteBatchFacts DEF Grow
<1>7. ASSUME NEW m \in Members, QuarantineOk(m) \/ QuarantineErr(m) PROVE Grow
  <2>1. UNCHANGED <<log, rows>>
    BY <1>7 DEF QuarantineOk, QuarantineErr, storeVars
  <2>2. dlq \subseteq dlq'
    BY <1>7 DEF QuarantineOk, QuarantineErr
  <2>3. QED
    BY <1>2, <2>1, <2>2 DEF Grow
<1>8. QED
  BY <1>3, <1>4, <1>5, <1>6, <1>7, StepKinds

\* Every step keeps each key in its own partition.
LEMMA KeysStep == Inv /\ [Next]_vars => KeysInPlace'
<1> SUFFICES ASSUME Inv, [Next]_vars PROVE KeysInPlace'
  OBVIOUS
<1>1. LogTypeOK /\ KeysInPlace
  BY DEF Inv, TypeOK
<1>2. CASE log' = log
  BY <1>1, <1>2 DEF KeysInPlace, At
<1>3. CASE Produce
  <2>1. PICK p \in Partitions, r \in Events \cup {Poison} :
              /\ r # Poison => r \in Events /\ PartitionOf[r.key] = p
              /\ Len(log'[p]) = Len(log[p]) + 1
              /\ log'[p][Len(log[p]) + 1] = r
              /\ \A o \in 0..(Len(log[p]) - 1) : log'[p][o + 1] = log[p][o + 1]
              /\ \A q \in Partitions \ {p} : log'[q] = log[q]
    BY <1>1, <1>3, ProduceFacts
  <2>2. ASSUME NEW q \in Partitions, NEW o \in 0..(Len(log'[q]) - 1), log'[q][o + 1] # Poison
        PROVE  PartitionOf[log'[q][o + 1].key] = q
    <3>1. CASE q # p
      BY <1>1, <2>1, <2>2, <3>1 DEF KeysInPlace, At
    <3>2. CASE q = p
      <4>1. Len(log[p]) \in Nat
        BY <1>1 DEF LogTypeOK
      <4>2. CASE o = Len(log[p])
        BY <2>1, <2>2, <3>2, <4>2
      <4>3. CASE o \in 0..(Len(log[p]) - 1)
        BY <1>1, <2>1, <2>2, <3>2, <4>3 DEF KeysInPlace, At
      <4>4. QED
        BY <2>1, <3>2, <4>1, <4>2, <4>3
    <3>3. QED
      BY <3>1, <3>2
  <2>3. QED
    BY <2>2 DEF KeysInPlace, At
<1>4. \/ log' = log \/ Produce
  BY StepKinds DEF LateCommit, WriteOk, QuarantineOk, QuarantineErr, brokerVars
<1>5. QED
  BY <1>2, <1>3, <1>4

\* No step gives a key a content other than its first one.
LEMMA FirstContentStep == Inv /\ [Next]_vars => FirstContentWins'
<1> SUFFICES ASSUME Inv, [Next]_vars PROVE FirstContentWins'
  OBVIOUS
<1>1. LogTypeOK /\ KeysInPlace /\ FirstContentWins
  BY DEF Inv, TypeOK
<1>2. CASE UNCHANGED <<log, rows>>
  BY <1>1, <1>2 DEF FirstContentWins, FirstContent, Carries, At
<1>3. CASE Produce
  <2>1. PICK p \in Partitions, r \in Events \cup {Poison} :
              /\ Len(log'[p]) = Len(log[p]) + 1
              /\ \A o \in 0..(Len(log[p]) - 1) : log'[p][o + 1] = log[p][o + 1]
              /\ \A q \in Partitions \ {p} : log'[q] = log[q]
    BY <1>1, <1>3, ProduceFacts
  <2>2. rows' = rows
    BY <1>3 DEF Produce, storeVars
  <2>3. SUFFICES ASSUME NEW k \in Keys, rows[k] # NoRow
                 PROVE  /\ Carries(PartitionOf[k], 0, Len(log[PartitionOf[k]]), k)' # {}
                        /\ rows[k] = FirstContent(k)'
    BY <2>2 DEF FirstContentWins
  <2> DEFINE q == PartitionOf[k]
             S == Carries(q, 0, Len(log[q]), k)
             T == {o \in 0..(Len(log'[q]) - 1) : log'[q][o + 1] # Poison /\ log'[q][o + 1].key = k}
  <2>4. q \in Partitions /\ S # {} /\ rows[k] = At(q, First(S)).body
    BY <1>1, <2>3 DEF FirstContentWins, FirstContent
  <2>5. Len(log[q]) \in Nat
    BY <1>1, <2>4 DEF LogTypeOK
  <2>6. S \in SUBSET Nat /\ \A o \in S : o \in 0..(Len(log[q]) - 1)
    BY <1>1, <2>4, <2>5, CarriesType
  <2>7. Len(log[q]) <= Len(log'[q]) /\ Len(log'[q]) \in Nat
        /\ \A o \in 0..(Len(log[q]) - 1) : log'[q][o + 1] = log[q][o + 1]
    <3> HIDE DEF q
    <3>1. CASE q = p
      BY <2>1, <2>5, <3>1
    <3>2. CASE q # p
      <4>1. log'[q] = log[q]
        BY <2>1, <2>4, <3>2
      <4> QED
        BY <2>5, <4>1
    <3> QED
      BY <3>1, <3>2
  <2>8. T \in SUBSET Nat
    OBVIOUS
  <2>9. S \subseteq T
    BY <2>5, <2>6, <2>7 DEF Carries, At
  <2>10. \A t \in T \ S : \A x \in S : x <= t
    <3>1. SUFFICES ASSUME NEW t \in T, t \notin S PROVE Len(log[q]) <= t
      BY <2>5, <2>6, <2>8
    <3>2. ~(t \in 0..(Len(log[q]) - 1))
      BY <2>7, <3>1 DEF Carries, At
    <3>3. QED
      BY <2>5, <2>8, <3>2
  <2>11. First(T) = First(S)
    <3> HIDE DEF S, T
    <3>1. QED
      BY <2>4, <2>6, <2>8, <2>9, <2>10, SameFirst
  <2>12. First(S) \in S
    <3> HIDE DEF S
    <3>1. QED
      BY <2>4, <2>6, FirstIsLeast
  <2>13. At(q, First(S)) = log'[q][First(S) + 1]
    BY <2>6, <2>7, <2>12 DEF At
  <2>14. Carries(q, 0, Len(log[q]), k)' = T
    BY DEF Carries, At
  <2>15. QED
    BY <2>4, <2>9, <2>11, <2>13, <2>14 DEF FirstContent, At
<1>4. ASSUME NEW p \in Partitions, NEW a \in Nat, NEW b \in Nat, b <= Len(log[p]),
             SettledBelow(p, a), rows' = WriteBatch(p, a, b), log' = log
      PROVE  FirstContentWins'
  <2>1. ASSUME NEW k \in Keys, rows'[k] # NoRow
        PROVE  /\ Carries(PartitionOf[k], 0, Len(log[PartitionOf[k]]), k) # {}
               /\ rows'[k] = FirstContent(k)
    BY <1>1, <1>4, <2>1, WriteBatchFirst
  <2>2. QED
    BY <1>4, <2>1, ZenonT(40) DEF FirstContentWins, FirstContent, Carries, At
<1>5. ASSUME NEW s \in late, LateCommit(s) PROVE FirstContentWins'
  BY <1>4, <1>5, LateSegment
<1>6. ASSUME NEW m \in Members, WriteOk(m) PROVE FirstContentWins'
  BY <1>4, <1>6, WriteOkSegment
<1>7. ASSUME NEW m \in Members, QuarantineOk(m) \/ QuarantineErr(m) PROVE FirstContentWins'
  BY <1>2, <1>7 DEF QuarantineOk, QuarantineErr, storeVars
<1>8. QED
  BY <1>2, <1>3, <1>5, <1>6, <1>7, StepKinds

-----------------------------------------------------------------------------
(* Positions.                                                              *)

\* A step of one member leaves the others where they are.
LEMMA OthersStay ==
    ASSUME TypeOK, NEW m \in Members, Progress(m) \/ Failure(m) \/ Group(m),
           NEW n \in Members, n # m
    PROVE  UNCHANGED <<pc[n], part[n], lo[n], cur[n], end[n]>>
<1>1. CASE Progress(m)
  BY <1>1 DEF Progress, Start, Poll, NextPartition, EndCycle, DecodeValid, DecodeInvalid, WriteOk, Retry,
              GiveUp, QuarantineOk, CommitOk, CommitFenced, Close, ResetPositions, Goto, positions, TypeOK
<1>2. CASE Failure(m)
  BY <1>2, ZenonT(30) DEF Failure, LeaveRun, Deadline, WriteErr, QuarantineErr, CommitErr, Crash, ExpireAlive, Revoke,
              ResetPositions, Goto, positions, TypeOK
<1>3. CASE Group(m)
  BY <1>3 DEF Group, ExpireDead, LoseAssignment, Assign, ResetPositions, positions, TypeOK
<1>4. QED
  BY <1>1, <1>2, <1>3

\* How a member gets to commit.
LEMMA CommitOrigin ==
    ASSUME TypeOK, [Next]_vars, NEW m \in Members, pc'[m] = "commit"
    PROVE  \/ pc[m] = "commit" /\ UNCHANGED <<part[m], cur[m]>>
           \/ WriteOk(m)
           \/ QuarantineOk(m)
<1>1. CASE UNCHANGED vars \/ Produce \/ \E s \in late : LateCommit(s)
  BY <1>1 DEF vars, Produce, LateCommit, positions
<1>2. ASSUME NEW n \in Members, n # m, Progress(n) \/ Failure(n) \/ Group(n)
      PROVE  pc[m] = "commit" /\ UNCHANGED <<part[m], cur[m]>>
  BY <1>2, OthersStay
<1>3. CASE Progress(m)
  BY <1>3 DEF Progress, Start, Poll, NextPartition, EndCycle, DecodeValid, DecodeInvalid, Retry, GiveUp,
              CommitOk, CommitFenced, Close, Goto, TypeOK
<1>4. CASE Failure(m)
  BY <1>4 DEF Failure, LeaveRun, Deadline, WriteErr, QuarantineErr, CommitErr, Crash, ExpireAlive, Revoke,
              Goto, positions, TypeOK
<1>5. CASE Group(m)
  BY <1>5 DEF Group, ExpireDead, LoseAssignment, Assign, positions, TypeOK
<1>6. QED
  BY <1>1, <1>2, <1>3, <1>4, <1>5 DEF Next

\* The member at work stays within the records it polled.
LEMMA AtWork ==
    ASSUME Inv, NEW m \in Members, pc[m] \in InPartition
    PROVE  /\ part[m] \in Partitions
           /\ lo[m][part[m]] \in Nat /\ cur[m][part[m]] \in Nat /\ end[m][part[m]] \in Nat
           /\ Len(log[part[m]]) \in Nat
           /\ lo[m][part[m]] <= cur[m][part[m]]
           /\ cur[m][part[m]] <= end[m][part[m]]
           /\ end[m][part[m]] <= Len(log[part[m]])
<1>1. part[m] \in Partitions
  BY DEF Inv, SegmentShape
<1>2. Len(log[part[m]]) \in Nat
  BY <1>1 DEF Inv, TypeOK, LogTypeOK
<1>3. QED
  BY <1>1, <1>2 DEF Inv, TypeOK, OffsetsInLog

\* Every step keeps the committed and the fetched offsets inside the log.
LEMMA OffsetsStep == Inv /\ [Next]_vars => OffsetsInLog'
<1> SUFFICES ASSUME Inv, [Next]_vars PROVE OffsetsInLog'
  OBVIOUS
<1>1. TypeOK /\ LogTypeOK /\ OffsetsInLog /\ TypeOK' /\ LogTypeOK'
  BY TypeStep DEF Inv, TypeOK
<1>2. \A p \in Partitions : Len(log[p]) \in Nat /\ Len(log'[p]) \in Nat /\ Len(log[p]) <= Len(log'[p])
  BY <1>1, GrowStep DEF LogTypeOK, Grow
<1>3. \A p \in Partitions : Len(log'[p]) <= MaxLog
  <2>1. CASE log' = log
    BY <1>1, <2>1 DEF OffsetsInLog
  <2>2. CASE Produce
    <3>1. PICK p \in Partitions, r \in Events \cup {Poison} :
              /\ AppendRecord(p, r)
              /\ Len(log'[p]) = Len(log[p]) + 1
              /\ \A q \in Partitions \ {p} : log'[q] = log[q]
      BY <1>1, <2>2, ProduceFacts
    <3>2. Len(log[p]) < MaxLog
      BY <3>1 DEF AppendRecord
    <3>3. QED
      BY <1>1, <1>2, <3>1, <3>2 DEF OffsetsInLog
  <2>3. log' = log \/ Produce
    BY StepKinds DEF LateCommit, WriteOk, QuarantineOk, QuarantineErr, brokerVars
  <2>4. QED
    BY <2>1, <2>2, <2>3
<1> DEFINE Within ==
      /\ \A p \in Partitions : committed'[p] <= Len(log[p])
      /\ \A m \in Members, p \in Partitions :
            lo'[m][p] <= cur'[m][p] /\ cur'[m][p] <= end'[m][p] /\ end'[m][p] <= Len(log[p])
      /\ \A s \in late' : s.lo <= s.hi /\ s.hi <= Len(log[s.part])
<1>4. SUFFICES Within
  BY <1>1, <1>2, <1>3 DEF OffsetsInLog, TypeOK, LogTypeOK
<1>5. CASE UNCHANGED <<committed, lo, cur, end>> /\ late' \subseteq late
  BY <1>1, <1>5 DEF OffsetsInLog
<1>6. ASSUME NEW m \in Members, NEW S \in SUBSET Partitions, ResetPositions(m, S),
             UNCHANGED <<committed, late>>
      PROVE  Within
  BY <1>1, <1>2, <1>6 DEF ResetPositions, OffsetsInLog, TypeOK
<1>7. ASSUME NEW m \in Members, Progress(m) PROVE Within
  <2>1. CASE UNCHANGED <<committed, lo, cur, end, late>>
    BY <1>5, <2>1
  <2>2. CASE Poll(m)
    <3>1. PICK e \in [Partitions -> 0..MaxLog] :
             /\ \A p \in Partitions :
                   IF p \in assigned[m] THEN end[m][p] <= e[p] /\ e[p] <= Len(log[p])
                                        ELSE e[p] = end[m][p]
             /\ end' = [end EXCEPT ![m] = e]
      BY <2>2 DEF Poll
    <3>2. UNCHANGED <<committed, lo, cur, late>>
      BY <2>2 DEF Poll, brokerVars, storeVars
    <3>3. QED
      BY <1>1, <1>2, <3>1, <3>2, SMTT(30) DEF OffsetsInLog, TypeOK
  <2>3. CASE DecodeValid(m)
    <3>1. pc[m] \in InPartition /\ cur[m][part[m]] < end[m][part[m]]
      BY <2>3 DEF DecodeValid, InPartition, Inv, SegmentShape
    <3>2. QED
      <4>1. /\ part[m] \in Partitions /\ cur[m][part[m]] \in Nat /\ end[m][part[m]] \in Nat
            /\ lo[m][part[m]] <= cur[m][part[m]] /\ lo[m][part[m]] \in Nat
        BY <3>1, AtWork
      <4>2. /\ cur' = [cur EXCEPT ![m][part[m]] = @ + 1]
            /\ UNCHANGED <<log, committed, late, lo, end>>
        BY <2>3 DEF DecodeValid, brokerVars, storeVars
      <4>3. cur'[m][part[m]] = cur[m][part[m]] + 1
        <5>1. cur \in [Members -> [Partitions -> Nat]]
          BY DEF Inv, TypeOK
        <5> QED
          BY <4>1, <4>2, <5>1
      <4>4. \A n \in Members, p \in Partitions : ~(n = m /\ p = part[m]) => cur'[n][p] = cur[n][p]
        <5>1. cur \in [Members -> [Partitions -> Nat]]
          BY DEF Inv, TypeOK
        <5> QED
          BY <4>1, <4>2, <5>1
      <4>5. ASSUME NEW n \in Members, NEW p \in Partitions
            PROVE  lo[n][p] <= cur'[n][p] /\ cur'[n][p] <= end[n][p]
        <5>1. CASE n = m /\ p = part[m]
          BY <3>1, <4>1, <4>3, <5>1
        <5>2. CASE ~(n = m /\ p = part[m])
          BY <4>4, <5>2 DEF Inv, OffsetsInLog
        <5> QED
          BY <5>1, <5>2
      <4> QED
        BY <4>2, <4>5 DEF Inv, OffsetsInLog
  <2>4. CASE QuarantineOk(m)
    <3>1. pc[m] \in InPartition /\ cur[m][part[m]] < end[m][part[m]]
      BY <2>4 DEF QuarantineOk, InPartition, Inv, SegmentShape
    <3>2. QED
      BY <1>1, <1>2, <2>4, <3>1, AtWork, SMTT(30) DEF QuarantineOk, OffsetsInLog, TypeOK, storeVars
  <2>5. CASE CommitOk(m)
    <3>1. pc[m] \in InPartition
      BY <2>5 DEF CommitOk, InPartition
    <3>2. UNCHANGED <<cur, end, late>>
      BY <2>5 DEF CommitOk, storeVars
    <3>3. \A p \in Partitions : committed'[p] <= Len(log[p])
      BY <1>1, <1>2, <2>5, <3>1, AtWork DEF CommitOk, OffsetsInLog, LogTypeOK
    <3>4. lo' = [lo EXCEPT ![m][part[m]] = cur[m][part[m]]]
      BY <2>5 DEF CommitOk
    <3>5. \A n \in Members, p \in Partitions : lo'[n][p] <= cur[n][p]
      <4>1. part[m] \in Partitions /\ cur[m][part[m]] \in Nat
        BY <3>1, AtWork
      <4>2. \A n \in Members, p \in Partitions :
               lo'[n][p] = IF n = m /\ p = part[m] THEN cur[m][part[m]] ELSE lo[n][p]
        BY <1>1, <3>4, <4>1 DEF TypeOK
      <4>3. QED
        BY <1>1, <4>1, <4>2 DEF OffsetsInLog
    <3>6. QED
      BY <1>1, <3>2, <3>3, <3>5 DEF OffsetsInLog
  <2>6. CASE Close(m)
    BY <1>6, <2>6 DEF Close, storeVars
  <2>7. QED
    BY <1>7, <2>1, <2>2, <2>3, <2>4, <2>5, <2>6
    DEF Progress, Start, NextPartition, EndCycle, DecodeInvalid, WriteOk, Retry, GiveUp,
        CommitFenced, brokerVars, storeVars, positions
<1>8. ASSUME NEW m \in Members, Failure(m) PROVE Within
  <2>1. CASE UNCHANGED <<committed, lo, cur, end, late>>
    BY <1>5, <2>1
  <2>2. CASE WriteErr(m)
    <3>1. pc[m] \in InPartition
      BY <2>2 DEF WriteErr, InPartition
    <3>2. UNCHANGED <<committed, lo, cur, end>>
      BY <2>2 DEF WriteErr, brokerVars, positions
    <3>3. ASSUME NEW s \in late' PROVE s.lo <= s.hi /\ s.hi <= Len(log[s.part])
      <4>1. s \in late \/ s = [part |-> part[m], lo |-> lo[m][part[m]], hi |-> cur[m][part[m]]]
        BY <2>2 DEF WriteErr
      <4>2. lo[m][part[m]] <= cur[m][part[m]] /\ cur[m][part[m]] <= Len(log[part[m]])
        BY <3>1, AtWork
      <4>3. QED
        BY <1>1, <4>1, <4>2 DEF OffsetsInLog
    <3>4. QED
      BY <1>1, <3>2, <3>3 DEF OffsetsInLog
  <2>3. CASE CommitErr(m)
    <3>1. pc[m] \in InPartition
      BY <2>3 DEF CommitErr, InPartition
    <3>2. UNCHANGED <<lo, cur, end, late>>
      BY <2>3 DEF CommitErr, storeVars, positions
    <3>3. cur[m][part[m]] <= Len(log[part[m]]) /\ part[m] \in Partitions
      BY <3>1, AtWork
    <3>4. committed' = committed \/ committed' = [committed EXCEPT ![part[m]] = cur[m][part[m]]]
      BY <2>3 DEF CommitErr
    <3>5. \A p \in Partitions : committed'[p] <= Len(log[p])
      BY <1>1, <3>3, <3>4 DEF OffsetsInLog, LogTypeOK
    <3>6. QED
      BY <1>1, <3>2, <3>5 DEF OffsetsInLog
  <2>4. CASE Crash(m)
    BY <1>6, <2>4 DEF Crash, brokerVars, storeVars
  <2>5. ASSUME NEW p \in Partitions, Revoke(m, p) PROVE Within
    BY <1>6, <2>5 DEF Revoke, storeVars
  <2>6. QED
    BY <1>8, <2>1, <2>2, <2>3, <2>4, <2>5
    DEF Failure, LeaveRun, Deadline, QuarantineErr, ExpireAlive, brokerVars, storeVars, positions
<1>9. ASSUME NEW m \in Members, Group(m) PROVE Within
  <2>1. CASE ExpireDead(m)
    BY <1>5, <2>1 DEF ExpireDead, storeVars, positions
  <2>2. CASE LoseAssignment(m)
    BY <1>1, <1>6, <2>2 DEF LoseAssignment, brokerVars, storeVars, TypeOK
  <2>3. ASSUME NEW p \in Partitions, Assign(m, p) PROVE Within
    BY <1>1, <1>2, <2>3 DEF Assign, OffsetsInLog, TypeOK, LogTypeOK, storeVars
  <2>4. QED
    BY <1>9, <2>1, <2>2, <2>3 DEF Group
<1>10. CASE Produce \/ UNCHANGED vars
  BY <1>5, <1>10 DEF Produce, storeVars, positions, vars
<1>11. ASSUME NEW s \in late, LateCommit(s) PROVE Within
  BY <1>5, <1>11 DEF LateCommit, brokerVars, positions
<1>12. QED
  BY <1>7, <1>8, <1>9, <1>10, <1>11 DEF Next

-----------------------------------------------------------------------------
(* What is settled.                                                        *)

\* Only a commit moves the group's offset, and it moves it to the end of the segment.
LEMMA CommitKinds ==
    ASSUME [Next]_vars
    PROVE  committed' = committed \/ \E m \in Members : CommitOk(m) \/ CommitErr(m)
<1>1. ASSUME NEW m \in Members, Progress(m) PROVE committed' = committed \/ CommitOk(m)
  BY <1>1 DEF Progress, Start, Poll, NextPartition, EndCycle, DecodeValid, DecodeInvalid, WriteOk,
              Retry, GiveUp, QuarantineOk, CommitFenced, Close, brokerVars
<1>2. ASSUME NEW m \in Members, Failure(m) PROVE committed' = committed \/ CommitErr(m)
  BY <1>2 DEF Failure, LeaveRun, Deadline, WriteErr, QuarantineErr, Crash, ExpireAlive, Revoke, brokerVars
<1>3. ASSUME NEW m \in Members, Group(m) PROVE committed' = committed
  BY <1>3 DEF Group, ExpireDead, LoseAssignment, Assign, brokerVars
<1>4. CASE UNCHANGED vars \/ Produce \/ \E s \in late : LateCommit(s)
  BY <1>4 DEF vars, Produce, LateCommit, brokerVars
<1>5. QED
  BY <1>1, <1>2, <1>3, <1>4 DEF Next

\* Every step keeps the records below the committed offset and below the
\* current segment settled.
LEMMA SettledStep == Inv /\ [Next]_vars => SettledSoFar'
<1> SUFFICES ASSUME Inv, [Next]_vars PROVE SettledSoFar'
  OBVIOUS
<1>1. TypeOK /\ LogTypeOK /\ OffsetsInLog /\ SettledSoFar /\ TypeOK' /\ LogTypeOK'
  BY TypeStep DEF Inv, TypeOK
<1>2. Grow
  BY GrowStep
<1>3. \A p \in Partitions : Len(log[p]) \in Nat
  BY <1>1 DEF LogTypeOK
<1>4. \A p \in Partitions : \A n \in Nat :
         n <= Len(log[p]) /\ SettledBelow(p, n) => \A o \in 0..(n - 1) : Settled(p, o)'
  BY <1>1, <1>2, SettledStable DEF SettledBelow
<1> DEFINE Below(p, n) == n \in Nat /\ n <= Len(log[p]) /\ SettledBelow(p, n)
<1>5. \A p \in Partitions : Below(p, committed[p])
  BY <1>1 DEF OffsetsInLog, SettledSoFar, LogTypeOK
<1>6. \A m \in Members, p \in Partitions : Below(p, lo[m][p])
  BY <1>1, <1>3 DEF OffsetsInLog, SettledSoFar, TypeOK
<1>7. \A p \in Partitions : Below(p, 0)
  BY <1>3 DEF SettledBelow
<1>8. \A m \in Members : pc[m] = "commit" => part[m] \in Partitions /\ Below(part[m], cur[m][part[m]])
  BY <1>1, AtWork DEF SettledSoFar, InPartition
\* The offset of the group.
<1>9. \A p \in Partitions : Below(p, committed'[p])
  <2>1. CASE committed' = committed
    BY <1>5, <2>1
  <2>2. ASSUME NEW m \in Members, CommitOk(m) \/ CommitErr(m), committed' # committed
        PROVE  \A p \in Partitions : Below(p, committed'[p])
    <3>1. pc[m] = "commit" /\ committed' = [committed EXCEPT ![part[m]] = cur[m][part[m]]]
      BY <2>2 DEF CommitOk, CommitErr
    <3>2. \A p \in Partitions : committed'[p] = IF p = part[m] THEN cur[m][part[m]] ELSE committed[p]
      BY <1>1, <3>1 DEF LogTypeOK
    <3> HIDE DEF Below
    <3>3. QED
      BY <1>5, <1>8, <3>1, <3>2
  <2> HIDE DEF Below
  <2>3. QED
    BY <2>1, <2>2, CommitKinds
\* The start of every segment.
<1>10. \A m \in Members, p \in Partitions : Below(p, lo'[m][p])
  <2> DEFINE Starts == \A m \in Members, p \in Partitions : Below(p, lo'[m][p])
  <2>1. CASE lo' = lo
    BY <1>6, <2>1
  <2>2. ASSUME NEW m \in Members, NEW S, ResetPositions(m, S) PROVE Starts
    <3>1. \A n \in Members, p \in Partitions : lo'[n][p] = lo[n][p] \/ lo'[n][p] = 0
      BY <1>1, <2>2 DEF ResetPositions, TypeOK
    <3> HIDE DEF Below
    <3>2. QED
      BY <1>6, <1>7, <3>1
  <2>3. ASSUME NEW m \in Members, CommitOk(m) PROVE Starts
    <3>1. pc[m] = "commit" /\ lo' = [lo EXCEPT ![m][part[m]] = cur[m][part[m]]]
      BY <2>3 DEF CommitOk
    <3>2. \A n \in Members, p \in Partitions :
             lo'[n][p] = IF n = m /\ p = part[m] THEN cur[m][part[m]] ELSE lo[n][p]
      BY <1>1, <1>8, <3>1, ZenonT(30) DEF TypeOK
    <3> HIDE DEF Below
    <3>3. QED
      BY <1>6, <1>8, <3>1, <3>2
  <2>4. ASSUME NEW m \in Members, NEW q \in Partitions, Assign(m, q) PROVE Starts
    <3>1. \A n \in Members, p \in Partitions : lo'[n][p] = lo[n][p] \/ lo'[n][p] = committed[p]
      BY <1>1, <2>4 DEF Assign, TypeOK
    <3> HIDE DEF Below
    <3>2. QED
      BY <1>5, <1>6, <3>1
  <2> HIDE DEF Starts
  <2>5. ASSUME NEW m \in Members, Progress(m) PROVE Starts
    <3>1. lo' = lo \/ CommitOk(m) \/ Close(m)
      BY <2>5 DEF Progress, Start, Poll, NextPartition, EndCycle, DecodeValid, DecodeInvalid, WriteOk,
                  Retry, GiveUp, QuarantineOk, CommitFenced, positions
    <3>2. CASE Close(m)
      BY <2>2, <3>2 DEF Close
    <3>3. QED
      BY <2>1, <2>3, <3>1, <3>2 DEF Starts
  <2>6. ASSUME NEW m \in Members, Failure(m) PROVE Starts
    <3>1. lo' = lo \/ Crash(m) \/ \E p \in Partitions : Revoke(m, p)
      BY <2>6 DEF Failure, LeaveRun, Deadline, WriteErr, QuarantineErr, CommitErr, ExpireAlive, positions
    <3>2. CASE Crash(m)
      BY <2>2, <3>2 DEF Crash
    <3>3. ASSUME NEW p \in Partitions, Revoke(m, p) PROVE Starts
      BY <2>2, <3>3 DEF Revoke
    <3>4. QED
      BY <2>1, <3>1, <3>2, <3>3 DEF Starts
  <2>7. ASSUME NEW m \in Members, Group(m) PROVE Starts
    <3>1. CASE ExpireDead(m)
      BY <2>1, <3>1 DEF ExpireDead, positions, Starts
    <3>2. CASE LoseAssignment(m)
      BY <2>2, <3>2 DEF LoseAssignment
    <3>3. QED
      BY <2>4, <2>7, <3>1, <3>2 DEF Group
  <2>8. CASE UNCHANGED vars \/ Produce \/ \E s \in late : LateCommit(s)
    BY <2>1, <2>8 DEF vars, Produce, LateCommit, positions, Starts
  <2> HIDE DEF Below
  <2>9. QED
    BY <2>5, <2>6, <2>7, <2>8 DEF Next, Starts
\* Statements under way.
<1>11. \A s \in late' : s.part \in Partitions /\ Below(s.part, s.lo)
  <2>1. \A s \in late : s.part \in Partitions /\ Below(s.part, s.lo)
    <3>1. SUFFICES ASSUME NEW s \in late PROVE s.lo <= Len(log[s.part])
      BY <1>1 DEF SettledSoFar, TypeOK
    <3>2. QED
      BY <1>1 DEF OffsetsInLog, TypeOK
  <2>2. late' \subseteq late \/ \E m \in Members : WriteErr(m)
    <3>1. ASSUME NEW m \in Members, Progress(m) PROVE late' = late
      BY <3>1 DEF Progress, Start, Poll, NextPartition, EndCycle, DecodeValid, DecodeInvalid, WriteOk, Retry,
                  GiveUp, QuarantineOk, CommitOk, CommitFenced, Close, storeVars
    <3>2. ASSUME NEW m \in Members, Failure(m) PROVE late' = late \/ WriteErr(m)
      BY <3>2 DEF Failure, LeaveRun, Deadline, QuarantineErr, CommitErr, Crash, ExpireAlive, Revoke, storeVars
    <3>3. ASSUME NEW m \in Members, Group(m) PROVE late' = late
      BY <3>3 DEF Group, ExpireDead, LoseAssignment, Assign, storeVars
    <3>4. CASE UNCHANGED vars \/ Produce \/ \E s \in late : LateCommit(s)
      BY <3>4 DEF vars, Produce, LateCommit, storeVars
    <3>5. QED
      BY <3>1, <3>2, <3>3, <3>4 DEF Next
  <2>3. ASSUME NEW m \in Members, WriteErr(m), NEW s \in late'
        PROVE  s.part \in Partitions /\ Below(s.part, s.lo)
    <3>1. pc[m] \in InPartition
      BY <2>3 DEF WriteErr, InPartition
    <3>2. part[m] \in Partitions
      BY <3>1, AtWork
    <3>3. s \in late \/ s = [part |-> part[m], lo |-> lo[m][part[m]], hi |-> cur[m][part[m]]]
      BY <2>3 DEF WriteErr
    <3> HIDE DEF Below
    <3>4. QED
      BY <1>6, <2>1, <3>2, <3>3
  <2>4. QED
    BY <2>1, <2>2, <2>3
\* A segment about to be committed.
<1>12. ASSUME NEW m \in Members, pc'[m] = "commit", NEW o \in 0..(cur'[m][part'[m]] - 1)
       PROVE  Settled(part[m], o)'
  <2>1. CASE pc[m] = "commit" /\ UNCHANGED <<part[m], cur[m]>>
    <3>1. part[m] \in Partitions /\ Below(part[m], cur[m][part[m]]) /\ o \in 0..(cur[m][part[m]] - 1)
      BY <1>8, <1>12, <2>1
    <3>2. part'[m] = part[m]
      BY <2>1
    <3>3. QED
      BY <1>4, <3>1, <3>2 DEF Settled, At
  <2>2. CASE WriteOk(m)
    <3> DEFINE p == part[m]
    <3>1. /\ p \in Partitions
          /\ lo[m][p] \in Nat /\ cur[m][p] \in Nat /\ cur[m][p] <= Len(log[p])
          /\ rows' = WriteBatch(p, lo[m][p], cur[m][p])
          /\ log' = log
      BY <2>2, WriteOkSegment
    <3>2. part' = part /\ cur' = cur
      BY <2>2 DEF WriteOk, positions
    <3>3. CASE o < lo[m][p]
      <4>1. Below(p, lo[m][p]) /\ o \in 0..(lo[m][p] - 1)
        BY <1>6, <1>12, <3>1, <3>2, <3>3
      <4>2. QED
        BY <1>4, <3>1, <3>2, <4>1 DEF Settled, At
    <3>4. CASE lo[m][p] <= o
      <4>1. o \in lo[m][p]..(cur[m][p] - 1)
        BY <1>12, <3>1, <3>2, <3>4
      <4>2. At(p, o) # Poison
        BY <2>2, <4>1 DEF WriteOk, Inv, SegmentShape
      <4>3. rows'[At(p, o).key] # NoRow
        BY <1>1, <3>1, <4>1, <4>2, WriteBatchFacts
      <4>4. QED
        BY <3>1, <3>2, <4>2, <4>3 DEF Settled, At
    <3>5. QED
      BY <1>12, <3>1, <3>3, <3>4
  <2>3. CASE QuarantineOk(m)
    <3> DEFINE p == part[m]
    <3>1. /\ p \in Partitions /\ lo[m][p] = cur[m][p]
          /\ lo[m][p] \in Nat /\ At(p, cur[m][p]) = Poison
      BY <1>1, <2>3 DEF QuarantineOk, Inv, SegmentShape, InPartition, TypeOK
    <3>2. part' = part /\ cur'[m][p] = cur[m][p] + 1 /\ log' = log /\ <<p, cur[m][p]>> \in dlq'
      BY <1>1, <2>3, <3>1 DEF QuarantineOk, TypeOK
    <3>3. CASE o < lo[m][p]
      <4>1. Below(p, lo[m][p]) /\ o \in 0..(lo[m][p] - 1)
        BY <1>6, <1>12, <3>1, <3>2, <3>3
      <4>2. QED
        BY <1>4, <3>1, <3>2, <4>1 DEF Settled, At
    <3>4. CASE o = lo[m][p]
      BY <3>1, <3>2, <3>4 DEF Settled, At
    <3>5. QED
      BY <1>12, <3>1, <3>2, <3>3, <3>4
  <2>4. QED
    BY <1>1, <1>12, <2>1, <2>2, <2>3, CommitOrigin
<1>13. QED
  <2>1. \A p \in Partitions : SettledBelow(p, committed[p])'
    BY <1>4, <1>9 DEF SettledBelow
  <2>2. \A m \in Members, p \in Partitions : SettledBelow(p, lo[m][p])'
    BY <1>4, <1>10 DEF SettledBelow
  <2>3. \A s \in late' : \A o \in 0..(s.lo - 1) : Settled(s.part, o)'
    BY <1>4, <1>11
  <2>4. QED
    BY <1>12, <2>1, <2>2, <2>3 DEF SettledSoFar, SettledBelow

-----------------------------------------------------------------------------
(* Where a member is.                                                      *)

\* SegmentShape for one member.
Shape(m) ==
    /\ pc[m] \in InPartition => part[m] \in Partitions
    /\ pc[m] \in {"scan", "quarantine"} => cur[m][part[m]] < end[m][part[m]]
    /\ pc[m] = "quarantine" => lo[m][part[m]] = cur[m][part[m]] /\ At(part[m], cur[m][part[m]]) = Poison
    /\ pc[m] \in {"scan", "write", "backoff"} =>
          \A o \in lo[m][part[m]]..(cur[m][part[m]] - 1) : At(part[m], o) # Poison
    /\ pc[m] # "closing" => \A p \in Partitions :
          (pc[m] \notin InPartition \/ p # part[m]) => lo[m][p] = cur[m][p]

\* A member that does not move keeps its shape: the log only grows.
LEMMA ShapeStays ==
    ASSUME Inv, Grow, NEW m \in Members, UNCHANGED <<pc[m], part[m], lo[m], cur[m], end[m]>>
    PROVE  Shape(m)'
<1>1. Shape(m)
  BY DEF Inv, SegmentShape, Shape
<1>2. CASE pc[m] \in InPartition
  <2> DEFINE p == part[m]
  <2>1. /\ p \in Partitions /\ lo[m][p] \in Nat /\ cur[m][p] \in Nat /\ end[m][p] \in Nat /\ Len(log[p]) \in Nat
        /\ cur[m][p] <= end[m][p] /\ end[m][p] <= Len(log[p])
    BY <1>2, AtWork
  <2>2. \A o \in 0..(Len(log[p]) - 1) : log'[p][o + 1] = log[p][o + 1]
    BY <2>1 DEF Grow
  <2>3. pc[m] = "quarantine" => log'[p][cur[m][p] + 1] = log[p][cur[m][p] + 1]
    BY <1>1, <2>1, <2>2, SMTT(30) DEF Shape
  <2>4. \A o \in lo[m][p]..(cur[m][p] - 1) : log'[p][o + 1] = log[p][o + 1]
    BY <2>1, <2>2, SMTT(30)
  <2>5. QED
    BY <1>1, <2>1, <2>3, <2>4 DEF Shape, At
<1>3. CASE pc[m] \notin InPartition
  BY <1>1, <1>3 DEF Shape, InPartition
<1>4. QED
  BY <1>2, <1>3

\* Every step keeps a member's segment in the shape its place in
\* processPartition implies.
LEMMA ShapeStep == Inv /\ [Next]_vars => SegmentShape'
<1> SUFFICES ASSUME Inv, [Next]_vars PROVE SegmentShape'
  OBVIOUS
<1>1. TypeOK /\ Grow
  BY GrowStep DEF Inv
<1>2. SUFFICES ASSUME NEW m \in Members PROVE Shape(m)'
  BY DEF SegmentShape, Shape
<1>3. CASE UNCHANGED <<pc[m], part[m], lo[m], cur[m], end[m]>>
  BY <1>1, <1>3, ShapeStays
<1>4. CASE UNCHANGED vars \/ Produce \/ \E s \in late : LateCommit(s)
  BY <1>3, <1>4 DEF vars, Produce, LateCommit, positions
<1>5. ASSUME NEW n \in Members, n # m, Progress(n) \/ Failure(n) \/ Group(n) PROVE Shape(m)'
  BY <1>1, <1>3, <1>5, OthersStay
<1>6. Shape(m)
  BY DEF Inv, SegmentShape, Shape
<1>7. pc[m] \in InPartition =>
         /\ part[m] \in Partitions
         /\ lo[m][part[m]] \in Nat /\ cur[m][part[m]] \in Nat /\ end[m][part[m]] \in Nat
         /\ lo[m][part[m]] <= cur[m][part[m]] /\ cur[m][part[m]] <= end[m][part[m]]
  BY AtWork
\* Run has returned: nothing is asked of the positions any more.
<1>8. CASE pc'[m] = "closing"
  BY <1>8 DEF Shape, InPartition
\* Between polls every position is at rest.
<1>9. CASE pc'[m] \notin InPartition /\ \A p \in Partitions : lo'[m][p] = cur'[m][p]
  BY <1>9 DEF Shape, InPartition
<1>10. pc[m] \notin InPartition \cup {"closing"} => \A p \in Partitions : lo[m][p] = cur[m][p]
  BY <1>6 DEF Shape
<1>11. CASE Progress(m)
  <2>1. CASE Start(m)
    BY <1>1, <1>9, <1>10, <2>1 DEF Start, Goto, InPartition, TypeOK, positions
  <2>2. CASE Poll(m)
    BY <1>1, <1>9, <1>10, <2>2 DEF Poll, Goto, InPartition, TypeOK
  <2>3. CASE NextPartition(m)
    <3>1. PICK p \in Partitions : cur[m][p] < end[m][p] /\ part' = [part EXCEPT ![m] = p]
      BY <2>3 DEF NextPartition
    <3>2. part'[m] = p /\ pc'[m] = "scan" /\ UNCHANGED <<log, lo, cur, end>>
      BY <1>1, <2>3, <3>1 DEF NextPartition, Goto, TypeOK, brokerVars, positions
    <3>3. \A q \in Partitions : lo[m][q] = cur[m][q]
      BY <1>10, <2>3 DEF NextPartition, InPartition
    <3>4. lo[m][p] \in Nat
      BY <1>1 DEF TypeOK
    <3>5. \A o \in lo[m][p]..(cur[m][p] - 1) : FALSE
      BY <3>3, <3>4
    <3>6. QED
      BY <3>1, <3>2, <3>3, <3>5 DEF Shape
  <2>4. CASE EndCycle(m)
    BY <1>1, <1>9, <1>10, <2>4 DEF EndCycle, Goto, InPartition, TypeOK, positions
  <2>5. CASE DecodeValid(m)
    <3> DEFINE p == part[m]
    <3>1. p \in Partitions /\ pc[m] = "scan" /\ At(p, cur[m][p]) # Poison /\ cur[m][p] < end[m][p]
      BY <1>6, <2>5 DEF DecodeValid, Shape, InPartition
    <3>2. /\ part' = part /\ lo' = lo /\ end' = end /\ log' = log
          /\ cur'[m][p] = cur[m][p] + 1
          /\ \A q \in Partitions \ {p} : cur'[m][q] = cur[m][q]
          /\ pc'[m] = "write" \/ (pc'[m] = "scan" /\ cur[m][p] + 1 # end[m][p])
      BY <1>1, <2>5, <3>1 DEF DecodeValid, Goto, TypeOK, brokerVars
    <3>3. \A o \in lo[m][p]..cur[m][p] : At(p, o) # Poison
      BY <1>6, <1>7, <3>1 DEF Shape, InPartition
    <3>4. \A o \in lo'[m][part'[m]]..(cur'[m][part'[m]] - 1) : At(part'[m], o) # Poison
      BY <1>7, <3>1, <3>2, <3>3 DEF InPartition
    <3>5. \A q \in Partitions : q # p => lo[m][q] = cur[m][q]
      BY <1>6, <3>1 DEF Shape
    <3>6. cur'[m][p] < end[m][p] \/ pc'[m] = "write"
      BY <1>7, <3>1, <3>2 DEF InPartition
    <3>7. QED
      BY <3>1, <3>2, <3>4, <3>5, <3>6 DEF Shape, At, InPartition
  <2>6. CASE DecodeInvalid(m)
    <3> DEFINE p == part[m]
    <3>1. p \in Partitions /\ pc[m] = "scan" /\ At(p, cur[m][p]) = Poison
      BY <1>6, <2>6 DEF DecodeInvalid, Shape, InPartition
    <3>2. UNCHANGED <<log, part, lo, cur, end>>
      BY <2>6 DEF DecodeInvalid, brokerVars, positions
    <3>3. pc'[m] = IF lo[m][p] < cur[m][p] THEN "write" ELSE "quarantine"
      BY <1>1, <2>6 DEF DecodeInvalid, Goto, TypeOK
    <3>4. pc'[m] = "quarantine" => lo[m][p] = cur[m][p]
      BY <1>7, <3>1, <3>3 DEF InPartition
    <3>5. QED
      BY <1>6, <3>1, <3>2, <3>3, <3>4 DEF Shape, At, InPartition
  <2>7. CASE WriteOk(m) \/ Retry(m)
    <3>1. UNCHANGED <<log, part, lo, cur, end>>
      BY <2>7 DEF WriteOk, Retry, brokerVars, positions
    <3>2. (pc[m] = "write" /\ pc'[m] = "commit") \/ (pc[m] = "backoff" /\ pc'[m] = "write")
      BY <1>1, <2>7 DEF WriteOk, Retry, Goto, TypeOK
    <3>3. QED
      BY <1>6, <3>1, <3>2 DEF Shape, At, InPartition
  <2>8. CASE GiveUp(m) \/ CommitFenced(m)
    BY <1>1, <1>8, <2>8 DEF GiveUp, CommitFenced, Goto, TypeOK
  <2>9. CASE QuarantineOk(m)
    <3>1. pc[m] = "quarantine" /\ pc'[m] = "commit" /\ part' = part /\ lo' = lo
      BY <1>1, <2>9 DEF QuarantineOk, Goto, TypeOK
    <3>2. \A q \in Partitions : q # part[m] => cur'[m][q] = cur[m][q]
      BY <1>1, <1>7, <2>9 DEF QuarantineOk, InPartition, TypeOK
    <3>3. QED
      BY <1>6, <3>1, <3>2 DEF Shape, InPartition
  <2>10. CASE CommitOk(m)
    <3> DEFINE p == part[m]
    <3>1. pc[m] = "commit" /\ p \in Partitions
      BY <1>7, <2>10 DEF CommitOk, InPartition
    <3>2. /\ UNCHANGED <<log, part, cur, end>>
          /\ lo'[m][p] = cur[m][p]
          /\ \A q \in Partitions \ {p} : lo'[m][q] = lo[m][q]
      BY <1>1, <2>10, <3>1 DEF CommitOk, TypeOK
    <3>3. \A q \in Partitions : lo'[m][q] = cur[m][q]
      BY <1>6, <3>1, <3>2 DEF Shape
    <3>4. \A o \in lo'[m][p]..(cur[m][p] - 1) : FALSE
      BY <1>7, <3>1, <3>2 DEF InPartition
    <3>5. \/ pc'[m] = "cycle"
          \/ cur[m][p] # end[m][p] /\ pc'[m] = "quarantine" /\ At(p, cur[m][p]) = Poison
          \/ cur[m][p] # end[m][p] /\ pc'[m] = "scan"
      BY <1>1, <2>10 DEF CommitOk, Goto, TypeOK
    <3>6. cur[m][p] # end[m][p] => cur[m][p] < end[m][p]
      BY <1>7, <3>1 DEF InPartition
    <3>7. QED
      BY <3>1, <3>2, <3>3, <3>4, <3>5, <3>6 DEF Shape, At, InPartition
  <2>11. CASE Close(m)
    BY <1>1, <1>9, <2>11 DEF Close, Goto, ResetPositions, InPartition, TypeOK
  <2>12. QED
    BY <1>11, <2>1, <2>2, <2>3, <2>4, <2>5, <2>6, <2>7, <2>8, <2>9, <2>10, <2>11 DEF Progress
<1>12. CASE Failure(m)
  <2>1. CASE LeaveRun(m) \/ Deadline(m) \/ QuarantineErr(m) \/ CommitErr(m)
    BY <1>1, <1>8, <2>1 DEF LeaveRun, Deadline, QuarantineErr, CommitErr, Goto, TypeOK
  <2>2. CASE WriteErr(m)
    <3>1. UNCHANGED <<log, part, lo, cur, end>>
      BY <2>2 DEF WriteErr, brokerVars, positions
    <3>2. pc[m] = "write" /\ pc'[m] \in {"backoff", "closing"}
      BY <1>1, <2>2 DEF WriteErr, Goto, TypeOK
    <3>3. QED
      BY <1>6, <1>8, <3>1, <3>2 DEF Shape, At, InPartition
  <2>3. CASE Crash(m)
    BY <1>1, <1>9, <2>3 DEF Crash, Goto, ResetPositions, InPartition, TypeOK
  <2>4. CASE ExpireAlive(m)
    BY <1>3, <2>4 DEF ExpireAlive, positions
  <2>5. ASSUME NEW p \in Partitions, Revoke(m, p) PROVE Shape(m)'
    BY <1>1, <1>9, <1>10, <2>5 DEF Revoke, ResetPositions, InPartition, TypeOK
  <2>6. QED
    BY <1>12, <2>1, <2>2, <2>3, <2>4, <2>5 DEF Failure
<1>13. CASE Group(m)
  <2>1. CASE ExpireDead(m)
    BY <1>3, <2>1 DEF ExpireDead, positions
  <2>2. CASE LoseAssignment(m)
    BY <1>1, <1>9, <1>10, <2>2 DEF LoseAssignment, ResetPositions, InPartition, TypeOK
  <2>3. ASSUME NEW p \in Partitions, Assign(m, p) PROVE Shape(m)'
    BY <1>1, <1>9, <1>10, <2>3 DEF Assign, InPartition, TypeOK
  <2>4. QED
    BY <1>13, <2>1, <2>2, <2>3 DEF Group
<1>14. QED
  BY <1>4, <1>5, <1>11, <1>12, <1>13 DEF Next

-----------------------------------------------------------------------------
(* Who may commit.                                                         *)

\* Every step keeps the owner of a partition ahead of the committed offset.
LEMMA OwnerStep == Inv /\ [Next]_vars => OwnerIsCurrent'
<1> SUFFICES ASSUME Inv, [Next]_vars,
                    NEW m \in Members, NEW p \in Partitions,
                    owner'[p] = m, pc'[m] \notin {"down", "closing"}
             PROVE  committed'[p] = lo'[m][p]
  BY DEF OwnerIsCurrent
<1>1. TypeOK /\ LogTypeOK
  BY DEF Inv, TypeOK
<1>2. owner[p] = m /\ pc[m] \notin {"down", "closing"} => committed[p] = lo[m][p]
  BY DEF Inv, OwnerIsCurrent
<1>3. CASE owner[p] = m /\ pc[m] \notin {"down", "closing"} /\ committed'[p] = committed[p] /\ lo'[m][p] = lo[m][p]
  BY <1>2, <1>3
<1>4. CASE UNCHANGED vars \/ Produce \/ \E s \in late : LateCommit(s)
  BY <1>3, <1>4 DEF vars, Produce, LateCommit, brokerVars, positions
<1>5. ASSUME NEW n \in Members, n # m, Progress(n) PROVE committed'[p] = lo'[m][p]
  <2>1. pc'[m] = pc[m] /\ lo'[m] = lo[m]
    BY <1>1, <1>5, OthersStay
  <2>2. owner[p] = m
    BY <1>1, <1>5 DEF Progress, Start, Poll, NextPartition, EndCycle, DecodeValid, DecodeInvalid, WriteOk, Retry,
                      GiveUp, QuarantineOk, CommitOk, CommitFenced, Close, Disown, brokerVars, TypeOK
  <2>3. CASE CommitOk(n)
    <3>1. pc[n] = "commit" /\ part[n] # p /\ committed' = [committed EXCEPT ![part[n]] = cur[n][part[n]]]
      BY <1>5, <2>2, <2>3 DEF CommitOk
    <3>2. committed'[p] = committed[p]
      BY <1>1, <3>1 DEF LogTypeOK
    <3>3. QED
      BY <1>3, <2>1, <2>2, <3>2
  <2>4. CASE committed' = committed
    BY <1>3, <2>1, <2>2, <2>4
  <2>5. QED
    BY <1>5, <2>3, <2>4
    DEF Progress, Start, Poll, NextPartition, EndCycle, DecodeValid, DecodeInvalid, WriteOk, Retry,
        GiveUp, QuarantineOk, CommitFenced, Close, brokerVars
<1>6. ASSUME NEW n \in Members, n # m, Failure(n) PROVE committed'[p] = lo'[m][p]
  <2>1. pc'[m] = pc[m] /\ lo'[m] = lo[m]
    BY <1>1, <1>6, OthersStay
  <2>2. owner[p] = m
    BY <1>1, <1>6 DEF Failure, LeaveRun, Deadline, WriteErr, QuarantineErr, CommitErr, Crash, ExpireAlive,
                      Revoke, Disown, brokerVars, TypeOK
  <2>3. CASE CommitErr(n)
    <3>1. committed' = committed \/ (part[n] # p /\ committed' = [committed EXCEPT ![part[n]] = cur[n][part[n]]])
      BY <1>6, <2>2, <2>3 DEF CommitErr
    <3>2. committed'[p] = committed[p]
      BY <1>1, <3>1 DEF LogTypeOK
    <3>3. QED
      BY <1>3, <2>1, <2>2, <3>2
  <2>4. CASE committed' = committed
    BY <1>3, <2>1, <2>2, <2>4
  <2>5. QED
    BY <1>6, <2>3, <2>4
    DEF Failure, LeaveRun, Deadline, WriteErr, QuarantineErr, Crash, ExpireAlive, Revoke, brokerVars
<1>7. ASSUME NEW n \in Members, n # m, Group(n) PROVE committed'[p] = lo'[m][p]
  <2>1. pc'[m] = pc[m] /\ lo'[m] = lo[m]
    BY <1>1, <1>7, OthersStay
  <2>2. owner[p] = m /\ committed' = committed
    BY <1>1, <1>7 DEF Group, ExpireDead, LoseAssignment, Assign, Disown, brokerVars, TypeOK
  <2>3. QED
    BY <1>3, <2>1, <2>2
<1>8. CASE Progress(m)
  <2>1. CASE Start(m)
    BY <2>1 DEF Start, brokerVars
  <2>2. CASE CommitOk(m)
    <3>1. part[m] \in Partitions /\ pc[m] = "commit"
      BY <2>2 DEF CommitOk, Inv, SegmentShape, InPartition
    <3>2. /\ owner' = owner
          /\ committed'[p] = IF p = part[m] THEN cur[m][part[m]] ELSE committed[p]
          /\ lo'[m][p] = IF p = part[m] THEN cur[m][part[m]] ELSE lo[m][p]
      BY <1>1, <2>2, <3>1 DEF CommitOk, TypeOK, LogTypeOK
    <3>3. QED
      BY <1>2, <3>1, <3>2
  <2>3. CASE Close(m)
    BY <1>1, <2>3 DEF Close, Disown
  <2>4. CASE GiveUp(m) \/ CommitFenced(m)
    BY <1>1, <2>4 DEF GiveUp, CommitFenced, Goto, TypeOK
  <2>5. CASE \/ Poll(m) \/ NextPartition(m) \/ EndCycle(m) \/ DecodeValid(m) \/ DecodeInvalid(m)
             \/ WriteOk(m) \/ Retry(m) \/ QuarantineOk(m)
    <3>1. pc[m] \notin {"down", "closing"}
      BY <2>5 DEF Poll, NextPartition, EndCycle, DecodeValid, DecodeInvalid, WriteOk, Retry, QuarantineOk
    <3>2. UNCHANGED <<owner, committed, lo>>
      BY <2>5 DEF Poll, NextPartition, EndCycle, DecodeValid, DecodeInvalid, WriteOk, Retry, QuarantineOk,
                  brokerVars, positions
    <3>3. QED
      BY <1>3, <3>1, <3>2
  <2>6. QED
    BY <1>8, <2>1, <2>2, <2>3, <2>4, <2>5 DEF Progress
<1>9. CASE Failure(m)
  <2>1. CASE LeaveRun(m) \/ Deadline(m) \/ QuarantineErr(m) \/ CommitErr(m) \/ Crash(m)
    BY <1>1, <2>1 DEF LeaveRun, Deadline, QuarantineErr, CommitErr, Crash, Goto, TypeOK
  <2>2. CASE WriteErr(m)
    BY <1>3, <2>2 DEF WriteErr, brokerVars, positions
  <2>3. CASE ExpireAlive(m)
    BY <1>1, <2>3 DEF ExpireAlive, Disown
  <2>4. ASSUME NEW q \in Partitions, Revoke(m, q) PROVE committed'[p] = lo'[m][p]
    <3>1. q # p /\ pc[m] = "idle" /\ owner[p] = m /\ committed' = committed
      BY <1>1, <2>4 DEF Revoke, TypeOK
    <3>2. lo'[m][p] = lo[m][p]
      BY <1>1, <2>4, <3>1 DEF Revoke, ResetPositions, TypeOK
    <3>3. QED
      BY <1>3, <3>1, <3>2
  <2>5. QED
    BY <1>9, <2>1, <2>2, <2>3, <2>4 DEF Failure
<1>10. CASE Group(m)
  <2>1. CASE ExpireDead(m)
    BY <1>1, <2>1 DEF ExpireDead, Disown
  <2>2. CASE LoseAssignment(m)
    <3>1. pc[m] = "idle" /\ owner[p] = m /\ committed' = committed
      BY <2>2 DEF LoseAssignment, brokerVars
    <3>2. lo'[m][p] = lo[m][p]
      BY <1>1, <2>2, <3>1 DEF LoseAssignment, ResetPositions, TypeOK
    <3>3. QED
      BY <1>3, <3>1, <3>2
  <2>3. ASSUME NEW q \in Partitions, Assign(m, q) PROVE committed'[p] = lo'[m][p]
    <3>1. CASE q = p
      BY <1>1, <2>3, <3>1 DEF Assign, TypeOK
    <3>2. CASE q # p
      <4>1. pc[m] = "idle" /\ owner[p] = m /\ committed' = committed /\ lo'[m][p] = lo[m][p]
        BY <1>1, <2>3, <3>2 DEF Assign, TypeOK
      <4>2. QED
        BY <1>3, <4>1
    <3>3. QED
      BY <3>1, <3>2
  <2>4. QED
    BY <1>10, <2>1, <2>2, <2>3 DEF Group
<1>11. QED
  BY <1>4, <1>5, <1>6, <1>7, <1>8, <1>9, <1>10 DEF Next

-----------------------------------------------------------------------------
(* The theorems.                                                           *)

\* The invariant holds before the first record.
LEMMA InitInv == Init => Inv
<1> SUFFICES ASSUME Init PROVE Inv
  OBVIOUS
<1> USE DEF Init, LogInit
<1>1. TypeOK
  BY DEF TypeOK, LogTypeOK, Labels, Kinds
<1>2. \A p \in Partitions : Len(log[p]) = 0
  OBVIOUS
<1>3. KeysInPlace /\ OffsetsInLog /\ SettledSoFar /\ OwnerIsCurrent
  BY <1>2 DEF KeysInPlace, OffsetsInLog, SettledSoFar, SettledBelow, OwnerIsCurrent
<1>4. SegmentShape
  BY DEF SegmentShape, InPartition
<1>5. FirstContentWins
  BY DEF FirstContentWins
<1>6. QED
  BY <1>1, <1>3, <1>4, <1>5 DEF Inv

\* The invariant behind everything below holds in every reachable state.
THEOREM Invariance == Spec => []Inv
<1>1. Inv /\ [Next]_vars => Inv'
  BY TypeStep, KeysStep, OffsetsStep, ShapeStep, SettledStep, OwnerStep, FirstContentStep DEF Inv
<1>2. QED
  BY InitInv, <1>1, PTL DEF Spec

\* The variables keep their types.
THEOREM TypeCorrect == Spec => []TypeOK
BY Invariance, PTL DEF Inv

\* No record below the committed offset is lost: it has a row or is quarantined.
THEOREM NothingIsLost == Spec => []NoLoss
<1>1. Inv => NoLoss
  BY DEF Inv, TypeOK, LogTypeOK, OffsetsInLog, SettledSoFar, SettledBelow, NoLoss
<1>2. QED
  BY Invariance, <1>1, PTL

\* A stored row has the content that came first in the key's partition.
THEOREM FirstContentIsKept == Spec => []FirstContentWins
BY Invariance, PTL DEF Inv

-----------------------------------------------------------------------------
(* The reader implements Delivery.                                         *)

\* A commit that takes effect advances the offset over settled records.
LEMMA CommitAdvances ==
    ASSUME Inv, NEW m \in Members, CommitOk(m) \/ CommitErr(m), committed' # committed
    PROVE  LET p == part[m] IN
           /\ p \in Partitions /\ cur[m][p] \in 0..MaxLog
           /\ committed[p] <= cur[m][p] /\ cur[m][p] <= Len(log[p])
           /\ SettledBelow(p, cur[m][p])
           /\ committed' = [committed EXCEPT ![p] = cur[m][p]]
           /\ UNCHANGED <<log, rows, dlq>>
<1>1. pc[m] = "commit" /\ owner[part[m]] = m
  BY DEF CommitOk, CommitErr
<1>2. /\ part[m] \in Partitions /\ lo[m][part[m]] \in Nat /\ cur[m][part[m]] \in Nat
      /\ lo[m][part[m]] <= cur[m][part[m]] /\ cur[m][part[m]] <= Len(log[part[m]])
  <2>1. pc[m] \in InPartition
    BY <1>1 DEF InPartition
  <2>2. QED
    BY <2>1, AtWork
<1>3. committed[part[m]] = lo[m][part[m]]
  BY <1>1, <1>2 DEF Inv, OwnerIsCurrent
<1>4. Len(log[part[m]]) <= MaxLog /\ Len(log[part[m]]) \in Nat
  BY <1>2 DEF Inv, OffsetsInLog, TypeOK, LogTypeOK
<1>5. SettledBelow(part[m], cur[m][part[m]])
  BY <1>1 DEF Inv, SettledSoFar
<1>6. committed' = [committed EXCEPT ![part[m]] = cur[m][part[m]]] /\ UNCHANGED <<log, rows, dlq>>
  BY DEF CommitOk, CommitErr, storeVars
<1>7. QED
  BY <1>2, <1>3, <1>4, <1>5, <1>6

\* The group's offset never moves backwards, whoever commits.
THEOREM OffsetsAdvance == Spec => CommittedNeverRewinds
<1>1. Inv /\ [Next]_vars => [\A p \in Partitions : committed'[p] >= committed[p]]_vars
  <2> SUFFICES ASSUME Inv, [Next]_vars PROVE \A p \in Partitions : committed'[p] >= committed[p]
    OBVIOUS
  <2>1. committed \in [Partitions -> Nat]
    BY DEF Inv, TypeOK, LogTypeOK
  <2>2. CASE committed' = committed
    BY <2>1, <2>2
  <2>3. ASSUME NEW m \in Members, CommitOk(m) \/ CommitErr(m), committed' # committed
        PROVE  \A p \in Partitions : committed'[p] >= committed[p]
    BY <2>1, <2>3, CommitAdvances
  <2>4. QED
    BY <2>2, <2>3, CommitKinds
<1>2. QED
  BY Invariance, <1>1, PTL DEF Spec, CommittedNeverRewinds

\* One statement above settled records is one Store step of Delivery.
LEMMA StatementStores ==
    ASSUME Inv, NEW p \in Partitions, NEW a \in Nat, NEW b \in Nat, b <= Len(log[p]),
           SettledBelow(p, a), rows' = WriteBatch(p, a, b), UNCHANGED <<log, committed, dlq>>
    PROVE  \E K \in SUBSET Keys : D!Store(K)
<1> DEFINE K == {k \in Keys : rows'[k] # rows[k]}
<1>1. LogTypeOK /\ KeysInPlace /\ FirstContentWins
  BY DEF Inv, TypeOK
<1>2. rows' \in [Keys -> Bodies \cup {NoRow}]
  BY <1>1, WriteBatchFacts
<1>3. ASSUME NEW k \in K
      PROVE  /\ rows[k] = NoRow
             /\ Carries(PartitionOf[k], 0, Len(log[PartitionOf[k]]), k) # {}
             /\ rows'[k] = FirstContent(k)
  <2>1. rows[k] = NoRow /\ rows'[k] # NoRow
    BY <1>1, WriteBatchFacts
  <2>2. QED
    BY <1>1, <2>1, WriteBatchFirst
<1>4. \A k \in K : rows[k] = NoRow /\ D!Appears(k) /\ rows'[k] = D!FirstContent(k)
  BY <1>3 DEF D!Appears, D!FirstContent, D!Carries, D!At, D!First, FirstContent, Carries, At, First
<1>5. rows' = [k \in Keys |-> IF k \in K THEN D!FirstContent(k) ELSE rows[k]]
  BY <1>2, <1>4
<1>6. D!Store(K)
  BY <1>4, <1>5 DEF D!Store
<1>7. QED
  BY <1>6

\* Every step of the group is a step of Delivery or leaves its state alone.
THEOREM Refinement == Spec => ImplementsDelivery
<1>1. Init => D!Init
  BY DEF Init, LogInit, D!Init, D!LogInit
<1>2. Inv /\ [Next]_vars => [D!Next]_D!vars
  <2> SUFFICES ASSUME Inv, [Next]_vars PROVE D!Next \/ UNCHANGED <<log, committed, rows, dlq>>
    BY DEF D!vars
  <2>1. LogTypeOK
    BY DEF Inv, TypeOK
  <2>2. ASSUME NEW m \in Members, CommitOk(m) \/ CommitErr(m), committed' # committed
        PROVE  D!Next
    <3> DEFINE p == part[m]
               n == cur[m][p]
    <3>1. /\ p \in Partitions /\ n \in 0..MaxLog
          /\ committed[p] <= n /\ n <= Len(log[p])
          /\ SettledBelow(p, n)
          /\ committed' = [committed EXCEPT ![p] = n]
          /\ UNCHANGED <<log, rows, dlq>>
      BY <2>2, CommitAdvances
    <3>2. committed[p] \in Nat
      BY <2>1, <3>1 DEF LogTypeOK
    <3> HIDE DEF p, n
    <3>3. \A o \in committed[p]..(n - 1) : D!Settled(p, o)
      BY <3>1, <3>2 DEF SettledBelow, Settled, At, D!Settled, D!At
    <3>4. D!Advance(p, n)
      BY <3>1, <3>3 DEF D!Advance
    <3>5. QED
      BY <3>1, <3>4 DEF D!Next
  <2>3. CASE Produce
    BY <2>3 DEF Produce, AppendRecord, storeVars, D!Next, D!Produce, D!AppendRecord, D!Events, Events
  <2>4. ASSUME NEW s \in late, LateCommit(s) PROVE D!Next
    BY <2>4, LateSegment, StatementStores DEF D!Next
  <2>5. ASSUME NEW m \in Members, WriteOk(m) PROVE D!Next
    BY <2>5, WriteOkSegment, StatementStores DEF D!Next
  <2>6. ASSUME NEW m \in Members, QuarantineOk(m) \/ QuarantineErr(m)
        PROVE  D!Next \/ UNCHANGED <<log, committed, rows, dlq>>
    <3> DEFINE p == part[m]
               n == cur[m][p]
    <3>1. pc[m] = "quarantine"
      BY <2>6 DEF QuarantineOk, QuarantineErr
    <3>2. /\ p \in Partitions /\ n \in Nat /\ end[m][p] \in Nat /\ Len(log[p]) \in Nat
          /\ end[m][p] <= Len(log[p])
      BY <3>1, AtWork DEF InPartition
    <3>3. n < end[m][p] /\ At(p, n) = Poison
      BY <3>1 DEF Inv, SegmentShape
    <3>4. Len(log[p]) <= MaxLog
      BY <3>2 DEF Inv, OffsetsInLog
    <3>5. UNCHANGED <<log, committed, rows>> /\ (dlq' = dlq \/ dlq' = dlq \cup {<<p, n>>})
      BY <2>6 DEF QuarantineOk, QuarantineErr, storeVars
    <3> HIDE DEF p, n
    <3>6. n \in 0..MaxLog /\ n < Len(log[p])
      BY <3>2, <3>3, <3>4
    <3>7. CASE dlq' = dlq
      BY <3>5, <3>7
    <3>8. CASE dlq' = dlq \cup {<<p, n>>}
      <4>1. D!Quarantine(p, n)
        BY <3>3, <3>5, <3>6, <3>8 DEF D!Quarantine, D!At, At
      <4>2. QED
        BY <3>2, <3>6, <4>1 DEF D!Next
    <3>9. QED
      BY <3>5, <3>7, <3>8
  <2>7. CASE committed' = committed
    BY <2>3, <2>4, <2>5, <2>6, <2>7, StepKinds
  <2>8. QED
    BY <2>2, <2>7, CommitKinds
<1>3. QED
  BY Invariance, <1>1, <1>2, PTL DEF Spec, D!Spec, ImplementsDelivery

-----------------------------------------------------------------------------
(* The collector.                                                          *)

\* A published record is an event.
LEMMA RecordIsEvent == \A x \in I!Items : I!Record(x) \in Events
<1> TAKE x \in I!Items
<1>1. PICK r \in Requests : x \in I!ItemsOf(r)
  BY DEF I!Items
<1>2. x[1] = r /\ x[2] \in 1..Len(Batch[r]) /\ Batch[r] \in Seq(Events)
  BY <1>1, SubmittedAssumption DEF I!ItemsOf
<1> QED
  BY <1>2 DEF I!Record

\* A step of the API side is a Produce of Reader, or changes nothing of it.
LEMMA CollectStep ==
    ASSUME Collect
    PROVE  [Next]_vars
<1>1. ASSUME NEW x \in I!Items, I!Deliver(x)
      PROVE  Produce
  <2>1. I!Record(x) \in Events
    BY RecordIsEvent
  <2>2. AppendRecord(PartitionOf[I!Record(x).key], I!Record(x))
    BY <1>1 DEF I!Deliver, I!Target, I!AppendRecord, AppendRecord
  <2>3. UNCHANGED <<committed, rows, dlq>> /\ UNCHANGED groupSide
    BY <1>1 DEF I!Deliver, Collect
  <2>4. \E e \in Events : AppendRecord(PartitionOf[e.key], e)
    BY <2>1, <2>2 DEF AppendRecord
  <2> QED
    BY <2>3, <2>4 DEF Produce, groupSide, storeVars, positions
<1>2. CASE \E x \in I!Items : I!Deliver(x)
  BY <1>1, <1>2 DEF Next
<1>3. CASE ~(\E x \in I!Items : I!Deliver(x))
  <2>0. I!Next /\ UNCHANGED groupSide
    BY DEF Collect
  <2>1. ASSUME NEW r \in Requests, I!Refuse(r) \/ I!Accept(r) \/ I!Handler(r)
        PROVE  UNCHANGED <<log, committed, rows, dlq>>
    BY <2>1 DEF I!Refuse, I!Unauthorized, I!Limited, I!Invalid, I!Answer, I!Accept, I!Handler,
                I!TryProduce, I!Receive, I!Timeout, I!shared
  <2>2. ASSUME NEW x \in I!Items, I!Acknowledge(x) \/ I!GiveUp(x) \/ I!Callback(x)
        PROVE  UNCHANGED <<log, committed, rows, dlq>>
    BY <2>2 DEF I!Acknowledge, I!GiveUp, I!Callback, I!shared
  <2>3. ASSUME I!Signal \/ I!Expire \/ I!Stop \/ I!Flush \/ I!Exit \/ I!Abort
        PROVE  UNCHANGED <<log, committed, rows, dlq>>
    BY <2>3 DEF I!Signal, I!Expire, I!Stop, I!Flush, I!Exit, I!Abort, I!shared
  <2>4. UNCHANGED <<log, committed, rows, dlq>>
    BY <2>0, <1>3, <2>1, <2>2, <2>3 DEF I!Next
  <2> QED
    BY <2>0, <2>4 DEF groupSide, vars
<1> QED
  BY <1>2, <1>3

(***************************************************************************)
(* Publication by the API process, through its buffer, timeouts, shutdown  *)
(* and crash, is invisible to the group except as appended events.         *)
(***************************************************************************)
THEOREM Composition == CollectorSpec => ImplementsReader
<1>1. CollectorInit => Init
  BY DEF CollectorInit
<1>2. [CollectorNext]_collectorVars => [Next]_vars
  <2> SUFFICES ASSUME [CollectorNext]_collectorVars PROVE [Next]_vars
    OBVIOUS
  <2>1. CASE Collect
    BY <2>1, CollectStep
  <2>2. ASSUME NEW m \in Members, Run(m) \/ Regroup(m) \/ Disturb(m)
        PROVE  Next
    BY <2>2 DEF Run, Regroup, Disturb, Next
  <2>3. ASSUME NEW s \in late, Settle(s)
        PROVE  Next
    BY <2>3 DEF Settle, Next
  <2>4. ASSUME NEW p \in Partitions, Stray(p)
        PROVE  Next
    BY <2>4 DEF Stray, Next, Produce, AppendRecord, groupSide, storeVars, positions
  <2>5. CASE UNCHANGED collectorVars
    BY <2>5 DEF collectorVars, groupSide, vars
  <2> QED
    BY <2>1, <2>2, <2>3, <2>4, <2>5 DEF CollectorNext
<1> QED
  BY <1>1, <1>2, PTL DEF CollectorSpec, ImplementsReader, Spec

\* A request that was admitted stays admitted.
LEMMA AdmissionStays ==
    ASSUME request \in [Requests -> I!Refused \cup {"new", "produce", "await", "202", "503"}],
           [CollectorNext]_collectorVars
    PROVE  /\ request' \in [Requests -> I!Refused \cup {"new", "produce", "await", "202", "503"}]
           /\ \A r \in Requests : Admitted(r) => Admitted(r)'
<1> DEFINE Kept == /\ request' \in [Requests -> I!Refused \cup {"new", "produce", "await", "202", "503"}]
                   /\ \A r \in Requests : Admitted(r) => Admitted(r)'
<1>1. CASE request' = request
  BY <1>1 DEF Admitted
<1>2. ASSUME NEW r \in Requests, NEW v \in I!Refused \cup {"new", "produce", "await", "202", "503"},
             request' = [request EXCEPT ![r] = v], Admitted(r) => v \notin I!Refused \cup {"new"}
      PROVE  Kept
  BY <1>2 DEF Admitted
<1>3. ASSUME NEW r \in Requests, I!Refuse(r) \/ I!Accept(r) \/ I!Handler(r) PROVE Kept
  <2>1. PICK v \in I!Refused \cup {"new", "produce", "await", "202", "503"} :
            /\ request' = [request EXCEPT ![r] = v]
            /\ request[r] = "new" \/ v \in {"produce", "await", "202", "503"}
    BY <1>3 DEF I!Refuse, I!Unauthorized, I!Limited, I!Invalid, I!Answer, I!Accept, I!Handler, I!TryProduce,
                I!Receive, I!Timeout, I!Refused
  <2> QED
    BY <1>2, <2>1 DEF Admitted, I!Refused
<1>4. CASE I!Next
  <2>1. ASSUME NEW x \in I!Items, I!Deliver(x) \/ I!Acknowledge(x) \/ I!GiveUp(x) \/ I!Callback(x)
        PROVE  request' = request
    BY <2>1 DEF I!Deliver, I!Acknowledge, I!GiveUp, I!Callback
  <2>2. ASSUME I!Signal \/ I!Expire \/ I!Stop \/ I!Flush \/ I!Exit \/ I!Abort
        PROVE  request' = request
    BY <2>2 DEF I!Signal, I!Expire, I!Stop, I!Flush, I!Exit, I!Abort, I!sending
  <2> QED
    BY <1>1, <1>3, <1>4, <2>1, <2>2 DEF I!Next
<1>5. CASE ~I!Next
  BY <1>1, <1>5 DEF CollectorNext, Collect, Run, Regroup, Disturb, Settle, Stray, collectorVars, apiSide
<1> QED
  BY <1>4, <1>5

\* What is on its way belongs to an admitted request.
LEMMA WireStep ==
    ASSUME Origin, [CollectorNext]_collectorVars
    PROVE  wire' \in SUBSET I!Items /\ \A x \in wire' : Admitted(x[1])'
<1>1. \A x \in I!Items : x[1] \in Requests
  BY DEF I!Items, I!ItemsOf
<1>2. \A x \in wire' : x \in I!Items /\ (x \in wire \/ Admitted(x[1]))
  <2>1. CASE wire' \subseteq wire
    BY <2>1 DEF Origin
  <2>2. ASSUME NEW r \in Requests, I!TryProduce(r), ~(wire' \subseteq wire)
        PROVE  \A x \in wire' : x \in I!Items /\ (x \in wire \/ Admitted(x[1]))
    <3>1. PICK y \in I!ItemsOf(r) : wire' = wire \cup {y} /\ request[r] = "produce"
      BY <2>2 DEF I!TryProduce
    <3>2. y \in I!Items /\ y[1] = r
      BY <3>1 DEF I!Items, I!ItemsOf
    <3> QED
      BY <3>1, <3>2 DEF Origin, Admitted, I!Refused
  <2>3. CASE ~I!Next
    BY <2>1, <2>3 DEF CollectorNext, Collect, Run, Regroup, Disturb, Settle, Stray, collectorVars, apiSide
  <2>4. ASSUME NEW r \in Requests, I!Refuse(r) \/ I!Accept(r) \/ I!Receive(r) \/ I!Timeout(r)
        PROVE  wire' \subseteq wire
    BY <2>4 DEF I!Refuse, I!Unauthorized, I!Limited, I!Invalid, I!Answer, I!Accept, I!Receive, I!Timeout
  <2>5. ASSUME NEW x \in I!Items, I!Deliver(x) \/ I!Acknowledge(x) \/ I!GiveUp(x) \/ I!Callback(x)
        PROVE  wire' \subseteq wire
    BY <2>5 DEF I!Deliver, I!Acknowledge, I!GiveUp, I!Callback
  <2>6. ASSUME I!Signal \/ I!Expire \/ I!Stop \/ I!Flush \/ I!Exit \/ I!Abort
        PROVE  wire' \subseteq wire
    BY <2>6 DEF I!Signal, I!Expire, I!Stop, I!Flush, I!Exit, I!Abort, I!sending
  <2> QED
    BY <2>1, <2>2, <2>3, <2>4, <2>5, <2>6 DEF I!Next, I!Handler
<1>3. \A r \in Requests : Admitted(r) => Admitted(r)'
  BY AdmissionStays DEF Origin
<1>4. \A x \in wire' : Admitted(x[1])
  BY <1>2 DEF Origin
<1> QED
  BY <1>1, <1>2, <1>3, <1>4

\* The log grows by records that were on their way, and by stray ones.
LEMMA LogGrows ==
    ASSUME LogTypeOK, Origin, [CollectorNext]_collectorVars
    PROVE  \/ log' = log
           \/ \E p \in Partitions, r \in Events \cup {Poison} :
                /\ log' = [log EXCEPT ![p] = Append(@, r)]
                /\ r # Poison => \E x \in wire : I!Record(x) = r
<1>1. ASSUME NEW x \in I!Items, I!Deliver(x)
      PROVE  \E p \in Partitions, r \in Events \cup {Poison} :
                /\ log' = [log EXCEPT ![p] = Append(@, r)]
                /\ r # Poison => \E y \in wire : I!Record(y) = r
  <2>1. I!Record(x) \in Events /\ I!Target(x) \in Partitions
    BY RecordIsEvent DEF I!Target, Events
  <2>2. x \in wire /\ log' = [log EXCEPT ![I!Target(x)] = Append(@, I!Record(x))]
    BY <1>1 DEF I!Deliver, I!AppendRecord
  <2> QED
    BY <2>1, <2>2
<1>2. ASSUME NEW p \in Partitions, Stray(p)
      PROVE  \E q \in Partitions, r \in Events \cup {Poison} :
                /\ log' = [log EXCEPT ![q] = Append(@, r)]
                /\ r # Poison => \E y \in wire : I!Record(y) = r
  BY <1>2 DEF Stray, AppendRecord
<1>3. CASE I!Next /\ ~(\E x \in I!Items : I!Deliver(x))
  <2>1. ASSUME NEW r \in Requests, I!Refuse(r) \/ I!Accept(r) \/ I!Handler(r)
        PROVE  log' = log
    BY <2>1 DEF I!Refuse, I!Unauthorized, I!Limited, I!Invalid, I!Answer, I!Accept, I!Handler,
                I!TryProduce, I!Receive, I!Timeout, I!shared
  <2>2. ASSUME NEW x \in I!Items, I!Acknowledge(x) \/ I!GiveUp(x) \/ I!Callback(x)
        PROVE  log' = log
    BY <2>2 DEF I!Acknowledge, I!GiveUp, I!Callback, I!shared
  <2>3. ASSUME I!Signal \/ I!Expire \/ I!Stop \/ I!Flush \/ I!Exit \/ I!Abort
        PROVE  log' = log
    BY <2>3 DEF I!Signal, I!Expire, I!Stop, I!Flush, I!Exit, I!Abort, I!shared
  <2> QED
    BY <1>3, <2>1, <2>2, <2>3 DEF I!Next
<1>4. ASSUME NEW m \in Members, Run(m) \/ Regroup(m) \/ Disturb(m) PROVE log' = log
  <2>1. CASE Progress(m)
    BY <2>1 DEF Progress, Start, Poll, NextPartition, EndCycle, DecodeValid, DecodeInvalid, WriteOk, Retry,
                GiveUp, QuarantineOk, CommitOk, CommitFenced, Close, brokerVars
  <2>2. CASE Failure(m)
    BY <2>2 DEF Failure, LeaveRun, Deadline, WriteErr, QuarantineErr, CommitErr, Crash, ExpireAlive, Revoke,
                brokerVars
  <2>3. CASE Group(m)
    BY <2>3 DEF Group, ExpireDead, LoseAssignment, Assign, brokerVars
  <2> QED
    BY <1>4, <2>1, <2>2, <2>3 DEF Run, Regroup, Disturb
<1>5. ASSUME NEW s \in late, Settle(s) PROVE log' = log
  BY <1>5 DEF Settle, LateCommit, brokerVars
<1>6. CASE UNCHANGED collectorVars
  BY <1>6 DEF collectorVars
<1> QED
  BY <1>1, <1>2, <1>3, <1>4, <1>5, <1>6 DEF CollectorNext, Collect

\* Every step of the collector keeps the origin of the records.
LEMMA OriginStep ==
    ASSUME LogTypeOK, Origin, [CollectorNext]_collectorVars
    PROVE  Origin'
<1>1. /\ request' \in [Requests -> I!Refused \cup {"new", "produce", "await", "202", "503"}]
      /\ \A r \in Requests : Admitted(r) => Admitted(r)'
  BY AdmissionStays DEF Origin
<1>2. wire' \in SUBSET I!Items /\ \A x \in wire' : Admitted(x[1])'
  BY WireStep
<1>3. \A x \in I!Items : Admitted(x[1]) => Admitted(x[1])'
  BY <1>1 DEF I!Items, I!ItemsOf
<1>4. ASSUME NEW p \in Partitions, NEW o \in 0..(Len(log'[p]) - 1), log'[p][o + 1] # Poison
      PROVE  \E x \in I!Items : I!Record(x) = log'[p][o + 1] /\ Admitted(x[1])
  <2>0. log[p] \in Seq(Events \cup {Poison})
    BY DEF LogTypeOK
  <2>1. CASE log' = log
    BY <1>4, <2>1 DEF Origin, At
  <2>2. ASSUME NEW q \in Partitions, NEW r \in Events \cup {Poison},
               log' = [log EXCEPT ![q] = Append(@, r)],
               r # Poison => \E x \in wire : I!Record(x) = r
        PROVE  \E x \in I!Items : I!Record(x) = log'[p][o + 1] /\ Admitted(x[1])
    <3>1. CASE p = q /\ o = Len(log[p])
      <4>1. log'[p] = Append(log[p], r)
        BY <2>2, <3>1 DEF LogTypeOK
      <4>2. log'[p][o + 1] = r
        BY <2>0, <3>1, <4>1
      <4> QED
        BY <1>4, <2>2, <4>2 DEF Origin
    <3>2. CASE ~(p = q /\ o = Len(log[p]))
      <4>1. o \in 0..(Len(log[p]) - 1) /\ log'[p][o + 1] = log[p][o + 1]
        <5>1. CASE p = q
          <6>1. log'[p] = Append(log[p], r)
            BY <2>2, <5>1 DEF LogTypeOK
          <6>2. Len(log'[p]) = Len(log[p]) + 1 /\ Len(log[p]) \in Nat
            BY <2>0, <6>1
          <6> QED
            BY <2>0, <3>2, <5>1, <6>1, <6>2
        <5>2. CASE p # q
          BY <2>2, <5>2 DEF LogTypeOK
        <5> QED
          BY <5>1, <5>2
      <4> QED
        BY <1>4, <4>1 DEF Origin, At
    <3> QED
      BY <3>1, <3>2
  <2> QED
    BY <2>1, <2>2, LogGrows
<1> QED
  BY <1>1, <1>2, <1>3, <1>4 DEF Origin, At

(***************************************************************************)
(* Where a row comes from: the invariant of Reader, which holds beside the *)
(* API, takes it to the first record of its key, and the origin of the     *)
(* records takes that to an admitted request.                              *)
(***************************************************************************)
THEOREM RowsWereSubmitted == CollectorSpec => []StoredWasSubmitted
<1>1. CollectorInit => Origin
  BY DEF CollectorInit, I!Init, I!LogInit, Init, LogInit, Origin
<1>2. Inv /\ Origin /\ [CollectorNext]_collectorVars => Origin'
  BY OriginStep DEF Inv, TypeOK
<1>3. Inv /\ Origin => StoredWasSubmitted
  <2> SUFFICES ASSUME Inv, Origin, NEW k \in Keys, rows[k] # NoRow
               PROVE  \E x \in I!Items : I!Record(x) = [key |-> k, body |-> rows[k]] /\ Admitted(x[1])
    BY DEF StoredWasSubmitted
  <2> DEFINE p == PartitionOf[k]
             S == Carries(p, 0, Len(log[p]), k)
             o == First(S)
  <2>1. LogTypeOK /\ p \in Partitions /\ Len(log[p]) \in Nat
    BY DEF Inv, TypeOK, LogTypeOK
  <2>2. S # {} /\ rows[k] = At(p, o).body
    BY DEF Inv, FirstContentWins, FirstContent
  <2>3. /\ S \in SUBSET Nat
        /\ \A i \in S : i \in 0..(Len(log[p]) - 1) /\ At(p, i) \in Events /\ At(p, i).key = k
    BY <2>1, CarriesType
  <2>4. o \in S
    BY <2>2, <2>3, FirstIsLeast
  <2> HIDE DEF S, o
  <2>5. o \in 0..(Len(log[p]) - 1) /\ At(p, o) \in Events /\ At(p, o).key = k /\ At(p, o) # Poison
    BY <2>3, <2>4 DEF Events
  <2>6. At(p, o) = [key |-> k, body |-> rows[k]]
    BY <2>2, <2>5 DEF Events
  <2> QED
    BY <2>1, <2>5, <2>6 DEF Origin
<1> QED
  BY <1>1, <1>2, <1>3, Composition, Invariance, PTL DEF CollectorSpec, ImplementsReader
=============================================================================
