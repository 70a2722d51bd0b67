------------------------------- MODULE Reader -------------------------------
(***************************************************************************)
(* The consumer side of the collector: internal/messaging/reader.go and    *)
(* process.go, with the statement of internal/persistence/events.go and    *)
(* the quarantine write of internal/messaging/quarantine.go.               *)
(*                                                                         *)
(* Several consumer processes ("members") share one consumer group.  Each  *)
(* polls a bounded batch, walks it partition by partition, stores every    *)
(* maximal run of decodable records with one INSERT, sends every other     *)
(* record to the quarantine topic, and commits the source offset after     *)
(* each of these.  Any error makes Run return; the supervisor then builds  *)
(* a new reader that resumes from the committed offsets.                   *)
(*                                                                         *)
(* The broker, the group coordinator and PostgreSQL are modelled from how  *)
(* the reader uses them.                                                   *)
(***************************************************************************)
EXTENDS EventLog, FiniteSetsExt

CONSTANTS Members,      \* consumer processes of the group
          NoMember, NoPartition,
          BatchSize,    \* ReaderConfig.BatchSize
          MaxFaults     \* bound: failures of the environment

ASSUME SizeAssumption == BatchSize \in Nat \ {0} /\ MaxFaults \in Nat
ASSUME NobodyAssumption == NoMember \notin Members /\ NoPartition \notin Partitions

Kinds == {"storage", "progress", "quarantine"}

VARIABLES
    owner,      \* coordinator: the member whose commits it accepts
    late,       \* PostgreSQL: statements that failed for the client but may still commit
    assigned,   \* client: the partitions a member believes it owns
    pc,         \* where Run is
    part,       \* the partition in processPartition
    lo,         \* offset of source[0], or the next offset when source is empty
    cur,        \* the record the loop of processPartition is at
    end,        \* the client's fetch position: end of the polled records
    failed,     \* ProcessingHealth.failed of the member's process
    faults      \* bound: faults so far

brokerVars == <<log, committed, owner, dlq>>
storeVars == <<rows, late>>
positions == <<lo, cur, end>>
vars == <<log, committed, owner, rows, late, dlq, assigned, pc, part, lo, cur, end, failed, faults>>

-----------------------------------------------------------------------------
\* ProcessingHealth.Observe, called through ReaderConfig.OnOperation by notify.
Observe(m, kind, ok) ==
    failed' = [failed EXCEPT ![m] = IF ok THEN @ \ {kind} ELSE @ \cup {kind}]

Fault == faults < MaxFaults /\ faults' = faults + 1

Goto(m, label) == pc' = [pc EXCEPT ![m] = label]

ResetPositions(m, S) ==
    /\ lo' = [lo EXCEPT ![m] = [p \in Partitions |-> IF p \in S THEN 0 ELSE @[p]]]
    /\ cur' = [cur EXCEPT ![m] = [p \in Partitions |-> IF p \in S THEN 0 ELSE @[p]]]
    /\ end' = [end EXCEPT ![m] = [p \in Partitions |-> IF p \in S THEN 0 ELSE @[p]]]

-----------------------------------------------------------------------------
(* The environment: producers, the coordinator and PostgreSQL.             *)

\* Producers append; they know nothing of the group.
Produce ==
    /\ \/ \E e \in Events : AppendRecord(PartitionOf[e.key], e)
       \/ \E p \in Partitions : AppendRecord(p, Poison)
    /\ UNCHANGED <<committed, owner, dlq, storeVars, assigned, pc, part, positions, failed, faults>>

\* A statement whose client gave up (timeout, lost connection) commits after all.
LateCommit(s) ==
    /\ late' = late \ {s}
    /\ rows' = WriteBatch(s.part, s.lo, s.hi)
    /\ UNCHANGED <<brokerVars, assigned, pc, part, positions, failed, faults>>

\* The coordinator gives an unowned partition to a member that is between
\* polls; its fetch position is the committed offset (AtStart is offset 0).
Assign(m, p) ==
    /\ pc[m] = "idle"
    /\ owner[p] = NoMember
    /\ \A q \in assigned[m] : owner[q] = m
    /\ owner' = [owner EXCEPT ![p] = m]
    /\ assigned' = [assigned EXCEPT ![m] = @ \cup {p}]
    /\ lo' = [lo EXCEPT ![m][p] = committed[p]]
    /\ cur' = [cur EXCEPT ![m][p] = committed[p]]
    /\ end' = [end EXCEPT ![m][p] = committed[p]]
    /\ UNCHANGED <<log, committed, dlq, storeVars, pc, part, failed, faults>>

\* A rebalance takes p away.  BlockRebalanceOnPoll: only between polls.
Revoke(m, p) ==
    /\ pc[m] = "idle"
    /\ owner[p] = m
    /\ Fault
    /\ owner' = [owner EXCEPT ![p] = NoMember]
    /\ assigned' = [assigned EXCEPT ![m] = @ \ {p}]
    /\ ResetPositions(m, {p})
    /\ UNCHANGED <<log, committed, dlq, storeVars, pc, part, failed>>

\* The session of a member ends: it died, or it is alive and merely stalled.
\* The coordinator fences it; the member itself does not know yet.
Disown(m) == owner' = [p \in Partitions |-> IF owner[p] = m THEN NoMember ELSE owner[p]]

ExpireDead(m) ==
    /\ pc[m] = "down"
    /\ \E p \in Partitions : owner[p] = m
    /\ Disown(m)
    /\ UNCHANGED <<log, committed, dlq, storeVars, assigned, pc, part, positions, failed, faults>>

ExpireAlive(m) ==
    /\ pc[m] # "down"
    /\ \E p \in Partitions : owner[p] = m
    /\ Fault
    /\ Disown(m)
    /\ UNCHANGED <<log, committed, dlq, storeVars, assigned, pc, part, positions, failed>>

\* An expired member learns it from a heartbeat and drops its assignment.
LoseAssignment(m) ==
    /\ pc[m] = "idle"
    /\ \E p \in assigned[m] : owner[p] # m
    /\ assigned' = [assigned EXCEPT ![m] = {p \in @ : owner[p] = m}]
    /\ ResetPositions(m, {p \in assigned[m] : owner[p] # m})
    /\ UNCHANGED <<brokerVars, storeVars, pc, part, failed, faults>>

-----------------------------------------------------------------------------
(* The reader.                                                             *)

\* NewReader: a fresh client joins the group.
Start(m) ==
    /\ pc[m] = "down"
    /\ \A p \in Partitions : owner[p] # m
    /\ Goto(m, "idle")
    /\ UNCHANGED <<brokerVars, storeVars, assigned, part, positions, failed, faults>>

\* How many records lie between the fetch position and e.
Fetched(m, e) == MapThenSumSet(LAMBDA p : e[p] - end[m][p], Partitions)

\* PollRecords returns at most BatchSize records of the assigned partitions.
Poll(m) ==
    /\ pc[m] = "idle"
    /\ \E e \in [Partitions -> 0..MaxLog] :
         /\ \A p \in Partitions :
              IF p \in assigned[m] THEN end[m][p] <= e[p] /\ e[p] <= Len(log[p])
                                   ELSE e[p] = end[m][p]
         /\ e # end[m]
         /\ Fetched(m, e) <= BatchSize
         /\ end' = [end EXCEPT ![m] = e]
    /\ Goto(m, "cycle")
    /\ UNCHANGED <<brokerVars, storeVars, assigned, part, lo, cur, failed, faults>>

\* EachPartition hands the next fetched partition to processPartition.
NextPartition(m) ==
    /\ pc[m] = "cycle"
    /\ \E p \in Partitions : cur[m][p] < end[m][p] /\ part' = [part EXCEPT ![m] = p]
    /\ Goto(m, "scan")
    /\ UNCHANGED <<brokerVars, storeVars, assigned, positions, failed, faults>>

\* Every partition is done: AllowRebalance, and poll again.
EndCycle(m) ==
    /\ pc[m] = "cycle"
    /\ \A p \in Partitions : cur[m][p] = end[m][p]
    /\ Goto(m, "idle")
    /\ UNCHANGED <<brokerVars, storeVars, assigned, part, positions, failed, faults>>

\* The fetches carry an error, the work context is cancelled, or polling is
\* stopped: Run returns.
LeaveRun(m) ==
    /\ \/ pc[m] = "idle"
       \/ pc[m] = "cycle" /\ \A p \in Partitions : cur[m][p] = end[m][p]
    /\ Fault
    /\ Goto(m, "closing")
    /\ UNCHANGED <<brokerVars, storeVars, assigned, part, positions, failed>>

\* DecodeEnvelope accepts the record: it joins the segment, which is flushed
\* when it is full and at the end of the polled records.
DecodeValid(m) ==
    LET p == part[m] IN
    /\ pc[m] = "scan"
    /\ At(p, cur[m][p]) # Poison
    /\ cur' = [cur EXCEPT ![m][p] = @ + 1]
    /\ Goto(m, IF cur[m][p] + 1 - lo[m][p] >= BatchSize \/ cur[m][p] + 1 = end[m][p]
               THEN "write" ELSE "scan")
    /\ UNCHANGED <<brokerVars, storeVars, assigned, part, lo, end, failed, faults>>

\* Mutant: the record is quarantined without flushing the segment before it.
DecodeInvalidNoFlush(m) ==
    LET p == part[m] IN
    /\ pc[m] = "scan"
    /\ At(p, cur[m][p]) = Poison
    /\ Goto(m, "quarantine")
    /\ UNCHANGED <<brokerVars, storeVars, assigned, part, positions, failed, faults>>

\* DecodeEnvelope refuses it: flush the segment before it, then quarantine.
DecodeInvalid(m) ==
    LET p == part[m] IN
    /\ pc[m] = "scan"
    /\ At(p, cur[m][p]) = Poison
    /\ Goto(m, IF lo[m][p] < cur[m][p] THEN "write" ELSE "quarantine")
    /\ UNCHANGED <<brokerVars, storeVars, assigned, part, positions, failed, faults>>

\* The cycle's deadline is noticed at the head of a loop, with no operation
\* reported as failed.
Deadline(m) ==
    /\ pc[m] \in {"scan", "write"}
    /\ Fault
    /\ Goto(m, "closing")
    /\ UNCHANGED <<brokerVars, storeVars, assigned, part, positions, failed>>

\* persist: the statement commits and the client sees it.
WriteOk(m) ==
    LET p == part[m] IN
    /\ pc[m] = "write"
    /\ rows' = WriteBatch(p, lo[m][p], cur[m][p])
    /\ Observe(m, "storage", TRUE)
    /\ Goto(m, "commit")
    /\ UNCHANGED <<brokerVars, late, assigned, part, positions, faults>>

\* Mutant: a failed statement is reported, and the segment is committed anyway.
WriteErrCommits(m) ==
    /\ pc[m] = "write"
    /\ Fault
    /\ Observe(m, "storage", FALSE)
    /\ Goto(m, "commit")
    /\ UNCHANGED <<brokerVars, storeVars, assigned, part, positions>>

\* persist: the client sees an error.  The statement is lost, or is still on
\* its way in the server.  The cycle may be over, otherwise back off.
WriteErr(m) ==
    LET p == part[m] IN
    /\ pc[m] = "write"
    /\ Fault
    /\ \/ late' = late
       \/ late' = late \cup {[part |-> p, lo |-> lo[m][p], hi |-> cur[m][p]]}
    /\ Observe(m, "storage", FALSE)
    /\ Goto(m, "backoff") \/ Goto(m, "closing")
    /\ UNCHANGED <<brokerVars, rows, assigned, part, positions>>

\* The backoff timer fires and the same segment is written again.
Retry(m) ==
    /\ pc[m] = "backoff"
    /\ Goto(m, "write")
    /\ UNCHANGED <<brokerVars, storeVars, assigned, part, positions, failed, faults>>

\* The retry window ends first: ErrRetryExhausted.
GiveUp(m) ==
    /\ pc[m] = "backoff"
    /\ Goto(m, "closing")
    /\ UNCHANGED <<brokerVars, storeVars, assigned, part, positions, failed, faults>>

\* Mutant: the offset of a quarantined record is not committed.
QuarantineOkNoCommit(m) ==
    LET p == part[m] IN
    /\ pc[m] = "quarantine"
    /\ dlq' = dlq \cup {<<p, cur[m][p]>>}
    /\ Observe(m, "quarantine", TRUE)
    /\ cur' = [cur EXCEPT ![m][p] = @ + 1]
    /\ lo' = [lo EXCEPT ![m][p] = cur[m][p] + 1]
    /\ Goto(m, IF cur[m][p] + 1 = end[m][p] THEN "cycle" ELSE "scan")
    /\ UNCHANGED <<log, committed, owner, storeVars, assigned, part, end, faults>>

\* The quarantine record is acknowledged; its own offset is committed next.
QuarantineOk(m) ==
    LET p == part[m] IN
    /\ pc[m] = "quarantine"
    /\ dlq' = dlq \cup {<<p, cur[m][p]>>}
    /\ Observe(m, "quarantine", TRUE)
    /\ cur' = [cur EXCEPT ![m][p] = @ + 1]
    /\ Goto(m, "commit")
    /\ UNCHANGED <<log, committed, owner, storeVars, assigned, part, lo, end, faults>>

\* The quarantine write fails, though the record may have been delivered.
QuarantineErr(m) ==
    LET p == part[m] IN
    /\ pc[m] = "quarantine"
    /\ Fault
    /\ dlq' = dlq \/ dlq' = dlq \cup {<<p, cur[m][p]>>}
    /\ Observe(m, "quarantine", FALSE)
    /\ Goto(m, "closing")
    /\ UNCHANGED <<log, committed, owner, storeVars, assigned, part, positions>>

\* CommitRecords advances the group's offset past the segment.  A flush that
\* was called for an invalid record goes on to quarantine that record.
CommitOk(m) ==
    LET p == part[m] IN
    /\ pc[m] = "commit"
    /\ owner[p] = m
    /\ committed' = [committed EXCEPT ![p] = cur[m][p]]
    /\ Observe(m, "progress", TRUE)
    /\ lo' = [lo EXCEPT ![m][p] = cur[m][p]]
    /\ Goto(m, IF cur[m][p] = end[m][p] THEN "cycle"
               ELSE IF At(p, lo[m][p]) # Poison /\ At(p, cur[m][p]) = Poison
                    THEN "quarantine" ELSE "scan")
    /\ UNCHANGED <<log, owner, dlq, storeVars, assigned, part, cur, end, faults>>

\* The commit fails for the client.  The coordinator may have applied it: it
\* can do so only while this membership lasts, and this reader makes no
\* further request for it, so applying it now loses no behaviour.
CommitErr(m) ==
    LET p == part[m] IN
    /\ pc[m] = "commit"
    /\ Fault
    /\ \/ committed' = committed
       \/ owner[p] = m /\ committed' = [committed EXCEPT ![p] = cur[m][p]]
    /\ Observe(m, "progress", FALSE)
    /\ Goto(m, "closing")
    /\ UNCHANGED <<log, owner, dlq, storeVars, assigned, part, positions>>

\* Mutant: offsets are committed outside the group, without fencing.
CommitUnfenced(m) ==
    /\ pc[m] = "commit"
    /\ owner[part[m]] # m
    /\ committed' = [committed EXCEPT ![part[m]] = cur[m][part[m]]]
    /\ Observe(m, "progress", TRUE)
    /\ Goto(m, "closing")
    /\ UNCHANGED <<log, owner, dlq, storeVars, assigned, part, positions, faults>>

\* The coordinator refuses the commit of a member it has expired.
CommitFenced(m) ==
    /\ pc[m] = "commit"
    /\ owner[part[m]] # m
    /\ Observe(m, "progress", FALSE)
    /\ Goto(m, "closing")
    /\ UNCHANGED <<brokerVars, storeVars, assigned, part, positions, faults>>

\* CloseAllowingRebalance: leave the group.  ProcessingHealth survives.
Close(m) ==
    /\ pc[m] = "closing"
    /\ Goto(m, "down")
    /\ Disown(m)
    /\ assigned' = [assigned EXCEPT ![m] = {}]
    /\ part' = [part EXCEPT ![m] = NoPartition]
    /\ ResetPositions(m, Partitions)
    /\ UNCHANGED <<log, committed, dlq, storeVars, failed, faults>>

\* The process dies.  The coordinator still believes in its membership.
Crash(m) ==
    /\ pc[m] # "down"
    /\ Fault
    /\ Goto(m, "down")
    /\ assigned' = [assigned EXCEPT ![m] = {}]
    /\ part' = [part EXCEPT ![m] = NoPartition]
    /\ ResetPositions(m, Partitions)
    /\ failed' = [failed EXCEPT ![m] = {}]
    /\ UNCHANGED <<brokerVars, storeVars>>

-----------------------------------------------------------------------------
Init ==
    /\ LogInit
    /\ owner = [p \in Partitions |-> NoMember]
    /\ late = {}
    /\ assigned = [m \in Members |-> {}]
    /\ pc = [m \in Members |-> "down"]
    /\ part = [m \in Members |-> NoPartition]
    /\ lo = [m \in Members |-> [p \in Partitions |-> 0]]
    /\ cur = [m \in Members |-> [p \in Partitions |-> 0]]
    /\ end = [m \in Members |-> [p \in Partitions |-> 0]]
    /\ failed = [m \in Members |-> {}]
    /\ faults = 0

\* What Run does when nothing goes wrong.
Progress(m) ==
    \/ Start(m) \/ Poll(m) \/ NextPartition(m) \/ EndCycle(m)
    \/ DecodeValid(m) \/ DecodeInvalid(m)
    \/ WriteOk(m) \/ Retry(m) \/ GiveUp(m) \/ QuarantineOk(m)
    \/ CommitOk(m) \/ CommitFenced(m) \/ Close(m)

Failure(m) ==
    \/ LeaveRun(m) \/ Deadline(m) \/ WriteErr(m) \/ QuarantineErr(m)
    \/ CommitErr(m) \/ Crash(m) \/ ExpireAlive(m)
    \/ \E p \in Partitions : Revoke(m, p)

Group(m) == ExpireDead(m) \/ LoseAssignment(m) \/ \E p \in Partitions : Assign(m, p)

Next ==
    \/ Produce
    \/ \E s \in late : LateCommit(s)
    \/ \E m \in Members : Progress(m) \/ Failure(m) \/ Group(m)

Spec == Init /\ [][Next]_vars

(***************************************************************************)
(* Fairness.  A running goroutine takes its next step; the supervisor      *)
(* restarts a reader that failed; the coordinator expires dead sessions    *)
(* and assigns unowned partitions; a heartbeat tells an expired member.    *)
(* Failures, rebalances and producers are under no obligation, and a late  *)
(* statement may never commit.                                             *)
(***************************************************************************)
Fairness ==
    /\ \A m \in Members : WF_vars(Progress(m)) /\ WF_vars(ExpireDead(m)) /\ WF_vars(LoseAssignment(m))
    /\ \A p \in Partitions : WF_vars(\E m \in Members : Assign(m, p))

FairSpec == Spec /\ Fairness

-----------------------------------------------------------------------------
Labels == {"down", "idle", "cycle", "scan", "write", "backoff", "quarantine", "commit", "closing"}

\* Types, and the bounds on offsets that make every At(p, o) defined.
TypeOK ==
    /\ LogTypeOK
    /\ owner \in [Partitions -> Members \cup {NoMember}]
    /\ late \in SUBSET [part : Partitions, lo : Nat, hi : Nat]
    /\ assigned \in [Members -> SUBSET Partitions]
    /\ pc \in [Members -> Labels]
    /\ part \in [Members -> Partitions \cup {NoPartition}]
    /\ lo \in [Members -> [Partitions -> Nat]]
    /\ cur \in [Members -> [Partitions -> Nat]]
    /\ end \in [Members -> [Partitions -> Nat]]
    /\ failed \in [Members -> SUBSET Kinds]
    /\ faults \in Nat

(***************************************************************************)
(* The group's offset never moves backwards: a fenced member or a reader   *)
(* that replays old records cannot rewind it.                              *)
(***************************************************************************)
CommittedNeverRewinds == [][\A p \in Partitions : committed'[p] >= committed[p]]_vars

(***************************************************************************)
(* Once failures stop, every appended record is settled and the group's    *)
(* offset passes it: no failure leaves the group stuck.                    *)
(***************************************************************************)
EverythingIsCommitted ==
    \A p \in Partitions : \A n \in 1..MaxLog : (Len(log[p]) >= n) ~> (committed[p] >= n)
(***************************************************************************)
(* The invariant behind these properties, in parts.                        *)
(***************************************************************************)
InPartition == {"scan", "write", "backoff", "quarantine", "commit"}

\* A producer keys a record by tenant and event ID, so a key stays in its partition.
KeysInPlace ==
    \A p \in Partitions : \A o \in 0..(Len(log[p]) - 1) :
        At(p, o) # Poison => PartitionOf[At(p, o).key] = p

\* Every position lies in the log, and the segment inside the polled records.
OffsetsInLog ==
    /\ \A p \in Partitions : Len(log[p]) <= MaxLog /\ committed[p] <= Len(log[p])
    /\ \A m \in Members, p \in Partitions :
          lo[m][p] <= cur[m][p] /\ cur[m][p] <= end[m][p] /\ end[m][p] <= Len(log[p])
    /\ \A s \in late : s.lo <= s.hi /\ s.hi <= Len(log[s.part])

\* What source holds at each place of processPartition: a run of decodable
\* records, and nothing outside it.
SegmentShape ==
    \A m \in Members :
        /\ pc[m] \in InPartition => part[m] \in Partitions
        /\ pc[m] \in {"scan", "quarantine"} => cur[m][part[m]] < end[m][part[m]]
        /\ pc[m] = "quarantine" => /\ lo[m][part[m]] = cur[m][part[m]]
                                   /\ At(part[m], cur[m][part[m]]) = Poison
        /\ pc[m] \in {"scan", "write", "backoff"} =>
              \A o \in lo[m][part[m]]..(cur[m][part[m]] - 1) : At(part[m], o) # Poison
        /\ pc[m] # "closing" => \A p \in Partitions :
              (pc[m] \notin InPartition \/ p # part[m]) => lo[m][p] = cur[m][p]

SettledBelow(p, n) == \A o \in 0..(n - 1) : Settled(p, o)

\* Everything below a segment is settled, whoever holds the segment: the
\* owner, a fenced member, or a statement still under way in the server.
SettledSoFar ==
    /\ \A p \in Partitions : SettledBelow(p, committed[p])
    /\ \A m \in Members, p \in Partitions : SettledBelow(p, lo[m][p])
    /\ \A s \in late : SettledBelow(s.part, s.lo)
    /\ \A m \in Members : pc[m] = "commit" => SettledBelow(part[m], cur[m][part[m]])

\* The member whose commits are accepted starts its segment at the committed
\* offset, so the commit cannot rewind it.
OwnerIsCurrent ==
    \A m \in Members, p \in Partitions :
        owner[p] = m /\ pc[m] \notin {"down", "closing"} => committed[p] = lo[m][p]

(***************************************************************************)
(* The inductive invariant: NoLoss, FirstContentWins and the refinement    *)
(* follow from it, and every action of processPartition preserves it.      *)
(***************************************************************************)
Inv == /\ TypeOK
       /\ KeysInPlace
       /\ OffsetsInLog
       /\ SegmentShape
       /\ SettledSoFar
       /\ OwnerIsCurrent
       /\ FirstContentWins

(***************************************************************************)
(* The reader keeps the promise stated in Delivery: seen through log,      *)
(* committed, rows and dlq, each of its steps is one of Delivery's or      *)
(* changes none of the four.                                               *)
(***************************************************************************)
D == INSTANCE Delivery WITH log <- log, committed <- committed, rows <- rows, dlq <- dlq
ImplementsDelivery == D!Spec
=============================================================================
