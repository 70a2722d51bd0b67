----------------------------- MODULE Collector ------------------------------
(***************************************************************************)
(* The whole collector: the API process of Ingest publishes to the topic   *)
(* that the consumer group of Reader drains.  They share the broker and    *)
(* nothing else, so a step is one of either side; a stray producer may put *)
(* records on the topic that are not envelopes.                            *)
(***************************************************************************)
EXTENDS Reader

CONSTANTS Requests, Batch, MaxBuffered

\* A request carries at least one event, and only events.
ASSUME SubmittedAssumption == Batch \in [Requests -> Seq(Events) \ {<<>>}]

VARIABLES request, stage, outcome, buffer, wire, api, timedOut, exit

I == INSTANCE Ingest

apiSide == <<request, stage, outcome, buffer, wire, api, timedOut, exit>>
groupSide == <<owner, late, assigned, pc, part, lo, cur, end, failed, faults>>
collectorVars == <<log, committed, rows, dlq, apiSide, groupSide>>

CollectorInit == I!Init /\ Init

\* A step of the API process, of its client or of the broker.
Collect == I!Next /\ UNCHANGED groupSide

\* A step of a member, of its failures, of the coordinator or of PostgreSQL.
Run(m) == Progress(m) /\ UNCHANGED apiSide
Regroup(m) == Group(m) /\ UNCHANGED apiSide
Disturb(m) == Failure(m) /\ UNCHANGED apiSide
Settle(s) == LateCommit(s) /\ UNCHANGED apiSide

Stray(p) == AppendRecord(p, Poison) /\ UNCHANGED <<committed, rows, dlq, apiSide, groupSide>>

CollectorNext ==
    \/ Collect
    \/ \E m \in Members : Run(m) \/ Regroup(m) \/ Disturb(m)
    \/ \E s \in late : Settle(s)
    \/ \E p \in Partitions : Stray(p)

CollectorSpec == CollectorInit /\ [][CollectorNext]_collectorVars

\* The consumers run and the group recovers; see Fairness of Reader.  Nothing
\* is asked of the API.
FairCollector ==
    /\ CollectorSpec
    /\ \A m \in Members : WF_collectorVars(Run(m)) /\ WF_collectorVars(Regroup(m))

-----------------------------------------------------------------------------
(***************************************************************************)
(* Beside this API the consumer group behaves as Reader says: publication  *)
(* is no more than Reader's Produce.  Everything proved of Reader holds    *)
(* here.                                                                   *)
(***************************************************************************)
ImplementsReader == Spec

\* A request that passed authentication and validation.
Admitted(r) == request[r] \notin I!Refused \cup {"new"}

(***************************************************************************)
(* Nothing enters the table that a valid request did not carry: a row's    *)
(* key and content are those of a record of a request that passed          *)
(* authentication and validation.                                          *)
(***************************************************************************)
StoredWasSubmitted ==
    \A k \in Keys : rows[k] # NoRow =>
        \E x \in I!Items : /\ I!Record(x) = [key |-> k, body |-> rows[k]]
                           /\ Admitted(x[1])

(***************************************************************************)
(* What HTTP 202 is worth: every event of an accepted request is stored    *)
(* eventually, whatever happens to the API afterwards, once the workers'   *)
(* failures stop.                                                          *)
(***************************************************************************)
AcceptedIsStored ==
    \A r \in Requests : (request[r] = "202") ~>
        (\A x \in I!ItemsOf(r) : rows[I!Record(x).key] # NoRow)

-----------------------------------------------------------------------------
(* What keeps StoredWasSubmitted true, beside the invariant of Reader.     *)

\* Only records of admitted requests are on their way to the broker or in it.
Origin ==
    /\ request \in [Requests -> I!Refused \cup {"new", "produce", "await", "202", "503"}]
    /\ wire \in SUBSET I!Items
    /\ \A x \in wire : Admitted(x[1])
    /\ \A p \in Partitions : \A o \in 0..(Len(log[p]) - 1) :
            At(p, o) # Poison => \E x \in I!Items : I!Record(x) = At(p, o) /\ Admitted(x[1])
=============================================================================
