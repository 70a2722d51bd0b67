---------------------------- MODULE IngestProofs ----------------------------
(***************************************************************************)
(* Proofs about Ingest, for any set of requests, batches and buffer size.  *)
(***************************************************************************)
EXTENDS Ingest, FiniteSetTheorems, TLAPS

\* A record belongs to one request, and its content is an event.
LEMMA ItemFacts ==
    /\ \A x \in Items : x[1] \in Requests /\ x \in ItemsOf(x[1]) /\ Record(x) \in Events
    /\ \A r \in Requests : \A x \in ItemsOf(r) : x \in Items /\ x[1] = r
<1>1. ASSUME NEW r \in Requests, NEW x \in ItemsOf(r)
      PROVE  x \in Items /\ x[1] = r /\ Record(x) \in Events
  <2>1. x = <<x[1], x[2]>> /\ x[1] = r /\ x[2] \in 1..Len(Batch[r])
    BY DEF ItemsOf
  <2>2. Batch[r] \in Seq(Events)
    BY BatchAssumption
  <2>3. Batch[r][x[2]] \in Events
    BY <2>1, <2>2
  <2> QED
    BY <2>1, <2>3 DEF Items, Record
<1>2. ASSUME NEW x \in Items
      PROVE  \E r \in Requests : x \in ItemsOf(r)
  BY DEF Items
<1> QED
  BY <1>1, <1>2

\* The keys of the batches have a partition.
LEMMA PartitionFacts == \A x \in Items : PartitionOf[Record(x).key] \in Partitions
<1> TAKE x \in Items
<1>1. Record(x) \in Events
  BY ItemFacts
<1> QED
  BY <1>1, KeyAssumption DEF Events

\* The delivered record is in the log, and the log only grows.
LEMMA DeliverFacts ==
    ASSUME TypeOK, NEW x \in Items, Deliver(x)
    PROVE  /\ InLog(Record(x))'
           /\ \A e \in Events : InLog(e) => InLog(e)'
           /\ log' \in [Partitions -> Seq(Events \cup {Poison})]
<1> DEFINE p == PartitionOf[Record(x).key]
<1>1. p \in Partitions /\ Record(x) \in Events
  BY ItemFacts, PartitionFacts
<1>2. log \in [Partitions -> Seq(Events \cup {Poison})]
  BY DEF TypeOK, LogTypeOK
<1>3. log' = [log EXCEPT ![p] = Append(log[p], Record(x))]
  BY DEF Deliver, AppendRecord, Target
<1>4. log[p] \in Seq(Events \cup {Poison})
  BY <1>1, <1>2
<1> HIDE DEF p
<1>5. /\ Append(log[p], Record(x)) \in Seq(Events \cup {Poison})
      /\ DOMAIN Append(log[p], Record(x)) = 1..(Len(log[p]) + 1)
      /\ Append(log[p], Record(x))[Len(log[p]) + 1] = Record(x)
      /\ \A i \in DOMAIN log[p] : /\ i \in 1..(Len(log[p]) + 1)
                                  /\ Append(log[p], Record(x))[i] = log[p][i]
      /\ Len(log[p]) + 1 \in 1..(Len(log[p]) + 1)
  BY <1>1, <1>4
<1>6. log'[p] = Append(log[p], Record(x)) /\ \A q \in Partitions : q # p => log'[q] = log[q]
  BY <1>1, <1>2, <1>3
<1>7. InLog(Record(x))'
  <2>1. \E i \in DOMAIN log'[p] : log'[p][i] = Record(x)
    BY <1>5, <1>6
  <2> QED
    BY <2>1 DEF InLog, p
<1>8. ASSUME NEW e \in Events, InLog(e)
      PROVE  InLog(e)'
  <2> DEFINE q == PartitionOf[e.key]
  <2>1. q \in Partitions
    BY KeyAssumption DEF Events
  <2>2. PICK i \in DOMAIN log[q] : log[q][i] = e
    BY <1>8 DEF InLog
  <2>3. i \in DOMAIN log'[q] /\ log'[q][i] = e
    BY <1>5, <1>6, <2>1, <2>2
  <2> QED
    BY <2>3 DEF InLog
<1>9. log' \in [Partitions -> Seq(Events \cup {Poison})]
  BY <1>1, <1>2, <1>3, <1>5
<1> QED
  BY <1>7, <1>8, <1>9

\* Every action keeps the types.
LEMMA TypeStep == TypeOK /\ [Next]_vars => TypeOK'
<1> SUFFICES ASSUME TypeOK, [Next]_vars PROVE TypeOK'
  OBVIOUS
<1> USE ItemFacts
<1>1. ASSUME NEW r \in Requests, Refuse(r) \/ Accept(r)
      PROVE  TypeOK'
  BY <1>1 DEF TypeOK, LogTypeOK, Refuse, Unauthorized, Limited, Invalid, Answer, Refused, Accept, shared, process
<1>2. ASSUME NEW r \in Requests, TryProduce(r)
      PROVE  TypeOK'
  <2>1. PICK x \in ItemsOf(r) : TryProduce(r)!(x)
    BY <1>2 DEF TryProduce
  <2>2. x \in Items
    BY ItemFacts
  <2>3. stage' \in [Items -> Stages] /\ outcome' \in [Items -> {"none", "ok", "saturated", "error"}]
    BY <2>1, <2>2 DEF TypeOK, Stages, Refused
  <2>4. buffer' \in SUBSET Items /\ wire' \in SUBSET Items
    BY <2>1, <2>2 DEF TypeOK
  <2>5. request' \in [Requests -> Refused \cup {"new", "produce", "await", "202", "503"}]
    BY <2>1 DEF TypeOK
  <2> QED
    BY <2>1, <2>3, <2>4, <2>5 DEF TypeOK, LogTypeOK, shared, process
<1>3. ASSUME NEW r \in Requests, Receive(r) \/ Timeout(r)
      PROVE  TypeOK'
  BY <1>3 DEF TypeOK, LogTypeOK, Receive, Timeout, shared, process, Stages
<1>4. ASSUME NEW x \in Items, Deliver(x)
      PROVE  TypeOK'
  <2>1. log' \in [Partitions -> Seq(Events \cup {Poison})]
    BY <1>4, DeliverFacts
  <2> QED
    BY <1>4, <2>1 DEF TypeOK, LogTypeOK, Deliver, process
<1>5. ASSUME NEW x \in Items, Acknowledge(x) \/ GiveUp(x) \/ Callback(x)
      PROVE  TypeOK'
  <2>1. stage' \in [Items -> Stages] /\ outcome' \in [Items -> {"none", "ok", "saturated", "error"}]
    BY <1>5 DEF TypeOK, Acknowledge, GiveUp, Callback, Stages
  <2>2. buffer' \in SUBSET Items /\ wire' \in SUBSET Items
    BY <1>5 DEF TypeOK, Acknowledge, GiveUp, Callback
  <2>3. UNCHANGED <<shared, request, process>>
    BY <1>5 DEF Acknowledge, GiveUp, Callback
  <2> QED
    BY <2>1, <2>2, <2>3 DEF TypeOK, LogTypeOK, shared, process
<1>6. CASE Signal \/ Expire \/ Stop \/ Flush \/ Exit \/ Abort
  BY <1>6 DEF TypeOK, LogTypeOK, Signal, Expire, Stop, Flush, Exit, Abort, shared, sending
<1>7. CASE UNCHANGED vars
  BY <1>7 DEF TypeOK, LogTypeOK, vars
<1> QED
  BY <1>1, <1>2, <1>3, <1>4, <1>5, <1>6, <1>7 DEF Next, Handler

\* A record reported as "ok" was in the log when it was acknowledged, and
\* nothing leaves the log.
LEMMA AcknowledgedStep == Inv /\ [Next]_vars => Acknowledged'
<1> SUFFICES ASSUME Inv, [Next]_vars, NEW y \in Items,
                    (stage'[y] = "buffered" /\ y \notin wire') \/ outcome'[y] = "ok"
             PROVE  InLog(Record(y))'
  BY DEF Acknowledged
<1> DEFINE Was == (stage[y] = "buffered" /\ y \notin wire) \/ outcome[y] = "ok"
<1>0. TypeOK /\ (Was => InLog(Record(y))) /\ Record(y) \in Events
  BY ItemFacts DEF Inv, Acknowledged
<1>a. ASSUME UNCHANGED log, Was
      PROVE  InLog(Record(y))'
  BY <1>0, <1>a DEF InLog
<1>1. ASSUME NEW r \in Requests, Refuse(r) \/ Accept(r) \/ Timeout(r)
      PROVE  InLog(Record(y))'
  BY <1>1, <1>a DEF Refuse, Unauthorized, Limited, Invalid, Answer, Refused, Accept, Timeout, shared
<1>2. ASSUME NEW r \in Requests, TryProduce(r)
      PROVE  InLog(Record(y))'
  <2>1. PICK x \in ItemsOf(r) : TryProduce(r)!(x)
    BY <1>2 DEF TryProduce
  <2>2. x \in Items
    BY ItemFacts
  <2>3. Was
    BY <1>0, <2>1, <2>2 DEF TypeOK
  <2> QED
    BY <2>1, <2>3, <1>a DEF shared
<1>3. ASSUME NEW r \in Requests, Receive(r)
      PROVE  InLog(Record(y))'
  <2>1. PICK x \in ItemsOf(r) : Receive(r)!(x)
    BY <1>3 DEF Receive
  <2>2. Was
    BY <1>0, <2>1 DEF TypeOK
  <2> QED
    BY <2>1, <2>2, <1>a DEF shared
<1>4. ASSUME NEW x \in Items, Deliver(x)
      PROVE  InLog(Record(y))'
  <2>1. CASE Was
    BY <1>0, <1>4, <2>1, DeliverFacts
  <2>2. CASE ~Was
    <3>1. y = x
      BY <1>4, <2>2 DEF Deliver
    <3> QED
      BY <1>0, <1>4, <3>1, DeliverFacts
  <2> QED
    BY <2>1, <2>2
<1>5. ASSUME NEW x \in Items, Acknowledge(x) \/ GiveUp(x) \/ Callback(x)
      PROVE  InLog(Record(y))'
  <2>1. Was
    BY <1>0, <1>5 DEF TypeOK, Acknowledge, GiveUp, Callback
  <2> QED
    BY <1>5, <2>1, <1>a DEF Acknowledge, GiveUp, Callback, shared
<1>6. CASE Signal \/ Expire \/ Stop \/ Flush \/ Exit \/ Abort
  BY <1>6, <1>a DEF Signal, Expire, Stop, Flush, Exit, Abort, shared, sending
<1>7. CASE UNCHANGED vars
  BY <1>7, <1>a DEF vars
<1> QED
  BY <1>1, <1>2, <1>3, <1>4, <1>5, <1>6, <1>7 DEF Next, Handler

\* A handler receives its results only while it waits, in any order.
LEMMA HandlerStep == Inv /\ [Next]_vars => HandlerShape'
<1> DEFINE Shape(y) ==
        /\ stage[y] \in {"new", "buffered"} <=> outcome[y] = "none"
        /\ stage[y] = "new" => y \notin buffer /\ y \notin wire
        /\ stage[y] = "buffered" => y \in buffer
        /\ request[y[1]] \in Refused \cup {"new"} => stage[y] = "new"
        /\ request[y[1]] \in Refused \cup {"new", "produce"} => stage[y] # "received"
        /\ request[y[1]] = "await" => stage[y] # "new" /\ (stage[y] = "received" => outcome[y] = "ok")
        /\ request[y[1]] = "202" => stage[y] = "received" /\ outcome[y] = "ok"
<1> SUFFICES ASSUME Inv, [Next]_vars, NEW y \in Items
             PROVE  Shape(y)'
  BY DEF HandlerShape
<1>0. TypeOK /\ Shape(y) /\ y[1] \in Requests /\ y \in ItemsOf(y[1])
  BY ItemFacts DEF Inv, HandlerShape
<1>1. ASSUME NEW r \in Requests, Refuse(r) \/ Accept(r) \/ Timeout(r)
      PROVE  Shape(y)'
  BY <1>0, <1>1 DEF Refuse, Unauthorized, Limited, Invalid, Answer, Refused, Accept, Timeout, TypeOK, Stages
<1>2. ASSUME NEW r \in Requests, TryProduce(r)
      PROVE  Shape(y)'
  <2>1. PICK x \in ItemsOf(r) : TryProduce(r)!(x)
    BY <1>2 DEF TryProduce
  <2>2. x \in Items /\ x[1] = r
    BY ItemFacts
  <2>3. CASE y = x
    BY <1>0, <2>1, <2>2, <2>3 DEF TypeOK, Stages, Refused
  <2>4. CASE y # x /\ y[1] # r
    BY <1>0, <2>1, <2>2, <2>4 DEF TypeOK, Stages, Refused
  <2>5. CASE y # x /\ y[1] = r
    <3>1. x[2] = Len(Batch[r]) => stage[y] # "new"
      <4>1. y \in ItemsOf(r) /\ y[2] \in 1..Len(Batch[r]) /\ x[2] \in 1..Len(Batch[r])
        BY <1>0, <2>5 DEF ItemsOf
      <4>2. Len(Batch[r]) \in Nat
        BY BatchAssumption
      <4>3. y[2] # x[2]
        BY <2>5, <4>1 DEF ItemsOf
      <4> QED
        BY <2>1, <4>1, <4>2, <4>3
    <3> QED
      BY <1>0, <2>1, <2>2, <2>5, <3>1 DEF TypeOK, Stages, Refused
  <2> QED
    BY <2>3, <2>4, <2>5
<1>3. ASSUME NEW r \in Requests, Receive(r)
      PROVE  Shape(y)'
  <2>1. PICK x \in ItemsOf(r) : Receive(r)!(x)
    BY <1>3 DEF Receive
  <2>2. x \in Items /\ x[1] = r
    BY ItemFacts
  <2>3. CASE y = x
    BY <1>0, <2>1, <2>2, <2>3 DEF TypeOK, Stages, Refused
  <2>4. CASE y # x /\ y[1] # r
    BY <1>0, <2>1, <2>2, <2>4 DEF TypeOK, Stages, Refused
  <2>5. CASE y # x /\ y[1] = r
    BY <1>0, <2>1, <2>2, <2>5 DEF TypeOK, Stages, Refused
  <2> QED
    BY <2>3, <2>4, <2>5
<1>4. ASSUME NEW x \in Items, Deliver(x)
      PROVE  Shape(y)'
  BY <1>0, <1>4 DEF Deliver
<1>5. ASSUME NEW x \in Items, Acknowledge(x) \/ GiveUp(x) \/ Callback(x)
      PROVE  Shape(y)'
  BY <1>0, <1>5 DEF Acknowledge, GiveUp, Callback, TypeOK, Stages
<1>6. CASE Signal \/ Expire \/ Stop \/ Flush \/ Exit \/ Abort
  BY <1>0, <1>6 DEF Signal, Expire, Stop, Flush, Exit, Abort, sending
<1>7. CASE UNCHANGED vars
  BY <1>0, <1>7 DEF vars
<1> QED
  BY <1>1, <1>2, <1>3, <1>4, <1>5, <1>6, <1>7 DEF Next, Handler

\* After an undisturbed stop no handler is left to fill the buffer again.
LEMMA DrainStep == Inv /\ [Next]_vars => DrainShape'
<1> SUFFICES ASSUME Inv, [Next]_vars PROVE DrainShape'
  OBVIOUS
<1>0. TypeOK /\ DrainShape
  BY DEF Inv
<1>1. ASSUME NEW r \in Requests, Refuse(r) \/ Accept(r)
      PROVE  DrainShape'
  BY <1>0, <1>1 DEF Refuse, Unauthorized, Limited, Invalid, Answer, Refused, Accept, DrainShape, process
<1>2. ASSUME NEW r \in Requests, TryProduce(r) \/ Receive(r) \/ Timeout(r)
      PROVE  DrainShape'
  <2>1. r \in Active /\ UNCHANGED process
    BY <1>2 DEF TryProduce, Receive, Timeout, Active
  <2>2. ~(api \in {"flushing", "closing", "exited"} /\ exit = "ok")
    BY <1>0, <2>1 DEF DrainShape
  <2> QED
    BY <2>1, <2>2 DEF DrainShape, process
<1>4. ASSUME NEW x \in Items, Deliver(x) \/ Acknowledge(x) \/ GiveUp(x) \/ Callback(x)
      PROVE  DrainShape'
  <2>1. UNCHANGED <<request, process>> /\ (buffer = {} => buffer' = {})
    BY <1>4 DEF Deliver, Acknowledge, GiveUp, Callback
  <2> QED
    BY <1>0, <2>1 DEF DrainShape, Active, process
<1>6. CASE Signal \/ Expire \/ Stop \/ Flush \/ Exit \/ Abort
  BY <1>0, <1>6 DEF DrainShape, Active, Signal, Expire, Stop, Flush, Exit, Abort, sending, TypeOK
<1>7. CASE UNCHANGED vars
  BY <1>0, <1>7 DEF DrainShape, Active, vars
<1> QED
  BY <1>1, <1>2, <1>4, <1>6, <1>7 DEF Next, Handler

(***************************************************************************)
(* Inv holds in every reachable state of the publisher and its shutdown.   *)
(***************************************************************************)
THEOREM Invariance == Spec => []Inv
<1>1. Init => Inv
  <2> SUFFICES ASSUME Init PROVE Inv
    OBVIOUS
  <2>1. TypeOK
    <3>1. LogTypeOK
      BY DEF Init, LogInit, LogTypeOK
    <3> QED
      BY <3>1 DEF Init, TypeOK, Stages
  <2>2. Acknowledged /\ HandlerShape
    BY ItemFacts DEF Init, Acknowledged, HandlerShape
  <2>3. DrainShape
    BY DEF Init, DrainShape, Active
  <2> QED
    BY <2>1, <2>2, <2>3 DEF Inv
<1>2. Inv /\ [Next]_vars => Inv'
  BY TypeStep, AcknowledgedStep, HandlerStep, DrainStep DEF Inv
<1> QED
  BY <1>1, <1>2, PTL DEF Spec

(***************************************************************************)
(* HTTP 202 is answered only when the broker has every record of the       *)
(* request (send and the handler of ingest.go).                            *)
(***************************************************************************)
THEOREM AcceptedMeansPublished == Spec => []AcceptedIsInLog
<1>1. Inv => AcceptedIsInLog
  BY ItemFacts DEF Inv, HandlerShape, Acknowledged, AcceptedIsInLog
<1> QED
  BY <1>1, Invariance, PTL

(***************************************************************************)
(* The callbacks of send always find room on the request's channel: it was *)
(* made with one place per record.                                         *)
(***************************************************************************)
THEOREM CallbacksRun == Spec => []CallbacksNeverBlock
<1>1. ASSUME NEW x \in Items, stage[x] = "finished"
      PROVE  Cardinality(Queued(x[1])) < Capacity(x[1])
  <2> DEFINE r == x[1]
  <2>1. r \in Requests /\ x \in ItemsOf(r) /\ Len(Batch[r]) \in Nat
    BY ItemFacts, BatchAssumption
  <2>2. IsFiniteSet(ItemsOf(r)) /\ Cardinality(ItemsOf(r)) = Len(Batch[r])
    <3>1. IsFiniteSet(1..Len(Batch[r])) /\ Cardinality(1..Len(Batch[r])) = Len(Batch[r])
      BY <2>1, FS_Interval
    <3>2. IsFiniteSet({r}) /\ Cardinality({r}) = 1
      BY FS_Singleton
    <3> HIDE DEF r
    <3>3. /\ IsFiniteSet({r} \X (1..Len(Batch[r])))
          /\ Cardinality({r} \X (1..Len(Batch[r]))) = 1 * Cardinality(1..Len(Batch[r]))
      BY <3>1, <3>2, FS_Product
    <3> QED
      BY <3>1, <3>3, <2>1 DEF ItemsOf
  <2>3. Queued(r) \subseteq ItemsOf(r) \ {x}
    BY <1>1 DEF Queued
  <2>4. IsFiniteSet(ItemsOf(r) \ {x}) /\ Cardinality(ItemsOf(r) \ {x}) = Len(Batch[r]) - 1
    BY <2>1, <2>2, FS_RemoveElement
  <2>5. Cardinality(Queued(r)) <= Cardinality(ItemsOf(r) \ {x}) /\ Cardinality(Queued(r)) \in Nat
    BY <2>3, <2>4, FS_Subset, FS_CardinalityType
  <2> QED
    BY <2>1, <2>4, <2>5 DEF Capacity
<1>2. CallbacksNeverBlock
  BY <1>1 DEF CallbacksNeverBlock
<1> QED
  BY <1>2, PTL

(***************************************************************************)
(* run returns nil only after a complete drain.                            *)
(***************************************************************************)
THEOREM ExitIsClean == Spec => []CleanExit
<1>1. Inv => CleanExit
  BY DEF Inv, DrainShape, CleanExit
<1> QED
  BY <1>1, Invariance, PTL
=============================================================================
