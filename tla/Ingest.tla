------------------------------- MODULE Ingest -------------------------------
(***************************************************************************)
(* The producing side of the collector: the handler of internal/api/       *)
(* ingest.go, Publisher.send of internal/messaging/publisher.go and the    *)
(* shutdown of cmd/api/main.go with service.Drain.                         *)
(*                                                                         *)
(* A request publishes a batch record by record through the Kafka client,  *)
(* whose buffer is bounded, and waits for one result per record on a       *)
(* channel of its own; a timeout may answer the request first.  The client *)
(* reports each record's fate by a callback, made from one goroutine for   *)
(* all requests.  The client and the broker are modelled from this use.    *)
(***************************************************************************)
EXTENDS EventLog

CONSTANTS Requests,     \* HTTP requests
          Batch,        \* the events of each request
          MaxBuffered   \* MaxBufferedRecords of the client

\* DecodeBatch refuses an empty batch.
ASSUME BatchAssumption == Batch \in [Requests -> Seq(Events) \ {<<>>}]
ASSUME BufferAssumption == MaxBuffered \in Nat

\* A record is named by its request and its place in the batch.
ItemsOf(r) == {r} \X (1..Len(Batch[r]))
Items == UNION {ItemsOf(r) : r \in Requests}
Record(x) == Batch[x[1]][x[2]]

\* Mutant: records are published without a key.
TargetUnkeyed(x) == CHOOSE p \in Partitions : TRUE

\* Publish keys a record by tenant and event ID.
Target(x) == PartitionOf[Record(x).key]

VARIABLES
    request,    \* where the handler of each request is, or its answer
    stage,      \* where each record is
    outcome,    \* the result the client reports for it
    buffer,     \* the records that occupy the client's buffer
    wire,       \* the records that may still reach the broker
    api,        \* where the process is
    timedOut,   \* the deadline of the shutdown has passed
    exit        \* what run returns, so far

sending == <<request, stage, outcome, buffer, wire>>
process == <<api, timedOut, exit>>
shared == <<log, committed, rows, dlq>>
vars == <<log, committed, rows, dlq, request, stage, outcome, buffer, wire, api, timedOut, exit>>

-----------------------------------------------------------------------------
(* The handler.                                                            *)

\* A request is answered before anything is published.
Answer(r, status) ==
    /\ api = "up" /\ request[r] = "new"
    /\ request' = [request EXCEPT ![r] = status]
    /\ UNCHANGED <<shared, stage, outcome, buffer, wire, process>>

\* Mutant: events are validated and published one by one.
InvalidAfterFirst(r) ==
    /\ api = "up" /\ request[r] = "new" /\ buffer = {}
    /\ request' = [request EXCEPT ![r] = "400"]
    /\ stage' = [stage EXCEPT ![<<r, 1>>] = "buffered"]
    /\ buffer' = {<<r, 1>>}
    /\ wire' = wire \cup {<<r, 1>>}
    /\ UNCHANGED <<shared, outcome, process>>

Unauthorized(r) == Answer(r, "401")     \* no key, or one without a tenant
Limited(r) == Answer(r, "429")          \* the tenant's bucket is empty
Invalid(r) == Answer(r, "400")          \* one invalid event refuses the batch

Refuse(r) == Unauthorized(r) \/ Limited(r) \/ Invalid(r)
Refused == {"401", "429", "400"}

\* The batch is valid: its envelopes are built and handed to Publish.
Accept(r) ==
    /\ api = "up" /\ request[r] = "new"
    /\ request' = [request EXCEPT ![r] = "produce"]
    /\ UNCHANGED <<shared, stage, outcome, buffer, wire, process>>

\* One turn of the produce loop of send.  TryProduce never blocks: when the
\* buffer is full it reports ErrMaxBuffered, and once closed an error.
TryProduce(r) ==
    \E x \in ItemsOf(r) :
        /\ api # "exited" /\ request[r] = "produce"
        /\ stage[x] = "new"
        /\ \A y \in ItemsOf(r) : y[2] < x[2] => stage[y] # "new"
        /\ \/ /\ Cardinality(buffer) < MaxBuffered /\ api # "closing"
              /\ buffer' = buffer \cup {x}
              /\ wire' = wire \cup {x}
              /\ stage' = [stage EXCEPT ![x] = "buffered"]
              /\ UNCHANGED outcome
           \/ /\ Cardinality(buffer) >= MaxBuffered \/ api = "closing"
              /\ stage' = [stage EXCEPT ![x] = "finished"]
              /\ outcome' = [outcome EXCEPT ![x] = IF api = "closing" THEN "error" ELSE "saturated"]
              /\ UNCHANGED <<buffer, wire>>
        /\ request' = [request EXCEPT ![r] = IF x[2] = Len(Batch[r]) THEN "await" ELSE "produce"]
        /\ UNCHANGED <<shared, process>>

\* Mutant: send returns with the first acknowledgement.
ReceiveFirst(r) ==
    \E x \in ItemsOf(r) :
        /\ api # "exited" /\ request[r] = "await"
        /\ stage[x] = "queued"
        /\ stage' = [stage EXCEPT ![x] = "received"]
        /\ request' = [request EXCEPT ![r] = IF outcome[x] = "ok" THEN "202" ELSE "503"]
        /\ UNCHANGED <<shared, outcome, buffer, wire, process>>

\* One turn of the receive loop of send: the first error answers 503, the
\* last acknowledgement 202.
Receive(r) ==
    \E x \in ItemsOf(r) :
        /\ api # "exited" /\ request[r] = "await"
        /\ stage[x] = "queued"
        /\ stage' = [stage EXCEPT ![x] = "received"]
        /\ request' = [request EXCEPT ![r] =
                IF outcome[x] # "ok" THEN "503"
                ELSE IF \A y \in ItemsOf(r) \ {x} : stage[y] = "received" THEN "202"
                ELSE "await"]
        /\ UNCHANGED <<shared, outcome, buffer, wire, process>>

\* Mutant: the receive loop has no ctx.Done() case.
TimeoutIgnored(r) == api # "exited" /\ request[r] = "await" /\ UNCHANGED vars

\* The request's context ends first.  Its records stay with the client.
Timeout(r) ==
    /\ api # "exited" /\ request[r] = "await"
    /\ request' = [request EXCEPT ![r] = "503"]
    /\ UNCHANGED <<shared, stage, outcome, buffer, wire, process>>

-----------------------------------------------------------------------------
(* The client and the broker.                                              *)

\* A record reaches its partition.
Deliver(x) ==
    /\ x \in wire
    /\ AppendRecord(Target(x), Record(x))
    /\ wire' = wire \ {x}
    /\ UNCHANGED <<committed, rows, dlq, request, stage, outcome, buffer, process>>

\* Every in-sync replica has it (RequiredAcks(AllISRAcks)).
Acknowledge(x) ==
    /\ api # "exited" /\ stage[x] = "buffered" /\ x \notin wire
    /\ stage' = [stage EXCEPT ![x] = "finished"]
    /\ outcome' = [outcome EXCEPT ![x] = "ok"]
    /\ UNCHANGED <<shared, request, buffer, wire, process>>

\* The client gives a record up: an error of the broker, the delivery timeout,
\* or the end of the request's context.  It may have been delivered, or be on
\* its way.
GiveUp(x) ==
    /\ api # "exited" /\ stage[x] = "buffered"
    /\ stage' = [stage EXCEPT ![x] = "finished"]
    /\ outcome' = [outcome EXCEPT ![x] = "error"]
    /\ wire' = wire \/ wire' = wire \ {x}
    /\ UNCHANGED <<shared, request, buffer, process>>

\* Mutant: an unbuffered hand-over, one slot for the whole request.
OneSlot(r) == 1

\* results := make(chan error, len(records))
Capacity(r) == Len(Batch[r])

Queued(r) == {x \in ItemsOf(r) : stage[x] = "queued"}

\* The callback of send puts the result on the request's channel; the client
\* then frees the record's place in the buffer.
Callback(x) ==
    /\ api # "exited" /\ stage[x] = "finished"
    /\ Cardinality(Queued(x[1])) < Capacity(x[1])
    /\ stage' = [stage EXCEPT ![x] = "queued"]
    /\ buffer' = buffer \ {x}
    /\ UNCHANGED <<shared, request, outcome, wire, process>>

-----------------------------------------------------------------------------
(* run and Drain.                                                          *)

Active == {r \in Requests : request[r] \in {"produce", "await"}}

\* SIGTERM: ShutdownWithContext stops accepting requests.
Signal ==
    /\ api = "up"
    /\ api' = "stopping"
    /\ UNCHANGED <<shared, sending, timedOut, exit>>

\* The ten seconds of the drain are over.
Expire ==
    /\ api \in {"stopping", "flushing", "closing"} /\ ~timedOut
    /\ timedOut' = TRUE
    /\ UNCHANGED <<shared, sending, api, exit>>

\* Mutant: the handlers in flight are not waited for.
StopEarly ==
    /\ api = "stopping"
    /\ api' = "flushing"
    /\ UNCHANGED <<shared, sending, timedOut, exit>>

\* ShutdownWithContext returns when every handler has answered, or at the deadline.
Stop ==
    /\ api = "stopping"
    /\ \/ Active = {} /\ exit' = exit
       \/ timedOut /\ exit' = "error"
    /\ api' = "flushing"
    /\ UNCHANGED <<shared, sending, timedOut>>

\* Mutant: Flush is called without the context of the drain.
FlushUnbounded ==
    /\ api = "flushing"
    /\ buffer = {}
    /\ api' = "closing"
    /\ UNCHANGED <<shared, sending, timedOut, exit>>

\* Publisher.Flush returns when the buffer is empty, or at the deadline.
\* close() then runs in its own goroutine: the client fails what it still
\* holds, each record perhaps on its way to the broker.
Flush ==
    /\ api = "flushing"
    /\ \/ buffer = {} /\ exit' = exit
       \/ timedOut /\ exit' = "error"
    /\ api' = "closing"
    /\ UNCHANGED <<shared, sending, timedOut>>

\* Drain's select: close() is done, or the deadline has passed.
Exit ==
    /\ api = "closing"
    /\ \/ buffer = {} /\ exit' = exit
       \/ timedOut /\ exit' = "error"
    /\ api' = "exited"
    /\ UNCHANGED <<shared, sending, timedOut>>

\* The listener fails: Close and return its error, whatever is in flight.  A
\* crash of the process looks the same from outside.  (run returns nil for
\* net.ErrClosed, but only the drain closes the listener.)
Abort ==
    /\ api # "exited"
    /\ api' = "exited"
    /\ exit' = "error"
    /\ UNCHANGED <<shared, sending, timedOut>>

-----------------------------------------------------------------------------
Init ==
    /\ LogInit
    /\ request = [r \in Requests |-> "new"]
    /\ stage = [x \in Items |-> "new"]
    /\ outcome = [x \in Items |-> "none"]
    /\ buffer = {}
    /\ wire = {}
    /\ api = "up"
    /\ timedOut = FALSE
    /\ exit = "ok"

Handler(r) == TryProduce(r) \/ Receive(r) \/ Timeout(r)

Next ==
    \/ \E r \in Requests : Refuse(r) \/ Accept(r) \/ Handler(r)
    \/ \E x \in Items : Deliver(x) \/ Acknowledge(x) \/ GiveUp(x) \/ Callback(x)
    \/ Signal \/ Expire \/ Stop \/ Flush \/ Exit \/ Abort

Spec == Init /\ [][Next]_vars

(***************************************************************************)
(* Fairness: a handler runs, its timer fires (Timeout is part of Handler), *)
(* the client's goroutine makes the callbacks, the drain runs and its      *)
(* deadline passes.  The broker owes nothing: a record may never be        *)
(* delivered, acknowledged or given up.                                    *)
(***************************************************************************)
Fairness ==
    /\ \A r \in Requests : WF_vars(Handler(r))
    /\ \A x \in Items : WF_vars(Callback(x))
    /\ WF_vars(Expire) /\ WF_vars(Stop \/ Flush \/ Exit)

FairSpec == Spec /\ Fairness

-----------------------------------------------------------------------------
Stages == {"new", "buffered", "finished", "queued", "received"}

TypeOK ==
    /\ LogTypeOK
    /\ request \in [Requests -> Refused \cup {"new", "produce", "await", "202", "503"}]
    /\ stage \in [Items -> Stages]
    /\ outcome \in [Items -> {"none", "ok", "saturated", "error"}]
    /\ buffer \in SUBSET Items
    /\ wire \in SUBSET Items
    /\ api \in {"up", "stopping", "flushing", "closing", "exited"}
    /\ timedOut \in BOOLEAN
    /\ exit \in {"ok", "error"}

InLog(e) == \E i \in DOMAIN log[PartitionOf[e.key]] : log[PartitionOf[e.key]][i] = e

(***************************************************************************)
(* HTTP 202 means that the broker has every record of the request, however *)
(* results, timeouts and saturation interleave ("The queue acknowledged    *)
(* every record named in the response", docs/delivery.md).                 *)
(***************************************************************************)
AcceptedIsInLog ==
    \A r \in Requests : request[r] = "202" => \A x \in ItemsOf(r) : InLog(Record(x))

(***************************************************************************)
(* A callback never waits: the channel of send has room for every result,  *)
(* also those of a request answered long before.  A callback that blocked  *)
(* would stop the client's goroutine for every other request.              *)
(***************************************************************************)
CallbacksNeverBlock ==
    \A x \in Items : stage[x] = "finished" => Cardinality(Queued(x[1])) < Capacity(x[1])

(***************************************************************************)
(* run returns nil after a signal only when every admitted request was     *)
(* answered and the client holds no record ("Shutdown runs out of time:    *)
(* exits with failure instead of reporting a completed drain").            *)
(***************************************************************************)
CleanExit == api = "exited" /\ exit = "ok" => Active = {} /\ buffer = {}

(***************************************************************************)
(* The inductive invariant behind the three.  Acknowledged: what the       *)
(* client reported as "ok", or is about to, is in the log.  Progress of a  *)
(* handler: results are received only while it waits, and only good ones   *)
(* keep it waiting.  Shutdown: a drain that has seen no error leaves       *)
(* nothing behind.                                                         *)
(***************************************************************************)
Acknowledged ==
    \A x \in Items :
        (stage[x] = "buffered" /\ x \notin wire) \/ outcome[x] = "ok" => InLog(Record(x))

HandlerShape ==
    \A x \in Items :
        /\ stage[x] \in {"new", "buffered"} <=> outcome[x] = "none"
        /\ stage[x] = "new" => x \notin buffer /\ x \notin wire
        /\ stage[x] = "buffered" => x \in buffer
        /\ request[x[1]] \in Refused \cup {"new"} => stage[x] = "new"
        /\ request[x[1]] \in Refused \cup {"new", "produce"} => stage[x] # "received"
        /\ request[x[1]] = "await" => stage[x] # "new" /\ (stage[x] = "received" => outcome[x] = "ok")
        /\ request[x[1]] = "202" => stage[x] = "received" /\ outcome[x] = "ok"

DrainShape ==
    /\ api \in {"flushing", "closing", "exited"} /\ exit = "ok" => Active = {}
    /\ api \in {"closing", "exited"} /\ exit = "ok" => buffer = {}

\* The conjunction that every step of the publisher and of the drain preserves.
Inv == TypeOK /\ Acknowledged /\ HandlerShape /\ DrainShape

\* Every admitted request is answered while the process lives, though the
\* broker may never report anything.
EveryRequestAnswered ==
    \A r \in Requests : (r \in Active) ~> (r \notin Active \/ api = "exited")

\* Once signalled, the process ends: the drain is bounded by its deadline.
ShutdownEnds == (api = "stopping") ~> (api = "exited")
=============================================================================
