# ingestkit in TLA+

ingestkit is an HTTP event collector: an API accepts batches of events and
publishes them to a Redpanda topic, a worker reads the topic and stores the
events in PostgreSQL, and a benchmark suite drives and audits the pair. This
directory models the parts whose correctness depends on order, failure and
concurrency, model-checks them with TLC and proves the central results with
TLAPS.

## The system

| Part | State it keeps | Operations | Hard because |
| --- | --- | --- | --- |
| API ingestion (`internal/api`, `cmd/api`) | requests in flight | authenticate, rate-limit, validate, publish, answer | a batch is not a broker transaction; a timeout races the acknowledgements; shutdown races requests |
| Publisher (`internal/messaging/publisher.go`) | the client's bounded buffer, one result channel per request | Publish, send, Flush, Close | callbacks of abandoned requests, a full buffer |
| Reader (`internal/messaging/reader.go`, `process.go`) | the assigned partitions, the fetched records, the current segment | Run, processPartition, persist, commit, quarantine | crashes between storing and committing, late statements, fenced members, poison records |
| Event store (`internal/persistence`) | `ingestkit.events` | WriteBatch | a statement may commit after its client gave up |
| Worker lifecycle (`cmd/consumer`, `internal/service`) | the supervisor, the current reader, the shutdown deadline, processing health | Supervise, drainConsumer, Drain, readiness | the stop signal races the creation of a reader |
| Rate limiter (`internal/api/middleware/ratelimit.go`) | a token bucket per tenant | allow, cleanup | the clock is read before the lock; a bucket is evicted while a request holds it |
| Diagnostics and health (`internal/service/diagnostics.go`, `health.go`) | failed, last, suppressed per operation; the failed operations | Report, Observe, readiness | suppressed counts across a cooldown; successes during the drain |
| Owned stacks (`internal/runenv/compose.go`, `deployment.go`) | a Compose project per attempt, its directory | Start, Stop, Destroy, SetServiceRunning, KillConsumer | commands that fail half-way, failed cleanups, foreign resources, interrupts |
| Demos (`internal/runenv/demo.go`) | the report, whether the database is stopped | RunDemo and its deferred function | early returns at every stage, an interrupted context |
| Outbox example (`examples/outbox`, `examples/checkout/ingest_client.py`) | orders and outbox rows in SQLite | create_order, dispatch_once, retries | a crash after the acknowledgement, overlapping dispatchers |
| Study runner (`internal/benchmark/study.go`, `journal.go`) | the journal, the artifacts | RunStudy, resume | crashes between artifact, journal and manifest |
| Pipeline sampler (`internal/benchmark/pipeline.go`) | scheduler, senders, observer, books | runPipelineSample, Reconcile | accounting when work is abandoned, channels between goroutines |
| Deployment files, figures, calibration, telemetry | files, counters | - | not concurrent, or I/O only |

How the parts interact. A client (the checkout example, the outbox dispatcher or
the benchmark's load generator) sends a batch over HTTP. The API's middleware
authenticates it and takes a token from the tenant's bucket; the handler
validates the whole batch, hands it to the publisher record by record and
answers once the Kafka client's callbacks have reported every record. The topic
is all that the API and the workers share. A worker process runs a supervisor
goroutine that creates one reader after another; each joins the consumer group,
stores runs of decodable records with one statement, copies the others to the
quarantine topic and commits the group's offset behind them. `main` of either
process waits for a signal and drains. Demos, tests and the study runner start a
whole stack of their own through `runenv`; the study measures it case by case,
the pipeline case with one load sample after another, and keeps a journal and
artifacts that an audit script reads later.

What has to be right:

* **API and publisher** - 202 only when the broker has every record; no callback
  blocks the client; every admitted request is answered; the drain loses nothing
  silently and ends.
* **Reader and store** - no record is passed over; the content that came first
  is the one stored; the offset never moves back; a poison record does not stop
  its partition.
* **Worker** - a signal is never lost, an undisturbed stop is not an error, a
  nil exit means that the work in progress was finished.
* **Rate limiter** - a bucket never gives more than the configured rate and
  burst, and a request is not refused without reason.
* **Study** - whatever is interrupted, killed or fails, the journal and the index
  say no more than the files show, and done work is final.
* **Health and log** - no failure disappears from the throttled log, log and
  readiness agree, a draining process is never ready again.
* **Stacks and demos** - nothing is left behind in silence, nothing foreign is
  touched, an interrupted demo still cleans up, a completed report is true.
* **Pipeline** - every planned batch is accounted for exactly once, the goroutines
  never block on each other, an outcome is earned.
* **Outbox** - an order's event is settled only when it is published, decisions
  are final, and no order is overtaken.

The hazards, each at its line and with the properties that would catch it, are
listed in `PROJECT.json`. One is covered by none: the readiness keeps one flag per
operation, so a partition that fails is hidden by another that succeeds.

## Modules

| Module | Models | Used by |
| --- | --- | --- |
| `EventLog` | topic, offsets, table, quarantine topic; `WriteBatch` | everything about events |
| `Delivery` | abstract: what the worker promises | `Reader` implements it |
| `Reader` | `reader.go`, `process.go`, `quarantine.go`, `events.go` | `MCReader`, `Collector`, `ReaderProofs` |
| `Ingest` | `ingest.go`, `publisher.go`, the drain of `cmd/api` | `MCIngest`, `IngestProofs`, `Collector` |
| `Collector` | `Reader` extended by an instance of `Ingest`, over one topic | `MCCollector`, `ReaderProofs` |
| `Worker` | `cmd/consumer/main.go`, `lifecycle.go`, the polling loop | `Operations`, `WorkerProofs` |
| `Operations` | `Worker` with `health.go`, `diagnostics.go` and the readiness probe | `WorkerProofs` |
| `RateLimiter` | `middleware/ratelimit.go` | `MCRateLimiter`, `RateLimiterProofs` |
| `Study` | `study.go`, `journal.go`, `artifacts.go` | `MCStudy`, `StudyProofs` |
| `Stack` | `compose.go`, `deployment.go` | `Demo` |
| `Demo` | `demo.go` on a `Stack`, or a user of one | `DemoProofs` |
| `Ledger` | abstract: the accounting of a sample | `Pipeline` implements it |
| `Pipeline` | `runPipelineSample`, `observerWorker`, `Reconcile`, the verification | `PipelineProofs` |
| `Obligation` | abstract: what a transactional outbox promises | `Outbox` implements it |
| `Outbox` | `outbox/app.py`, the attempts of `ingest_client.py` | `OutboxProofs` |

The `MC` modules only give values to constants and define symmetry sets. In the
component modules a definition marked *Mutant* is a wrong variant of the
definition after it; no specification uses it. `PROJECT.json` says which
property each one breaks.

### The reader: `EventLog`, `Delivery`, `Reader`

`EventLog` is what the parts share: the topic (`log`), the group's offsets
(`committed`), the table (`rows`) and the quarantine topic (`dlq`), with the
meaning of "settled": stored, or quarantined when it cannot be decoded. An
envelope is a key (tenant and event ID) and a body; a record is an envelope or
`Poison`. `WriteBatch` is the statement of `events.go`: one INSERT of a run of
records, all or nothing, in which an existing key wins and of two records with
one new key the first wins.

`Reader` has one program counter per member of the group:

| Label | Where the code is |
| --- | --- |
| `down` | no reader; the supervisor will create one |
| `idle` | in `PollRecords` |
| `cycle` | the loop of `processFetched` over the partitions of a poll |
| `scan` | the loop of `processPartition`, about to decode `cur` |
| `write`, `backoff` | `persist`, before an attempt and between two |
| `commit` | the segment is stored, `CommitRecords` is next |
| `quarantine` | the record `cur` goes to the quarantine topic |
| `closing` | `Run` has returned an error, `CloseAllowingRebalance` is next |

`lo`, `cur` and `end` stand for `source[0]`, the loop variable and the client's
fetch position. A statement that fails for its client goes to `late`: it may
still commit, at any later time. A commit that fails may have been applied. An
expired member goes on working until a heartbeat tells it, but the coordinator
refuses its commits (`owner`). `Crash` forgets everything but what the broker and
PostgreSQL hold. `failed` is `ProcessingHealth`. The number of environment
failures is bounded by `MaxFaults`, the log by `MaxLog`.

`Delivery` has four steps: append a record, store keys that have no row with the
content that came first, quarantine a record that cannot be decoded, advance an
offset over settled records. `Reader` implements it with the identity on these
four variables.

### The API: `Ingest`

A request is `new`, then refused (`401`, `429`, `400`) or admitted, `produce`
(the loop over `TryProduce`), `await` (the `select` over results and the
deadline), and answered `202` or `503`. A record is `new`, `buffered`, `finished`
(the client knows its fate but has not made the callback), `queued` in the
request's result channel, or `received`. `wire` holds the records that may still
reach the broker; `GiveUp` reports an error and may leave the record on the wire,
so that it is delivered after its request was answered. `api` follows `run` and
`Drain`: stop the server, flush, close, each bounded by one deadline; `Abort` is
an end without a drain.

### Both: `Collector`

`Collect` is a step of `Ingest`, `Run`, `Regroup`, `Disturb` and `Settle` are
steps of `Reader`, and `Stray` is a foreign producer's record that is no
envelope. `Reader`'s `Produce` does not occur: `ImplementsReader` says that
publication is no more than that.

### The worker's life: `Worker`

Two goroutines. `sup` is the supervisor: `Supervise`'s checks, the ping, the
creation of a reader, the publication of the pointer, the second look at the
signal, the polling loop, the backoff. `main` is `run`: wait, load the pointer,
stop the reader, wait for the supervisor or the deadline, shut the server down,
close the pool. What a reader does with records is one step (`work`); that is
`Reader`'s subject.

### The limiter: `RateLimiter`

`allow` takes three steps: read the clock, look the bucket up under `rl.mu`,
refill and take under `b.mu`. `cleanup` reads the clock and visits the buckets
one by one while it holds `rl.mu`. A bucket that left the map stays in `bucket`,
as a handler may still hold it. Time is in ticks of the refill of one unit, so
that arithmetic is exact; the rounding of `float64` is not modelled. `spent` and
`given` are history variables: what a bucket, and what all the buckets of a
tenant, gave in every interval of clock readings.

### The study: `Study`

`pc` follows `RunStudy`: check and load the journal, start the stack, bind the
identity, write the manifest, save, loop over the cases (start and save, measure,
write the capture, record and save, write the index), and the deferred function
(resources, destroy, fingerprint again, save, publish). The disk is `saved`
(journal), `captures`, `manifests`, `samples` and `index`; `journal` is the copy
in memory. `atomicJSON` may fail before the rename, or after it when the
directory's sync fails. Files that are linked are never replaced. `Interrupt`
cancels the context at any point, `Crash` kills the process, `EditSource` changes
the checkout under it. A measurement is its outcome: complete, limited, an error,
or an error of the observation only.

### What an operator sees: `Operations`

`Operations` extends `Worker`: its steps are `Worker`'s, with what they report
conjoined, and the steps of the callback, of the readiness probe and of the
cooldown's clock beside them. The callback of the reader makes two steps,
`health.Observe` and `diagnostics.Report`, because they are two locked sections.
`broken` and `diag` outlive the readers. `cooled` is the answer to the only
question asked of the clock. `failures` and `told` are history: the failures
reported, and those the messages account for.

### Stacks and demos: `Stack`, `Demo`

`at` follows `Start` through an attempt: `prepare`, `up`, `discover`, and on
failure `evidence` and `cleanup`; `ready` and `failed` are its returns. An
operation on a stack is a `call` that verifies the containers, then the volumes,
and then acts; it is cancelled with the caller's context unless it is a cleanup.
Docker is external: a command takes effect before it returns, and one that fails
may have done any part of its work. The name of a project is random, so nothing
foreign is in it when it is created, but something may appear later. `seen` and
`harmed` are history: what was foreign when an operation began, and what of it
was hit. `Demo` runs `RunDemo` on a development stack, stage by stage, with its
deferred function; on a selfhost stack a user calls the operations in any order.
`Store` is the collector, external here.

### A load sample: `Pipeline`, `Ledger`

The scheduler, the senders, the observer and the accounting loop are concurrent;
each case of a `select` is an action. Batches are units: the code counts events,
and every batch's events share its fate. Of the clocks only the end of the active
period, of the window and of the drain are left, as timers that fire at any time,
and of the latencies whether one is negative (`skewed`: the receipt of a new row is
later than the database's clock), which makes the observation failed;
what depends on how late something was (`late_schedules`, slow queries, requests
after the window) only adds reasons to call a sample limited, and is left out.
The table is read lazily: what the consumer has stored is chosen when a query
reads it, and only grows. Whether `ReconnectObserver` is set is folded into the
kind of a failing query, which is exact while one query fails. `Ledger` sees a
batch as planned, out, missed or with a verdict, and `INSTANCE Ledger WITH` maps
the scheduler's position, its misses and the recorded verdicts to these entries.

### The outbox: `Outbox`, `Obligation`

A dispatcher selects, sends with up to `MaxAttempts` HTTP attempts, and updates,
in separate transactions; it may die in between. The example's documentation asks
for one dispatcher at a time; the model has two, because a restarted one and a
hanging one overlap. An uncertain answer leaves any part of the batch in the
queue, now or later (`delayed`). `Obligation` is reached with the mapping of the
state column to debts (`Debt`): an order owes, has settled or has parked its
event. The event in the queue is stored at most once, which is `Reader`'s part.

## Runs

| Run | Instance | Shows |
| --- | --- | --- |
| `reader_group` | 2 members, 1 partition, 3 records of one key with 2 bodies or poison, 2 faults | `NoLoss`, `FirstContentWins`, `ImplementsDelivery` |
| `reader_progress` | 2 members, 1 partition, 2 records, 2 faults, fair | `EverythingIsCommitted` |
| `ingest` | a batch of two and a single event, buffer of 2, fair | `AcceptedIsInLog`, `CallbacksNeverBlock`, `CleanExit`, `EveryRequestAnswered`, `ShutdownEnds` |
| `collector` | 1 request, 1 member, 2 partitions, a stray record, 1 fault, fair consumers | `StoredWasSubmitted`, `AcceptedIsStored`, `ImplementsReader`; an error in one partition skips nothing in the other |
| `worker` | `Operations`: 2 failing attempts, 3 failing operations of 2 kinds, fair | `CleanExit`, `NoFalseAlarm`, `NoPollAfterStop`, `StopIsNotLost`, `DrainIsBounded`, `LogAgreesWithReadiness`, `FailuresAccounted`, `DrainIsUnready` |
| `limiter` | 2 handlers, 2 units of capacity, 4 buckets, the shortest time to live that `EvictionAssumption` admits | `BucketBound`, `TenantBound`, `FairRefusal` |
| `study` | 2 cases, 2 sources, 2 runtimes, 3 processes, 2 faults | `JournalIsBacked`, `AuditedEvidence`, `NamesAreFresh`, `DoneIsFinal` |
| `demo` | 3 attempts, 2 failing commands, 2 foreign resources, 2 events, both profiles, fair | `NoLeak`, `ForeignIsSafe`, `CompletedMeansStored`, `InterruptIsCleaned`, `DemoEnds` |
| `pipeline` | 3 batches, 1 sender with a queue of 2, 1 failing query or skewed clock, fair | `ImplementsLedger`, `ObserverNeverBlocks`, `OutcomeIsEarned`, `NoSelfBlame`, `SampleEnds` |
| `outbox` | 3 orders, 2 dispatchers, batches of 2, 2 attempts, 2 faults, fair | `ImplementsObligation`, `OldestFirst`, `EveryOrderDecided` |
| `study_nil` | 1 case, 2 processes, 1 fault | **violated**: `NilIsPublished` |
| `study_status` | 1 pipeline case | **violated**: `AuditedStatus` |

Why the bounds are enough. In the reader a segment, the record before it and the
poison record that splits it need three records; fencing needs two members and
one fault to make the first one stale, and a second fault for a late statement or
a failed commit on top of it. In the API a batch of two has a first and a last
result, and the second request competes for the buffer. The worker's interesting
runs need at most one failing dependency before the signal and one failing server.
The limiter needs two handlers for one overtaken clock reading, and a clock that
runs long enough for a bucket to be evicted while a handler holds it and another
takes from its successor. A study needs a run that is killed, one that
resumes and goes wrong again, and one that finds what both left. A leak needs an
attempt that fails, a cleanup that fails and a second attempt; three are the
code's own limit. A failure message needs one failure, a suppressed one a second,
and a third tells a counter that was reset from one that was not. One sender
with two places in its queue overflows with the third batch, or with the second
in flight. With batches of two out of three orders two stale selections can
differ, and two faults allow a crash on top of an uncertain answer. Every bound is
a named constant, and the theorems below do not depend on them.

`CHECK_DEADLOCK FALSE` is set where the system may stop for good: processes
exit, bounded logs fill up, bounded runs are used up.

### Fairness

* `Reader`: a running member takes its next step, a failed reader is restarted
  (the supervisor's loop), the coordinator expires dead sessions and assigns
  unowned partitions, a heartbeat reports a lost assignment. Failures, producers
  and late statements owe nothing.
* `Ingest`: a handler runs and its timer fires, the client's goroutine makes the
  callbacks, the drain runs and its deadline passes. The broker owes nothing: a
  record may never be acknowledged.
* `Collector`: the consumer side only. The API may stop at any time, also right
  after it answered.
* `Worker`: both goroutines run. That the processing of a poll ends (the cycle's
  deadline in `reader.go`) is a premise of `StopIsNotLost` only, and that the
  drain's deadline passes one of `DrainIsBounded` only, so that neither hides
  behind the other.
* `Operations`: the same, and a callback ends (its two locks are held briefly).
* `Demo`: the steps of the stack and of `RunDemo` go on, as every command, request
  and query ends by itself, at its deadline or with the context. The consumer owes
  nothing: a demo whose events are never stored ends by its 30 seconds.
* `Pipeline`: the timers fire, each goroutine runs, requests and queries have
  timeouts. Fairness is per case of a `select`, because Go picks at random among
  the cases that are ready. The consumer and the ticker owe nothing.
* `Outbox`: a dispatcher is run again and again (a timer of its user), and every
  attempt has a timeout. Crashes, uncertain answers and refused keys are bounded.
* `RateLimiter` and `Study` have no liveness property and assume no fairness.

### Disagreements between the code and what is said of it

* `study_nil`: the deferred function of `RunStudy` saves the journal as complete
  and then writes the index. If that write fails or the process dies between the
  two, every later resume returns nil at once and the index stays incomplete;
  the integration test expects a complete index after a resume without error.
* `study_status`: an interrupt between the classification of a measurement as
  observation-limited and the computation of its status gives the last case the
  status incomplete in a study that ends as complete, which the audit refuses.

Smaller ones, without a run: `docs/api.md` promises a burst of 10,000 requests,
and `allow` can exceed it by one request per handler that looked a bucket up just
before `cleanup` evicted it (`TenantBound` says that it is no more than that). `verifyOwner` and
the command after it are not atomic, so a foreign resource that appears in between
is hit (`ForeignIsSafe` is about those that were there). A worker whose ping works
and whose reader cannot be created logs every attempt, because the successful
ping counts as a recovery.

## Proofs

All theorems hold for every value of the constants that satisfies the named
assumptions (finite or not; the bounds are any natural numbers). Each proof
module proves an inductive invariant, with one lemma per action (or per group of
actions that change the same part of the state), and derives the properties from
it. `XProofs` is about `X`, and about what is built on top of it: `ReaderProofs`
about `Collector` too, `WorkerProofs` about `Operations`, `DemoProofs` about `Stack`.

* **`ReaderProofs`** - `NothingIsLost`, `FirstContentIsKept`, `OffsetsAdvance`,
  `Refinement`, `Invariance`. `NoLoss` alone is not inductive: a commit may only
  advance over settled records, so `SettledSoFar` says that everything below a
  segment is settled *whoever holds it*, the owner, a fenced member or a late
  statement; `OwnerIsCurrent` says that the one whose commits are accepted starts
  at the committed offset, so that no commit rewinds; `KeysInPlace` keeps a key in
  one partition, without which first content would be a race. Rows and quarantined
  records never disappear and the log only grows, so "settled" is stable.
  About the `Collector`: `Composition`, every step of the API, seen through the
  shared variables, is `Reader!Produce` or a stutter, so that `Reader`'s theorems
  carry over; and `RowsWereSubmitted`, for which `Origin` says that every envelope
  in the log, and with it every record a statement could still write, is one of an
  admitted request.
* **`IngestProofs`** - `AcceptedMeansPublished`, `ExitIsClean`, and `CallbacksRun`
  (a count of the channel's places). `Acknowledged`
  ties the client's reports to the log, `HandlerShape` says that a waiting handler
  has received good results only, and `DrainShape` what an error-free drain has
  established so far.
* **`WorkerProofs`** - `ExitIsClean`, `ExitIsQuiet`, `StopIsFinal`.
  `StopReachesReader` is the heart: when the drain waits, a reader in its loop is
  stopped or its context cancelled, because main has the signal before it loads
  the pointer and the supervisor looks at the signal after it stored it.
  About `Operations`: `Observation`, it implements `Worker`, so that these theorems
  hold of it as well; `NoFailureIsForgotten`, `LogIsTrue` and `DrainStaysUnready`,
  with `CallbackShape` (between its two halves a callback has told the health what
  it will tell the log), `WellMeansQuiet` (a kind that is well has nothing left to
  count) and `DrainObserved` (the entry for the shutdown is never deleted).
* **`RateLimiterProofs`** - `BucketIsBounded`. `Budget`: for every interval in
  which a bucket has given anything, what it gave plus what it has is at most the
  capacity and the refill from the start of the interval to its last update. A
  refill moves both sides together, backwards too. `RefusalIsFair` needs the same
  account from the other side: a bucket that has too little for a request gave
  away the rest within the last second, up to the refill a stalled reading misses.
  `TenantIsBounded` has an invariant of its own, `TenantInv`. A handler that still
  holds a bucket that left the map has a claim on one request; `Covered` says that
  what the tenant was given, what is in its current bucket and these claims stay
  within capacity, refill and one request per handler. An eviction keeps it because
  the bucket was idle for longer than its time to live, in which it would have
  refilled: that is `EvictionAssumption`, and only this theorem uses it. Without
  it repeated evictions exceed the bound.
* **`StudyProofs`** - `JournalBacked`, `EvidenceIsAudited`, `NamesFresh`,
  `DoneStaysDone`. The invariant says how memory and disk may differ
  (`MemoryIsAhead`, `NumbersAreSaved`), that every capture has the one identity
  the journal on disk has (`OneIdentity`), that the numbers in use are new
  (`NumbersAreNew`) and that journal, memory and index only name files that exist
  (`SavedNamed`, `JournalNamed`, `IndexNamed`).
* **`OutboxProofs`** - `Refinement` (`Outbox` implements `Obligation`) and
  `NotOvertaken`. `AnswerShape` says that a dispatcher that was told acknowledged
  finds its whole selection in the queue, which is what settling needs.
  `OldestFirst` is not inductive: `Downward` says that a selection, however stale,
  holds every row that is pending and older than one of its own. That holds when
  the rows are selected (the limit counts from the oldest, lemma `BeforeGrows`) and
  stays true because rows are appended behind it and never become pending again;
  so an `UPDATE` decides a prefix of what is pending.
* **`DemoProofs`** - `NothingLeaks`, `OthersAreSafe`, `ReportIsTrue`,
  `InterruptsAreCleaned`. `Remains` says what each project holds at each point of
  `Start`, `Verified` what a verification has excluded so far, `CleanupWorks` that a
  cleanup, which the caller's context does not reach, fails because of a command or
  of someone else's resources only. On top of it `Staged` ties the operation under
  way to the stage of `RunDemo`, `TakenDown` says that only the last operation takes
  resources away, and `Reported` what the report may claim at each stage.
* **`PipelineProofs`** - `BooksAreKept` (`Pipeline` implements `Ledger`),
  `ObserverIsFree`, `OutcomesAreEarned`, `CancelIsNoBlame`. A batch that was handed
  out and has no verdict is in the queue, with a sender or among the results
  (`SomePlace`), in one of them only (`OnePlace`), and nothing else is there
  (`InFlight`); so each verdict is entered once, and when the senders have ended
  and the results are drained (`Endings`) none is missing. `Schedules` gives the
  batches that were never handed out to the misses, `OneQuery` leaves the two
  channels of the observer room for what can come, and `Blame` follows a failed
  observation back to a query that failed by itself or met disagreeing clocks.

The assumptions are the named `ASSUME`s of the component modules: a key hashes to
one partition, sizes are positive, null values differ from real ones, a study has
a case, and for the limiter the handlers are finite and a bucket's time to live
(five minutes in the code) covers a full refill (one second), the time a handler
may stall between reading the clock and using it, and the refill of a request
for each of them. TLC evaluates them in every run.

Every invariant, action property and refinement that a run checks is stated by a
theorem. Only model-checked is what is temporal under fairness, which the prover
does not handle: `EverythingIsCommitted`, `EveryRequestAnswered`, `ShutdownEnds`,
`AcceptedIsStored`, `StopIsNotLost`, `DrainIsBounded`, `DemoEnds`, `SampleEnds`,
`EveryOrderDecided`. The proved refinements are about the safety part. The two
violated properties have counterexamples, not proofs.

## Not modelled

Parsing and character-level rules (`jsonb.go`, configuration, formatting) are
functions of bytes without state. Metrics and logging wording are read by no other
part; `app.go` and the commands are wiring, set up once. Docker, Redpanda,
PostgreSQL and Caddy are external and appear as what the code sees of them.
`float64` rounding in the limiter is not modelled. Within the study, a measurement
is its outcome. In a sample, the latencies but for their sign and all other
arithmetic on time stamps are left out, as are the repetition of samples and the
connection recorder. Recovery and calibration measurements are sequential scripts against a
real stack; their faults are steps of the other modules. The JavaScript client is
a twin of the Python one.

## Plan

All components with concurrency or failure of their own are modelled, and all
their safety properties are proved. Left, most important first:

1. The safety facts the liveness properties rest on, as theorems: measures that
   decrease (attempts, faults, batches left) and steps that are never taken back.
2. What the components promise one another beyond `Composition`: for instance that
   an event the `Outbox` has settled is one `Ingest` answered with 202.
