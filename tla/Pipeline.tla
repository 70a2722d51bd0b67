------------------------------ MODULE Pipeline ------------------------------
(***************************************************************************)
(* One sample of the pipeline measurement: runPipelineSample and the       *)
(* verification after it (internal/benchmark/pipeline.go), with the        *)
(* observer of pipeline_observer.go.                                       *)
(*                                                                         *)
(* Four kinds of goroutines: the scheduler offers batches to a bounded     *)
(* queue and never waits for it, the workers send them and put the verdict *)
(* on a channel, the observer queries the database when asked, and the     *)
(* accounting loop selects among all of them, the end of the window, the   *)
(* ticker and the context.  A batch is one unit here.  Clocks appear as    *)
(* timers that may fire at any time; how late a request was only adds      *)
(* reasons to call the sample limited, so it is left out.                  *)
(***************************************************************************)
EXTENDS Naturals, Sequences, FiniteSets

CONSTANTS
    N,              \* planned batches
    Workers,        \* c.Concurrency senders
    MaxFaults       \* bound: queries that fail by themselves or meet a skewed clock

ASSUME PipelineAssumption == N \in Nat /\ IsFiniteSet(Workers) /\ MaxFaults \in Nat

Batches == 1 .. N
None == 0           \* a worker without a batch
Exited == N + 1     \* a worker that has returned

VARIABLES
    ctxDone, windowOver, activeOver,    \* timers and the caller's context
    next, missed, scheduled,            \* the scheduler: next batch, given up, done
    jobs, work, results,                \* the queue, the senders, the verdicts
    topic, table,                       \* external: in the broker, and known to be stored
    asked, observing, answers, cancelled,   \* the observer: requests, at work, its results, its context
    main,           \* where the accounting is
    saw,            \* its flags: the window is over, the workers are done, the context is done
    book,           \* the verdicts it has recorded
    seen,           \* the batches it has observed
    inFlight, obsErr, outages,
    expected,       \* expectedCancel
    outcome, faults

timers == <<ctxDone, windowOver, activeOver>>
loadVars == <<next, missed, scheduled, jobs, work, results, topic, table>>
observerVars == <<asked, observing, answers, cancelled>>
obsBook == <<seen, inFlight, obsErr, outages>>
mainVars == <<main, saw, book, obsBook, expected, outcome>>
vars == <<timers, loadVars, observerVars, mainVars, faults>>

-----------------------------------------------------------------------------
(* The environment.                                                        *)

Interrupt == ~ctxDone /\ main # "returned" /\ ctxDone' = TRUE /\ UNCHANGED <<windowOver, activeOver>>
ActiveEnds == ~activeOver /\ activeOver' = TRUE /\ UNCHANGED <<ctxDone, windowOver>>
WindowEnds == activeOver /\ ~windowOver /\ windowOver' = TRUE /\ UNCHANGED <<ctxDone, activeOver>>

Clock == (ActiveEnds \/ WindowEnds) /\ UNCHANGED <<loadVars, observerVars, mainVars, faults>>
Cancel == Interrupt /\ UNCHANGED <<loadVars, observerVars, mainVars, faults>>

\* The consumer stores the topic's batches at its own pace; what it has stored
\* matters when the table is read.
Read == table' \in {rows \in SUBSET topic : table \subseteq rows}

-----------------------------------------------------------------------------
(* The scheduler.                                                          *)

\* Mutant: the queue does not count the batch it cannot take.
FullForgets == missed' = missed

\* The queue is full: the batch is given up.
Full == missed' = missed \cup {next}

Room == Len(jobs) < 2 * Cardinality(Workers)

Schedule ==
    /\ ~scheduled
    /\ \/ /\ next > N
          /\ scheduled' = TRUE /\ UNCHANGED <<next, missed, jobs>>
       \/ /\ next <= N /\ (ctxDone \/ activeOver)
          /\ missed' = missed \cup (next .. N)
          /\ scheduled' = TRUE /\ UNCHANGED <<next, jobs>>
       \/ /\ next <= N /\ ~activeOver
          /\ IF Room
             THEN jobs' = Append(jobs, next) /\ UNCHANGED missed
             ELSE Full /\ UNCHANGED jobs
          /\ next' = next + 1 /\ UNCHANGED scheduled
    /\ UNCHANGED <<timers, work, results, topic, table, observerVars, mainVars, faults>>

-----------------------------------------------------------------------------
(* The workers.                                                            *)

Take(w) ==
    /\ work[w] = None /\ jobs # <<>>
    /\ work' = [work EXCEPT ![w] = Head(jobs)] /\ jobs' = Tail(jobs)
    /\ UNCHANGED <<timers, next, missed, scheduled, results, topic, table, observerVars, mainVars, faults>>

\* What the topic may hold after an answer: everything after a 202, nothing
\* after a rejection, and either after a lost or a server error.
TopicAfter(b, verdict) ==
    CASE verdict = "accepted" -> {topic \cup {b}}
      [] verdict = "rejected" -> {topic}
      [] OTHER -> {topic, topic \cup {b}}

\* send returns; after the context's end only with an error.  (An answer that
\* wins the race against that end is a Send before it.)
Send(w) ==
    /\ work[w] \in Batches
    /\ \E v \in IF ctxDone THEN {"ambiguous"} ELSE {"accepted", "ambiguous", "rejected"} :
        /\ topic' \in TopicAfter(work[w], v)
        /\ results' = Append(results, [batch |-> work[w], verdict |-> v])
    /\ work' = [work EXCEPT ![w] = None]
    /\ UNCHANGED <<timers, next, missed, scheduled, jobs, table, observerVars, mainVars, faults>>

\* The queue is closed and empty.
Leave(w) ==
    /\ work[w] = None /\ scheduled /\ jobs = <<>>
    /\ work' = [work EXCEPT ![w] = Exited]
    /\ UNCHANGED <<timers, next, missed, scheduled, jobs, results, topic, table, observerVars, mainVars, faults>>

\* wg.Wait() and close(results).
ResultsClosed == \A w \in Workers : work[w] = Exited

-----------------------------------------------------------------------------
(* The observer.                                                           *)

ObserverCancelled == ctxDone \/ cancelled

\* The select: a request, or the end of the context, which wins if both.
ObserverTakes ==
    /\ observing = "no"
    /\ \/ ObserverCancelled /\ observing' = "exited" /\ UNCHANGED asked
       \/ ~ObserverCancelled /\ asked = 1 /\ observing' = "yes" /\ asked' = 0
    /\ UNCHANGED <<timers, loadVars, answers, cancelled, mainVars, faults>>

\* An environment's choice that uses up one of the faults.
Fault(happens) == IF happens THEN faults < MaxFaults /\ faults' = faults + 1 ELSE UNCHANGED faults

\* A query returns the stored rows, perhaps although its context has just ended;
\* where clocks disagree (skewed), a new one has a receipt that is later than the
\* reading of the database's clock.  Or it returns an error: its context's, with
\* c.ReconnectObserver that the observer is unavailable for now, or a failure.
\* The send on the channel of capacity 1 would block while a result is in it.
ObserverAnswers ==
    /\ observing = "yes" /\ answers = <<>>
    /\ observing' = "no"
    /\ \/ /\ Read
          /\ \E skewed \in IF table' \subseteq seen THEN {FALSE} ELSE BOOLEAN :
                Fault(skewed) /\ answers' = <<[rows |-> table', err |-> "none", skewed |-> skewed]>>
       \/ /\ \E err \in IF ObserverCancelled THEN {"canceled"} ELSE {"unavailable", "failed"} :
                Fault(err # "canceled") /\ answers' = <<[rows |-> {}, err |-> err, skewed |-> FALSE]>>
          /\ UNCHANGED table
    /\ UNCHANGED <<timers, next, missed, scheduled, jobs, work, results, topic, asked, cancelled, mainVars>>

-----------------------------------------------------------------------------
(* The accounting loop.                                                    *)

Verdict(v) == {b \in Batches : book[b] = v}
NeedsObservation == ~(Verdict("accepted") \cup Verdict("ambiguous") \subseteq seen)
AcceptedSeen == Verdict("accepted") \subseteq seen

\* Mutant: a cancelled query is an error even if it was cancelled because it
\* was not needed any more.
BlamesAlways(err, expect) == err # "none" /\ err # "unavailable"

Blames(err, expect) == err \notin {"none", "unavailable"} /\ ~(expect /\ err = "canceled")

\* A row that is new has a negative latency: clocks disagree.
NegativeLatency(v) == v.skewed /\ ~(v.rows \subseteq seen)

RecordObservation(v, expect) ==
    /\ inFlight' = FALSE
    /\ seen' = seen \cup v.rows
    /\ outages' = (outages \/ v.err = "unavailable")
    /\ obsErr' = (obsErr \/ Blames(v.err, expect) \/ NegativeLatency(v))

\* Mutant: every tick asks, whether or not the last answer has come.
MayAskAlways == ~obsErr

\* requestObservation's condition: at most one request is outstanding.
MayAsk == ~inFlight /\ ~obsErr

\* The send on the channel of capacity 1.
RequestObservation ==
    IF MayAsk THEN asked' = asked + 1 /\ inFlight' = TRUE ELSE UNCHANGED <<asked, inFlight>>

\* The main loop: ctx.Done, the window and the results channel.
LoopFlags ==
    /\ main = "loop"
    /\ \/ ctxDone /\ ~saw.ctx /\ saw' = [saw EXCEPT !.ctx = TRUE, !.window = TRUE]
       \/ windowOver /\ ~saw.window /\ saw' = [saw EXCEPT !.window = TRUE]
       \/ ResultsClosed /\ results = <<>> /\ ~saw.workers /\ saw' = [saw EXCEPT !.workers = TRUE]
    /\ UNCHANGED <<timers, loadVars, observerVars, main, book, obsBook, expected, outcome, faults>>

RecordRequest ==
    /\ main = "loop" /\ results # <<>>
    /\ book' = [book EXCEPT ![Head(results).batch] = Head(results).verdict]
    /\ results' = Tail(results)
    /\ UNCHANGED <<timers, next, missed, scheduled, jobs, work, topic, table, observerVars>>
    /\ UNCHANGED <<main, saw, obsBook, expected, outcome, faults>>

Observed ==
    /\ main \in {"loop", "drain"} /\ answers # <<>>
    /\ RecordObservation(Head(answers), FALSE)
    /\ answers' = <<>>
    /\ UNCHANGED <<timers, loadVars, asked, observing, cancelled, main, saw, book, expected, outcome, faults>>

Tick ==
    /\ \/ main = "loop" /\ seen # Batches /\ (~saw.workers \/ NeedsObservation)
       \/ main = "drain"
    /\ MayAsk /\ RequestObservation
    /\ UNCHANGED <<timers, loadVars, observing, answers, cancelled, main, saw, book, seen, obsErr, outages>>
    /\ UNCHANGED <<expected, outcome, faults>>

\* The loop ends; the scheduler's counts are read, and a first query of the
\* drain is asked for.
LoopEnds ==
    /\ main = "loop" /\ saw.window /\ saw.workers /\ scheduled
    /\ main' = "drain"
    /\ IF NeedsObservation THEN RequestObservation ELSE UNCHANGED <<asked, inFlight>>
    /\ UNCHANGED <<timers, loadVars, observing, answers, cancelled, saw, book, seen, obsErr, outages>>
    /\ UNCHANGED <<expected, outcome, faults>>

\* Mutant: the drain has no deadline.
DrainUnbounded ==
    /\ main = "drain" /\ ~saw.ctx /\ ~obsErr /\ NeedsObservation
    /\ ctxDone /\ saw' = [saw EXCEPT !.ctx = TRUE]
    /\ UNCHANGED <<timers, loadVars, observerVars, main, book, obsBook, expected, outcome, faults>>

\* The context ends during the drain, or its deadline passes: acknowledged
\* events that were not seen are an error.
DrainInterrupted ==
    /\ main = "drain" /\ ~saw.ctx /\ ~obsErr /\ NeedsObservation
    /\ \/ ctxDone /\ saw' = [saw EXCEPT !.ctx = TRUE] /\ UNCHANGED <<main, obsErr>>
       \/ main' = "cancel" /\ obsErr' = ~AcceptedSeen /\ UNCHANGED saw
    /\ UNCHANGED <<timers, loadVars, observerVars, book, seen, inFlight, outages, expected, outcome, faults>>

DrainEnds ==
    /\ main = "drain" /\ (saw.ctx \/ obsErr \/ ~NeedsObservation)
    /\ main' = "cancel"
    /\ UNCHANGED <<timers, loadVars, observerVars, saw, book, obsBook, expected, outcome, faults>>

\* cancelObservation, with what its effect on a query in flight means.
CancelObservation ==
    /\ main = "cancel"
    /\ cancelled' = TRUE
    /\ expected' = (~saw.ctx /\ ~obsErr /\ AcceptedSeen)
    /\ main' = "collect"
    /\ UNCHANGED <<timers, loadVars, asked, observing, answers, saw, book, obsBook, outcome, faults>>

\* The observer has left: its last result, if any.
Collect ==
    /\ main = "collect" /\ observing = "exited"
    /\ IF answers # <<>> THEN RecordObservation(Head(answers), expected) ELSE UNCHANGED obsBook
    /\ answers' = <<>>
    /\ main' = "verify"
    /\ UNCHANGED <<timers, loadVars, asked, observing, cancelled, saw, book, expected, outcome, faults>>

ObservationStatus ==
    IF obsErr \/ saw.ctx THEN "failed"
    ELSE IF NeedsObservation THEN "partial"
    ELSE "complete"

\* Mutant: what the generator could not offer is no reason for a limit.
LimitedByVerdicts == \E b \in Batches : book[b] \in {"ambiguous", "rejected"}

\* The counts that make a load limited.
LimitedLoad == missed # {} \/ \E b \in Batches : book[b] \in {"ambiguous", "rejected"}

\* Reconcile and finalizePipelineVerification with the rows that
\* VerifyPipelineRows found, and the last word of run.
OutcomeOf(stored, verifyErr, closeErr) ==
    IF verifyErr \/ saw.ctx \/ ~(Verdict("accepted") \subseteq stored) THEN "failed"
    ELSE IF LimitedLoad \/ outages \/ closeErr \/ ObservationStatus # "complete" THEN "limited"
    ELSE "complete"

\* The observer's session is closed, under a context of its own; then the
\* verification reads the table, and fails with the context or its deadline.
Verify ==
    /\ main = "verify"
    /\ \E closeErr \in BOOLEAN :
        /\ Fault(closeErr)
        /\ \/ ~ctxDone /\ Read /\ outcome' = OutcomeOf(table', FALSE, closeErr)
           \/ outcome' = OutcomeOf({}, TRUE, closeErr) /\ UNCHANGED table
    /\ main' = "returned"
    /\ UNCHANGED <<timers, next, missed, scheduled, jobs, work, results, topic, observerVars, saw, book, obsBook, expected>>

-----------------------------------------------------------------------------
Init ==
    /\ ctxDone = FALSE /\ windowOver = FALSE /\ activeOver = FALSE
    /\ next = 1 /\ missed = {} /\ scheduled = FALSE
    /\ jobs = <<>> /\ work = [w \in Workers |-> None] /\ results = <<>>
    /\ topic = {} /\ table = {}
    /\ asked = 0 /\ observing = "no" /\ answers = <<>> /\ cancelled = FALSE
    /\ main = "loop" /\ saw = [ctx |-> FALSE, window |-> FALSE, workers |-> FALSE]
    /\ book = [b \in Batches |-> "none"]
    /\ seen = {} /\ inFlight = FALSE /\ obsErr = FALSE /\ outages = FALSE
    /\ expected = FALSE /\ outcome = "none" /\ faults = 0

Sender(w) == Take(w) \/ Send(w) \/ Leave(w)
Observer == ObserverTakes \/ ObserverAnswers
Flow == LoopEnds \/ DrainEnds \/ CancelObservation \/ Collect \/ Verify
Select == LoopFlags \/ RecordRequest \/ Observed \/ Tick \/ DrainInterrupted

Next == Clock \/ Cancel \/ Schedule \/ (\E w \in Workers : Sender(w)) \/ Observer \/ Flow \/ Select

\* Timers fire, requests and queries have timeouts, every goroutine runs, and
\* a select picks at random, so a case that stays ready is picked.  Nothing is
\* assumed of the consumer or of the ticker.
Spec ==
    /\ Init /\ [][Next]_vars
    /\ WF_vars(Clock) /\ WF_vars(Schedule) /\ WF_vars(Observer) /\ WF_vars(Flow)
    /\ WF_vars(LoopFlags) /\ WF_vars(RecordRequest) /\ WF_vars(Observed) /\ WF_vars(DrainInterrupted)
    /\ \A w \in Workers : WF_vars(Sender(w))

-----------------------------------------------------------------------------
Verdicts == {"accepted", "ambiguous", "rejected"}
Result == [batch : Batches, verdict : Verdicts]
Answer == [rows : SUBSET Batches, err : {"none", "canceled", "unavailable", "failed"}, skewed : BOOLEAN]

TypeOK ==
    /\ ctxDone \in BOOLEAN /\ windowOver \in BOOLEAN /\ activeOver \in BOOLEAN
    /\ next \in 1 .. N + 1 /\ missed \in SUBSET Batches /\ scheduled \in BOOLEAN
    /\ jobs \in Seq(Batches) /\ Len(jobs) <= 2 * Cardinality(Workers)
    /\ work \in [Workers -> 0 .. N + 1] /\ results \in Seq(Result)
    /\ topic \in SUBSET Batches /\ table \in SUBSET topic
    /\ asked \in Nat /\ observing \in {"no", "yes", "exited"} /\ cancelled \in BOOLEAN
    /\ answers \in Seq(Answer) /\ Len(answers) <= 1
    /\ main \in {"loop", "drain", "cancel", "collect", "verify", "returned"}
    /\ saw \in [ctx : BOOLEAN, window : BOOLEAN, workers : BOOLEAN]
    /\ book \in [Batches -> Verdicts \cup {"none"}] /\ seen \in SUBSET Batches
    /\ inFlight \in BOOLEAN /\ obsErr \in BOOLEAN /\ outages \in BOOLEAN /\ expected \in BOOLEAN
    /\ outcome \in {"none", "failed", "limited", "complete"} /\ faults \in Nat

(***************************************************************************)
(* The books of a sample as the abstract ledger sees them.  Every planned  *)
(* batch is missed, or sent and given exactly one verdict, and a sample    *)
(* returns with no batch unaccounted for, whether the queue overflowed,    *)
(* the active period ended or the context was cancelled in the middle.     *)
(***************************************************************************)
Entry(b) ==
    IF b \in missed THEN "missed"
    ELSE IF book[b] # "none" THEN book[b]
    ELSE IF b < next THEN "out"
    ELSE "planned"

L == INSTANCE Ledger WITH
        Batches <- Batches,
        book <- [b \in Batches |-> Entry(b)],
        closed <- main = "returned"

\* The refinement: a sample implements the ledger.
ImplementsLedger == L!Spec

(***************************************************************************)
(* The accounting loop and the observer never block on each other: there   *)
(* is room for a request whenever one may be sent, and for a result        *)
(* whenever a query is running, so a cancelled observer can always leave   *)
(* ("The buffered result therefore cannot block a cancelled worker's       *)
(* exit", pipeline_observer.go:25).                                        *)
(***************************************************************************)
ObserverNeverBlocks ==
    /\ asked \in 0 .. 1
    /\ MayAsk => asked = 0
    /\ observing = "yes" => answers = <<>>

(***************************************************************************)
(* An outcome is earned: complete means that every planned batch was       *)
(* accepted, observed and stored, and anything but failed means that no    *)
(* acknowledged batch is missing from the table.                           *)
(***************************************************************************)
OutcomeIsEarned ==
    /\ outcome = "complete" => missed = {} /\ Verdict("accepted") = Batches /\ Batches \subseteq seen \cap table
    /\ outcome \in {"complete", "limited"} => Verdict("accepted") \subseteq table

(***************************************************************************)
(* The sample does not blame itself: if no query failed or found that the  *)
(* clocks disagree, nobody interrupted, and every acknowledged batch was   *)
(* observed by the time the drain ended, the observation is not called     *)
(* failed, although a query in flight for ambiguous batches is cancelled   *)
(* or answers after all.                                                   *)
(***************************************************************************)
NoSelfBlame ==
    main = "returned" /\ faults = 0 /\ ~ctxDone /\ expected => ObservationStatus # "failed"

(***************************************************************************)
(* A sample returns, even if the consumer stores nothing and the ticker    *)
(* never fires.                                                            *)
(***************************************************************************)
SampleEnds == <>(main = "returned")

-----------------------------------------------------------------------------
(* The inductive invariant.                                                *)

\* A batch that was handed out and has no verdict yet ...
Open(b) == b \in Batches /\ b < next /\ b \notin missed /\ book[b] = "none"

\* ... is all that is in the queue, with a sender or among the results, ...
InFlight ==
    /\ \A i \in 1 .. Len(jobs) : Open(jobs[i])
    /\ \A w \in Workers : work[w] \in Batches => Open(work[w])
    /\ \A i \in 1 .. Len(results) : Open(results[i].batch)

\* ... in one place only, ...
OnePlace ==
    /\ \A i, j \in 1 .. Len(jobs) : jobs[i] = jobs[j] => i = j
    /\ \A i, j \in 1 .. Len(results) : results[i].batch = results[j].batch => i = j
    /\ \A v, w \in Workers : work[v] \in Batches /\ work[v] = work[w] => v = w
    /\ \A i \in 1 .. Len(jobs), w \in Workers : work[w] # jobs[i]
    /\ \A i \in 1 .. Len(jobs), j \in 1 .. Len(results) : jobs[i] # results[j].batch
    /\ \A i \in 1 .. Len(results), w \in Workers : work[w] # results[i].batch

\* ... and in one of them.
SomePlace ==
    \A b \in Batches : Open(b) =>
        \/ \E i \in 1 .. Len(jobs) : jobs[i] = b
        \/ \E w \in Workers : work[w] = b
        \/ \E i \in 1 .. Len(results) : results[i].batch = b

\* What the scheduler has not reached, it has given up once it is done.
Schedules ==
    /\ \A b \in Batches : b >= next => book[b] = "none" /\ (b \in missed <=> scheduled)
    /\ \A b \in missed : book[b] = "none"

\* The order in which the senders and then the accounting end.
Endings ==
    /\ (\E w \in Workers : work[w] = Exited) => scheduled /\ jobs = <<>>
    /\ saw.workers => ResultsClosed /\ results = <<>>
    /\ main # "loop" => saw.workers /\ scheduled
    /\ main # "returned" => outcome = "none"

\* At most one query is asked for, running or answered, and inFlight says so.
OneQuery ==
    /\ asked \in 0 .. 1
    /\ asked = 1 => inFlight /\ observing # "yes" /\ answers = <<>>
    /\ observing = "yes" => inFlight /\ answers = <<>>
    /\ answers # <<>> => inFlight

\* Who is to blame for an observation that failed.
Blame ==
    /\ saw.ctx => ctxDone
    /\ answers # <<>> /\ (Head(answers).err = "failed" \/ Head(answers).skewed) => faults > 0
    /\ main = "collect" /\ expected => ~obsErr
    /\ main \in {"verify", "returned"} /\ expected /\ faults = 0 => ~obsErr

\* Every action preserves the conjunction.
Inv ==
    /\ TypeOK /\ InFlight /\ OnePlace /\ SomePlace /\ Schedules /\ Endings
    /\ OneQuery /\ Blame /\ OutcomeIsEarned
=============================================================================
