--------------------------- MODULE PipelineProofs ---------------------------
(***************************************************************************)
(* What a pipeline sample promises, for any number of batches and senders  *)
(* and any failing queries: Inv of Pipeline is inductive, and with it a    *)
(* sample implements Ledger.                                               *)
(***************************************************************************)
EXTENDS Pipeline, FiniteSetTheorems, TLAPS

-----------------------------------------------------------------------------
(* Queues.                                                                 *)

\* A queue after a send.
LEMMA AppendAt ==
    ASSUME NEW S, NEW s \in Seq(S), NEW e \in S
    PROVE  /\ Append(s, e) \in Seq(S) /\ Len(Append(s, e)) = Len(s) + 1 /\ Len(s) \in Nat
           /\ Append(s, e)[Len(s) + 1] = e
           /\ \A i \in 1 .. Len(s) : Append(s, e)[i] = s[i]
OBVIOUS

\* A queue after a receive.
LEMMA TailAt ==
    ASSUME NEW S, NEW s \in Seq(S), s # <<>>
    PROVE  /\ Len(s) \in Nat \ {0} /\ Head(s) = s[1] /\ s[1] \in S
           /\ Tail(s) \in Seq(S) /\ Len(Tail(s)) = Len(s) - 1
           /\ \A i \in 1 .. Len(s) - 1 : Tail(s)[i] = s[i + 1]
OBVIOUS

\* The empty queue.
LEMMA NilAt == \A S : <<>> \in Seq(S) /\ Len(<<>>) = 0
OBVIOUS

\* The marks of a worker are not batches.
LEMMA Marks ==
    /\ N \in Nat /\ None \notin Batches /\ Exited \notin Batches /\ None # Exited
    /\ None \in 0 .. N + 1 /\ Exited \in 0 .. N + 1 /\ Batches \subseteq 0 .. N + 1 /\ Batches \subseteq Nat
    /\ Cardinality(Workers) \in Nat
BY PipelineAssumption, FS_CardinalityType DEF Batches, None, Exited

-----------------------------------------------------------------------------
(* Types, one group of variables at a time.                                *)

\* The variables of the load, but for the topic and the table.
LoadType ==
    /\ next \in 1 .. N + 1 /\ missed \in SUBSET Batches /\ scheduled \in BOOLEAN
    /\ jobs \in Seq(Batches) /\ Len(jobs) <= 2 * Cardinality(Workers)
    /\ work \in [Workers -> 0 .. N + 1] /\ results \in Seq(Result)
    /\ book \in [Batches -> Verdicts \cup {"none"}]

places == <<next, missed, scheduled, jobs, work, results, book>>

\* The steps that move a batch.
LEMMA LoadKinds ==
    ASSUME [Next]_vars
    PROVE  \/ UNCHANGED places
           \/ Schedule
           \/ \E w \in Workers : Take(w) \/ Send(w) \/ Leave(w)
           \/ RecordRequest
<1> USE DEF places, loadVars, mainVars
<1>1. CASE Clock \/ Cancel
  BY <1>1 DEF Clock, Cancel
<1>2. CASE Observer
  BY <1>2 DEF Observer, ObserverTakes, ObserverAnswers
<1>3. CASE Flow
  BY <1>3 DEF Flow, LoopEnds, DrainEnds, CancelObservation, Collect, Verify
<1>4. CASE LoopFlags \/ Observed \/ Tick \/ DrainInterrupted
  BY <1>4 DEF LoopFlags, Observed, Tick, DrainInterrupted
<1>5. CASE UNCHANGED vars
  BY <1>5 DEF vars
<1> QED
  BY <1>1, <1>2, <1>3, <1>4, <1>5 DEF Next, Select, Sender

\* What the scheduler does.
LEMMA ScheduleFacts ==
    ASSUME LoadType, Schedule
    PROVE  /\ ~scheduled /\ UNCHANGED <<work, results, book, topic, table>> /\ LoadType'
           /\ \/ next > N /\ scheduled' = TRUE /\ UNCHANGED <<next, missed, jobs>>
              \/ next <= N /\ scheduled' = TRUE /\ missed' = missed \cup (next .. N) /\ UNCHANGED <<next, jobs>>
              \/ /\ next \in Batches /\ scheduled' = FALSE /\ next' = next + 1
                 /\ \/ jobs' = Append(jobs, next) /\ missed' = missed
                    \/ missed' = missed \cup {next} /\ jobs' = jobs
<1>0. N \in Nat /\ next \in Nat /\ (next <= N => next \in Batches) /\ next .. N \subseteq Batches
  BY Marks DEF LoadType, Batches
<1>1. ~scheduled /\ UNCHANGED <<work, results, book, topic, table>>
  BY DEF Schedule, mainVars
<1>2. \/ next > N /\ scheduled' = TRUE /\ UNCHANGED <<next, missed, jobs>>
      \/ next <= N /\ scheduled' = TRUE /\ missed' = missed \cup (next .. N) /\ UNCHANGED <<next, jobs>>
      \/ /\ next \in Batches /\ scheduled' = FALSE /\ next' = next + 1
         /\ \/ jobs' = Append(jobs, next) /\ missed' = missed /\ Room
            \/ missed' = missed \cup {next} /\ jobs' = jobs
  BY <1>0, <1>1 DEF Schedule, Full, LoadType
<1>3. /\ next' \in 1 .. N + 1 /\ missed' \in SUBSET Batches /\ scheduled' \in BOOLEAN
  <2>1. next' \in 1 .. N + 1
    BY <1>0, <1>2 DEF LoadType, Batches
  <2> QED
    BY <1>0, <1>2, <2>1 DEF LoadType
<1>4. jobs' \in Seq(Batches) /\ Len(jobs') <= 2 * Cardinality(Workers)
  <2>1. CASE jobs' = jobs
    BY <2>1 DEF LoadType
  <2>2. CASE jobs' = Append(jobs, next) /\ Room /\ next \in Batches
    <3>1. jobs' \in Seq(Batches) /\ Len(jobs') = Len(jobs) + 1 /\ Len(jobs) \in Nat
      BY <2>2, AppendAt DEF LoadType
    <3>2. Len(jobs) < 2 * Cardinality(Workers)
      BY <2>2 DEF Room
    <3> QED
      BY <3>1, <3>2, Marks
  <2> QED
    BY <1>2, <2>1, <2>2
<1> QED
  BY <1>1, <1>2, <1>3, <1>4 DEF LoadType

\* A sender takes the oldest batch of the queue.
LEMMA TakeFacts ==
    ASSUME LoadType, NEW w \in Workers, Take(w)
    PROVE  /\ LoadType' /\ UNCHANGED <<next, missed, scheduled, results, book, topic, table>>
           /\ work[w] = None /\ jobs # <<>> /\ work' = [work EXCEPT ![w] = jobs[1]] /\ jobs' = Tail(jobs)
<1>1. /\ UNCHANGED <<next, missed, scheduled, results, book, topic, table>>
      /\ work[w] = None /\ jobs # <<>> /\ work' = [work EXCEPT ![w] = Head(jobs)] /\ jobs' = Tail(jobs)
  BY DEF Take, mainVars
<1>2. /\ Head(jobs) = jobs[1] /\ jobs[1] \in Batches /\ Len(jobs) \in Nat
      /\ Tail(jobs) \in Seq(Batches) /\ Len(Tail(jobs)) = Len(jobs) - 1
  BY <1>1, TailAt DEF LoadType
<1>3. jobs[1] \in 0 .. N + 1
  BY <1>2, Marks
<1>4. work' \in [Workers -> 0 .. N + 1]
  BY <1>1, <1>2, <1>3 DEF LoadType
<1>5. Len(jobs') <= 2 * Cardinality(Workers)
  BY <1>1, <1>2, Marks DEF LoadType
<1> QED
  BY <1>1, <1>2, <1>4, <1>5 DEF LoadType

\* A sender reports the batch it holds, with a verdict.
LEMMA SendFacts ==
    ASSUME LoadType, NEW w \in Workers, Send(w)
    PROVE  /\ LoadType' /\ UNCHANGED <<next, missed, scheduled, jobs, book, table>>
           /\ work[w] \in Batches /\ work' = [work EXCEPT ![w] = None]
           /\ \E v \in Verdicts : results' = Append(results, [batch |-> work[w], verdict |-> v])
           /\ topic \subseteq topic' /\ topic' \subseteq topic \cup {work[w]}
<1>1. /\ UNCHANGED <<next, missed, scheduled, jobs, book, table>>
      /\ work[w] \in Batches /\ work' = [work EXCEPT ![w] = None]
  BY DEF Send, mainVars
<1>2. PICK v \in Verdicts : /\ results' = Append(results, [batch |-> work[w], verdict |-> v])
                            /\ topic' \in TopicAfter(work[w], v)
  BY DEF Send, Verdicts
<1>3. topic \subseteq topic' /\ topic' \subseteq topic \cup {work[w]}
  BY <1>2 DEF TopicAfter, Verdicts
<1>4. results' \in Seq(Result)
  <2>1. [batch |-> work[w], verdict |-> v] \in Result
    BY <1>1 DEF Result
  <2> QED
    BY <1>2, <2>1, AppendAt DEF LoadType
<1>5. work' \in [Workers -> 0 .. N + 1]
  BY <1>1, Marks DEF LoadType
<1> QED
  BY <1>1, <1>2, <1>3, <1>4, <1>5 DEF LoadType

\* A sender leaves when the queue is closed and empty.
LEMMA LeaveFacts ==
    ASSUME LoadType, NEW w \in Workers, Leave(w)
    PROVE  /\ LoadType' /\ UNCHANGED <<next, missed, scheduled, jobs, results, book, topic, table>>
           /\ work[w] = None /\ scheduled /\ jobs = <<>> /\ work' = [work EXCEPT ![w] = Exited]
<1>1. /\ UNCHANGED <<next, missed, scheduled, jobs, results, book, topic, table>>
      /\ work[w] = None /\ scheduled /\ jobs = <<>> /\ work' = [work EXCEPT ![w] = Exited]
  BY DEF Leave, mainVars
<1>2. work' \in [Workers -> 0 .. N + 1]
  BY <1>1, Marks DEF LoadType
<1> QED
  BY <1>1, <1>2 DEF LoadType

\* The accounting records the oldest verdict.
LEMMA RecordFacts ==
    ASSUME LoadType, RecordRequest
    PROVE  /\ LoadType' /\ UNCHANGED <<next, missed, scheduled, jobs, work, topic, table>>
           /\ main = "loop" /\ main' = "loop" /\ results # <<>> /\ results' = Tail(results)
           /\ results[1] \in Result /\ book' = [book EXCEPT ![results[1].batch] = results[1].verdict]
<1>1. /\ UNCHANGED <<next, missed, scheduled, jobs, work, topic, table>>
      /\ main = "loop" /\ main' = "loop" /\ results # <<>> /\ results' = Tail(results)
      /\ book' = [book EXCEPT ![Head(results).batch] = Head(results).verdict]
  BY DEF RecordRequest
<1>2. Head(results) = results[1] /\ results[1] \in Result /\ Tail(results) \in Seq(Result)
  BY <1>1, TailAt DEF LoadType
<1>3. book' \in [Batches -> Verdicts \cup {"none"}]
  BY <1>1, <1>2 DEF LoadType, Result
<1> QED
  BY <1>1, <1>2, <1>3 DEF LoadType

-----------------------------------------------------------------------------
(* Every batch handed out is in exactly one place until it has a verdict.  *)

Places == InFlight /\ OnePlace /\ SomePlace /\ Schedules

\* The scheduler touches no batch but the next, and the rest when it stops.
LEMMA SchedulePlaces ==
    ASSUME LoadType, Places, Schedule
    PROVE  Places'
<1> USE DEF Places
<1> DEFINE Later(b) == b \in Batches /\ b < next' /\ b \notin missed' /\ book'[b] = "none"
<1>1. /\ ~scheduled /\ UNCHANGED <<work, results, book>> /\ LoadType'
      /\ \/ next > N /\ scheduled' = TRUE /\ UNCHANGED <<next, missed, jobs>>
         \/ next <= N /\ scheduled' = TRUE /\ missed' = missed \cup (next .. N) /\ UNCHANGED <<next, jobs>>
         \/ /\ next \in Batches /\ scheduled' = FALSE /\ next' = next + 1
            /\ \/ jobs' = Append(jobs, next) /\ missed' = missed
               \/ missed' = missed \cup {next} /\ jobs' = jobs
  BY ScheduleFacts
<1>2. N \in Nat /\ next \in Nat /\ Batches = 1 .. N
  BY Marks DEF LoadType, Batches
<1>3. \A b \in Batches : Open(b) => Later(b)
  BY <1>1, <1>2 DEF Open
<1>4. \A b \in Batches : Later(b) => Open(b) \/ (b = next /\ jobs' = Append(jobs, next))
  BY <1>1, <1>2 DEF Open, Schedules
<1>5. Schedules'
  <2>1. ASSUME NEW b \in Batches, b >= next'
        PROVE  book'[b] = "none" /\ (b \in missed' <=> scheduled')
    BY <1>1, <1>2, <2>1 DEF Schedules
  <2>2. ASSUME NEW b \in missed' PROVE book'[b] = "none"
    BY <1>1, <1>2 DEF Schedules, LoadType
  <2> QED
    BY <2>1, <2>2 DEF Schedules
<1>6. CASE jobs' = jobs /\ \A b \in Batches : Later(b) => Open(b)
  BY <1>1, <1>3, <1>5, <1>6 DEF InFlight, OnePlace, SomePlace, Open
<1>7. CASE next \in Batches /\ jobs' = Append(jobs, next) /\ missed' = missed /\ next' = next + 1
  <2>1. /\ Len(jobs') = Len(jobs) + 1 /\ Len(jobs) \in Nat /\ jobs'[Len(jobs) + 1] = next
        /\ \A i \in 1 .. Len(jobs) : jobs'[i] = jobs[i]
    BY <1>7, AppendAt DEF LoadType
  <2>2. Later(next) /\ ~Open(next)
    BY <1>1, <1>2, <1>7 DEF Open, Schedules
  <2>3. /\ \A i \in 1 .. Len(jobs) : jobs[i] # next
        /\ \A w \in Workers : work[w] # next
        /\ \A i \in 1 .. Len(results) : results[i].batch # next
    BY <1>7, <2>2 DEF InFlight
  <2>4. InFlight'
    <3>1. \A i \in 1 .. Len(jobs') : Later(jobs'[i])
      <4> TAKE i \in 1 .. Len(jobs')
      <4>1. CASE i = Len(jobs) + 1
        BY <2>1, <2>2, <4>1
      <4>2. CASE i \in 1 .. Len(jobs)
        <5>1. jobs'[i] = jobs[i] /\ Open(jobs[i]) /\ jobs[i] \in Batches
          BY <2>1, <4>2 DEF InFlight, Open
        <5> QED
          BY <1>3, <5>1
      <4> QED
        BY <2>1, <4>1, <4>2
    <3>2. \A w \in Workers : work[w] \in Batches => Later(work[w])
      BY <1>3 DEF InFlight
    <3>3. \A i \in 1 .. Len(results) : Later(results[i].batch)
      BY <1>3 DEF InFlight, Open
    <3> QED
      BY <1>1, <3>1, <3>2, <3>3 DEF InFlight, Open
  <2>5. OnePlace'
    <3>1. \A i, j \in 1 .. Len(jobs') : jobs'[i] = jobs'[j] => i = j
      BY <2>1, <2>3 DEF OnePlace
    <3>2. \A i \in 1 .. Len(jobs'), w \in Workers : work[w] # jobs'[i]
      BY <2>1, <2>3 DEF OnePlace
    <3>3. \A i \in 1 .. Len(jobs'), j \in 1 .. Len(results) : jobs'[i] # results[j].batch
      BY <2>1, <2>3 DEF OnePlace
    <3> QED
      BY <1>1, <3>1, <3>2, <3>3 DEF OnePlace
  <2>6. SomePlace'
    <3> SUFFICES ASSUME NEW b \in Batches, Later(b)
                 PROVE  \/ \E i \in 1 .. Len(jobs') : jobs'[i] = b
                        \/ \E w \in Workers : work[w] = b
                        \/ \E i \in 1 .. Len(results) : results[i].batch = b
      BY <1>1 DEF SomePlace, Open
    <3>1. CASE b = next
      BY <2>1, <3>1
    <3>2. CASE Open(b)
      <4>1. CASE \E i \in 1 .. Len(jobs) : jobs[i] = b
        BY <2>1, <4>1
      <4> QED
        BY <3>2, <4>1 DEF SomePlace
    <3> QED
      BY <1>4, <3>1, <3>2
  <2> QED
    BY <1>5, <2>4, <2>5, <2>6
<1> QED
  BY <1>1, <1>4, <1>6, <1>7

\* Moving a batch from the queue to a sender.
LEMMA TakePlaces ==
    ASSUME LoadType, Places, NEW w \in Workers, Take(w)
    PROVE  Places'
<1> USE DEF Places
<1>1. /\ LoadType' /\ UNCHANGED <<next, missed, scheduled, results, book>>
      /\ work[w] = None /\ jobs # <<>> /\ work' = [work EXCEPT ![w] = jobs[1]] /\ jobs' = Tail(jobs)
  BY TakeFacts
<1>2. /\ Len(jobs) \in Nat \ {0} /\ jobs[1] \in Batches /\ Len(jobs') = Len(jobs) - 1
      /\ \A i \in 1 .. Len(jobs') : jobs'[i] = jobs[i + 1] /\ i + 1 \in 1 .. Len(jobs)
  BY <1>1, TailAt DEF LoadType
<1>3. work'[w] = jobs[1] /\ \A v \in Workers : v # w => work'[v] = work[v]
  BY <1>1 DEF LoadType
<1>4. \A b : Open(b)' <=> Open(b)
  BY <1>1 DEF Open
<1>5. 1 \in 1 .. Len(jobs) /\ \A i \in 1 .. Len(jobs') : i + 1 # 1
  BY <1>2
<1>6. InFlight'
  <2>1. \A i \in 1 .. Len(jobs') : Open(jobs'[i])
    BY <1>2 DEF InFlight
  <2>2. \A v \in Workers : work'[v] \in Batches => Open(work'[v])
    BY <1>3, <1>5 DEF InFlight
  <2> QED
    BY <1>1, <1>4, <2>1, <2>2 DEF InFlight
<1>7. OnePlace'
  <2>1. \A i, j \in 1 .. Len(jobs') : jobs'[i] = jobs'[j] => i = j
    BY <1>2 DEF OnePlace
  <2>2. \A u, v \in Workers : work'[v] \in Batches /\ work'[v] = work'[u] => u = v
    BY <1>3, <1>5 DEF OnePlace
  <2>3. \A i \in 1 .. Len(jobs'), v \in Workers : work'[v] # jobs'[i]
    <3> TAKE i \in 1 .. Len(jobs'), v \in Workers
    <3>1. jobs'[i] = jobs[i + 1] /\ i + 1 \in 1 .. Len(jobs) /\ i + 1 # 1
      BY <1>2, <1>5
    <3>2. jobs[i + 1] # jobs[1]
      BY <1>5, <3>1 DEF OnePlace
    <3> QED
      BY <1>3, <3>1, <3>2 DEF OnePlace
  <2>4. \A i \in 1 .. Len(jobs'), j \in 1 .. Len(results) : jobs'[i] # results[j].batch
    BY <1>2 DEF OnePlace
  <2>5. \A i \in 1 .. Len(results), v \in Workers : work'[v] # results[i].batch
    BY <1>3, <1>5 DEF OnePlace
  <2> QED
    BY <1>1, <2>1, <2>2, <2>3, <2>4, <2>5 DEF OnePlace
<1>8. SomePlace'
  <2> SUFFICES ASSUME NEW b \in Batches, Open(b)
               PROVE  \/ \E i \in 1 .. Len(jobs') : jobs'[i] = b
                      \/ \E v \in Workers : work'[v] = b
                      \/ \E i \in 1 .. Len(results) : results[i].batch = b
    BY <1>1, <1>4 DEF SomePlace
  <2>1. ASSUME NEW i \in 1 .. Len(jobs), jobs[i] = b
        PROVE  (\E j \in 1 .. Len(jobs') : jobs'[j] = b) \/ (\E v \in Workers : work'[v] = b)
    <3>1. CASE i = 1
      BY <1>3, <2>1, <3>1
    <3>2. CASE i # 1
      <4>1. i - 1 \in 1 .. Len(jobs') /\ (i - 1) + 1 = i
        BY <1>2, <3>2
      <4>2. jobs'[i - 1] = b
        BY <1>2, <2>1, <4>1
      <4> QED
        BY <4>1, <4>2
    <3> QED
      BY <3>1, <3>2
  <2>2. ASSUME NEW v \in Workers, work[v] = b
        PROVE  work'[v] = b
    <3>1. v # w
      BY <1>1, <2>2, Marks
    <3> QED
      BY <1>3, <2>2, <3>1
  <2> QED
    BY <2>1, <2>2 DEF SomePlace
<1>9. Schedules'
  BY <1>1 DEF Schedules
<1> QED
  BY <1>6, <1>7, <1>8, <1>9

\* Moving a batch from a sender to the results.
LEMMA SendPlaces ==
    ASSUME LoadType, Places, NEW w \in Workers, Send(w)
    PROVE  Places'
<1> USE DEF Places
<1>1. /\ LoadType' /\ UNCHANGED <<next, missed, scheduled, jobs, book>>
      /\ work[w] \in Batches /\ work' = [work EXCEPT ![w] = None]
  BY SendFacts
<1>2. PICK v \in Verdicts : results' = Append(results, [batch |-> work[w], verdict |-> v])
  BY SendFacts
<1>3. /\ Len(results) \in Nat /\ Len(results') = Len(results) + 1
      /\ results'[Len(results) + 1] = [batch |-> work[w], verdict |-> v]
      /\ \A i \in 1 .. Len(results) : results'[i] = results[i]
  <2>1. [batch |-> work[w], verdict |-> v] \in Result
    BY <1>1 DEF Result
  <2> QED
    BY <1>2, <2>1, AppendAt DEF LoadType
<1>4. results'[Len(results) + 1].batch = work[w]
  BY <1>3
<1>5. work'[w] = None /\ \A u \in Workers : u # w => work'[u] = work[u]
  BY <1>1 DEF LoadType
<1>6. \A b : Open(b)' <=> Open(b)
  BY <1>1 DEF Open
<1>7. \A i \in 1 .. Len(results') : i \in 1 .. Len(results) \/ i = Len(results) + 1
  BY <1>3
<1>8. None \notin Batches
  BY Marks
<1>9. InFlight'
  <2>1. \A i \in 1 .. Len(results') : Open(results'[i].batch)
    BY <1>1, <1>3, <1>4, <1>7 DEF InFlight
  <2>2. \A u \in Workers : work'[u] \in Batches => Open(work'[u])
    BY <1>5, <1>8 DEF InFlight
  <2> QED
    BY <1>1, <1>6, <2>1, <2>2 DEF InFlight
<1>10. OnePlace'
  <2>1. \A i, j \in 1 .. Len(results') : results'[i].batch = results'[j].batch => i = j
    <3> SUFFICES ASSUME NEW i \in 1 .. Len(results'), NEW j \in 1 .. Len(results'),
                        results'[i].batch = results'[j].batch
                 PROVE  i = j
      OBVIOUS
    <3>1. CASE i \in 1 .. Len(results) /\ j \in 1 .. Len(results)
      BY <1>3, <3>1 DEF OnePlace
    <3>2. CASE i \in 1 .. Len(results) /\ j = Len(results) + 1
      BY <1>3, <1>4, <3>2 DEF OnePlace
    <3>3. CASE j \in 1 .. Len(results) /\ i = Len(results) + 1
      BY <1>3, <1>4, <3>3 DEF OnePlace
    <3> QED
      BY <1>7, <3>1, <3>2, <3>3
  <2>2. \A u, t \in Workers : work'[t] \in Batches /\ work'[t] = work'[u] => u = t
    BY <1>5, <1>8 DEF OnePlace
  <2>3. \A i \in 1 .. Len(jobs), u \in Workers : work'[u] # jobs[i]
    BY <1>5, <1>8 DEF OnePlace, InFlight, Open
  <2>4. \A i \in 1 .. Len(jobs), j \in 1 .. Len(results') : jobs[i] # results'[j].batch
    BY <1>3, <1>4, <1>7 DEF OnePlace
  <2>5. \A i \in 1 .. Len(results'), u \in Workers : work'[u] # results'[i].batch
    <3> TAKE i \in 1 .. Len(results'), u \in Workers
    <3>0. results'[i].batch \in Batches
      BY <1>1, <1>3, <1>4, <1>7 DEF InFlight, Open
    <3>1. CASE u = w
      BY <1>5, <1>8, <3>0, <3>1
    <3>2. CASE u # w /\ i = Len(results) + 1
      BY <1>1, <1>4, <1>5, <3>2 DEF OnePlace
    <3>3. CASE u # w /\ i \in 1 .. Len(results)
      BY <1>3, <1>5, <3>3 DEF OnePlace
    <3> QED
      BY <1>7, <3>1, <3>2, <3>3
  <2> QED
    BY <1>1, <2>1, <2>2, <2>3, <2>4, <2>5 DEF OnePlace
<1>11. SomePlace'
  <2> SUFFICES ASSUME NEW b \in Batches, Open(b)
               PROVE  \/ \E i \in 1 .. Len(jobs) : jobs[i] = b
                      \/ \E u \in Workers : work'[u] = b
                      \/ \E i \in 1 .. Len(results') : results'[i].batch = b
    BY <1>1, <1>6 DEF SomePlace
  <2>1. ASSUME NEW u \in Workers, work[u] = b
        PROVE  (\E t \in Workers : work'[t] = b) \/ (\E i \in 1 .. Len(results') : results'[i].batch = b)
    <3>1. CASE u = w
      <4>1. Len(results) + 1 \in 1 .. Len(results')
        BY <1>3
      <4> QED
        BY <1>4, <2>1, <3>1, <4>1
    <3>2. CASE u # w
      BY <1>5, <2>1, <3>2
    <3> QED
      BY <3>1, <3>2
  <2>2. ASSUME NEW i \in 1 .. Len(results), results[i].batch = b
        PROVE  \E j \in 1 .. Len(results') : results'[j].batch = b
    BY <1>3, <2>2
  <2> QED
    BY <2>1, <2>2 DEF SomePlace
<1>12. Schedules'
  BY <1>1 DEF Schedules
<1> QED
  BY <1>9, <1>10, <1>11, <1>12

\* A sender that leaves holds no batch.
LEMMA LeavePlaces ==
    ASSUME LoadType, Places, NEW w \in Workers, Leave(w)
    PROVE  Places'
<1> USE DEF Places
<1>1. /\ UNCHANGED <<next, missed, scheduled, jobs, results, book>>
      /\ work[w] = None /\ work' = [work EXCEPT ![w] = Exited]
  BY LeaveFacts
<1>2. work'[w] = Exited /\ \A u \in Workers : u # w => work'[u] = work[u]
  BY <1>1 DEF LoadType
<1>3. \A b : Open(b)' <=> Open(b)
  BY <1>1 DEF Open
<1>4. None \notin Batches /\ Exited \notin Batches
  BY Marks
<1>5. InFlight'
  <2>1. \A u \in Workers : work'[u] \in Batches => Open(work'[u])
    BY <1>2, <1>4 DEF InFlight
  <2> QED
    BY <1>1, <1>3, <2>1 DEF InFlight
<1>6. OnePlace'
  <2>1. \A u, t \in Workers : work'[t] \in Batches /\ work'[t] = work'[u] => u = t
    BY <1>2, <1>4 DEF OnePlace
  <2>2. \A i \in 1 .. Len(jobs), u \in Workers : work'[u] # jobs[i]
    BY <1>2, <1>4 DEF OnePlace, InFlight, Open
  <2>3. \A i \in 1 .. Len(results), u \in Workers : work'[u] # results[i].batch
    BY <1>2, <1>4 DEF OnePlace, InFlight, Open
  <2> QED
    BY <1>1, <2>1, <2>2, <2>3 DEF OnePlace
<1>7. SomePlace'
  <2>1. \A b \in Batches, u \in Workers : work[u] = b => work'[u] = b
    BY <1>1, <1>2, <1>4
  <2> QED
    BY <1>1, <1>3, <2>1 DEF SomePlace
<1>8. Schedules'
  BY <1>1 DEF Schedules
<1> QED
  BY <1>5, <1>6, <1>7, <1>8

\* A batch leaves the results with its verdict.
LEMMA RecordPlaces ==
    ASSUME LoadType, Places, RecordRequest
    PROVE  Places'
<1> USE DEF Places
<1> DEFINE c == results[1].batch
<1>1. /\ UNCHANGED <<next, missed, scheduled, jobs, work>>
      /\ results # <<>> /\ results' = Tail(results)
      /\ results[1] \in Result /\ book' = [book EXCEPT ![c] = results[1].verdict]
  BY RecordFacts
<1>2. /\ Len(results) \in Nat \ {0} /\ Len(results') = Len(results) - 1
      /\ \A i \in 1 .. Len(results') : results'[i] = results[i + 1] /\ i + 1 \in 1 .. Len(results)
  BY <1>1, TailAt DEF LoadType
<1>3. 1 \in 1 .. Len(results) /\ (\A i \in 1 .. Len(results') : i + 1 # 1) /\ Open(c)
  BY <1>2 DEF InFlight
<1>4. c \in Batches /\ c < next /\ c \notin missed
  BY <1>3 DEF Open
<1> HIDE DEF c
<1>5. book'[c] # "none" /\ \A b \in Batches : b # c => book'[b] = book[b]
  BY <1>1, <1>4 DEF LoadType, Result, Verdicts
<1>6. \A b : Open(b)' <=> Open(b) /\ b # c
  BY <1>1, <1>5 DEF Open
<1>7. \A i \in 1 .. Len(results') : results'[i].batch # c
  <2> TAKE i \in 1 .. Len(results')
  <2>1. results'[i] = results[i + 1] /\ i + 1 \in 1 .. Len(results) /\ i + 1 # 1
    BY <1>2, <1>3
  <2> QED
    BY <1>3, <2>1 DEF OnePlace, c
<1>8. (\A i \in 1 .. Len(jobs) : jobs[i] # c) /\ \A w \in Workers : work[w] # c
  BY <1>3 DEF OnePlace, c
<1>9. InFlight'
  <2>1. \A i \in 1 .. Len(results') : Open(results'[i].batch)
    BY <1>2 DEF InFlight
  <2> QED
    BY <1>1, <1>6, <1>7, <1>8, <2>1 DEF InFlight
<1>10. OnePlace'
  <2>1. \A i, j \in 1 .. Len(results') : results'[i].batch = results'[j].batch => i = j
    BY <1>2 DEF OnePlace
  <2>2. \A i \in 1 .. Len(jobs), j \in 1 .. Len(results') : jobs[i] # results'[j].batch
    BY <1>2 DEF OnePlace
  <2>3. \A i \in 1 .. Len(results'), w \in Workers : work[w] # results'[i].batch
    BY <1>2 DEF OnePlace
  <2> QED
    BY <1>1, <2>1, <2>2, <2>3 DEF OnePlace
<1>11. SomePlace'
  <2> SUFFICES ASSUME NEW b \in Batches, Open(b), b # c
               PROVE  \/ \E i \in 1 .. Len(jobs) : jobs[i] = b
                      \/ \E w \in Workers : work[w] = b
                      \/ \E i \in 1 .. Len(results') : results'[i].batch = b
    BY <1>1, <1>6 DEF SomePlace
  <2>1. ASSUME NEW i \in 1 .. Len(results), results[i].batch = b
        PROVE  \E j \in 1 .. Len(results') : results'[j].batch = b
    <3>1. i # 1
      BY <2>1 DEF c
    <3>2. i - 1 \in 1 .. Len(results') /\ (i - 1) + 1 = i
      BY <1>2, <3>1
    <3>3. results'[i - 1].batch = b
      BY <1>2, <2>1, <3>2
    <3> QED
      BY <3>2, <3>3
  <2> QED
    BY <2>1 DEF SomePlace
<1>12. Schedules'
  <2>1. next \in Nat /\ Batches \subseteq Nat
    BY Marks DEF LoadType
  <2>2. ASSUME NEW b \in Batches, b >= next PROVE book'[b] = "none"
    BY <1>4, <1>5, <2>1, <2>2 DEF Schedules
  <2>3. ASSUME NEW b \in missed PROVE book'[b] = "none"
    BY <1>4, <1>5 DEF Schedules, LoadType
  <2> QED
    BY <1>1, <2>2, <2>3 DEF Schedules
<1> QED
  BY <1>9, <1>10, <1>11, <1>12

\* Every step keeps the load's variables in their types, and the batches in
\* their places.
LEMMA PlacesStep ==
    ASSUME LoadType, Places, [Next]_vars
    PROVE  LoadType' /\ Places'
<1>1. CASE UNCHANGED places
  <2>1. LoadType'
    BY <1>1 DEF places, LoadType
  <2>2. \A b : Open(b)' <=> Open(b)
    BY <1>1 DEF places, Open
  <2>3. Places'
    BY <1>1, <2>2 DEF places, Places, InFlight, OnePlace, SomePlace, Schedules
  <2> QED
    BY <2>1, <2>3
<1>2. CASE Schedule
  BY <1>2, ScheduleFacts, SchedulePlaces
<1>3. ASSUME NEW w \in Workers, Take(w) \/ Send(w) \/ Leave(w)
      PROVE  LoadType' /\ Places'
  BY <1>3, TakeFacts, TakePlaces, SendFacts, SendPlaces, LeaveFacts, LeavePlaces
<1>4. CASE RecordRequest
  BY <1>4, RecordFacts, RecordPlaces
<1> QED
  BY <1>1, <1>2, <1>3, <1>4, LoadKinds

-----------------------------------------------------------------------------
(* The types of the rest.                                                  *)

RestType ==
    /\ ctxDone \in BOOLEAN /\ windowOver \in BOOLEAN /\ activeOver \in BOOLEAN
    /\ topic \in SUBSET Batches /\ table \in SUBSET topic
    /\ asked \in Nat /\ observing \in {"no", "yes", "exited"} /\ cancelled \in BOOLEAN
    /\ answers \in Seq(Answer) /\ Len(answers) <= 1
    /\ main \in {"loop", "drain", "cancel", "collect", "verify", "returned"}
    /\ saw \in [ctx : BOOLEAN, window : BOOLEAN, workers : BOOLEAN]
    /\ seen \in SUBSET Batches
    /\ inFlight \in BOOLEAN /\ obsErr \in BOOLEAN /\ outages \in BOOLEAN /\ expected \in BOOLEAN
    /\ outcome \in {"none", "failed", "limited", "complete"} /\ faults \in Nat

\* The two halves of the types.
LEMMA TypeParts == TypeOK <=> LoadType /\ RestType
BY DEF TypeOK, LoadType, RestType

\* What recording an observation does.
LEMMA ObservationFacts ==
    ASSUME RestType, answers # <<>>, NEW e \in BOOLEAN, RecordObservation(Head(answers), e)
    PROVE  /\ Head(answers) \in Answer
           /\ inFlight' = FALSE /\ seen' \in SUBSET Batches /\ seen \subseteq seen'
           /\ outages' \in BOOLEAN /\ obsErr' \in BOOLEAN
           /\ (obsErr' <=> obsErr \/ Blames(Head(answers).err, e) \/ NegativeLatency(Head(answers)))
<1>1. Head(answers) \in Answer
  BY TailAt DEF RestType
<1>2. Head(answers).rows \in SUBSET Batches
  BY <1>1 DEF Answer
<1>3. seen' = seen \cup Head(answers).rows /\ inFlight' = FALSE
  BY DEF RecordObservation
<1>4. outages' \in BOOLEAN
  BY DEF RecordObservation
<1>5. /\ obsErr' \in BOOLEAN
      /\ (obsErr' <=> obsErr \/ Blames(Head(answers).err, e) \/ NegativeLatency(Head(answers)))
  BY DEF RecordObservation, RestType
<1> QED
  BY <1>1, <1>2, <1>3, <1>4, <1>5 DEF RestType

\* What a request for an observation does.
LEMMA RequestFacts ==
    ASSUME RestType, RequestObservation
    PROVE  /\ asked' \in Nat /\ inFlight' \in BOOLEAN
           /\ \/ ~inFlight /\ asked' = asked + 1 /\ inFlight' = TRUE
              \/ asked' = asked /\ inFlight' = inFlight
<1>1. CASE MayAsk
  <2>1. asked' = asked + 1 /\ inFlight' = TRUE
    BY <1>1 DEF RequestObservation
  <2>2. ~inFlight
    BY <1>1 DEF MayAsk
  <2>3. asked' \in Nat
    BY <2>1 DEF RestType
  <2> QED
    BY <2>1, <2>2, <2>3
<1>2. CASE ~MayAsk
  BY <1>2 DEF RequestObservation, RestType
<1> QED
  BY <1>1, <1>2

\* What the observer reports.
LEMMA AnswerFacts ==
    ASSUME RestType, ObserverAnswers
    PROVE  /\ observing = "yes" /\ answers = <<>> /\ observing' = "no"
           /\ UNCHANGED <<timers, next, missed, scheduled, jobs, work, results, topic, asked, cancelled, mainVars>>
           /\ table \subseteq table' /\ table' \in SUBSET topic /\ faults' \in Nat /\ faults' >= faults
           /\ \E a \in Answer : answers' = <<a>> /\ (a.err = "failed" \/ a.skewed => faults' > 0)
<1>1. /\ observing = "yes" /\ answers = <<>> /\ observing' = "no"
      /\ UNCHANGED <<timers, next, missed, scheduled, jobs, work, results, topic, asked, cancelled, mainVars>>
  BY DEF ObserverAnswers
<1>2. ASSUME NEW k \in BOOLEAN, Read, Fault(k), answers' = <<[rows |-> table', err |-> "none", skewed |-> k]>>
      PROVE  /\ table \subseteq table' /\ table' \in SUBSET topic /\ faults' \in Nat /\ faults' >= faults
             /\ \E a \in Answer : answers' = <<a>> /\ (a.err = "failed" \/ a.skewed => faults' > 0)
  <2>1. table \subseteq table' /\ table' \in SUBSET topic
    BY <1>2 DEF Read
  <2>2. [rows |-> table', err |-> "none", skewed |-> k] \in Answer
    BY <2>1 DEF Answer, RestType
  <2>3. faults' \in Nat /\ faults' >= faults /\ (k => faults' > 0)
    BY <1>2 DEF Fault, RestType
  <2> QED
    BY <1>2, <2>1, <2>2, <2>3
<1>3. ASSUME NEW r \in {"canceled", "unavailable", "failed"}, answers' = <<[rows |-> {}, err |-> r, skewed |-> FALSE]>>,
             table' = table, Fault(r # "canceled")
      PROVE  /\ table \subseteq table' /\ table' \in SUBSET topic /\ faults' \in Nat /\ faults' >= faults
             /\ \E a \in Answer : answers' = <<a>> /\ (a.err = "failed" \/ a.skewed => faults' > 0)
  <2>1. [rows |-> {}, err |-> r, skewed |-> FALSE] \in Answer
    BY DEF Answer
  <2>2. faults' \in Nat /\ faults' >= faults /\ (r = "failed" => faults' > 0)
    BY <1>3 DEF Fault, RestType
  <2> QED
    BY <1>3, <2>1, <2>2 DEF RestType
<1> QED
  BY <1>1, <1>2, <1>3 DEF ObserverAnswers

-----------------------------------------------------------------------------
(* The accounting, the observer and the end.                               *)

\* The part of the invariant that is not about places.
Rest == RestType /\ Endings /\ OneQuery /\ Blame /\ OutcomeIsEarned

\* The clock, the scheduler and the senders leave the accounting alone.
LEMMA LoadRest ==
    ASSUME LoadType, Places, Rest,
           Clock \/ Cancel \/ Schedule \/ \E w \in Workers : Sender(w)
    PROVE  Rest'
<1> USE DEF Rest
<1>1. UNCHANGED <<observerVars, mainVars, faults>>
  BY DEF Clock, Cancel, Schedule, Sender, Take, Send, Leave
<1>2. UNCHANGED <<asked, observing, answers, cancelled, main, saw, book, seen, inFlight, obsErr, outages, expected,
                  outcome, faults>>
  BY <1>1 DEF observerVars, mainVars, obsBook
<1>3. /\ ctxDone' \in BOOLEAN /\ windowOver' \in BOOLEAN /\ activeOver' \in BOOLEAN /\ (ctxDone => ctxDone')
  <2>1. CASE Clock
    BY <2>1 DEF Clock, ActiveEnds, WindowEnds, RestType
  <2>2. CASE Cancel
    BY <2>2 DEF Cancel, Interrupt, RestType
  <2>3. CASE Schedule \/ \E w \in Workers : Sender(w)
    BY <2>3 DEF Schedule, Sender, Take, Send, Leave, timers, RestType
  <2> QED
    BY <2>1, <2>2, <2>3
<1>4. topic' \in SUBSET Batches /\ table' = table /\ topic \subseteq topic'
  <2>1. CASE Clock \/ Cancel
    BY <2>1 DEF Clock, Cancel, loadVars, RestType
  <2>2. CASE Schedule
    BY <2>2, ScheduleFacts DEF RestType
  <2>3. ASSUME NEW w \in Workers, Sender(w)
        PROVE  topic' \in SUBSET Batches /\ table' = table /\ topic \subseteq topic'
    <3>1. CASE Take(w)
      BY <3>1, TakeFacts DEF RestType
    <3>2. CASE Send(w)
      BY <3>2, SendFacts DEF RestType
    <3>3. CASE Leave(w)
      BY <3>3, LeaveFacts DEF RestType
    <3> QED
      BY <2>3, <3>1, <3>2, <3>3 DEF Sender
  <2> QED
    BY <2>1, <2>2, <2>3
<1>5. RestType'
  BY <1>2, <1>3, <1>4 DEF RestType
<1>6. OneQuery' /\ Blame'
  BY <1>2, <1>3 DEF OneQuery, Blame
<1>7. Endings' /\ (main # "loop" => missed' = missed)
  <2>1. main # "loop" => saw.workers /\ scheduled
    BY DEF Endings
  <2>2. CASE Clock \/ Cancel
    BY <1>2, <2>2 DEF Clock, Cancel, loadVars, Endings, ResultsClosed
  <2>3. CASE Schedule
    <3>1. ~scheduled /\ UNCHANGED <<work, results>>
      BY <2>3, ScheduleFacts
    <3>2. main = "loop" /\ \A w \in Workers : work[w] # Exited
      BY <2>1, <3>1 DEF Endings
    <3> QED
      BY <1>2, <3>1, <3>2 DEF Endings, ResultsClosed
  <2>4. ASSUME NEW w \in Workers, Take(w) \/ Send(w) \/ Leave(w)
        PROVE  Endings' /\ (main # "loop" => missed' = missed)
    <3>1. work[w] # Exited /\ UNCHANGED <<missed, scheduled>>
      BY <2>4, Marks, TakeFacts, SendFacts, LeaveFacts
    <3>2. ~saw.workers /\ main = "loop"
      BY <2>1, <3>1 DEF Endings, ResultsClosed
    <3>3. (\E u \in Workers : work'[u] = Exited) => scheduled' /\ jobs' = <<>>
      <4>1. CASE Take(w)
        <5>1. jobs # <<>> /\ work' = [work EXCEPT ![w] = jobs[1]] /\ jobs[1] \in Batches
          BY <4>1, TakeFacts, TailAt DEF LoadType
        <5>2. \A u \in Workers : work'[u] # Exited
          BY <5>1, Marks DEF Endings, LoadType
        <5> QED
          BY <5>2
      <4>2. CASE Send(w)
        <5>1. work' = [work EXCEPT ![w] = None] /\ jobs' = jobs
          BY <4>2, SendFacts
        <5>2. \A u \in Workers : work'[u] = Exited => work[u] = Exited
          BY <5>1, Marks DEF LoadType
        <5> QED
          BY <3>1, <5>1, <5>2 DEF Endings
      <4>3. CASE Leave(w)
        BY <3>1, <4>3, LeaveFacts
      <4> QED
        BY <2>4, <4>1, <4>2, <4>3
    <3> QED
      BY <1>2, <3>1, <3>2, <3>3 DEF Endings
  <2> QED
    BY <2>2, <2>3, <2>4 DEF Sender
<1>8. OutcomeIsEarned'
  <2>1. CASE main = "loop"
    BY <1>2, <2>1 DEF Endings, OutcomeIsEarned
  <2>2. CASE main # "loop"
    BY <1>2, <1>4, <1>7, <2>2 DEF OutcomeIsEarned, Verdict
  <2> QED
    BY <2>1, <2>2
<1> QED
  BY <1>5, <1>6, <1>7, <1>8

\* The observer's steps.
LEMMA ObserverRest ==
    ASSUME Rest, Observer
    PROVE  Rest'
<1> USE DEF Rest
<1>1. CASE ObserverTakes
  <2>1. /\ UNCHANGED <<timers, loadVars, answers, cancelled, mainVars, faults>>
        /\ observing = "no"
        /\ \/ observing' = "exited" /\ asked' = asked
           \/ asked = 1 /\ observing' = "yes" /\ asked' = 0
    BY <1>1 DEF ObserverTakes
  <2>2. RestType'
    BY <2>1 DEF RestType, timers, loadVars, mainVars, obsBook
  <2>3. OneQuery' /\ Blame'
    BY <2>1 DEF OneQuery, Blame, timers, mainVars, obsBook
  <2>4. Endings' /\ OutcomeIsEarned'
    BY <2>1 DEF Endings, ResultsClosed, OutcomeIsEarned, Verdict, loadVars, mainVars, obsBook
  <2> QED
    BY <2>2, <2>3, <2>4
<1>2. CASE ObserverAnswers
  <2>1. /\ observing = "yes" /\ answers = <<>> /\ observing' = "no"
        /\ UNCHANGED <<timers, next, missed, scheduled, jobs, work, results, topic, asked, cancelled, mainVars>>
        /\ table \subseteq table' /\ table' \in SUBSET topic /\ faults' \in Nat /\ faults' >= faults
    BY <1>2, AnswerFacts
  <2>2. PICK a \in Answer : answers' = <<a>> /\ (a.err = "failed" \/ a.skewed => faults' > 0)
    BY <1>2, AnswerFacts
  <2>3. answers' \in Seq(Answer) /\ Len(answers') = 1 /\ Head(answers') = a /\ answers' # <<>>
    BY <2>2
  <2>4. RestType'
    BY <2>1, <2>3 DEF RestType, timers, mainVars, obsBook
  <2>5. OneQuery'
    BY <2>1, <2>3 DEF OneQuery, mainVars, obsBook
  <2>6. Blame'
    BY <2>1, <2>2, <2>3 DEF Blame, RestType, timers, mainVars, obsBook
  <2>7. Endings' /\ OutcomeIsEarned'
    BY <2>1 DEF Endings, ResultsClosed, OutcomeIsEarned, Verdict, mainVars, obsBook
  <2> QED
    BY <2>4, <2>5, <2>6, <2>7
<1> QED
  BY <1>1, <1>2 DEF Observer

\* The cases of the main loop's select, and the drain's.
LEMMA SelectRest ==
    ASSUME LoadType, Places, Rest, Select
    PROVE  Rest'
<1> USE DEF Rest
<1>1. CASE LoopFlags
  <2>1. /\ UNCHANGED <<timers, loadVars, observerVars, main, book, obsBook, expected, outcome, faults>>
        /\ main = "loop"
    BY <1>1 DEF LoopFlags
  <2>2. /\ saw' \in [ctx : BOOLEAN, window : BOOLEAN, workers : BOOLEAN]
        /\ (saw'.ctx => saw.ctx \/ ctxDone)
        /\ (saw'.workers => saw.workers \/ (ResultsClosed /\ results = <<>>))
    <3>1. CASE ctxDone /\ saw' = [saw EXCEPT !.ctx = TRUE, !.window = TRUE]
      BY <3>1 DEF RestType
    <3>2. CASE saw' = [saw EXCEPT !.window = TRUE]
      BY <3>2 DEF RestType
    <3>3. CASE ResultsClosed /\ results = <<>> /\ saw' = [saw EXCEPT !.workers = TRUE]
      BY <3>3 DEF RestType
    <3> QED
      BY <1>1, <3>1, <3>2, <3>3 DEF LoopFlags
  <2>3. RestType'
    BY <2>1, <2>2 DEF RestType, timers, loadVars, observerVars, obsBook
  <2>4. OneQuery' /\ Blame'
    BY <2>1, <2>2 DEF OneQuery, Blame, timers, observerVars, obsBook
  <2>5. Endings'
    BY <2>1, <2>2 DEF Endings, ResultsClosed, loadVars
  <2>6. OutcomeIsEarned'
    BY <2>1 DEF OutcomeIsEarned, Verdict, loadVars, obsBook
  <2> QED
    BY <2>3, <2>4, <2>5, <2>6
<1>2. CASE RecordRequest
  <2>1. /\ UNCHANGED <<timers, next, missed, scheduled, jobs, work, topic, table, observerVars>>
        /\ UNCHANGED <<main, saw, obsBook, expected, outcome, faults>>
        /\ main = "loop" /\ results # <<>>
    BY <1>2 DEF RecordRequest
  <2>2. RestType' /\ OneQuery' /\ Blame'
    BY <2>1 DEF RestType, OneQuery, Blame, timers, observerVars, obsBook
  <2>3. Endings'
    BY <2>1 DEF Endings
  <2>4. OutcomeIsEarned'
    BY <2>1 DEF Endings, OutcomeIsEarned
  <2> QED
    BY <2>2, <2>3, <2>4
<1>3. CASE Observed
  <2>1. /\ UNCHANGED <<timers, loadVars, asked, observing, cancelled, main, saw, book, expected, outcome, faults>>
        /\ main \in {"loop", "drain"} /\ answers # <<>> /\ answers' = <<>>
    BY <1>3 DEF Observed
  <2>2. /\ inFlight' = FALSE /\ seen' \in SUBSET Batches /\ seen \subseteq seen'
        /\ outages' \in BOOLEAN /\ obsErr' \in BOOLEAN
    <3>1. RecordObservation(Head(answers), FALSE)
      BY <1>3 DEF Observed
    <3> QED
      BY <2>1, <3>1, ObservationFacts
  <2>3. answers' \in Seq(Answer) /\ Len(answers') = 0 /\ inFlight' \in BOOLEAN
    BY <2>1, <2>2, NilAt
  <2>4. RestType'
    <3>1. Len(answers') <= 1
      BY <2>3
    <3> QED
      BY <2>1, <2>2, <2>3, <3>1 DEF RestType, timers, loadVars
  <2>5. OneQuery' /\ Blame'
    BY <2>1, <2>2 DEF OneQuery, Blame, timers
  <2>6. Endings' /\ OutcomeIsEarned'
    BY <2>1 DEF Endings, ResultsClosed, OutcomeIsEarned, loadVars
  <2> QED
    BY <2>4, <2>5, <2>6
<1>4. CASE Tick
  <2>1. /\ UNCHANGED <<timers, loadVars, observing, answers, cancelled, main, saw, book, seen, obsErr, outages>>
        /\ UNCHANGED <<expected, outcome, faults>> /\ RequestObservation
    BY <1>4 DEF Tick
  <2>2. /\ asked' \in Nat /\ inFlight' \in BOOLEAN
        /\ \/ ~inFlight /\ asked' = asked + 1 /\ inFlight' = TRUE
           \/ asked' = asked /\ inFlight' = inFlight
    BY <2>1, RequestFacts
  <2>3. RestType'
    BY <2>1, <2>2 DEF RestType, timers, loadVars
  <2>4. OneQuery'
    BY <2>1, <2>2 DEF OneQuery
  <2>5. Blame' /\ Endings' /\ OutcomeIsEarned'
    BY <2>1 DEF Blame, Endings, ResultsClosed, OutcomeIsEarned, Verdict, timers, loadVars
  <2> QED
    BY <2>3, <2>4, <2>5
<1>5. CASE DrainInterrupted
  <2>1. /\ UNCHANGED <<timers, loadVars, observerVars, book, seen, inFlight, outages, expected, outcome, faults>>
        /\ main = "drain" /\ main' \in {"drain", "cancel"} /\ obsErr' \in BOOLEAN
    BY <1>5 DEF DrainInterrupted, RestType
  <2>2. /\ saw' \in [ctx : BOOLEAN, window : BOOLEAN, workers : BOOLEAN]
        /\ (saw'.ctx => saw.ctx \/ ctxDone) /\ saw'.workers = saw.workers
    BY <1>5 DEF DrainInterrupted, RestType
  <2>3. RestType'
    BY <2>1, <2>2 DEF RestType, timers, loadVars, observerVars
  <2>4. OneQuery' /\ Blame'
    BY <2>1, <2>2 DEF OneQuery, Blame, timers, observerVars
  <2>5. Endings' /\ OutcomeIsEarned'
    BY <2>1, <2>2 DEF Endings, ResultsClosed, OutcomeIsEarned, loadVars
  <2> QED
    BY <2>3, <2>4, <2>5
<1> QED
  BY <1>1, <1>2, <1>3, <1>4, <1>5 DEF Select

\* Once the accounting has left its loop, every batch is given up or has a
\* verdict.
LEMMA BooksAreFull ==
    ASSUME LoadType, Places, Endings, saw.workers, scheduled
    PROVE  \A b \in Batches : b \in missed \/ book[b] \in Verdicts
<1> SUFFICES ASSUME NEW b \in Batches, b \notin missed PROVE book[b] # "none"
  BY DEF LoadType
<1>1. ResultsClosed /\ results = <<>>
  BY DEF Endings
<1>2. Len(results) = 0
  BY <1>1, NilAt
<1>3. jobs = <<>>
  <2>1. CASE Workers = {}
    <3>1. Cardinality(Workers) = 0
      BY <2>1, FS_EmptySet
    <3>2. Len(jobs) = 0
      BY <3>1 DEF LoadType
    <3> QED
      BY <3>2 DEF LoadType
  <2>2. CASE Workers # {}
    BY <1>1, <2>2 DEF ResultsClosed, Endings
  <2> QED
    BY <2>1, <2>2
<1>4. Len(jobs) = 0
  BY <1>3, NilAt
<1>5. \A w \in Workers : work[w] # b
  BY <1>1, Marks DEF ResultsClosed
<1>6. ~Open(b)
  BY <1>2, <1>4, <1>5 DEF Places, SomePlace
<1>7. b < next
  BY Marks DEF Places, Schedules, LoadType
<1> QED
  BY <1>6, <1>7 DEF Open

\* What the verification may say: with full books, complete means that every
\* batch was accepted and observed.
LEMMA EarnedOutcome ==
    ASSUME NEW stored, NEW v \in BOOLEAN, NEW c \in BOOLEAN,
           \A b \in Batches : b \in missed \/ book[b] \in Verdicts
    PROVE  /\ OutcomeOf(stored, v, c) \in {"failed", "limited", "complete"}
           /\ OutcomeOf(stored, v, c) \in {"limited", "complete"} => ~v /\ Verdict("accepted") \subseteq stored
           /\ OutcomeOf(stored, v, c) = "complete" =>
                 missed = {} /\ Verdict("accepted") = Batches /\ Batches \subseteq seen
<1>1. OutcomeOf(stored, v, c) \in {"failed", "limited", "complete"}
  BY DEF OutcomeOf
<1>2. OutcomeOf(stored, v, c) \in {"limited", "complete"} => ~v /\ Verdict("accepted") \subseteq stored
  <2>1. v \/ saw.ctx \/ ~(Verdict("accepted") \subseteq stored) => OutcomeOf(stored, v, c) = "failed"
    BY DEF OutcomeOf
  <2> QED
    BY <2>1
<1>3. ASSUME OutcomeOf(stored, v, c) = "complete"
      PROVE  missed = {} /\ Verdict("accepted") = Batches /\ Batches \subseteq seen
  <2>1. ~LimitedLoad /\ ObservationStatus = "complete"
    BY <1>3 DEF OutcomeOf
  <2>2. missed = {} /\ \A b \in Batches : book[b] = "accepted"
    BY <2>1 DEF LimitedLoad, Verdicts
  <2>3. Verdict("accepted") = Batches
    BY <2>2 DEF Verdict
  <2>4. ~NeedsObservation
    BY <2>1 DEF ObservationStatus
  <2> QED
    BY <2>2, <2>3, <2>4 DEF NeedsObservation
<1> QED
  BY <1>1, <1>2, <1>3

\* The sequence from the loop to the outcome.
LEMMA FlowRest ==
    ASSUME LoadType, Places, Rest, Flow
    PROVE  Rest'
<1> USE DEF Rest
<1>1. CASE LoopEnds
  <2>1. /\ UNCHANGED <<timers, loadVars, observing, answers, cancelled, saw, book, seen, obsErr, outages>>
        /\ UNCHANGED <<expected, outcome, faults>>
        /\ main = "loop" /\ main' = "drain" /\ saw.workers /\ scheduled
    BY <1>1 DEF LoopEnds
  <2>2. /\ asked' \in Nat /\ inFlight' \in BOOLEAN
        /\ \/ ~inFlight /\ asked' = asked + 1 /\ inFlight' = TRUE
           \/ asked' = asked /\ inFlight' = inFlight
    <3>1. CASE RequestObservation
      BY <3>1, RequestFacts
    <3>2. CASE UNCHANGED <<asked, inFlight>>
      BY <3>2 DEF RestType
    <3> QED
      BY <1>1, <3>1, <3>2 DEF LoopEnds
  <2>3. RestType'
    BY <2>1, <2>2 DEF RestType, timers, loadVars
  <2>4. OneQuery'
    BY <2>1, <2>2 DEF OneQuery
  <2>5. Blame' /\ Endings' /\ OutcomeIsEarned'
    BY <2>1 DEF Blame, Endings, ResultsClosed, OutcomeIsEarned, Verdict, timers, loadVars
  <2> QED
    BY <2>3, <2>4, <2>5
<1>2. CASE DrainEnds
  <2>1. /\ UNCHANGED <<timers, loadVars, observerVars, saw, book, obsBook, expected, outcome, faults>>
        /\ main = "drain" /\ main' = "cancel"
    BY <1>2 DEF DrainEnds
  <2>2. RestType' /\ OneQuery'
    BY <2>1 DEF RestType, OneQuery, timers, loadVars, observerVars, obsBook
  <2>3. Blame' /\ Endings' /\ OutcomeIsEarned'
    BY <2>1 DEF Blame, Endings, ResultsClosed, OutcomeIsEarned, Verdict, timers, loadVars, observerVars, obsBook
  <2> QED
    BY <2>2, <2>3
<1>3. CASE CancelObservation
  <2>1. /\ UNCHANGED <<timers, loadVars, asked, observing, answers, saw, book, obsBook, outcome, faults>>
        /\ main = "cancel" /\ main' = "collect" /\ cancelled' = TRUE
    BY <1>3 DEF CancelObservation
  <2>2. expected' \in BOOLEAN /\ cancelled' \in BOOLEAN /\ (expected' => ~obsErr)
    BY <1>3 DEF CancelObservation
  <2>3. RestType' /\ OneQuery'
    BY <2>1, <2>2 DEF RestType, OneQuery, timers, loadVars, obsBook
  <2>4. Blame' /\ Endings' /\ OutcomeIsEarned'
    BY <2>1, <2>2 DEF Blame, Endings, ResultsClosed, OutcomeIsEarned, Verdict, timers, loadVars, obsBook
  <2> QED
    BY <2>3, <2>4
<1>4. CASE Collect
  <2>1. /\ UNCHANGED <<timers, loadVars, asked, observing, cancelled, saw, book, expected, outcome, faults>>
        /\ main = "collect" /\ main' = "verify" /\ observing = "exited" /\ answers' = <<>>
    BY <1>4 DEF Collect
  <2>2. answers' \in Seq(Answer) /\ Len(answers') <= 1
    BY <2>1, NilAt
  <2>3. /\ seen' \in SUBSET Batches /\ outages' \in BOOLEAN /\ obsErr' \in BOOLEAN /\ inFlight' \in BOOLEAN
        /\ (answers = <<>> => inFlight' = inFlight)
        /\ (expected /\ faults = 0 => ~obsErr')
    <3>1. CASE answers = <<>>
      <4>1. UNCHANGED <<seen, inFlight, obsErr, outages>>
        BY <1>4, <3>1 DEF Collect, obsBook
      <4> QED
        BY <2>1, <3>1, <4>1 DEF RestType, Blame
    <3>2. CASE answers # <<>>
      <4>1. RecordObservation(Head(answers), expected)
        BY <1>4, <3>2 DEF Collect
      <4>2. /\ Head(answers) \in Answer
            /\ inFlight' = FALSE /\ seen' \in SUBSET Batches /\ outages' \in BOOLEAN /\ obsErr' \in BOOLEAN
            /\ (obsErr' <=> obsErr \/ Blames(Head(answers).err, expected) \/ NegativeLatency(Head(answers)))
        BY <3>2, <4>1, ObservationFacts DEF RestType
      <4>3. ASSUME expected, faults = 0 PROVE ~obsErr'
        <5>1. ~obsErr /\ Head(answers).err # "failed" /\ ~Head(answers).skewed
          BY <2>1, <3>2, <4>3 DEF Blame
        <5>2. Head(answers).err \in {"none", "canceled", "unavailable"}
          BY <4>2, <5>1 DEF Answer
        <5>3. ~Blames(Head(answers).err, expected)
          BY <4>3, <5>2 DEF Blames
        <5>4. ~NegativeLatency(Head(answers))
          BY <5>1 DEF NegativeLatency
        <5> QED
          BY <4>2, <5>1, <5>3, <5>4
      <4>4. inFlight' \in BOOLEAN
        BY <4>2
      <4> QED
        BY <3>2, <4>2, <4>3, <4>4
    <3> QED
      BY <3>1, <3>2
  <2>4. RestType'
    BY <2>1, <2>2, <2>3 DEF RestType, timers, loadVars
  <2>5. OneQuery' /\ Blame'
    <3>1. OneQuery'
      <4>1. asked = 1 => answers = <<>>
        BY DEF OneQuery
      <4>2. asked' \in 0 .. 1 /\ (asked' = 1 => inFlight')
        <5>1. asked = 1 => inFlight' = inFlight /\ inFlight
          BY <2>1, <2>3, <4>1 DEF OneQuery
        <5> QED
          BY <2>1, <5>1 DEF OneQuery
      <4>3. observing' = "exited" /\ answers' = <<>>
        BY <2>1
      <4> QED
        BY <4>2, <4>3 DEF OneQuery
    <3>2. Blame'
      BY <2>1, <2>3 DEF Blame, timers
    <3> QED
      BY <3>1, <3>2
  <2>6. Endings' /\ OutcomeIsEarned'
    BY <2>1 DEF Endings, ResultsClosed, OutcomeIsEarned, loadVars
  <2> QED
    BY <2>4, <2>5, <2>6
<1>5. CASE Verify
  <2>1. /\ UNCHANGED <<timers, next, missed, scheduled, jobs, work, results, topic, observerVars, saw, book, obsBook>>
        /\ expected' = expected /\ main = "verify" /\ main' = "returned"
    BY <1>5 DEF Verify
  <2>2. \A b \in Batches : b \in missed \/ book[b] \in Verdicts
    BY <2>1, BooksAreFull DEF Endings
  <2>3. PICK c \in BOOLEAN :
           /\ Fault(c)
           /\ \/ ~ctxDone /\ Read /\ outcome' = OutcomeOf(table', FALSE, c)
              \/ outcome' = OutcomeOf({}, TRUE, c) /\ UNCHANGED table
    BY <1>5 DEF Verify
  <2>4. faults' \in Nat /\ (faults' = 0 => faults = 0)
    BY <2>3 DEF Fault, RestType
  <2>5. table' \in SUBSET topic
    BY <2>3 DEF Read, RestType
  <2>6. /\ outcome' \in {"failed", "limited", "complete"}
        /\ outcome' \in {"limited", "complete"} => Verdict("accepted") \subseteq table'
        /\ outcome' = "complete" => missed = {} /\ Verdict("accepted") = Batches /\ Batches \subseteq seen
    <3>1. CASE outcome' = OutcomeOf(table', FALSE, c)
      BY <2>2, <3>1, EarnedOutcome
    <3>2. CASE outcome' = OutcomeOf({}, TRUE, c)
      BY <2>2, <3>2, EarnedOutcome
    <3> QED
      BY <2>3, <3>1, <3>2
  <2>7. RestType'
    BY <2>1, <2>4, <2>5, <2>6 DEF RestType, timers, observerVars, obsBook
  <2>8. OneQuery' /\ Blame'
    BY <2>1, <2>4 DEF OneQuery, Blame, RestType, timers, observerVars, obsBook
  <2>9. Endings'
    BY <2>1 DEF Endings, ResultsClosed
  <2>10. OutcomeIsEarned'
    <3>1. Verdict("accepted")' = Verdict("accepted")
      BY <2>1 DEF Verdict
    <3> QED
      BY <2>1, <2>6, <3>1 DEF OutcomeIsEarned, obsBook
  <2> QED
    BY <2>7, <2>8, <2>9, <2>10
<1> QED
  BY <1>1, <1>2, <1>3, <1>4, <1>5 DEF Flow

-----------------------------------------------------------------------------
(* The invariant of a sample.                                              *)

\* It holds at the start.
LEMMA StartsWell == Init => Inv
<1> SUFFICES ASSUME Init PROVE Inv
  OBVIOUS
<1>1. LoadType
  <2>1. next \in 1 .. N + 1 /\ 0 <= 2 * Cardinality(Workers)
    BY Marks DEF Init
  <2>2. jobs = <<>> /\ results = <<>> /\ Len(<<>>) = 0
    BY NilAt DEF Init
  <2>3. jobs \in Seq(Batches) /\ results \in Seq(Result) /\ Len(jobs) <= 2 * Cardinality(Workers)
    BY <2>1, <2>2, NilAt
  <2>4. work \in [Workers -> 0 .. N + 1] /\ book \in [Batches -> Verdicts \cup {"none"}]
    BY Marks DEF Init
  <2> QED
    BY <2>1, <2>3, <2>4 DEF Init, LoadType
<1>2. RestType
  <2>1. answers = <<>> /\ Len(<<>>) <= 1
    BY NilAt DEF Init
  <2>2. answers \in Seq(Answer) /\ Len(answers) <= 1
    BY <2>1, NilAt
  <2>3. saw \in [ctx : BOOLEAN, window : BOOLEAN, workers : BOOLEAN]
    BY DEF Init
  <2> QED
    BY <2>2, <2>3 DEF Init, RestType
<1>3. jobs = <<>> /\ results = <<>> /\ Len(<<>>) = 0 /\ \A w \in Workers : work[w] = None
  BY NilAt DEF Init
<1>4. InFlight /\ OnePlace
  BY <1>3, Marks DEF InFlight, OnePlace
<1>5. \A b \in Batches : b >= next /\ ~Open(b) /\ book[b] = "none"
  BY DEF Init, Batches, Open
<1>6. SomePlace /\ Schedules
  BY <1>5 DEF Init, SomePlace, Schedules
<1>7. Endings
  BY <1>3, Marks DEF Init, Endings
<1>8. OneQuery /\ Blame /\ OutcomeIsEarned
  BY DEF Init, OneQuery, Blame, OutcomeIsEarned
<1> QED
  BY <1>1, <1>2, <1>4, <1>6, <1>7, <1>8, TypeParts DEF Inv

\* Every step keeps it.
LEMMA StepKeeps == Inv /\ [Next]_vars => Inv'
<1> SUFFICES ASSUME Inv, [Next]_vars PROVE Inv'
  OBVIOUS
<1>1. LoadType /\ Places /\ Rest
  BY TypeParts DEF Inv, Places, Rest
<1>2. LoadType' /\ Places'
  BY <1>1, PlacesStep
<1>3. Rest'
  <2>1. CASE Clock \/ Cancel \/ Schedule \/ \E w \in Workers : Sender(w)
    BY <1>1, <2>1, LoadRest
  <2>2. CASE Observer
    BY <1>1, <2>2, ObserverRest
  <2>3. CASE Flow
    BY <1>1, <2>3, FlowRest
  <2>4. CASE Select
    BY <1>1, <2>4, SelectRest
  <2>5. CASE UNCHANGED vars
    <3>1. RestType' /\ OneQuery' /\ Blame'
      BY <1>1, <2>5 DEF Rest, RestType, OneQuery, Blame, vars, timers, loadVars, observerVars, mainVars, obsBook
    <3>2. Endings' /\ OutcomeIsEarned'
      BY <1>1, <2>5 DEF Rest, Endings, ResultsClosed, OutcomeIsEarned, Verdict, vars, loadVars, mainVars, obsBook
    <3> QED
      BY <3>1, <3>2 DEF Rest
  <2> QED
    BY <2>1, <2>2, <2>3, <2>4, <2>5 DEF Next
<1>4. TypeOK'
  <2>1. LoadType' /\ RestType'
    BY <1>2, <1>3 DEF Rest
  <2> QED
    BY <2>1 DEF TypeOK, LoadType, RestType
<1> QED
  BY <1>2, <1>3, <1>4 DEF Inv, Places, Rest

\* The invariant, for any number of batches, senders and failures.
THEOREM Invariance == Spec => []Inv
BY StartsWell, StepKeeps, PTL DEF Spec

-----------------------------------------------------------------------------
(* What a reader of a sample relies on.                                    *)

\* The accounting loop and the observer never wait for room in the other's
\* channel, however their selects interleave.
THEOREM ObserverIsFree == Spec => []ObserverNeverBlocks
<1>1. Inv => ObserverNeverBlocks
  <2> SUFFICES ASSUME Inv PROVE ObserverNeverBlocks
    OBVIOUS
  <2>1. asked \in 0 .. 1 /\ (asked = 1 => inFlight)
    BY DEF Inv, OneQuery
  <2>2. MayAsk => asked = 0
    BY <2>1 DEF MayAsk
  <2>3. observing = "yes" => answers = <<>>
    BY DEF Inv, OneQuery
  <2> QED
    BY <2>1, <2>2, <2>3 DEF ObserverNeverBlocks
<1> QED
  BY <1>1, Invariance, PTL

\* No sample is called complete, or even limited, that lost an acknowledged
\* batch.
THEOREM OutcomesAreEarned == Spec => []OutcomeIsEarned
<1>1. Inv => OutcomeIsEarned
  BY DEF Inv
<1> QED
  BY <1>1, Invariance, PTL

\* The query the sample itself cancels is not held against it.
THEOREM CancelIsNoBlame == Spec => []NoSelfBlame
<1>1. Inv => NoSelfBlame
  <2> SUFFICES ASSUME Inv, main = "returned", faults = 0, ~ctxDone, expected
               PROVE  ObservationStatus # "failed"
    BY DEF NoSelfBlame
  <2>1. ~obsErr /\ ~saw.ctx
    BY DEF Inv, Blame
  <2> QED
    BY <2>1 DEF ObservationStatus
<1> QED
  BY <1>1, Invariance, PTL

-----------------------------------------------------------------------------
(* The refinement.                                                         *)

\* Nothing but the verification returns, and it returns once.
LEMMA ReturnKinds ==
    ASSUME [Next]_vars, ~Verify
    PROVE  main' = "returned" <=> main = "returned"
<1> USE DEF mainVars
<1>1. CASE Clock \/ Cancel
  BY <1>1 DEF Clock, Cancel
<1>2. CASE Schedule
  BY <1>2 DEF Schedule
<1>3. ASSUME NEW w \in Workers, Sender(w) PROVE main' = main
  BY <1>3 DEF Sender, Take, Send, Leave
<1>4. CASE Observer
  BY <1>4 DEF Observer, ObserverTakes, ObserverAnswers
<1>5. CASE Flow
  BY <1>5 DEF Flow, LoopEnds, DrainEnds, CancelObservation, Collect
<1>6. CASE Select
  BY <1>6 DEF Select, LoopFlags, RecordRequest, Observed, Tick, DrainInterrupted
<1>7. CASE UNCHANGED vars
  BY <1>7 DEF vars
<1> QED
  BY <1>1, <1>2, <1>3, <1>4, <1>5, <1>6, <1>7 DEF Next

\* A step of the scheduler enters one batch, or gives up one or the rest.
LEMMA ScheduleEntry ==
    ASSUME LoadType, Schedules, Schedule
    PROVE  \/ \A b \in Batches : Entry(b)' = Entry(b)
           \/ \E bs \in SUBSET Batches : \A b \in Batches :
                  /\ (b \in bs => Entry(b) = "planned" /\ Entry(b)' = "missed")
                  /\ (b \notin bs => Entry(b)' = Entry(b))
           \/ \E c \in Batches :
                  /\ Entry(c) = "planned" /\ Entry(c)' = "out"
                  /\ \A b \in Batches \ {c} : Entry(b)' = Entry(b)
<1>0. N \in Nat /\ next \in Nat /\ Batches \subseteq Nat
  BY Marks DEF LoadType
<1>1. ~scheduled /\ book' = book
  BY ScheduleFacts
<1>2. \A b \in Batches : b >= next => b \notin missed /\ book[b] = "none" /\ Entry(b) = "planned"
  <2> SUFFICES ASSUME NEW b \in Batches, b >= next
               PROVE  b \notin missed /\ book[b] = "none" /\ Entry(b) = "planned"
    OBVIOUS
  <2>1. b \notin missed /\ book[b] = "none" /\ ~(b < next)
    BY <1>0, <1>1 DEF Schedules
  <2> QED
    BY <2>1 DEF Entry
<1>3. CASE next' = next /\ missed' = missed
  BY <1>1, <1>3 DEF Entry
<1>4. CASE next <= N /\ missed' = missed \cup (next .. N) /\ next' = next
  <2>1. next .. N \in SUBSET Batches
    BY <1>0 DEF LoadType, Batches
  <2>2. ASSUME NEW b \in Batches, b \in next .. N
        PROVE  Entry(b) = "planned" /\ Entry(b)' = "missed"
    <3>1. b >= next /\ b \in missed'
      BY <1>0, <1>4, <2>2
    <3> QED
      BY <1>2, <3>1 DEF Entry
  <2>3. ASSUME NEW b \in Batches, b \notin next .. N
        PROVE  Entry(b)' = Entry(b)
    BY <1>1, <1>4, <2>3 DEF Entry
  <2> QED
    BY <2>1, <2>2, <2>3
<1>5. CASE next \in Batches /\ next' = next + 1
  <2>1. \A b \in Batches \ {next} : b < next' <=> b < next
    BY <1>0, <1>5
  <2>2. Entry(next) = "planned"
    BY <1>0, <1>2, <1>5
  <2>3. CASE missed' = missed
    <3> DEFINE Later(b) == Entry(b)'
    <3>0. PICK c \in Batches : c = next
      BY <1>5
    <3>1. \A b \in Batches : Later(b) = IF b \in missed THEN "missed"
                                       ELSE IF book[b] # "none" THEN book[b]
                                       ELSE IF b < next + 1 THEN "out"
                                       ELSE "planned"
      BY <1>1, <1>5, <2>3 DEF Entry
    <3>2. c < next + 1 /\ c \notin missed /\ book[c] = "none"
      BY <1>0, <1>2, <1>5, <3>0
    <3>3. Later(c) = "out"
      <4> HIDE DEF Later
      <4> QED
        BY <3>1, <3>2
    <3>4. \A b \in Batches \ {c} : Later(b) = Entry(b)
      BY <1>5, <2>1, <3>0, <3>1 DEF Entry
    <3> HIDE DEF Later
    <3>5. /\ Entry(c) = "planned" /\ Later(c) = "out"
          /\ \A b \in Batches \ {c} : Later(b) = Entry(b)
      BY <2>2, <3>0, <3>3, <3>4
    <3> QED
      BY <3>5 DEF Later
  <2>4. CASE missed' = missed \cup {next}
    <3> DEFINE Later(b) == Entry(b)'
    <3>1. \A b \in Batches : Later(b) = IF b \in missed \/ b = next THEN "missed"
                                       ELSE IF book[b] # "none" THEN book[b]
                                       ELSE IF b < next + 1 THEN "out"
                                       ELSE "planned"
      BY <1>1, <1>5, <2>4 DEF Entry
    <3>2. \A b \in Batches : b \in {next} => Entry(b) = "planned" /\ Later(b) = "missed"
      BY <2>2, <3>1
    <3>3. \A b \in Batches : b \notin {next} => Later(b) = Entry(b)
      BY <1>5, <2>1, <3>1 DEF Entry
    <3> HIDE DEF Later
    <3>4. {next} \in SUBSET Batches
      BY <1>5
    <3>5. \E bs \in SUBSET Batches : \A b \in Batches :
                  /\ (b \in bs => Entry(b) = "planned" /\ Later(b) = "missed")
                  /\ (b \notin bs => Later(b) = Entry(b))
      BY <3>2, <3>3, <3>4
    <3> QED
      BY <3>5 DEF Later
  <2>5. missed' = missed \/ missed' = missed \cup {next}
    <3>1. next' # next
      BY <1>0, <1>5
    <3> QED
      BY <3>1, ScheduleFacts
  <2> QED
    BY <2>3, <2>4, <2>5
<1> QED
  BY <1>3, <1>4, <1>5, ScheduleFacts

\* The entries as a function, and the lemma that says when it does not change.
entries == [b \in Batches |-> Entry(b)]

\* Entries that stay one by one stay together.
LEMMA SameEntries ==
    ASSUME \A b \in Batches : Entry(b)' = Entry(b)
    PROVE  entries' = entries
BY DEF entries

\* The scheduler's step is a step of the ledger.
LEMMA ScheduleIsEntry ==
    ASSUME LoadType, Schedules, Endings, Schedule
    PROVE  UNCHANGED <<entries, main>> \/ (main # "returned" /\ L!Next)
<1>1. main' = main /\ main # "returned"
  BY DEF Schedule, mainVars, Endings
<1>2. (main' = "returned") = (main = "returned")
  BY <1>1
<1>3. CASE \A b \in Batches : Entry(b)' = Entry(b)
  BY <1>1, <1>3, SameEntries
<1>4. ASSUME NEW bs \in SUBSET Batches,
             \A b \in Batches :
                  /\ (b \in bs => Entry(b) = "planned" /\ Entry(b)' = "missed")
                  /\ (b \notin bs => Entry(b)' = Entry(b))
      PROVE  L!Next
  <2>1. \A b \in bs : entries[b] = "planned"
    BY <1>4 DEF entries
  <2>2. entries' = [b \in Batches |-> IF b \in bs THEN "missed" ELSE entries[b]]
    BY <1>4 DEF entries
  <2>3. L!Miss(bs)
    BY <1>2, <2>1, <2>2 DEF L!Miss, entries
  <2> QED
    BY <2>3 DEF L!Next
<1>5. ASSUME NEW c \in Batches, Entry(c) = "planned", Entry(c)' = "out",
             \A b \in Batches \ {c} : Entry(b)' = Entry(b)
      PROVE  L!Next
  <2>1. entries[c] = "planned" /\ entries' = [entries EXCEPT ![c] = "out"]
    BY <1>5 DEF entries
  <2>2. L!Enter(c, "planned", "out")
    BY <1>2, <2>1 DEF L!Enter, entries
  <2> QED
    BY <2>2 DEF L!Next
<1> QED
  BY <1>1, <1>3, <1>4, <1>5, ScheduleEntry

\* So is recording a verdict.
LEMMA RecordIsEntry ==
    ASSUME LoadType, InFlight, RecordRequest
    PROVE  main # "returned" /\ L!Next
<1>1. /\ UNCHANGED <<next, missed>> /\ main = "loop" /\ main' = "loop" /\ results # <<>>
      /\ results[1] \in Result /\ book' = [book EXCEPT ![results[1].batch] = results[1].verdict]
  BY RecordFacts
<1>2. PICK c \in Batches, v \in Verdicts : c = results[1].batch /\ v = results[1].verdict
  BY <1>1 DEF Result
<1>3. Len(results) \in Nat \ {0}
  BY <1>1, TailAt DEF LoadType
<1>4. c < next /\ c \notin missed /\ book[c] = "none"
  <2>1. Open(results[1].batch)
    BY <1>3 DEF InFlight
  <2> QED
    BY <1>2, <2>1 DEF Open
<1>5. book' = [book EXCEPT ![c] = v] /\ book'[c] = v /\ v # "none"
  BY <1>1, <1>2 DEF LoadType, Verdicts
<1>6. Entry(c) = "out" /\ Entry(c)' = v
  BY <1>1, <1>4, <1>5 DEF Entry
<1>7. ASSUME NEW b \in Batches \ {c} PROVE Entry(b)' = Entry(b)
  <2>1. book'[b] = book[b]
    BY <1>5 DEF LoadType
  <2> QED
    BY <1>1, <2>1 DEF Entry
<1>8. entries[c] = "out" /\ entries' = [entries EXCEPT ![c] = v]
  BY <1>6, <1>7 DEF entries
<1>9. (main' = "returned") = (main = "returned")
  BY <1>1
<1>10. L!Enter(c, "out", v)
  BY <1>8, <1>9 DEF L!Enter, entries
<1>11. v \in L!Verdicts
  BY DEF Verdicts, L!Verdicts
<1> QED
  BY <1>1, <1>10, <1>11 DEF L!Next

\* The verification closes books that are full.
LEMMA VerifyCloses ==
    ASSUME LoadType, Places, Endings, Verify
    PROVE  main # "returned" /\ L!Next
<1>1. UNCHANGED <<next, missed, book>> /\ main = "verify" /\ main' = "returned"
  BY DEF Verify
<1>2. \A b \in Batches : b \in missed \/ book[b] \in Verdicts
  BY <1>1, BooksAreFull DEF Endings
<1>3. \A b \in Batches : Entry(b) \in L!Final
  BY <1>2 DEF Entry, L!Final, L!Verdicts, Verdicts
<1>4. \A b \in Batches : Entry(b)' = Entry(b)
  BY <1>1 DEF Entry
<1>5. entries' = entries /\ \A b \in Batches : entries[b] \in L!Final
  BY <1>3, <1>4, SameEntries DEF entries
<1>6. ~(main = "returned") /\ (main' = "returned") = TRUE
  BY <1>1
<1>7. L!Close
  BY <1>5, <1>6 DEF L!Close, entries
<1> QED
  BY <1>1, <1>7 DEF L!Next

\* A sample keeps its books: every planned batch is given up or handed out
\* once, a batch handed out gets one verdict, and the sample returns with no
\* batch open.
THEOREM BooksAreKept == Spec => ImplementsLedger
<1>1. Init => L!Init
  <2> SUFFICES ASSUME Init PROVE L!Init
    OBVIOUS
  <2>1. \A b \in Batches : Entry(b) = "planned"
    BY DEF Init, Entry, Batches
  <2>2. entries = [b \in Batches |-> "planned"]
    BY <2>1 DEF entries
  <2>3. (main = "returned") = FALSE
    BY DEF Init
  <2> QED
    BY <2>2, <2>3 DEF L!Init, entries
<1>2. Inv /\ [Next]_vars => [main # "returned" /\ L!Next]_<<entries, main = "returned">>
  <2> SUFFICES ASSUME Inv, [Next]_vars
               PROVE  \/ main # "returned" /\ L!Next
                      \/ entries' = entries /\ (main' = "returned") = (main = "returned")
    OBVIOUS
  <2>1. LoadType /\ Places /\ Endings /\ InFlight /\ Schedules
    BY TypeParts DEF Inv, Places
  <2>2. CASE Verify
    BY <2>1, <2>2, VerifyCloses
  <2>3. CASE ~Verify /\ \A b \in Batches : Entry(b)' = Entry(b)
    BY <2>3, SameEntries, ReturnKinds
  <2>4. CASE Schedule
    BY <2>1, <2>4, ScheduleIsEntry
  <2>5. CASE RecordRequest
    BY <2>1, <2>5, RecordIsEntry
  <2>6. CASE UNCHANGED <<next, missed, book>>
    <3>1. \A b \in Batches : Entry(b)' = Entry(b)
      BY <2>6 DEF Entry
    <3> QED
      BY <2>2, <2>3, <3>1
  <2>7. ASSUME NEW w \in Workers, Take(w) \/ Send(w) \/ Leave(w)
        PROVE  UNCHANGED <<next, missed, book>>
    BY <2>1, <2>7, TakeFacts, SendFacts, LeaveFacts
  <2>8. UNCHANGED places => UNCHANGED <<next, missed, book>>
    BY DEF places
  <2> QED
    BY <2>4, <2>5, <2>6, <2>7, <2>8, LoadKinds
<1>3. [main # "returned" /\ L!Next]_<<entries, main = "returned">>
      => [~(main = "returned") /\ L!Next]_<<[b \in Batches |-> Entry(b)], main = "returned">>
  BY DEF entries
<1> QED
  BY <1>1, <1>2, <1>3, Invariance, PTL DEF Spec, ImplementsLedger, L!Spec
=============================================================================
