---------------------------- MODULE WorkerProofs ----------------------------
(***************************************************************************)
(* Proofs about Worker, for any number of failures and of readers, and     *)
(* about Operations, which is Worker with the health, the log and the      *)
(* readiness probe: what holds of Worker holds of Operations.              *)
(***************************************************************************)
EXTENDS Operations, TLAPS

\* The types of the labels, counters and sets.
LEMMA CounterStep ==
    TypeOK /\ [Next]_vars =>
      /\ sup' \in SupLabels /\ main' \in MainLabels
      /\ reader' \in Nat /\ current' \in Nat /\ loaded' \in Nat /\ faults' \in Nat
      /\ stopped' \in SUBSET Nat
<1> SUFFICES ASSUME sup \in SupLabels, main \in MainLabels, reader \in Nat, current \in Nat,
                    loaded \in Nat, faults \in Nat, stopped \in SUBSET Nat, [Next]_vars
             PROVE  /\ sup' \in SupLabels /\ main' \in MainLabels
                    /\ reader' \in Nat /\ current' \in Nat /\ loaded' \in Nat /\ faults' \in Nat
                    /\ stopped' \in SUBSET Nat
  BY DEF TypeOK
<1> USE DEF SupLabels, MainLabels, supVars, mainVars
<1>1. CASE Signal \/ Expire \/ UNCHANGED vars
  BY <1>1 DEF Signal, Expire, vars
<1>2. CASE Supervise
  BY <1>2 DEF Supervise, SupGoto
<1>3. CASE PingOk
  BY <1>3 DEF PingOk, SupGoto
<1>4. CASE CheckStop
  BY <1>4 DEF CheckStop, SupGoto
<1>5. CASE Create
  BY <1>5 DEF Create, SupGoto
<1>6. CASE Store
  BY <1>6 DEF Store, SupGoto
<1>7. CASE RunHead
  BY <1>7 DEF RunHead, SupGoto
<1>8. CASE PollInterrupted
  BY <1>8 DEF PollInterrupted, SupGoto
<1>9. CASE Unset
  BY <1>9 DEF Unset, SupGoto
<1>10. CASE AfterAttempt
  BY <1>10 DEF AfterAttempt, SupGoto
<1>11. CASE Backoff
  BY <1>11 DEF Backoff, SupGoto
<1>12. CASE PollRecords
  BY <1>12 DEF PollRecords, SupGoto
<1>13. CASE WorkDone
  BY <1>13 DEF WorkDone, SupGoto
<1>14. CASE Recheck
  BY <1>14 DEF Recheck
<1>15. CASE PingFails
  BY <1>15 DEF PingFails, SupGoto, Fault
<1>16. CASE CreateFails
  BY <1>16 DEF CreateFails, SupGoto, Fault
<1>17. CASE PollFails
  BY <1>17 DEF PollFails, SupGoto, Fault
<1>18. CASE WorkFails
  BY <1>18 DEF WorkFails, SupGoto, Fault
<1>19. CASE ServeFails
  BY <1>19 DEF ServeFails, MainGoto, Fault
<1>20. CASE Interrupted \/ LoadReader \/ StopReader \/ WaitForWorker \/ ShutdownServer \/ ClosePool
  BY <1>20 DEF Interrupted, LoadReader, StopReader, WaitForWorker, ShutdownServer, ClosePool, MainGoto
<1> QED
  BY <1>1, <1>2, <1>3, <1>4, <1>5, <1>6, <1>7, <1>8, <1>9, <1>10,
     <1>11, <1>12, <1>13, <1>14, <1>15, <1>16, <1>17, <1>18, <1>19, <1>20
  DEF Next, Supervisor, Finish, Main

\* The types of the flags.
LEMMA FlagStep ==
    TypeOK /\ [Next]_vars =>
      /\ signal' \in BOOLEAN /\ cancelled' \in BOOLEAN /\ expired' \in BOOLEAN
      /\ err' \in BOOLEAN /\ result' \in BOOLEAN
<1> SUFFICES ASSUME TypeOK, [Next]_vars
             PROVE  /\ signal' \in BOOLEAN /\ cancelled' \in BOOLEAN /\ expired' \in BOOLEAN
                    /\ err' \in BOOLEAN /\ result' \in BOOLEAN
  OBVIOUS
<1> USE DEF TypeOK, supVars, mainVars
<1>1. CASE Signal \/ Expire \/ UNCHANGED vars
  BY <1>1 DEF Signal, Expire, vars
<1>2. CASE Supervise \/ PingOk \/ PingFails \/ CheckStop \/ Create \/ CreateFails
  BY <1>2, Zenon DEF Supervise, PingOk, PingFails, CheckStop, Create, CreateFails, SupGoto
<1>3. CASE Store \/ Recheck \/ RunHead \/ PollInterrupted \/ Unset \/ AfterAttempt \/ Backoff
  BY <1>3, Zenon DEF Store, Recheck, RunHead, PollInterrupted, Unset, AfterAttempt, Backoff, SupGoto
<1>4. CASE PollRecords \/ PollFails \/ WorkDone \/ WorkFails
  BY <1>4, Zenon DEF PollRecords, PollFails, WorkDone, WorkFails, SupGoto
<1>5. CASE Main
  BY <1>5, Zenon DEF Main, ServeFails, Interrupted, LoadReader, StopReader, WaitForWorker,
              ShutdownServer, ClosePool, MainGoto
<1> QED
  BY <1>1, <1>2, <1>3, <1>4, <1>5 DEF Next, Supervisor, Finish

\* Every step keeps the types.
LEMMA TypeStep == TypeOK /\ [Next]_vars => TypeOK'
BY CounterStep, FlagStep DEF TypeOK

\* The pointer is set exactly while a reader is in use.
LEMMA PointerStep == Inv /\ [Next]_vars => PointerShape'
<1> SUFFICES ASSUME Inv, [Next]_vars PROVE PointerShape'
  OBVIOUS
<1> USE DEF Inv, TypeOK, SupLabels, Polling, PointerShape, supVars
<1>2. CASE Supervise \/ PingOk \/ PingFails \/ CheckStop \/ Create \/ CreateFails
  BY <1>2 DEF Supervise, PingOk, PingFails, CheckStop, Create, CreateFails, SupGoto, Fault
<1>3. CASE Store \/ Recheck \/ RunHead \/ PollInterrupted \/ Unset \/ AfterAttempt \/ Backoff
  BY <1>3 DEF Store, Recheck, RunHead, PollInterrupted, Unset, AfterAttempt, Backoff, SupGoto
<1>4. CASE PollRecords \/ PollFails \/ WorkDone \/ WorkFails
  BY <1>4 DEF PollRecords, PollFails, WorkDone, WorkFails, SupGoto, Fault
<1>5. CASE Signal \/ Expire \/ Main \/ UNCHANGED vars
  BY <1>5 DEF Signal, Expire, Main, ServeFails, Interrupted, LoadReader, StopReader, WaitForWorker,
              ShutdownServer, ClosePool, MainGoto, vars
<1> QED
  BY <1>2, <1>3, <1>4, <1>5 DEF Next, Supervisor, Finish

(***************************************************************************)
(* The stop reaches the reader.  Either the supervisor stores the pointer  *)
(* before main loads it, and main closes the stop channel, or main has     *)
(* loaded it already, so that the signal or the cancellation precedes the  *)
(* supervisor's check.                                                     *)
(***************************************************************************)
LEMMA StopStep == Inv /\ [Next]_vars => StopReachesReader'
<1> SUFFICES ASSUME Inv, [Next]_vars PROVE StopReachesReader'
  OBVIOUS
<1> USE DEF Inv, TypeOK, SupLabels, MainLabels, Polling, PointerShape, StopReachesReader, supVars, mainVars
<1>1. CASE Signal \/ Expire \/ UNCHANGED vars
  BY <1>1 DEF Signal, Expire, vars
<1>2. CASE Supervise \/ PingOk \/ PingFails \/ CheckStop \/ Create \/ CreateFails
  BY <1>2 DEF Supervise, PingOk, PingFails, CheckStop, Create, CreateFails, SupGoto, Fault
<1>3. CASE Store \/ RunHead \/ PollInterrupted \/ Unset \/ AfterAttempt \/ Backoff
  BY <1>3 DEF Store, RunHead, PollInterrupted, Unset, AfterAttempt, Backoff, SupGoto
<1>4. CASE Recheck
  BY <1>4 DEF Recheck
<1>5. CASE PollRecords \/ PollFails \/ WorkDone \/ WorkFails
  BY <1>5 DEF PollRecords, PollFails, WorkDone, WorkFails, SupGoto, Fault
<1>6. CASE ServeFails \/ Interrupted
  BY <1>6 DEF ServeFails, Interrupted, MainGoto, Fault
<1>7. CASE LoadReader
  BY <1>7 DEF LoadReader, MainGoto
<1>8. CASE StopReader
  BY <1>8 DEF StopReader, MainGoto
<1>9. CASE WaitForWorker \/ ShutdownServer \/ ClosePool
  BY <1>9 DEF WaitForWorker, ShutdownServer, ClosePool, MainGoto
<1> QED
  BY <1>1, <1>2, <1>3, <1>4, <1>5, <1>6, <1>7, <1>8, <1>9 DEF Next, Supervisor, Finish, Main

\* Errors are not lost on the way to run's result, and none is invented.
LEMMA DrainStep == Inv /\ [Next]_vars => DrainShape'
<1> SUFFICES ASSUME Inv, [Next]_vars PROVE DrainShape'
  OBVIOUS
<1> USE FaultAssumption DEF Inv, TypeOK, SupLabels, MainLabels, Polling, DrainShape, supVars, mainVars, Alive
<1>1. CASE Signal \/ Expire \/ UNCHANGED vars
  BY <1>1 DEF Signal, Expire, vars
<1>2. CASE Supervise \/ PingOk \/ PingFails \/ CheckStop \/ Create \/ CreateFails
  BY <1>2 DEF Supervise, PingOk, PingFails, CheckStop, Create, CreateFails, SupGoto, Fault
<1>3. CASE Store \/ Recheck \/ RunHead \/ PollInterrupted \/ Unset \/ AfterAttempt \/ Backoff
  BY <1>3 DEF Store, Recheck, RunHead, PollInterrupted, Unset, AfterAttempt, Backoff, SupGoto
<1>4. CASE PollRecords \/ PollFails \/ WorkDone \/ WorkFails
  BY <1>4 DEF PollRecords, PollFails, WorkDone, WorkFails, SupGoto, Fault
<1>5. CASE ServeFails \/ Interrupted \/ LoadReader \/ StopReader
  BY <1>5 DEF ServeFails, Interrupted, LoadReader, StopReader, MainGoto, Fault
<1>6. CASE WaitForWorker \/ ShutdownServer \/ ClosePool
  BY <1>6 DEF WaitForWorker, ShutdownServer, ClosePool, MainGoto
<1> QED
  BY <1>1, <1>2, <1>3, <1>4, <1>5, <1>6 DEF Next, Supervisor, Finish, Main

(***************************************************************************)
(* Inv holds in every reachable state of the consumer process.             *)
(***************************************************************************)
THEOREM Invariance == Spec => []Inv
<1>1. Init => Inv
  <2> SUFFICES ASSUME Init PROVE Inv
    OBVIOUS
  <2>1. signal \in BOOLEAN /\ cancelled \in BOOLEAN /\ expired \in BOOLEAN /\ err \in BOOLEAN /\ result \in BOOLEAN
    BY Zenon DEF Init
  <2>2. TypeOK
    BY <2>1 DEF Init, TypeOK, SupLabels, MainLabels
  <2>3. PointerShape /\ StopReachesReader /\ DrainShape
    BY DEF Init, PointerShape, StopReachesReader, DrainShape, Polling
  <2> QED
    BY <2>2, <2>3 DEF Inv
<1>2. Inv /\ [Next]_vars => Inv'
  BY TypeStep, PointerStep, StopStep, DrainStep DEF Inv
<1> QED
  BY <1>1, <1>2, PTL DEF Spec

(***************************************************************************)
(* run returns nil only when Supervise has returned without an error and   *)
(* no work was cancelled.                                                  *)
(***************************************************************************)
THEOREM ExitIsClean == Spec => []CleanExit
<1>1. Inv => CleanExit
  BY DEF Inv, DrainShape, PointerShape, Polling, CleanExit
<1> QED
  BY <1>1, Invariance, PTL

(***************************************************************************)
(* Without failures and within the deadline run returns nil, wherever the  *)
(* signal found the supervisor.                                            *)
(***************************************************************************)
THEOREM ExitIsQuiet == Spec => []NoFalseAlarm
<1>1. Inv => NoFalseAlarm
  BY DEF Inv, DrainShape, NoFalseAlarm
<1> QED
  BY <1>1, Invariance, PTL

(***************************************************************************)
(* After drainConsumer has asked for the stop, no reader polls again.      *)
(***************************************************************************)
THEOREM StopIsFinal == Spec => NoPollAfterStop
<1>1. ASSUME Inv, [Next]_vars, sup # "poll", main \in {"wait", "server", "close"}
      PROVE  sup' # "poll"
  <2> USE <1>1 DEF Inv, TypeOK, StopReachesReader, Polling
  <2>1. CASE RunHead
    BY <2>1 DEF RunHead, SupGoto
  <2>2. CASE Supervise \/ PingOk \/ PingFails \/ CheckStop \/ Create \/ CreateFails \/ Store \/ Recheck
             \/ PollInterrupted \/ Unset \/ AfterAttempt \/ Backoff
    BY <2>2 DEF Supervise, PingOk, PingFails, CheckStop, Create, CreateFails, Store, Recheck,
                PollInterrupted, Unset, AfterAttempt, Backoff, SupGoto
  <2>3. CASE Signal \/ Expire \/ PollRecords \/ PollFails \/ Finish \/ UNCHANGED vars
    BY <2>3 DEF Signal, Expire, PollRecords, PollFails, Finish, WorkDone, WorkFails, SupGoto, supVars, vars
  <2>4. CASE Main
    BY <2>4 DEF Main, ServeFails, Interrupted, LoadReader, StopReader, WaitForWorker,
                ShutdownServer, ClosePool, MainGoto, supVars
  <2> QED
    BY <2>1, <2>2, <2>3, <2>4 DEF Next, Supervisor
<1>2. Inv /\ [Next]_vars => [sup # "poll" /\ main \in {"wait", "server", "close"} => sup' # "poll"]_vars
  BY <1>1
<1> QED
  BY <1>2, Invariance, PTL DEF Spec, NoPollAfterStop

-----------------------------------------------------------------------------
(* The process as its operator sees it.                                    *)

\* Names of kinds do not clash.
LEMMA KindNames == "startup" \notin OpKinds /\ "shutdown" \notin OpKinds /\ "none" \notin OpKinds
  BY FailureAssumption

\* A report of one kind leaves the others alone, and after it the log says what
\* was reported.
LEMMA ReportStep ==
    ASSUME OpsTypeOK, WellMeansQuiet, FailuresAccounted,
           NEW kind \in Kinds, NEW bad \in BOOLEAN, Report(kind, bad)
    PROVE  /\ diag' \in [Kinds -> [failed : BOOLEAN, suppressed : Nat]]
           /\ cooled' \in [Kinds -> BOOLEAN]
           /\ failures' \in [Kinds -> Nat] /\ told' \in [Kinds -> Nat]
           /\ WellMeansQuiet' /\ FailuresAccounted'
           /\ diag'[kind].failed = bad
           /\ \A k \in Kinds \ {kind} : diag'[k] = diag[k]
<1> DEFINE s == diag[kind]
           speaks == (bad \/ s.failed) /\ ~Quiet(kind, bad)
           new == IF Quiet(kind, bad) THEN [failed |-> s.failed, suppressed |-> s.suppressed + 1]
                  ELSE [failed |-> bad, suppressed |-> 0]
<1>1. s \in [failed : BOOLEAN, suppressed : Nat] /\ s.failed \in BOOLEAN /\ s.suppressed \in Nat
  BY DEF OpsTypeOK
<1>2. [s EXCEPT !.suppressed = @ + 1] = [failed |-> s.failed, suppressed |-> s.suppressed + 1]
  BY <1>1
<1>3. /\ diag' = [diag EXCEPT ![kind] = new]
      /\ cooled' = [cooled EXCEPT ![kind] = @ /\ ~speaks]
      /\ told' = [told EXCEPT ![kind] = IF speaks THEN @ + Message(s, bad) ELSE @]
      /\ failures' = [failures EXCEPT ![kind] = IF bad THEN @ + 1 ELSE @]
  BY <1>2 DEF Report
<1>4. new \in [failed : BOOLEAN, suppressed : Nat]
  BY <1>1
<1>5. new.failed = bad
  BY <1>1 DEF Quiet
<1>6. Message(s, bad) = s.suppressed + (IF bad THEN 1 ELSE 0)
  BY DEF Message
<1>7. ~new.failed => new.suppressed = 0
  BY DEF Quiet
<1>8. /\ ~s.failed => s.suppressed = 0
      /\ failures[kind] = told[kind] + s.suppressed
      /\ failures[kind] \in Nat /\ told[kind] \in Nat
  BY DEF OpsTypeOK, WellMeansQuiet, FailuresAccounted
<1>9. (IF bad THEN failures[kind] + 1 ELSE failures[kind])
        = (IF speaks THEN told[kind] + Message(s, bad) ELSE told[kind]) + new.suppressed
  BY <1>1, <1>6, <1>8 DEF Quiet
<1>10. cooled' \in [Kinds -> BOOLEAN]
  BY <1>3, Zenon DEF OpsTypeOK
<1> HIDE DEF s, new
<1>11. diag' \in [Kinds -> [failed : BOOLEAN, suppressed : Nat]]
       /\ diag'[kind] = new /\ \A k \in Kinds \ {kind} : diag'[k] = diag[k]
  BY <1>3, <1>4 DEF OpsTypeOK
<1>12. failures' \in [Kinds -> Nat]
       /\ failures'[kind] = (IF bad THEN failures[kind] + 1 ELSE failures[kind])
       /\ \A k \in Kinds \ {kind} : failures'[k] = failures[k]
  BY <1>3 DEF OpsTypeOK
<1>13. told' \in [Kinds -> Nat]
       /\ told'[kind] = (IF speaks THEN told[kind] + Message(s, bad) ELSE told[kind])
       /\ \A k \in Kinds \ {kind} : told'[k] = told[k]
  <2>1. Message(s, bad) \in Nat
    BY <1>1, <1>6
  <2> HIDE DEF speaks
  <2> QED
    BY <1>3, <2>1 DEF OpsTypeOK
<1>14. WellMeansQuiet'
  BY <1>7, <1>11 DEF WellMeansQuiet
<1>15. FailuresAccounted'
  <2> HIDE DEF speaks
  <2> QED
    BY <1>9, <1>11, <1>12, <1>13 DEF FailuresAccounted
<1> QED
  BY <1>5, <1>10, <1>11, <1>12, <1>13, <1>14, <1>15

\* Steps of the worker that nobody reports, and the environment's.
LEMMA QuietSteps == OpsInv /\ UNCHANGED opsVars /\ (main' = main \/ main # "select") => OpsInv'
  BY DEF OpsInv, OpsTypeOK, CallbackShape, WellMeansQuiet, DrainObserved, FailuresAccounted,
         LogAgreesWithReadiness, opsVars, logVars

\* A ping or a creation is reported as "startup", which no operation is called.
LEMMA StartupInv == OpsInv /\ StartupSteps => OpsInv'
<1> SUFFICES ASSUME OpsInv, StartupSteps PROVE OpsInv'
  OBVIOUS
<1>1. PICK bad \in BOOLEAN : Report("startup", bad)
  BY DEF StartupSteps
<1>2. UNCHANGED <<broken, callback, probe, main>>
  BY DEF StartupSteps, PingOk, PingFails, CreateFails, SupGoto, mainVars
<1>3. "startup" \in Kinds /\ \A k \in OpKinds : k \in Kinds \ {"startup"}
  BY KindNames DEF Kinds
<1>4. /\ diag' \in [Kinds -> [failed : BOOLEAN, suppressed : Nat]]
      /\ cooled' \in [Kinds -> BOOLEAN]
      /\ failures' \in [Kinds -> Nat] /\ told' \in [Kinds -> Nat]
      /\ WellMeansQuiet' /\ FailuresAccounted'
      /\ \A k \in Kinds \ {"startup"} : diag'[k] = diag[k]
  BY <1>1, <1>3, ReportStep DEF OpsInv
<1>5. OpsTypeOK' /\ CallbackShape' /\ DrainObserved'
  BY <1>2, <1>4 DEF OpsInv, OpsTypeOK, CallbackShape, DrainObserved
<1>6. LogAgreesWithReadiness'
  BY <1>2, <1>3, <1>4 DEF OpsInv, LogAgreesWithReadiness
<1> QED
  BY <1>4, <1>5, <1>6 DEF OpsInv

\* The callback's first half: the entry of its own kind only.
LEMMA OperationEndsInv == OpsInv /\ OperationEnds => OpsInv'
<1> SUFFICES ASSUME OpsInv, OperationEnds PROVE OpsInv'
  OBVIOUS
<1>1. PICK k \in OpKinds, bad \in BOOLEAN :
        /\ broken' = IF bad THEN broken \cup {k} ELSE broken \ {k}
        /\ callback' = [kind |-> k, bad |-> bad]
  BY DEF OperationEnds, Observe
<1>2. callback = NoCallback /\ UNCHANGED <<logVars, probe, main>>
  BY DEF OperationEnds, vars
<1>3. callback' \in [kind : OpKinds, bad : BOOLEAN] /\ callback'.kind = k /\ callback'.bad = bad
  BY <1>1
<1>4. callback.kind = "none"
  BY <1>2 DEF NoCallback
<1>5. OpsTypeOK'
  BY <1>1, <1>2, <1>3 DEF OpsInv, OpsTypeOK, logVars
<1>6. CallbackShape'
  BY <1>1, <1>3 DEF CallbackShape
<1>7. WellMeansQuiet' /\ FailuresAccounted'
  BY <1>2 DEF OpsInv, WellMeansQuiet, FailuresAccounted, logVars
<1>8. DrainObserved'
  BY <1>1, <1>2, KindNames DEF OpsInv, DrainObserved
<1>9. LogAgreesWithReadiness'
  BY <1>1, <1>2, <1>3, <1>4, KindNames DEF OpsInv, LogAgreesWithReadiness, logVars
<1> QED
  BY <1>5, <1>6, <1>7, <1>8, <1>9 DEF OpsInv

\* The callback's second half brings the log up to the health.
LEMMA OperationReportedInv == OpsInv /\ OperationReported => OpsInv'
<1> SUFFICES ASSUME OpsInv, OperationReported PROVE OpsInv'
  OBVIOUS
<1>1. /\ callback # NoCallback /\ Report(callback.kind, callback.bad) /\ callback' = NoCallback
      /\ UNCHANGED <<broken, probe, main>>
  BY DEF OperationReported, vars
<1>2. callback.kind \in OpKinds /\ callback.kind \in Kinds /\ callback.bad \in BOOLEAN
  BY <1>1 DEF OpsInv, OpsTypeOK, Kinds
<1>3. /\ diag' \in [Kinds -> [failed : BOOLEAN, suppressed : Nat]]
      /\ cooled' \in [Kinds -> BOOLEAN]
      /\ failures' \in [Kinds -> Nat] /\ told' \in [Kinds -> Nat]
      /\ WellMeansQuiet' /\ FailuresAccounted'
      /\ diag'[callback.kind].failed = callback.bad
      /\ \A k \in Kinds \ {callback.kind} : diag'[k] = diag[k]
  BY <1>1, <1>2, ReportStep DEF OpsInv
<1>4. OpsTypeOK' /\ CallbackShape' /\ DrainObserved'
  BY <1>1, <1>3 DEF OpsInv, OpsTypeOK, CallbackShape, DrainObserved
<1>5. LogAgreesWithReadiness'
  <2> SUFFICES ASSUME NEW k \in OpKinds PROVE k \in broken <=> diag'[k].failed
    BY <1>1 DEF LogAgreesWithReadiness
  <2>1. CASE k = callback.kind
    BY <1>1, <1>3, <2>1 DEF OpsInv, CallbackShape
  <2>2. CASE k # callback.kind
    BY <1>3, <2>2 DEF OpsInv, LogAgreesWithReadiness, Kinds
  <2> QED
    BY <2>1, <2>2
<1> QED
  BY <1>3, <1>4, <1>5 DEF OpsInv

\* The drain's own failure is no operation's.
LEMMA ShutdownInv == OpsInv /\ ShutdownObserved => OpsInv'
<1> SUFFICES ASSUME OpsInv, ShutdownObserved PROVE OpsInv'
  OBVIOUS
<1>1. broken' = broken \cup {"shutdown"} /\ UNCHANGED <<logVars, callback, probe>>
  BY DEF ShutdownObserved, Observe
<1>2. callback # NoCallback => callback.kind # "shutdown"
  BY KindNames DEF OpsInv, OpsTypeOK
<1> QED
  BY <1>1, <1>2, KindNames DEF OpsInv, OpsTypeOK, CallbackShape, WellMeansQuiet, DrainObserved,
     FailuresAccounted, LogAgreesWithReadiness, logVars

\* Time and probes change neither the health nor what the log has said.
LEMMA ProbeInv == OpsInv /\ (Cool \/ Ready) => OpsInv'
<1> SUFFICES ASSUME OpsInv, Cool \/ Ready PROVE OpsInv'
  OBVIOUS
<1>1. UNCHANGED <<broken, diag, failures, told, callback, main>>
  BY DEF Cool, Ready, ProbeBegins, ProbeStore, ProbeReader, ProbeGoto, logVars, vars
<1>2. probe' \in {"idle", "store", "reader"}
  BY DEF OpsInv, OpsTypeOK, Cool, Ready, ProbeBegins, ProbeStore, ProbeReader, ProbeGoto
<1>3. cooled' \in [Kinds -> BOOLEAN]
  BY DEF OpsInv, OpsTypeOK, Cool, Ready, ProbeBegins, ProbeStore, ProbeReader, ProbeGoto, logVars
<1> QED
  BY <1>1, <1>2, <1>3 DEF OpsInv, OpsTypeOK, CallbackShape, WellMeansQuiet, DrainObserved,
     FailuresAccounted, LogAgreesWithReadiness

\* The steps of Worker that are silent, and what they may do to run's position.
LEMMA SilentInv ==
    OpsInv /\ (SilentSteps \/ FinishSteps \/ DrainSteps \/ EnvironmentSteps \/ UNCHANGED <<vars, opsVars>>) => OpsInv'
<1> SUFFICES ASSUME OpsInv,
                    SilentSteps \/ FinishSteps \/ DrainSteps \/ EnvironmentSteps \/ UNCHANGED <<vars, opsVars>>
             PROVE  UNCHANGED opsVars /\ (main' = main \/ main # "select")
  BY QuietSteps
<1> USE DEF mainVars
<1>1. CASE SilentSteps
  BY <1>1 DEF SilentSteps, Supervise, CheckStop, Create, Store, Recheck, RunHead, PollInterrupted,
              Unset, AfterAttempt, Backoff, SupGoto
<1>2. CASE FinishSteps
  BY <1>2 DEF FinishSteps, Finish, WorkDone, WorkFails, SupGoto
<1>3. CASE DrainSteps
  BY <1>3 DEF DrainSteps, LoadReader, StopReader, WaitForWorker, ShutdownServer, ClosePool
<1>4. CASE EnvironmentSteps
  BY <1>4 DEF EnvironmentSteps, Signal, Expire, PollRecords, PollFails, SupGoto
<1>5. CASE UNCHANGED <<vars, opsVars>>
  BY <1>5 DEF vars
<1> QED
  BY <1>1, <1>2, <1>3, <1>4, <1>5

(***************************************************************************)
(* OpsInv holds in every reachable state: for any operations and any       *)
(* number of failures, recoveries, readers and probes.                     *)
(***************************************************************************)
THEOREM OpsInvariance == OpsSpec => []OpsInv
<1>1. OpsInit => OpsInv
  <2> SUFFICES ASSUME OpsInit PROVE OpsInv
    OBVIOUS
  <2>1. OpsTypeOK /\ CallbackShape /\ WellMeansQuiet /\ DrainObserved
    BY DEF OpsInit, Init, OpsTypeOK, CallbackShape, WellMeansQuiet, DrainObserved
  <2>2. FailuresAccounted /\ LogAgreesWithReadiness
    BY DEF OpsInit, FailuresAccounted, LogAgreesWithReadiness, Kinds
  <2> QED
    BY <2>1, <2>2 DEF OpsInv
<1>2. OpsInv /\ [OpsNext]_<<vars, opsVars>> => OpsInv'
  BY StartupInv, OperationEndsInv, OperationReportedInv, ShutdownInv, ProbeInv, SilentInv
  DEF OpsNext, OpsSupervisor, OpsMain
<1> QED
  BY <1>1, <1>2, PTL DEF OpsSpec

(***************************************************************************)
(* Whatever Diagnostics suppresses in its cooldown, the messages logged    *)
(* and the counts still open account for every reported failure.           *)
(***************************************************************************)
THEOREM NoFailureIsForgotten == OpsSpec => []FailuresAccounted
<1>1. OpsInv => FailuresAccounted
  BY DEF OpsInv
<1> QED
  BY <1>1, OpsInvariance, PTL

(***************************************************************************)
(* Between callbacks ProcessingHealth and the log say the same of every    *)
(* operation, over any number of readers.                                  *)
(***************************************************************************)
THEOREM LogIsTrue == OpsSpec => []LogAgreesWithReadiness
<1>1. OpsInv => LogAgreesWithReadiness
  BY DEF OpsInv
<1> QED
  BY <1>1, OpsInvariance, PTL

(***************************************************************************)
(* A process that drains lets no new readiness request past its health     *)
(* check, although operations in progress still succeed.                   *)
(***************************************************************************)
THEOREM DrainStaysUnready == OpsSpec => DrainIsUnready
<1>1. ASSUME OpsInv, [OpsNext]_<<vars, opsVars>>, main # "select", probe = "idle" PROVE probe' = "idle"
  <2>1. broken # {}
    BY <1>1 DEF OpsInv, DrainObserved
  <2> QED
    BY <1>1, <2>1 DEF OpsNext, OpsSupervisor, OpsMain, StartupSteps, SilentSteps, FinishSteps,
       ShutdownObserved, DrainSteps, EnvironmentSteps, Cool, OperationEnds, OperationReported,
       Ready, ProbeBegins, ProbeStore, ProbeReader, opsVars
<1>2. OpsInv /\ [OpsNext]_<<vars, opsVars>> => [main # "select" /\ probe = "idle" => probe' = "idle"]_probe
  BY <1>1
<1> QED
  BY <1>2, OpsInvariance, PTL DEF OpsSpec, DrainIsUnready

(***************************************************************************)
(* Health, log and probes only watch: every step of Operations is a step   *)
(* of Worker or leaves it alone, so ExitIsClean, ExitIsQuiet and           *)
(* StopIsFinal hold of the observed process too.                           *)
(***************************************************************************)
THEOREM Observation == OpsSpec => Spec
<1>1. OpsInit => Init
  BY DEF OpsInit
<1>2. [OpsNext]_<<vars, opsVars>> => [Next]_vars
  BY DEF OpsNext, OpsSupervisor, OpsMain, StartupSteps, SilentSteps, FinishSteps, ShutdownObserved, DrainSteps,
     EnvironmentSteps, Cool, OperationEnds, OperationReported, Ready, ProbeBegins, ProbeStore, ProbeReader,
     ProbeGoto, Next, Supervisor, Main
<1> QED
  BY <1>1, <1>2, PTL DEF OpsSpec, Spec
=============================================================================
