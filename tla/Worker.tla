------------------------------- MODULE Worker -------------------------------
(***************************************************************************)
(* The life of a consumer process: run and drainConsumer of                *)
(* cmd/consumer/main.go, Supervise and Drain of internal/service/          *)
(* lifecycle.go, and the polling loop of Reader.Run with StopPolling.      *)
(*                                                                         *)
(* The supervisor creates one reader after another, the main goroutine     *)
(* waits for a signal and stops whatever reader it finds.  The signal may  *)
(* arrive at any point of the creation of a reader.  What a reader does    *)
(* with the records of a poll is module Reader's subject.                  *)
(***************************************************************************)
EXTENDS Naturals

CONSTANT MaxFaults      \* bound: failures of the dependencies

ASSUME FaultAssumption == MaxFaults \in Nat

VARIABLES
    signal,     \* ctx is done: SIGTERM arrived
    cancelled,  \* workerCtx is done
    sup,        \* where the supervisor's goroutine is
    err,        \* the error of the last attempt, and then of Supervise
    reader,     \* the readers created so far; the last is the one in use
    current,    \* the pointer that main and the readiness check load, 0 for nil
    stopped,    \* the readers whose stop channel is closed
    main,       \* where run is
    loaded,     \* the reader that drainConsumer loaded
    expired,    \* the ten seconds of the drain are over
    result,     \* what run returns: no error so far
    faults

supVars == <<sup, err, reader, current>>
mainVars == <<main, loaded, result>>
vars == <<signal, cancelled, sup, err, reader, current, stopped, main, loaded, expired, result, faults>>

Alive == main # "exited"

-----------------------------------------------------------------------------
(* The environment.                                                        *)

Signal ==
    /\ Alive /\ ~signal
    /\ signal' = TRUE
    /\ UNCHANGED <<cancelled, supVars, stopped, mainVars, expired, faults>>

Expire ==
    /\ main \in {"load", "stop", "wait", "server", "close"} /\ ~expired
    /\ expired' = TRUE
    /\ UNCHANGED <<signal, cancelled, supVars, stopped, mainVars, faults>>

Fault == faults < MaxFaults /\ faults' = faults + 1

-----------------------------------------------------------------------------
(* The supervisor.                                                         *)

SupGoto(label) == sup' = label /\ UNCHANGED <<signal, cancelled, stopped, mainVars, expired>>

\* Supervise: the checks at the head of the loop.
Supervise ==
    /\ Alive /\ sup = "loop"
    /\ \/ cancelled /\ SupGoto("done") /\ err' = TRUE
       \/ ~cancelled /\ signal /\ SupGoto("done") /\ err' = FALSE
       \/ ~cancelled /\ ~signal /\ SupGoto("ping") /\ err' = FALSE
    /\ UNCHANGED <<reader, current, faults>>

\* store.Ping before a reader is created.
PingOk ==
    /\ Alive /\ sup = "ping"
    /\ SupGoto("check")
    /\ UNCHANGED <<err, reader, current, faults>>

PingFails ==
    /\ Alive /\ sup = "ping"
    /\ \/ Fault
       \/ cancelled /\ UNCHANGED faults
    /\ SupGoto("after")
    /\ err' = TRUE
    /\ UNCHANGED <<reader, current>>

\* A signal during the ping ends the attempt.
CheckStop ==
    /\ Alive /\ sup = "check"
    /\ SupGoto(IF signal THEN "after" ELSE "create")
    /\ UNCHANGED <<err, reader, current, faults>>

Create ==
    /\ Alive /\ sup = "create"
    /\ reader' = reader + 1
    /\ SupGoto("store")
    /\ UNCHANGED <<err, current, faults>>

CreateFails ==
    /\ Alive /\ sup = "create"
    /\ Fault
    /\ SupGoto("after")
    /\ err' = TRUE
    /\ UNCHANGED <<reader, current>>

\* Mutant: the signal is looked at before the reader is published, not after.
StoreUnchecked ==
    /\ Alive /\ sup = "store"
    /\ current' = reader
    /\ SupGoto("head")
    /\ UNCHANGED <<err, reader, faults>>

\* current.Store(reader): from here on main can find it.
Store ==
    /\ Alive /\ sup = "store"
    /\ current' = reader
    /\ SupGoto("recheck")
    /\ UNCHANGED <<err, reader, faults>>

\* A signal that came before the store was missed by main: stop it here.
Recheck ==
    /\ Alive /\ sup = "recheck"
    /\ stopped' = IF signal THEN stopped \cup {reader} ELSE stopped
    /\ sup' = "head"
    /\ UNCHANGED <<signal, cancelled, err, reader, current, mainVars, expired, faults>>

\* Mutant: the loop of Run looks at its context only.
RunHeadBlind ==
    /\ Alive /\ sup = "head"
    /\ \/ cancelled /\ SupGoto("unset") /\ err' = TRUE
       \/ ~cancelled /\ SupGoto("poll") /\ UNCHANGED err
    /\ UNCHANGED <<reader, current, faults>>

\* Run: the checks before each poll.
RunHead ==
    /\ Alive /\ sup = "head"
    /\ \/ cancelled /\ SupGoto("unset") /\ err' = TRUE
       \/ ~cancelled /\ reader \in stopped /\ SupGoto("unset") /\ err' = FALSE
       \/ ~cancelled /\ reader \notin stopped /\ SupGoto("poll") /\ UNCHANGED err
    /\ UNCHANGED <<reader, current, faults>>

\* Mutant: the cancelled poll of a stopped reader counts as a fetch failure.
PollStoppedFails ==
    /\ Alive /\ sup = "poll"
    /\ cancelled \/ reader \in stopped
    /\ SupGoto("unset") /\ err' = TRUE
    /\ UNCHANGED <<reader, current, faults>>

\* An idle poll is interrupted: by StopPolling, which is no error, or by the
\* end of the work context.
PollInterrupted ==
    /\ Alive /\ sup = "poll"
    /\ \/ cancelled /\ SupGoto("unset") /\ err' = TRUE
       \/ ~cancelled /\ reader \in stopped /\ SupGoto("unset") /\ err' = FALSE
    /\ UNCHANGED <<reader, current, faults>>

PollRecords ==
    /\ Alive /\ sup = "poll"
    /\ SupGoto("work")
    /\ UNCHANGED <<err, reader, current, faults>>

PollFails ==
    /\ Alive /\ sup = "poll"
    /\ Fault
    /\ SupGoto("unset") /\ err' = TRUE
    /\ UNCHANGED <<reader, current>>

\* processFetched returns nil, or the context's error once it is cancelled.
WorkDone ==
    /\ Alive /\ sup = "work"
    /\ \/ ~cancelled /\ SupGoto("head") /\ UNCHANGED err
       \/ cancelled /\ SupGoto("unset") /\ err' = TRUE
    /\ UNCHANGED <<reader, current, faults>>

WorkFails ==
    /\ Alive /\ sup = "work"
    /\ Fault
    /\ SupGoto("unset") /\ err' = TRUE
    /\ UNCHANGED <<reader, current>>

\* The deferred current.Store(nil), and then reader.Close().
Unset ==
    /\ Alive /\ sup = "unset"
    /\ current' = 0
    /\ SupGoto("after")
    /\ UNCHANGED <<err, reader, faults>>

\* Supervise after an attempt: stop, or back off.
AfterAttempt ==
    /\ Alive /\ sup = "after"
    /\ \/ cancelled /\ SupGoto("done") /\ err' = TRUE
       \/ ~cancelled /\ signal /\ SupGoto("done") /\ UNCHANGED err
       \/ ~cancelled /\ ~signal /\ SupGoto("sleep") /\ UNCHANGED err
    /\ UNCHANGED <<reader, current, faults>>

\* The select of the backoff: whatever is ready.
Backoff ==
    /\ Alive /\ sup = "sleep"
    /\ \/ signal /\ SupGoto("done") /\ UNCHANGED err
       \/ cancelled /\ SupGoto("done") /\ err' = TRUE
       \/ SupGoto("loop") /\ UNCHANGED err
    /\ UNCHANGED <<reader, current, faults>>

-----------------------------------------------------------------------------
(* The main goroutine.                                                     *)

MainGoto(label) == main' = label /\ UNCHANGED <<signal, supVars, expired>>

\* The metrics server fails: its error is returned after the drain.
ServeFails ==
    /\ main = "select" /\ Fault
    /\ MainGoto("load")
    /\ cancelled' = TRUE /\ result' = FALSE
    /\ UNCHANGED <<stopped, loaded>>

Interrupted ==
    /\ main = "select" /\ signal
    /\ MainGoto("load")
    /\ UNCHANGED <<cancelled, result, stopped, loaded, faults>>

\* drainConsumer: load the current reader, if any ...
LoadReader ==
    /\ main = "load"
    /\ loaded' = current
    /\ MainGoto("stop")
    /\ UNCHANGED <<cancelled, result, stopped, faults>>

\* ... and close its stop channel (StopPolling, once).
StopReader ==
    /\ main = "stop"
    /\ stopped' = IF loaded # 0 THEN stopped \cup {loaded} ELSE stopped
    /\ MainGoto("wait")
    /\ UNCHANGED <<cancelled, result, loaded, faults>>

\* Mutant: at the deadline the drain goes on as if it were complete.
WaitForgets ==
    /\ main = "wait"
    /\ \/ sup = "done" /\ result' = (result /\ ~err) /\ UNCHANGED cancelled
       \/ expired /\ cancelled' = TRUE /\ UNCHANGED result
    /\ MainGoto("server")
    /\ UNCHANGED <<stopped, loaded, faults>>

\* Mutant: drainConsumer has no deadline.
WaitForever ==
    /\ main = "wait"
    /\ sup = "done" /\ result' = (result /\ ~err)
    /\ MainGoto("server")
    /\ UNCHANGED <<cancelled, stopped, loaded, faults>>

\* Wait for the supervisor or the deadline.
WaitForWorker ==
    /\ main = "wait"
    /\ \/ sup = "done" /\ result' = (result /\ ~err) /\ UNCHANGED cancelled
       \/ expired /\ cancelled' = TRUE /\ result' = FALSE
    /\ MainGoto("server")
    /\ UNCHANGED <<stopped, loaded, faults>>

\* server.Shutdown waits for open requests, at most until the deadline.
ShutdownServer ==
    /\ main = "server"
    /\ \/ UNCHANGED result
       \/ expired /\ result' = FALSE
    /\ MainGoto("close")
    /\ UNCHANGED <<cancelled, stopped, loaded, faults>>

\* pool.Close waits for connections in use; Drain waits for it or the deadline.
ClosePool ==
    /\ main = "close"
    /\ \/ sup \notin {"ping", "work"} /\ UNCHANGED result
       \/ expired /\ result' = FALSE
    /\ MainGoto("exited")
    /\ UNCHANGED <<cancelled, stopped, loaded, faults>>

-----------------------------------------------------------------------------
Init ==
    /\ signal = FALSE /\ cancelled = FALSE
    /\ sup = "loop" /\ err = FALSE /\ reader = 0 /\ current = 0
    /\ stopped = {}
    /\ main = "select" /\ loaded = 0 /\ expired = FALSE /\ result = TRUE
    /\ faults = 0

\* The steps the supervisor's goroutine takes by itself, without new records.
Supervisor ==
    \/ Supervise \/ PingOk \/ PingFails \/ CheckStop \/ Create \/ CreateFails \/ Store \/ Recheck
    \/ RunHead \/ PollInterrupted \/ Unset \/ AfterAttempt \/ Backoff

Finish == WorkDone \/ WorkFails

Main == ServeFails \/ Interrupted \/ LoadReader \/ StopReader \/ WaitForWorker \/ ShutdownServer \/ ClosePool

Next == Signal \/ Expire \/ Supervisor \/ PollRecords \/ PollFails \/ Finish \/ Main

Spec == Init /\ [][Next]_vars

\* Both goroutines run.  That a poll's processing ends and that the drain's
\* deadline passes are premises of the properties that need them.
FairSpec == Spec /\ WF_vars(Supervisor) /\ WF_vars(Main)

-----------------------------------------------------------------------------
SupLabels == {"loop", "ping", "check", "create", "store", "recheck", "head", "poll", "work",
              "unset", "after", "sleep", "done"}
MainLabels == {"select", "load", "stop", "wait", "server", "close", "exited"}

TypeOK ==
    /\ signal \in BOOLEAN /\ cancelled \in BOOLEAN /\ expired \in BOOLEAN
    /\ err \in BOOLEAN /\ result \in BOOLEAN
    /\ sup \in SupLabels /\ main \in MainLabels
    /\ reader \in Nat /\ current \in Nat /\ loaded \in Nat /\ faults \in Nat
    /\ stopped \in SUBSET Nat

(***************************************************************************)
(* run returns nil only after Supervise has returned without an error:     *)
(* the work in progress at the signal was finished, not abandoned, and no  *)
(* reader is left ("Shutdown runs out of time: exits with failure instead  *)
(* of reporting a completed drain", docs/delivery.md).                     *)
(***************************************************************************)
CleanExit == main = "exited" /\ result => sup = "done" /\ ~err /\ ~cancelled /\ current = 0

(***************************************************************************)
(* A signal that meets no failure and no deadline is a clean exit,         *)
(* whatever the supervisor was doing: interrupting an idle poll is not     *)
(* reported as an error ("StopPolling interrupts an idle poll without      *)
(* cancelling the current write").                                         *)
(***************************************************************************)
NoFalseAlarm == main = "exited" /\ faults = 0 /\ ~expired => result

(***************************************************************************)
(* Once drainConsumer waits, no reader starts another poll, be it the one  *)
(* main found or one that was being created when the signal came.          *)
(***************************************************************************)
NoPollAfterStop ==
    [][sup # "poll" /\ main \in {"wait", "server", "close"} => sup' # "poll"]_vars

(***************************************************************************)
(* No stop is lost: when the processing of a poll ends (its cycle has a    *)
(* deadline of its own), a signal ends the process, wherever it found the  *)
(* supervisor, without the help of the drain's deadline.                   *)
(***************************************************************************)
StopIsNotLost == WF_vars(Finish) => (signal ~> main = "exited")

(***************************************************************************)
(* The drain is bounded: when its deadline passes, a signal ends the       *)
(* process even if the work in progress hangs.                             *)
(***************************************************************************)
DrainIsBounded == WF_vars(Expire) => (signal ~> main = "exited")

-----------------------------------------------------------------------------
(***************************************************************************)
(* The inductive invariant.  A reader in use that the drain could have     *)
(* missed is stopped by the supervisor itself: main has the signal or has  *)
(* cancelled the work before it loads the pointer, and the supervisor      *)
(* looks at both after it has stored the pointer.                          *)
(***************************************************************************)
Polling == {"head", "poll", "work"}

PointerShape ==
    /\ sup \in {"recheck", "unset"} \cup Polling => current = reader /\ reader # 0
    /\ sup \notin {"recheck", "unset"} \cup Polling => current = 0
    /\ sup = "store" => reader # 0

StopReachesReader ==
    /\ main # "select" => signal \/ cancelled
    /\ main = "stop" /\ sup \in Polling /\ ~cancelled => loaded = reader \/ reader \in stopped
    /\ main \in {"wait", "server", "close"} /\ sup \in Polling => cancelled \/ reader \in stopped

DrainShape ==
    /\ cancelled => ~result
    /\ main \in {"server", "close", "exited"} /\ result => sup = "done" /\ ~err
    /\ main \in {"select", "load", "stop", "wait"} /\ faults = 0 => result /\ ~cancelled
    /\ faults = 0 /\ ~expired => result /\ ~cancelled /\ ~err

\* The conjunction that every step of the two goroutines preserves.
Inv == TypeOK /\ PointerShape /\ StopReachesReader /\ DrainShape
=============================================================================
