----------------------------- MODULE Operations -----------------------------
(***************************************************************************)
(* What an operator sees of a consumer process while module Worker runs:   *)
(* ProcessingHealth behind /ready (internal/service/health.go), the        *)
(* throttled log of Diagnostics (internal/service/diagnostics.go), and the *)
(* callback of cmd/consumer/main.go that feeds both with the outcome of    *)
(* every storage, quarantine and progress operation.                       *)
(*                                                                         *)
(* The health and the log outlive the readers.  A clock appears only in    *)
(* "is the last message ten seconds old", so the model keeps that answer.  *)
(* The probes of the store and the broker are external.                    *)
(***************************************************************************)
EXTENDS Worker, Functions

CONSTANTS
    OpKinds,        \* "storage", "quarantine", "progress"
    MaxFailures     \* bound: operations that fail

ASSUME FailureAssumption ==
    MaxFailures \in Nat /\ OpKinds \subseteq {"storage", "quarantine", "progress"}

Kinds == OpKinds \cup {"startup"}

VARIABLES
    broken,     \* ProcessingHealth.failed
    diag,       \* Diagnostics.states: failed and suppressed, per kind
    cooled,     \* the cooldown since the kind's last failure message is over
    callback,   \* the operation whose outcome is observed but not yet reported
    probe,      \* where a /ready request is
    failures,   \* history: the failures reported of each kind
    told        \* history: the failures the messages speak of

logVars == <<diag, cooled, failures, told>>
opsVars == <<broken, logVars, callback, probe>>

NoCallback == [kind |-> "none", bad |-> FALSE]

-----------------------------------------------------------------------------
(* Health and log.                                                         *)

\* Mutant: a success clears every failure.
ObserveClearsAll(kind, bad) == broken' = IF bad THEN broken \cup {kind} ELSE {}

Observe(kind, bad) == broken' = IF bad THEN broken \cup {kind} ELSE broken \ {kind}

\* Mutant: the message of a recovery leaves the suppressed failures out.
MessageForgets(s, bad) == IF bad THEN 1 + s.suppressed ELSE 0

\* The failures a message accounts for: its own and those it says were
\* suppressed.
Message(s, bad) == s.suppressed + (IF bad THEN 1 ELSE 0)

\* Mutant: within the cooldown a recovery is counted too, instead of logged.
QuietAlways(kind, bad) == diag[kind].failed /\ ~cooled[kind]

\* A repeated failure within the cooldown.
Quiet(kind, bad) == bad /\ diag[kind].failed /\ ~cooled[kind]

\* Report: silence for a success as usual, a count within the cooldown, or a
\* message and a new state.
Report(kind, bad) ==
    LET s == diag[kind]
        speaks == (bad \/ s.failed) /\ ~Quiet(kind, bad)
    IN  /\ diag' = [diag EXCEPT ![kind] =
                        IF Quiet(kind, bad) THEN [s EXCEPT !.suppressed = @ + 1]
                        ELSE [failed |-> bad, suppressed |-> 0]]
        /\ cooled' = [cooled EXCEPT ![kind] = @ /\ ~speaks]
        /\ told' = [told EXCEPT ![kind] = IF speaks THEN @ + Message(s, bad) ELSE @]
        /\ failures' = [failures EXCEPT ![kind] = IF bad THEN @ + 1 ELSE @]

\* Ten seconds have passed since the kind's last message.
Cool ==
    /\ \E k \in Kinds : ~cooled[k] /\ diag[k].failed /\ cooled' = [cooled EXCEPT ![k] = TRUE]
    /\ UNCHANGED <<vars, broken, diag, failures, told, callback, probe>>

-----------------------------------------------------------------------------
(* The callback of the reader.                                             *)

\* An operation ends while the reader works: health.Observe ...
OperationEnds ==
    /\ Alive /\ sup = "work" /\ callback = NoCallback
    /\ \E k \in OpKinds, bad \in BOOLEAN :
        /\ bad => SumFunctionOnSet(failures, OpKinds) < MaxFailures
        /\ Observe(k, bad)
        /\ callback' = [kind |-> k, bad |-> bad]
    /\ UNCHANGED <<vars, logVars, probe>>

\* ... and then diagnostics.Report.
OperationReported ==
    /\ Alive /\ callback # NoCallback
    /\ Report(callback.kind, callback.bad)
    /\ callback' = NoCallback
    /\ UNCHANGED <<vars, broken, probe>>

-----------------------------------------------------------------------------
(* readiness: the health first, then the store, then the reader in use.    *)

ProbeGoto(label) == probe' = label /\ UNCHANGED <<vars, broken, logVars, callback>>

\* health.Ready(): without it the answer is 503.
ProbeBegins == Alive /\ probe = "idle" /\ broken = {} /\ ProbeGoto("store")

\* The store answers within the second, or the probe ends with 503.
ProbeStore == Alive /\ probe = "store" /\ (ProbeGoto("reader") \/ ProbeGoto("idle"))

\* The pointer may be nil while the supervisor creates a reader; Reader.Ping
\* asks for the metadata of both topics.  The answer is 200 or 503.
ProbeReader == Alive /\ probe = "reader" /\ ProbeGoto("idle")

Ready == ProbeBegins \/ ProbeStore \/ ProbeReader

-----------------------------------------------------------------------------
(* The worker's steps, with what they report.                              *)

StartupSteps ==
    /\ (PingOk /\ Report("startup", FALSE)) \/ ((PingFails \/ CreateFails) /\ Report("startup", TRUE))
    /\ UNCHANGED <<broken, callback, probe>>

SilentSteps ==
    /\ \/ Supervise \/ CheckStop \/ Create \/ Store \/ Recheck \/ RunHead \/ PollInterrupted
       \/ Unset \/ AfterAttempt \/ Backoff
    /\ UNCHANGED opsVars

\* The processing of a poll ends between callbacks.
FinishSteps == callback = NoCallback /\ Finish /\ UNCHANGED opsVars

\* health.Observe("shutdown", context.Canceled).
ShutdownObserved == (Interrupted \/ ServeFails) /\ Observe("shutdown", TRUE) /\ UNCHANGED <<logVars, callback, probe>>

DrainSteps ==
    /\ LoadReader \/ StopReader \/ WaitForWorker \/ ShutdownServer \/ ClosePool
    /\ UNCHANGED opsVars

EnvironmentSteps == (Signal \/ Expire \/ PollRecords \/ PollFails) /\ UNCHANGED opsVars

OpsSupervisor == StartupSteps \/ SilentSteps
OpsMain == ShutdownObserved \/ DrainSteps

OpsInit ==
    /\ Init
    /\ broken = {}
    /\ diag = [k \in Kinds |-> [failed |-> FALSE, suppressed |-> 0]]
    /\ cooled = [k \in Kinds |-> FALSE]
    /\ callback = NoCallback /\ probe = "idle"
    /\ failures = [k \in Kinds |-> 0] /\ told = [k \in Kinds |-> 0]

OpsNext == OpsSupervisor \/ FinishSteps \/ OpsMain \/ EnvironmentSteps \/ Cool
    \/ OperationEnds \/ OperationReported \/ Ready

\* Both goroutines run, and a callback ends.
OpsSpec ==
    /\ OpsInit /\ [][OpsNext]_<<vars, opsVars>>
    /\ WF_<<vars, opsVars>>(OpsSupervisor) /\ WF_<<vars, opsVars>>(OpsMain)
    /\ WF_<<vars, opsVars>>(OperationReported)

-----------------------------------------------------------------------------
(***************************************************************************)
(* No failure is lost in the throttling: the messages logged so far speak  *)
(* of every reported failure except the ones still being counted, which    *)
(* the kind's next message will name ("The next message reports how many   *)
(* were suppressed, and recovery is logged once", docs/operations.md:42).  *)
(***************************************************************************)
FailuresAccounted == \A k \in Kinds : failures[k] = told[k] + diag[k].suppressed

(***************************************************************************)
(* The log and the readiness agree, whatever readers came and went: after  *)
(* its callback an operation keeps the process unready exactly when a      *)
(* failure of it was logged that no recovery message has followed.         *)
(***************************************************************************)
LogAgreesWithReadiness ==
    \A k \in OpKinds : callback.kind # k => (k \in broken <=> diag[k].failed)

(***************************************************************************)
(* Once run has begun to drain, no new readiness request gets past the     *)
(* health check, although the work in progress goes on and its operations  *)
(* succeed.                                                                *)
(***************************************************************************)
DrainIsUnready == [][main # "select" /\ probe = "idle" => probe' = "idle"]_probe

-----------------------------------------------------------------------------
(***************************************************************************)
(* The inductive invariant.  Between its two halves a callback has told    *)
(* the health what it will tell the log; a kind that is well has nothing   *)
(* left to count; and the shutdown that the drain observed stays among the *)
(* failures, because operations only delete their own entry.               *)
(***************************************************************************)
OpsTypeOK ==
    /\ broken \subseteq OpKinds \cup {"shutdown"}
    /\ diag \in [Kinds -> [failed : BOOLEAN, suppressed : Nat]]
    /\ cooled \in [Kinds -> BOOLEAN]
    /\ callback \in [kind : OpKinds, bad : BOOLEAN] \cup {NoCallback}
    /\ probe \in {"idle", "store", "reader"}
    /\ failures \in [Kinds -> Nat] /\ told \in [Kinds -> Nat]

CallbackShape == callback # NoCallback => (callback.kind \in broken <=> callback.bad)
WellMeansQuiet == \A k \in Kinds : ~diag[k].failed => diag[k].suppressed = 0
DrainObserved == main # "select" => "shutdown" \in broken

\* The conjunction that every step of the worker, a callback and a probe preserves.
OpsInv ==
    /\ OpsTypeOK /\ CallbackShape /\ WellMeansQuiet /\ DrainObserved
    /\ FailuresAccounted /\ LogAgreesWithReadiness
=============================================================================
