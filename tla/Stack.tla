------------------------------- MODULE Stack --------------------------------
(***************************************************************************)
(* internal/runenv: an isolated Compose project for an experiment, started *)
(* by Start in at most three attempts (compose.go, deployment.go), and the *)
(* operations on it, each of which verifies the owner first.               *)
(*                                                                         *)
(* Docker is external: a project holds containers and volumes, of this run *)
(* or foreign ones (another run token), and some services run.  A command  *)
(* takes effect before it returns; one that fails may have done part of    *)
(* its work.  A new project's name is random, so nothing foreign is in it  *)
(* when Start creates it, but something may appear at any time after.      *)
(***************************************************************************)
EXTENDS Naturals

CONSTANTS
    Services,       \* "postgres" and "consumer" among them
    MaxAttempts,    \* 3 in Start
    MaxFaults,      \* bound: commands of an operation that fail by themselves
    MaxForeign      \* bound: foreign resources that appear

ASSUME StackAssumption ==
    /\ {"postgres", "consumer"} \subseteq Services
    /\ MaxAttempts \in Nat \ {0} /\ MaxFaults \in Nat /\ MaxForeign \in Nat

VARIABLES
    profile,        \* Options.Profile
    shared,         \* Options.OutputDirectory is given: all attempts use it
    at,             \* where Start is; "ready" and "failed" are its returns
    attempt,        \* the attempt, and its project
    cause,          \* why the attempt failed
    dirty,          \* the error Start returned is an errStartupCleanup
    configured,     \* the attempt's directory holds a .env
    interrupted,    \* the caller's context is done
    call,           \* the operation in progress: what, its step, its context
    own,            \* the resources of this run in each project
    live,           \* the services of the attempt's project that run
    foreign,        \* the foreign resources in the attempt's project
    seen,           \* history: those that were there when verifyOwner began
    harmed,         \* history: those of seen that a command then hit
    appeared,       \* how many foreign resources have appeared
    faults          \* how many commands have failed by themselves

startVars == <<at, attempt, cause, dirty, configured>>
dockerVars == <<own, live, foreign>>
histVars == <<seen, harmed>>
options == <<profile, shared>>
stackVars == <<options, startVars, interrupted, call, dockerVars, histVars, appeared, faults>>

Resources == {"container", "volume"}
Attempts == 1 .. MaxAttempts

Destroy == [act |-> "down", on |-> Services]
Stop == [act |-> "stop", on |-> Services]
SetServiceRunning(name, running) == [act |-> IF running THEN "start" ELSE "stop", on |-> {name}]
KillConsumer == [act |-> "kill", on |-> {"consumer"}]

Idle == [op |-> Stop, step |-> "idle", cleanup |-> FALSE]

-----------------------------------------------------------------------------
(* The environment.                                                        *)

Interrupt ==
    /\ ~interrupted
    /\ interrupted' = TRUE
    /\ UNCHANGED <<options, startVars, call, dockerVars, histVars, appeared, faults>>

\* Someone else creates a resource under the project's name.
ForeignAppears ==
    /\ at \notin {"prepare", "up"} /\ appeared < MaxForeign
    /\ \E r \in Resources \ foreign : foreign' = foreign \cup {r}
    /\ appeared' = appeared + 1
    /\ UNCHANGED <<options, startVars, interrupted, call, own, live, histVars, faults>>

-----------------------------------------------------------------------------
(* An operation: verifyOwner, then the command.                            *)

\* Mutant: the deferred cleanups inherit the caller's context.
CancelledAlways(c) == interrupted

\* Cleanups run under a context of their own, every other call under the
\* caller's.
Cancelled(c) == interrupted /\ ~c.cleanup

Begin(op, cleanup) ==
    /\ call' = [op |-> op, step |-> "containers", cleanup |-> cleanup]
    /\ seen' = foreign

Step(s) == call' = [call EXCEPT !.step = s]

CommandFails ==
    \/ Cancelled(call) /\ UNCHANGED faults
    \/ faults < MaxFaults /\ faults' = faults + 1

\* Mutant: only containers have their label compared.
MismatchIgnoresVolumes(kind) == kind = "container" /\ kind \in foreign

\* A label that is not this run's token.
Mismatch(kind) == kind \in foreign

\* Half of verifyOwner: list the resources of a kind and inspect each.
Verify(kind, from, to) ==
    /\ call.step = from
    /\ \/ ~Cancelled(call) /\ Step(IF Mismatch(kind) THEN "err" ELSE to) /\ UNCHANGED faults
       \/ CommandFails /\ Step("err")
    /\ UNCHANGED <<options, startVars, interrupted, dockerVars, histVars, appeared>>

VerifyOwner == Verify("container", "containers", "volumes") \/ Verify("volume", "volumes", "act")

\* What the command leaves, if it does all its work.
LiveAfter(op) == IF op.act = "start" THEN live \cup op.on ELSE live \ op.on
OwnAfter(op) == IF op.act = "down" THEN {} ELSE own[attempt]

\* down removes every resource of the project, the others act on containers.
Reach(op) == IF op.act = "down" THEN Resources ELSE {"container"}

Hit(rs) ==
    /\ harmed' = harmed \cup (seen \cap rs)
    /\ foreign' = IF call.op.act = "down" THEN foreign \ rs ELSE foreign

Act ==
    /\ call.step = "act"
    /\ ~Cancelled(call)
    /\ call.op.act = "start" => "container" \in own[attempt]
    /\ live' = LiveAfter(call.op)
    /\ own' = [own EXCEPT ![attempt] = OwnAfter(call.op)]
    /\ Hit(foreign \cap Reach(call.op))
    /\ Step("ok")
    /\ UNCHANGED <<options, startVars, interrupted, seen, appeared, faults>>

\* The command fails after part of its work.
ActFails ==
    /\ call.step = "act"
    /\ CommandFails \/ (call.op.act = "start" /\ "container" \notin own[attempt] /\ UNCHANGED faults)
    /\ LET full == LiveAfter(call.op)
       IN  \E l \in SUBSET (live \cup full), o \in SUBSET own[attempt], h \in SUBSET (foreign \cap Reach(call.op)) :
            /\ live \cap full \subseteq l /\ OwnAfter(call.op) \subseteq o
            /\ "container" \notin o => l = {}
            /\ live' = l /\ own' = [own EXCEPT ![attempt] = o] /\ Hit(h)
    /\ Step("err")
    /\ UNCHANGED <<options, startVars, interrupted, seen, appeared>>

Operate == VerifyOwner \/ Act \/ ActFails

-----------------------------------------------------------------------------
(* Start.                                                                  *)

\* Mutant: the failed cleanup of an attempt does not end the loop.
RetryableDirty(why, failed) == why = "port"

\* Start tries again after a lost port, unless the cleanup failed as well.
Retryable(why, failed) == why = "port" /\ ~failed

\* Mutant: the attempts are not counted.
NextAttemptUncounted == attempt' = attempt

NextAttempt == attempt' = attempt + 1

MoreAttempts == attempt < MaxAttempts

\* startAttempt returns an error: the decision at the end of Start's loop.
Return(why, failed) ==
    IF Retryable(why, failed) /\ MoreAttempts
    THEN /\ NextAttempt
         /\ at' = "prepare" /\ cause' = "none" /\ dirty' = FALSE
         /\ configured' = (shared /\ profile = "selfhost")
         /\ foreign' = {} /\ live' = {}
    ELSE /\ at' = "failed" /\ cause' = why /\ dirty' = failed
         /\ UNCHANGED <<attempt, configured, foreign, live>>

\* configure.sh refuses a directory that is configured, and is killed with the
\* caller's context.
Refused == profile = "selfhost" /\ (configured \/ interrupted)

\* The directory, configure.sh for selfhost, the reserved ports and run.env.
Prepare ==
    /\ at = "prepare" /\ ~Refused
    /\ at' = "up"
    /\ configured' = (profile = "selfhost")
    /\ UNCHANGED <<options, attempt, cause, dirty, interrupted, call, dockerVars, histVars, appeared, faults>>

\* Nothing exists yet, so startAttempt's cleanup does nothing.  No port may be
\* left to listen on.
PrepareFails ==
    /\ at = "prepare"
    /\ \E why \in IF Refused THEN {"other"} ELSE {"port", "other"} : Return(why, FALSE)
    /\ UNCHANGED <<options, interrupted, call, own, histVars, appeared, faults>>

Up ==
    /\ at = "up" /\ ~interrupted
    /\ at' = "discover"
    /\ own' = [own EXCEPT ![attempt] = Resources] /\ live' = Services
    /\ UNCHANGED <<options, attempt, cause, dirty, configured, interrupted, call, foreign, histVars, appeared, faults>>

\* up fails with any part of the project created; a port it lost is reported
\* as "address already in use".
UpFails ==
    /\ at = "up"
    /\ at' = "evidence"
    /\ \E o \in SUBSET Resources, l \in SUBSET Services :
        /\ "container" \notin o => l = {}
        /\ own' = [own EXCEPT ![attempt] = o] /\ live' = l
    /\ cause' \in IF interrupted THEN {"other"} ELSE {"port", "other"}
    /\ UNCHANGED <<options, attempt, dirty, configured, interrupted, call, foreign, histVars, appeared, faults>>

\* The three published ports and stack.json, or the root certificate and a
\* healthy answer within 15 seconds.
Discover ==
    /\ at = "discover" /\ ~interrupted
    /\ at' = "ready"
    /\ UNCHANGED <<options, attempt, cause, dirty, configured, interrupted, call, dockerVars, histVars, appeared, faults>>

\* A port is not published, or stack.json is not written.
DiscoverFails ==
    /\ at = "discover" /\ profile = "development"
    /\ at' = "evidence" /\ cause' = "other"
    /\ UNCHANGED <<options, attempt, dirty, configured, interrupted, call, dockerVars, histVars, appeared, faults>>

\* No healthy answer over TLS within the 15 seconds, or the context ends.
HealthFails ==
    /\ at = "discover" /\ profile = "selfhost"
    /\ at' = "evidence" /\ cause' = "other"
    /\ UNCHANGED <<options, attempt, dirty, configured, interrupted, call, dockerVars, histVars, appeared, faults>>

\* startAttempt's deferred cleanup: CollectEvidence, which reads, then Destroy.
CleanupBegins ==
    /\ at = "evidence"
    /\ at' = "cleanup"
    /\ Begin(Destroy, TRUE)
    /\ UNCHANGED <<options, attempt, cause, dirty, configured, interrupted, dockerVars, harmed, appeared, faults>>

CleanupEnds ==
    /\ at = "cleanup" /\ call.step \in {"ok", "err"}
    /\ Return(cause, call.step = "err")
    /\ call' = Idle
    /\ UNCHANGED <<options, interrupted, own, histVars, appeared, faults>>

Startup ==
    \/ Prepare \/ PrepareFails \/ Up \/ UpFails \/ Discover \/ DiscoverFails \/ HealthFails
    \/ CleanupBegins \/ CleanupEnds

StackInit ==
    /\ profile \in {"development", "selfhost"} /\ shared \in BOOLEAN
    /\ at = "prepare" /\ attempt = 1 /\ cause = "none" /\ dirty = FALSE /\ configured = FALSE
    /\ interrupted = FALSE /\ call = Idle
    /\ own = [p \in Attempts |-> {}] /\ live = {} /\ foreign = {}
    /\ seen = {} /\ harmed = {} /\ appeared = 0 /\ faults = 0

-----------------------------------------------------------------------------
OpType == [act : {"down", "stop", "start", "kill"}, on : SUBSET Services]
StepType == {"idle", "containers", "volumes", "act", "ok", "err"}
CallType == [op : OpType, step : StepType, cleanup : BOOLEAN]

StackTypeOK ==
    /\ profile \in {"development", "selfhost"} /\ shared \in BOOLEAN
    /\ at \in {"prepare", "up", "discover", "evidence", "cleanup", "ready", "failed"}
    /\ attempt \in Attempts /\ cause \in {"none", "port", "other"}
    /\ dirty \in BOOLEAN /\ configured \in BOOLEAN /\ interrupted \in BOOLEAN
    /\ call \in CallType
    /\ own \in [Attempts -> SUBSET Resources] /\ live \in SUBSET Services
    /\ foreign \in SUBSET Resources /\ seen \in SUBSET Resources /\ harmed \in SUBSET Resources
    /\ appeared \in 0 .. MaxForeign /\ faults \in 0 .. MaxFaults

(***************************************************************************)
(* Start never abandons resources in silence: no attempt but the last ever *)
(* leaves anything of its project, and an error that does not say that the *)
(* cleanup failed means that nothing is left at all, whatever part of the  *)
(* project up had created and whenever the caller was interrupted.         *)
(***************************************************************************)
NoLeak ==
    /\ \A p \in Attempts : p < attempt => own[p] = {}
    /\ at = "failed" /\ ~dirty => own[attempt] = {}

(***************************************************************************)
(* A resource of another owner that is in the project when an operation    *)
(* begins is not stopped or removed by it: the tests "check ownership,     *)
(* then control or remove only those resources" (docs/development.md:30).  *)
(* One that appears after its kind was verified is hit: verifyOwner and    *)
(* the command are not atomic.                                             *)
(***************************************************************************)
ForeignIsSafe == harmed = {}

-----------------------------------------------------------------------------
(* The stack's part of the inductive invariant of a demo.                  *)

\* Start calls an operation only to clean up.
StartCalls ==
    /\ at \in {"prepare", "up", "discover", "evidence", "failed"} => call.step = "idle"
    /\ at = "cleanup" => call.step # "idle" /\ call.op = Destroy /\ call.cleanup

\* What verifyOwner has found out about the resources that were there when it
\* began: those of the kinds it has passed are not foreign.
Verified ==
    /\ call.step \in {"containers", "volumes", "act"} => seen \subseteq foreign
    /\ call.step = "volumes" => "container" \notin seen
    /\ call.step = "act" => seen = {}

\* What each project holds.
Remains ==
    /\ \A p \in Attempts : p # attempt => own[p] = {}
    /\ at \in {"prepare", "up"} => own[attempt] = {}
    /\ at = "discover" => own[attempt] = Resources
    /\ at = "cleanup" /\ call.step = "ok" => own[attempt] = {}
    /\ at = "failed" /\ ~dirty => own[attempt] = {}

\* A cleanup fails because of a command or of someone else's resources only.
CleanupWorks ==
    /\ appeared = 0 => foreign = {}
    /\ faults = 0 /\ appeared = 0 /\ call.cleanup /\ call.op.act # "start" => call.step # "err"
    /\ faults = 0 /\ appeared = 0 /\ at = "failed" => ~dirty

StackInv == StackTypeOK /\ StartCalls /\ Verified /\ ForeignIsSafe /\ Remains /\ CleanupWorks
=============================================================================
