----------------------------- MODULE DemoProofs -----------------------------
(***************************************************************************)
(* What Stack and Demo promise, for any services, number of attempts,      *)
(* inputs, failing commands and foreign resources: Inv of Demo is          *)
(* inductive.  Its stack part (StackInv) is shown for the steps of Start   *)
(* and of an operation first, then for the calls a demo or a user makes.   *)
(***************************************************************************)
EXTENDS Demo, TLAPS

-----------------------------------------------------------------------------
(* Calls.                                                                  *)

\* The operations are operations, and an idle call is a call.
LEMMA OperationTypes ==
    /\ Destroy \in OpType /\ Stop \in OpType /\ KillConsumer \in OpType
    /\ \A n \in Services, b \in BOOLEAN : SetServiceRunning(n, b) \in OpType
    /\ Idle \in CallType /\ Idle.step = "idle" /\ ~Idle.cleanup
    /\ Destroy.act = "down" /\ Destroy.on = Services /\ Stop.act = "stop" /\ Stop.on = Services
BY StackAssumption DEF Destroy, Stop, KillConsumer, SetServiceRunning, Idle, OpType, CallType, StepType

\* A step of an operation changes nothing of the call but the step.
LEMMA StepKeeps ==
    ASSUME call \in CallType, NEW s \in StepType, Step(s)
    PROVE  call' \in CallType /\ call'.step = s /\ call'.op = call.op /\ call'.cleanup = call.cleanup
BY DEF Step, CallType

\* Begin puts an operation at its first step.
LEMMA BeginCalls ==
    ASSUME NEW op \in OpType, NEW clean \in BOOLEAN, Begin(op, clean)
    PROVE  call' \in CallType /\ call'.step = "containers" /\ call'.op = op /\ call'.cleanup = clean
BY DEF Begin, CallType, StepType

\* Removing the resources of a project leaves the others' alone.
LEMMA OwnSet ==
    ASSUME own \in [Attempts -> SUBSET Resources], attempt \in Attempts,
           NEW o \in SUBSET Resources, own' = [own EXCEPT ![attempt] = o]
    PROVE  /\ own' \in [Attempts -> SUBSET Resources] /\ own'[attempt] = o
           /\ \A p \in Attempts : p # attempt => own'[p] = own[p]
OBVIOUS

\* A command fails by itself, which is counted, or its context is done, which
\* a cleanup's is not.
LEMMA FailureCounted ==
    ASSUME faults \in 0 .. MaxFaults, CommandFails
    PROVE  faults' \in 0 .. MaxFaults /\ (call.cleanup => faults' # 0) /\ (faults' = 0 => faults = 0)
BY StackAssumption DEF CommandFails, Cancelled

-----------------------------------------------------------------------------
(* The steps of an operation.                                              *)

\* Half of verifyOwner.
LEMMA VerifyStep ==
    ASSUME StackInv, NEW kind, NEW from, NEW to, Verify(kind, from, to),
           <<kind, from, to>> \in {<<"container", "containers", "volumes">>, <<"volume", "volumes", "act">>}
    PROVE  /\ StackInv' /\ (call'.step = "err" \/ call'.step = to) /\ call'.op = call.op
           /\ call'.cleanup = call.cleanup /\ (faults' = 0 => faults = 0)
           /\ call.step # "idle" /\ call'.step \notin {"idle", "ok"}
<1> USE DEF StackInv, StackTypeOK
<1>0. /\ kind \in Resources /\ from \in {"containers", "volumes"} /\ to \in {"volumes", "act"}
      /\ from \in StepType /\ to \in StepType /\ "err" \in StepType
      /\ (kind = "container" => from = "containers" /\ to = "volumes")
      /\ (kind = "volume" => from = "volumes" /\ to = "act")
  BY DEF Resources, StepType
<1>1. /\ call.step = from
      /\ UNCHANGED <<options, startVars, interrupted, dockerVars, histVars, appeared>>
  BY DEF Verify
<1>2. \/ Step("err") /\ CommandFails
      \/ Step("err") /\ Mismatch(kind) /\ faults' = faults
      \/ Step(to) /\ ~Mismatch(kind) /\ faults' = faults
  BY DEF Verify
<1>3. /\ call' \in CallType /\ call'.op = call.op /\ call'.cleanup = call.cleanup
      /\ call'.step \in {"err", to}
  BY <1>0, <1>2, StepKeeps
<1>4. /\ faults' \in 0 .. MaxFaults /\ (faults' = 0 => faults = 0)
      /\ (call'.step = "err" /\ call.cleanup => faults' # 0 \/ kind \in foreign)
  BY <1>0, <1>2, FailureCounted, StepKeeps DEF Mismatch
<1>5. call'.step = to => kind \notin foreign
  BY <1>0, <1>2, StepKeeps DEF Mismatch
<1>6. StackTypeOK'
  BY <1>1, <1>3, <1>4 DEF options, startVars, dockerVars, histVars
<1>7. StartCalls' /\ ForeignIsSafe' /\ Remains'
  BY <1>0, <1>1, <1>3 DEF StartCalls, ForeignIsSafe, Remains, options, startVars, dockerVars, histVars
<1>8. Verified'
  BY <1>0, <1>1, <1>3, <1>5 DEF Verified, dockerVars, histVars, Resources
<1>9. CleanupWorks'
  BY <1>0, <1>1, <1>3, <1>4 DEF CleanupWorks, startVars, dockerVars
<1> QED
  BY <1>0, <1>1, <1>3, <1>4, <1>6, <1>7, <1>8, <1>9

\* What a command may leave of the stack, and what it hits.
LEMMA CommandStep ==
    ASSUME StackInv, Act \/ ActFails
    PROVE  /\ StackInv' /\ call'.op = call.op /\ call'.cleanup = call.cleanup
           /\ (faults' = 0 => faults = 0) /\ call.step = "act"
           /\ UNCHANGED <<options, startVars, interrupted, appeared>>
           /\ \/ /\ call'.step = "ok" /\ live' = LiveAfter(call.op)
                 /\ own'[attempt] = OwnAfter(call.op)
              \/ call'.step = "err" /\ OwnAfter(call.op) \subseteq own'[attempt]
           /\ own'[attempt] \subseteq own[attempt]
<1> USE DEF StackInv, StackTypeOK
<1>0. /\ call.step = "act" /\ seen = {} /\ harmed = {}
      /\ UNCHANGED <<options, startVars, interrupted, seen, appeared>>
  BY DEF Act, ActFails, Verified, ForeignIsSafe
<1>1. PICK o \in SUBSET own[attempt], l \in SUBSET Services, h \in SUBSET foreign :
        /\ own' = [own EXCEPT ![attempt] = o] /\ live' = l /\ Hit(h)
        /\ \/ /\ Step("ok") /\ l = LiveAfter(call.op) /\ o = OwnAfter(call.op) /\ faults' = faults
           \/ /\ Step("err") /\ OwnAfter(call.op) \subseteq o
              /\ CommandFails \/ (call.op.act = "start" /\ UNCHANGED faults)
  <2>0. LiveAfter(call.op) \subseteq Services /\ OwnAfter(call.op) \subseteq own[attempt]
    BY DEF LiveAfter, OwnAfter, CallType, OpType
  <2>1. CASE Act
    BY <2>0, <2>1 DEF Act
  <2>2. CASE ActFails
    BY <2>0, <2>2 DEF ActFails
  <2> QED
    BY <2>1, <2>2
<1>2. /\ own' \in [Attempts -> SUBSET Resources] /\ own'[attempt] = o
      /\ \A p \in Attempts : p # attempt => own'[p] = own[p]
  BY <1>1, OwnSet
<1>3. /\ call' \in CallType /\ call'.op = call.op /\ call'.cleanup = call.cleanup
      /\ \/ call'.step = "ok" /\ l = LiveAfter(call.op) /\ o = OwnAfter(call.op) /\ faults' = faults
         \/ /\ call'.step = "err" /\ OwnAfter(call.op) \subseteq o
            /\ CommandFails \/ (call.op.act = "start" /\ UNCHANGED faults)
  BY <1>1, StepKeeps DEF StepType
<1>4. /\ faults' \in 0 .. MaxFaults /\ (faults' = 0 => faults = 0)
      /\ (call'.step = "err" /\ call.cleanup /\ call.op.act # "start" => faults' # 0)
  BY <1>3, FailureCounted
<1>5. harmed' = {} /\ foreign' \subseteq foreign
  BY <1>0, <1>1 DEF Hit
<1>6. StackTypeOK'
  BY <1>0, <1>1, <1>2, <1>3, <1>4, <1>5 DEF options, startVars
<1>7. StartCalls'
  BY <1>0, <1>3 DEF StartCalls, startVars
<1>8. Verified' /\ ForeignIsSafe'
  BY <1>3, <1>5 DEF Verified, ForeignIsSafe
<1>9. Remains'
  <2>1. at \notin {"prepare", "up", "discover", "failed"} /\ (at = "cleanup" => call.op = Destroy)
    BY <1>0 DEF StartCalls
  <2>2. at = "cleanup" /\ call'.step = "ok" => o = {}
    BY <2>1, <1>3, OperationTypes DEF OwnAfter
  <2> QED
    BY <2>1, <2>2, <1>0, <1>2 DEF Remains, startVars
<1>10. CleanupWorks'
  BY <1>0, <1>3, <1>4, <1>5 DEF CleanupWorks, startVars, StartCalls
<1> QED
  BY <1>0, <1>1, <1>2, <1>3, <1>4, <1>6, <1>7, <1>8, <1>9, <1>10

-----------------------------------------------------------------------------
(* The environment and Start.                                              *)

\* The caller is interrupted, or a foreign resource appears.
LEMMA DisturbStep ==
    ASSUME StackInv, Interrupt \/ ForeignAppears
    PROVE  /\ StackInv' /\ UNCHANGED <<options, startVars, call, own, live, faults>>
           /\ (appeared' = 0 => appeared = 0)
<1> USE DEF StackInv, StackTypeOK
<1>1. CASE Interrupt
  <2>1. UNCHANGED <<options, startVars, call, dockerVars, histVars, appeared, faults>> /\ interrupted' = TRUE
    BY <1>1 DEF Interrupt
  <2> QED
    BY <2>1 DEF options, startVars, dockerVars, histVars, StartCalls, Verified, ForeignIsSafe, Remains, CleanupWorks
<1>2. CASE ForeignAppears
  <2>1. /\ UNCHANGED <<options, startVars, interrupted, call, own, live, histVars, faults>>
        /\ foreign \subseteq foreign' /\ foreign' \subseteq Resources
        /\ appeared' \in 0 .. MaxForeign /\ appeared' # 0
    BY <1>2, StackAssumption DEF ForeignAppears
  <2>2. StackTypeOK'
    BY <2>1 DEF options, startVars, histVars
  <2>3. StartCalls' /\ Verified' /\ ForeignIsSafe' /\ Remains' /\ CleanupWorks'
    BY <2>1 DEF startVars, histVars, StartCalls, Verified, ForeignIsSafe, Remains, CleanupWorks
  <2> QED
    BY <2>1, <2>2, <2>3
<1> QED
  BY <1>1, <1>2

\* startAttempt has returned an error, with nothing left of the attempt or
\* with the error of a cleanup.
LEMMA ReturnStep ==
    ASSUME StackInv, NEW why \in {"port", "other", "none"}, NEW bad \in BOOLEAN, Return(why, bad),
           UNCHANGED <<options, interrupted, own, histVars, appeared, faults>>,
           call' \in CallType, call'.step = "idle", call'.cleanup = FALSE \/ call' = call,
           ~bad => own[attempt] = {},
           bad => faults # 0 \/ appeared # 0
    PROVE  StackInv' /\ at' # "ready"
<1> USE DEF StackInv, StackTypeOK
<1>1. CASE Retryable(why, bad) /\ MoreAttempts
  <2>1. /\ attempt' = attempt + 1 /\ at' = "prepare" /\ cause' = "none" /\ dirty' = FALSE
        /\ configured' \in BOOLEAN /\ foreign' = {} /\ live' = {} /\ ~bad
    BY <1>1 DEF Return, NextAttempt, Retryable
  <2>2. attempt' \in Attempts /\ attempt' # attempt
    BY <1>1, <2>1, StackAssumption DEF Attempts, MoreAttempts
  <2>3. StackTypeOK'
    BY <2>1, <2>2 DEF options, histVars
  <2>4. Remains'
    BY <2>1, <2>2 DEF Remains
  <2> QED
    BY <2>1, <2>3, <2>4 DEF StartCalls, Verified, ForeignIsSafe, CleanupWorks, histVars
<1>2. CASE ~(Retryable(why, bad) /\ MoreAttempts)
  <2>1. /\ at' = "failed" /\ cause' = why /\ dirty' = bad
        /\ UNCHANGED <<attempt, configured, foreign, live>>
    BY <1>2 DEF Return
  <2>2. StackTypeOK'
    BY <2>1 DEF options, histVars
  <2>3. Remains'
    BY <2>1 DEF Remains
  <2> QED
    BY <2>1, <2>2, <2>3 DEF StartCalls, Verified, ForeignIsSafe, CleanupWorks, histVars
<1> QED
  BY <1>1, <1>2

\* Every step of Start.
LEMMA StartupStep ==
    ASSUME StackInv, Startup
    PROVE  /\ StackInv' /\ UNCHANGED options /\ at \notin {"ready", "failed"}
           /\ (at' = "ready" => call'.step = "idle" /\ own'[attempt'] = Resources)
<1> USE DEF StackInv, StackTypeOK
<1>1. CASE Prepare \/ Discover \/ DiscoverFails \/ HealthFails
  <2>1. /\ UNCHANGED <<options, attempt, dirty, interrupted, call, dockerVars, histVars, appeared, faults>>
        /\ <<at, at'>> \in {<<"prepare", "up">>, <<"discover", "ready">>, <<"discover", "evidence">>}
        /\ configured' \in BOOLEAN /\ cause' \in {"none", "port", "other"}
    BY <1>1 DEF Prepare, Discover, DiscoverFails, HealthFails
  <2>2. StackTypeOK'
    BY <2>1 DEF options, dockerVars, histVars
  <2>3. StartCalls' /\ Verified' /\ ForeignIsSafe' /\ CleanupWorks'
    BY <2>1 DEF dockerVars, histVars, StartCalls, Verified, ForeignIsSafe, CleanupWorks
  <2>4. Remains' /\ (at' = "ready" => call'.step = "idle" /\ own'[attempt'] = Resources)
    BY <2>1 DEF dockerVars, Remains, StartCalls
  <2> QED
    BY <2>1, <2>2, <2>3, <2>4
<1>2. CASE Up \/ UpFails
  <2>1. /\ UNCHANGED <<options, attempt, dirty, configured, interrupted, call, foreign, histVars, appeared, faults>>
        /\ at = "up" /\ at' \in {"discover", "evidence"} /\ cause' \in {"none", "port", "other"}
    BY <1>2 DEF Up, UpFails
  <2>2. PICK o \in SUBSET Resources : own' = [own EXCEPT ![attempt] = o] /\ (at' = "discover" => o = Resources)
    BY <1>2 DEF Up, UpFails
  <2>3. live' \in SUBSET Services
    BY <1>2 DEF Up, UpFails
  <2>4. /\ own' \in [Attempts -> SUBSET Resources] /\ own'[attempt] = o
        /\ \A p \in Attempts : p # attempt => own'[p] = own[p]
    BY <2>2, OwnSet
  <2>5. StackTypeOK'
    BY <2>1, <2>3, <2>4 DEF options, histVars
  <2>6. StartCalls' /\ Verified' /\ ForeignIsSafe' /\ CleanupWorks'
    BY <2>1 DEF histVars, StartCalls, Verified, ForeignIsSafe, CleanupWorks
  <2>7. Remains'
    BY <2>1, <2>2, <2>4 DEF Remains
  <2> QED
    BY <2>1, <2>5, <2>6, <2>7
<1>3. CASE PrepareFails
  <2>1. /\ at = "prepare" /\ call.step = "idle" /\ own[attempt] = {}
        /\ UNCHANGED <<options, interrupted, call, own, histVars, appeared, faults>>
    BY <1>3 DEF PrepareFails, StartCalls, Remains
  <2>2. PICK why \in {"port", "other"} : Return(why, FALSE)
    BY <1>3 DEF PrepareFails
  <2>3. StackInv' /\ at' # "ready"
    BY <2>1, <2>2, ReturnStep
  <2> QED
    BY <2>1, <2>3
<1>4. CASE CleanupBegins
  <2>1. /\ UNCHANGED <<options, attempt, cause, dirty, configured, interrupted, dockerVars, harmed, appeared, faults>>
        /\ at = "evidence" /\ at' = "cleanup" /\ Begin(Destroy, TRUE) /\ seen' = foreign
    BY <1>4 DEF CleanupBegins, Begin
  <2>2. call' \in CallType /\ call'.step = "containers" /\ call'.op = Destroy /\ call'.cleanup = TRUE
    BY <2>1, BeginCalls, OperationTypes
  <2>3. StackTypeOK'
    BY <2>1, <2>2 DEF options, dockerVars
  <2>4. StartCalls' /\ Verified' /\ ForeignIsSafe' /\ CleanupWorks' /\ Remains'
    BY <2>1, <2>2 DEF dockerVars, StartCalls, Verified, ForeignIsSafe, CleanupWorks, Remains
  <2> QED
    BY <2>1, <2>3, <2>4
<1>5. CASE CleanupEnds
  <2>1. /\ at = "cleanup" /\ call.step \in {"ok", "err"} /\ call' = Idle
        /\ Return(cause, call.step = "err")
        /\ UNCHANGED <<options, interrupted, own, histVars, appeared, faults>>
    BY <1>5 DEF CleanupEnds
  <2>2. call.op = Destroy /\ call.cleanup /\ call.op.act # "start"
    BY <2>1, OperationTypes DEF StartCalls
  <2>3. call.step = "err" => faults # 0 \/ appeared # 0
    BY <2>2 DEF CleanupWorks
  <2>4. call.step # "err" => own[attempt] = {}
    BY <2>1 DEF Remains
  <2>5. call' \in CallType /\ call'.step = "idle" /\ call'.cleanup = FALSE
    BY <2>1, OperationTypes DEF Idle
  <2>6. StackInv' /\ at' # "ready"
    BY <2>1, <2>3, <2>4, <2>5, ReturnStep
  <2> QED
    BY <2>1, <2>6
<1> QED
  BY <1>1, <1>2, <1>3, <1>4, <1>5 DEF Startup

-----------------------------------------------------------------------------
(* The demo.                                                               *)

\* Nothing of the stack changes but, perhaps, the count of failures.
LEMMA StackRests ==
    ASSUME StackInv, UNCHANGED <<options, startVars, interrupted, call, dockerVars, histVars, appeared>>,
           faults' \in 0 .. MaxFaults, faults' = 0 => faults = 0
    PROVE  StackInv'
<1> USE DEF StackInv, StackTypeOK
<1>1. StackTypeOK'
  BY DEF options, startVars, dockerVars, histVars
<1>2. StartCalls' /\ Verified' /\ ForeignIsSafe' /\ Remains' /\ CleanupWorks'
  BY DEF options, startVars, dockerVars, histVars, StartCalls, Verified, ForeignIsSafe, Remains, CleanupWorks
<1> QED
  BY <1>1, <1>2

\* The user of a ready stack calls an operation, or gets its result.
LEMMA CallerStep ==
    ASSUME StackInv, at = "ready", call' \in CallType,
           UNCHANGED <<options, startVars, interrupted, dockerVars, harmed, appeared, faults>>,
           (call'.step = "containers" /\ seen' = foreign) \/ (call'.step = "idle" /\ seen' = seen)
    PROVE  StackInv'
<1> USE DEF StackInv, StackTypeOK
<1>1. StackTypeOK'
  BY DEF options, startVars, dockerVars
<1> QED
  BY <1>1 DEF startVars, dockerVars, StartCalls, Verified, ForeignIsSafe, Remains, CleanupWorks

\* Start leaves the demo at its beginning.
LEMMA StartupKeeps ==
    ASSUME Inv, Startup, UNCHANGED demoVars
    PROVE  Inv'
<1> USE DEF demoVars, demoOptions, external, options
<1>1. /\ StackInv' /\ profile' = profile /\ at \notin {"ready", "failed"}
      /\ (at' = "ready" => call'.step = "idle" /\ own'[attempt'] = Resources)
  BY StartupStep DEF Inv
<1>2. stage = "start" /\ stage' = "start" /\ topic' = {} /\ ~report.completed
  BY <1>1 DEF Inv, Staged, Reported
<1>3. TypeOK'
  BY <1>1 DEF Inv, TypeOK, StackInv
<1>4. Staged' /\ TakenDown' /\ Reported'
  BY <1>1, <1>2 DEF Staged, TakenDown, Reported
<1> QED
  BY <1>1, <1>3, <1>4 DEF Inv

\* verifyOwner changes nothing that the demo relies on.
LEMMA VerifyKeeps ==
    ASSUME Inv, VerifyOwner, UNCHANGED demoVars
    PROVE  Inv'
<1> USE DEF demoVars, demoOptions, external, options
<1>1. /\ StackInv' /\ call'.op = call.op /\ call'.cleanup = call.cleanup /\ (faults' = 0 => faults = 0)
      /\ call.step # "idle" /\ call'.step \notin {"idle", "ok"}
  BY VerifyStep DEF Inv, VerifyOwner
<1>2. UNCHANGED <<options, startVars, interrupted, dockerVars, histVars, appeared>>
  BY DEF VerifyOwner, Verify
<1>3. TypeOK'
  BY <1>1 DEF Inv, TypeOK, StackInv
<1>4. Staged'
  BY <1>1, <1>2 DEF Inv, Staged, OperationOf, startVars
<1>5. TakenDown' /\ Reported'
  BY <1>1, <1>2 DEF Inv, TakenDown, Reported, Finished, startVars, dockerVars
<1> QED
  BY <1>1, <1>3, <1>4, <1>5 DEF Inv

\* Only the last operation takes anything away from a demo.
LEMMA CommandKeeps ==
    ASSUME Inv, Act \/ ActFails, UNCHANGED demoVars
    PROVE  Inv'
<1> USE DEF demoVars, demoOptions, external, options
<1>1. /\ StackInv' /\ call'.op = call.op /\ call'.cleanup = call.cleanup
      /\ (faults' = 0 => faults = 0) /\ call.step = "act"
      /\ UNCHANGED <<options, startVars, interrupted, appeared>>
      /\ \/ /\ call'.step = "ok" /\ live' = LiveAfter(call.op)
            /\ own'[attempt] = OwnAfter(call.op)
         \/ call'.step = "err" /\ OwnAfter(call.op) \subseteq own'[attempt]
      /\ own'[attempt] \subseteq own[attempt]
  BY CommandStep DEF Inv
<1>2. TypeOK'
  BY <1>1 DEF Inv, TypeOK, StackInv
<1>3. Staged'
  BY <1>1 DEF Inv, Staged, OperationOf, startVars
<1>4. at \in {"cleanup", "ready"} /\ live \subseteq Services
  BY <1>1 DEF Inv, StackInv, StartCalls, StackTypeOK
<1>5. CASE stage = "start"
  <2>1. at = "ready" => profile = "selfhost"
    BY <1>1, <1>5 DEF Inv, Staged, TypeOK, StackTypeOK
  <2>2. TakenDown' /\ Reported'
    BY <1>1, <1>4, <1>5, <2>1 DEF Inv, TakenDown, Reported, startVars
  <2> QED
    BY <1>1, <1>2, <1>3, <2>2 DEF Inv
<1>6. CASE stage # "start"
  <2>1. at = "ready" /\ profile = "development" /\ call.step # "idle"
    BY <1>1, <1>4, <1>6 DEF Inv, Staged, TypeOK, StackTypeOK
  <2>2. stage \in {"take away", "give back", "bring back", "finish"} /\ call.op = OperationOf(stage)
    BY <2>1 DEF Inv, Staged
  <2>3. stage # "finish" \/ ~cleanup => own'[attempt] = own[attempt]
    <3>1. stage # "finish" \/ ~cleanup => call.op.act # "down"
      <4>1. OperationOf("take away").act = "stop"
        BY DEF OperationOf, SetServiceRunning
      <4>2. OperationOf("give back").act = "start" /\ OperationOf("bring back").act = "start"
        BY DEF OperationOf, SetServiceRunning
      <4>3. ~cleanup => OperationOf("finish").act = "stop"
        BY OperationTypes DEF OperationOf
      <4> QED
        BY <2>2, <4>1, <4>2, <4>3
    <3> QED
      BY <1>1, <3>1 DEF OwnAfter
  <2>4. stage = "finish" /\ call'.step = "ok" => IF cleanup THEN own'[attempt] = {} ELSE live' = {}
    BY <1>1, <1>4, <2>2 DEF OperationOf, OwnAfter, LiveAfter, Destroy, Stop
  <2>5. TakenDown' /\ Reported'
    BY <1>1, <2>1, <2>2, <2>3, <2>4 DEF Inv, TakenDown, Reported, Finished, startVars
  <2> QED
    BY <1>1, <1>2, <1>3, <2>5 DEF Inv
<1> QED
  BY <1>5, <1>6

\* Interruptions and foreign resources change nothing of the demo.
LEMMA DisturbKeeps ==
    ASSUME Inv, Environment
    PROVE  Inv'
<1> USE DEF demoVars, demoOptions, external, options
<1>1. /\ StackInv' /\ UNCHANGED <<options, startVars, call, own, live, faults>>
      /\ (appeared' = 0 => appeared = 0) /\ UNCHANGED demoVars
  BY DisturbStep DEF Inv, Environment
<1>2. TypeOK'
  BY <1>1 DEF Inv, TypeOK, StackInv
<1>3. Staged' /\ TakenDown' /\ Reported'
  BY <1>1 DEF Inv, Staged, TakenDown, Reported, Finished, OperationOf, startVars
<1> QED
  BY <1>1, <1>2, <1>3 DEF Inv

\* A user of a selfhost stack has no demo.
LEMMA UserKeeps ==
    ASSUME Inv, UserCalls
    PROVE  Inv'
<1> USE DEF demoVars, demoOptions, external, options
<1>1. /\ UNCHANGED <<options, startVars, interrupted, dockerVars, harmed, appeared, faults, demoVars>>
      /\ profile = "selfhost" /\ at = "ready"
  BY DEF UserCalls
<1>2. call' \in CallType /\ ((call'.step = "containers" /\ seen' = foreign) \/ (call'.step = "idle" /\ seen' = seen))
  <2> DEFINE UserOps == {Destroy, Stop, KillConsumer} \cup {SetServiceRunning(n, b) : n \in Services, b \in BOOLEAN}
  <2>1. ASSUME NEW op \in UserOps
        PROVE  op \in OpType
    <3>1. CASE op \in {Destroy, Stop, KillConsumer}
      BY <3>1, OperationTypes
    <3>2. CASE \E n \in Services, b \in BOOLEAN : op = SetServiceRunning(n, b)
      BY <3>2, OperationTypes
    <3> QED
      BY <3>1, <3>2
  <2> HIDE DEF UserOps
  <2>2. \/ \E op \in UserOps : Begin(op, FALSE)
        \/ call' = Idle /\ UNCHANGED seen
    BY DEF UserCalls, UserOps, Begin
  <2>3. CASE \E op \in UserOps : Begin(op, FALSE)
    BY <2>1, <2>3 DEF Begin, CallType, StepType
  <2>4. CASE call' = Idle /\ UNCHANGED seen
    BY <2>4, OperationTypes
  <2> QED
    BY <2>2, <2>3, <2>4
<1>3. StackInv'
  BY <1>1, <1>2, CallerStep DEF Inv
<1>4. TypeOK'
  BY <1>1, <1>3 DEF Inv, TypeOK, StackInv
<1>5. stage = "start"
  BY <1>1 DEF Inv, Staged
<1>6. Staged' /\ TakenDown' /\ Reported'
  BY <1>1, <1>5 DEF Inv, Staged, TakenDown, Reported
<1> QED
  BY <1>3, <1>4, <1>6 DEF Inv

\* A stage of RunDemo that does not touch the stack, nor a call in progress.
LEMMA QuietStage ==
    ASSUME Inv, UNCHANGED <<stackVars, demoOptions>>, stage # stage', at = "ready",
           call.step = "idle", profile = "development",
           stage' \notin {"start", "load", "take away", "report", "returned"},
           stage' = "send" => topic' = {},
           stage \notin {"finish", "report", "returned"}
    PROVE  StackInv' /\ Staged' /\ TakenDown'
<1> USE DEF stackVars, demoOptions, options
<1>1. faults' \in 0 .. MaxFaults /\ (faults' = 0 => faults = 0)
  BY DEF Inv, StackInv, StackTypeOK
<1>2. StackInv'
  BY <1>1, StackRests DEF Inv
<1>3. Staged'
  BY DEF Inv, Staged, startVars
<1>4. own[attempt] = Resources
  BY DEF Inv, TakenDown
<1>5. TakenDown'
  BY <1>4 DEF TakenDown, startVars, dockerVars
<1> QED
  BY <1>2, <1>3, <1>5

\* Between two operations no call is in progress.
LEMMA NoCall ==
    ASSUME Inv, stage \in {"load", "send", "reconcile", "funnel", "evidence", "report"}
    PROVE  at = "ready" /\ call.step = "idle" /\ profile = "development"
BY DEF Inv, Staged, TypeOK, StackTypeOK

\* Start has returned.
LEMMA StartedKeeps == ASSUME Inv, Started PROVE Inv'
<1> USE DEF stackVars, demoOptions, options, external
<1>1. UNCHANGED <<stackVars, demoOptions, dbStopped, external, report>> /\ profile = "development" /\ stage = "start"
  BY DEF Started, Continue
<1>2. \/ at = "ready" /\ stage' = "load" /\ failed' = failed
      \/ at = "failed" /\ stage' = "returned" /\ failed' = TRUE
  BY DEF Started, Continue
<1>3. StackInv'
  BY <1>1, StackRests DEF Inv, StackInv, StackTypeOK
<1>4. TypeOK'
  BY <1>1, <1>2, <1>3 DEF Inv, TypeOK, StackInv
<1>5. Staged' /\ TakenDown' /\ Reported'
  BY <1>1, <1>2 DEF Inv, Staged, TakenDown, Reported, startVars, dockerVars
<1> QED
  BY <1>3, <1>4, <1>5 DEF Inv

\* The stages from the events to the end of the reconciliation, and the funnel.
LEMMA SendingKeeps ==
    ASSUME Inv, Load \/ Send \/ SendFails \/ Reconciled \/ ReconcileOver \/ Funnel
    PROVE  Inv'
<1> USE DEF stackVars, demoOptions, options, external
<1>1. /\ UNCHANGED <<stackVars, demoOptions, dbStopped>>
      /\ stage \in {"load", "send", "reconcile", "funnel"}
  BY DEF Load, Send, SendFails, Reconciled, ReconcileOver, Funnel, Continue, Abort
<1>2. at = "ready" /\ call.step = "idle" /\ profile = "development" /\ ~report.completed
  BY <1>1, NoCall DEF Inv, Reported
<1>3. Deferred \in {"bring back", "evidence"}
  BY DEF Deferred
<1>4. CASE \E s \in {"load", "send", "reconcile", "funnel"} : Abort(s) /\ report' = report /\ table' = table
  <2>1. stage' \in {"bring back", "evidence"} /\ failed' = TRUE /\ report' = report /\ table' = table
    BY <1>3, <1>4 DEF Abort
  <2>2. topic' \in SUBSET Inputs /\ table \in SUBSET topic'
    <3>1. CASE SendFails
      BY <3>1 DEF SendFails, Abort, Inv, Staged, TypeOK
    <3>2. CASE topic' = topic
      BY <3>2 DEF Inv, TypeOK
    <3>3. CASE Send
      BY <3>3, <2>1 DEF Send, Continue
    <3> QED
      BY <3>1, <3>2, <3>3 DEF Load, Reconciled, ReconcileOver, Funnel
  <2>3. StackInv' /\ Staged' /\ TakenDown'
    BY <1>1, <1>2, <2>1, QuietStage
  <2>4. TypeOK'
    BY <1>1, <2>1, <2>2, <2>3 DEF Inv, TypeOK, StackInv
  <2>5. Reported'
    BY <1>2, <2>1 DEF Reported
  <2> QED
    BY <2>3, <2>4, <2>5 DEF Inv
<1>5. CASE Load /\ ~Abort("load")
  <2>1. /\ stage = "load" /\ stage' \in {"take away", "send"} /\ failed' = failed
        /\ UNCHANGED <<external, report>>
    BY <1>5 DEF Load, Continue
  <2>2. StackInv'
    BY <1>1, StackRests DEF Inv, StackInv, StackTypeOK
  <2>3. TypeOK'
    BY <1>1, <2>1, <2>2 DEF Inv, TypeOK, StackInv
  <2>4. Staged' /\ TakenDown' /\ Reported'
    BY <1>1, <1>2, <2>1 DEF Inv, Staged, TakenDown, Reported, startVars, dockerVars
  <2> QED
    BY <2>2, <2>3, <2>4 DEF Inv
<1>6. CASE Send
  <2>1. /\ stage = "send" /\ stage' \in {"give back", "reconcile"} /\ failed' = failed
        /\ topic' = Inputs /\ table' = table /\ report' = [report EXCEPT !.accepted = Inputs]
    BY <1>6 DEF Send, Continue
  <2>2. /\ report' \in [accepted : SUBSET Inputs, stored : SUBSET Inputs, completed : BOOLEAN]
        /\ report'.accepted = Inputs /\ report'.completed = report.completed
    BY <2>1 DEF Inv, TypeOK
  <2>3. StackInv' /\ Staged' /\ TakenDown'
    BY <1>1, <1>2, <2>1, QuietStage
  <2>4. TypeOK'
    BY <1>1, <2>1, <2>2, <2>3 DEF Inv, TypeOK, StackInv
  <2>5. Reported'
    BY <1>2, <2>1, <2>2 DEF Reported
  <2> QED
    BY <2>3, <2>4, <2>5 DEF Inv
<1>7. CASE Reconciled
  <2>1. /\ stage = "reconcile" /\ stage' = "funnel" /\ failed' = failed
        /\ UNCHANGED external /\ report' = [report EXCEPT !.stored = table] /\ table = report.accepted
    BY <1>7 DEF Reconciled, Continue, ReconcileIDs
  <2>2. table = Inputs
    BY <2>1 DEF Inv, Reported
  <2>3. /\ report' \in [accepted : SUBSET Inputs, stored : SUBSET Inputs, completed : BOOLEAN]
        /\ report'.accepted = Inputs /\ report'.stored = Inputs /\ report'.completed = report.completed
    BY <2>1, <2>2 DEF Inv, TypeOK
  <2>4. StackInv' /\ Staged' /\ TakenDown'
    BY <1>1, <1>2, <2>1, QuietStage
  <2>5. TypeOK'
    BY <1>1, <2>1, <2>3, <2>4 DEF Inv, TypeOK, StackInv
  <2>6. Reported'
    BY <1>2, <2>1, <2>3 DEF Reported
  <2> QED
    BY <2>4, <2>5, <2>6 DEF Inv
<1>8. CASE Funnel /\ ~Abort("funnel")
  <2>1. /\ stage = "funnel" /\ stage' \in {"bring back", "evidence"} /\ failed' = failed
        /\ UNCHANGED <<external, report>>
    BY <1>3, <1>8 DEF Funnel, Continue
  <2>2. report.accepted = Inputs /\ report.stored = Inputs
    BY <2>1 DEF Inv, Reported
  <2>3. StackInv' /\ Staged' /\ TakenDown'
    BY <1>1, <1>2, <2>1, QuietStage
  <2>4. TypeOK'
    BY <1>1, <2>1, <2>3 DEF Inv, TypeOK, StackInv
  <2>5. Reported'
    BY <1>2, <2>1, <2>2 DEF Reported
  <2> QED
    BY <2>3, <2>4, <2>5 DEF Inv
<1> QED
  BY <1>4, <1>5, <1>6, <1>7, <1>8 DEF Load, SendFails, ReconcileOver, Funnel

\* The demo calls the operation of its stage.
LEMMA CallKeeps == ASSUME Inv, CallOperation PROVE Inv'
<1> USE DEF demoVars, demoOptions, options, external
<1>1. /\ UNCHANGED <<options, startVars, interrupted, dockerVars, harmed, appeared, faults, demoVars>>
      /\ stage \in {"take away", "give back", "bring back", "finish"}
  BY DEF CallOperation, Calls
<1>2. OperationOf(stage) \in OpType
  BY OperationTypes, StackAssumption DEF OperationOf
<1>3. /\ seen' = foreign
      /\ \/ /\ stage \in {"take away", "give back"}
            /\ call' = [op |-> OperationOf(stage), step |-> "containers", cleanup |-> FALSE]
         \/ /\ stage \in {"bring back", "finish"}
            /\ call' = [op |-> OperationOf(stage), step |-> "containers", cleanup |-> TRUE]
  <2>1. CASE stage = "take away"
    BY <2>1 DEF CallOperation, Calls, OperationOf, Begin
  <2>2. CASE stage = "give back"
    BY <2>2 DEF CallOperation, Calls, OperationOf, Begin
  <2>3. CASE stage = "bring back"
    BY <2>3 DEF CallOperation, Calls, OperationOf, Begin
  <2>4. CASE stage = "finish"
    BY <2>4 DEF CallOperation, Calls, OperationOf, Begin
  <2> QED
    BY <1>1, <2>1, <2>2, <2>3, <2>4
<1>4. /\ call' \in CallType /\ call'.step = "containers" /\ call'.op = OperationOf(stage)
      /\ (call'.cleanup <=> stage \in {"bring back", "finish"}) /\ seen' = foreign
  <2>1. CASE stage \in {"take away", "give back"}
    <3>1. call' = [op |-> OperationOf(stage), step |-> "containers", cleanup |-> FALSE]
      BY <1>3, <2>1
    <3>2. call' \in CallType /\ call'.step = "containers" /\ call'.op = OperationOf(stage) /\ call'.cleanup = FALSE
      BY <1>2, <3>1 DEF CallType, StepType
    <3> QED
      BY <1>3, <2>1, <3>2
  <2>2. CASE stage \in {"bring back", "finish"}
    <3>1. call' = [op |-> OperationOf(stage), step |-> "containers", cleanup |-> TRUE]
      BY <1>3, <2>2
    <3>2. call' \in CallType /\ call'.step = "containers" /\ call'.op = OperationOf(stage) /\ call'.cleanup = TRUE
      BY <1>2, <3>1 DEF CallType, StepType
    <3> QED
      BY <1>3, <2>2, <3>2
  <2> QED
    BY <1>1, <2>1, <2>2
<1>5. at = "ready" /\ profile = "development"
  BY <1>1 DEF Inv, Staged, TypeOK, StackTypeOK
<1>6. StackInv'
  BY <1>1, <1>4, <1>5, CallerStep DEF Inv
<1>7. TypeOK'
  BY <1>1, <1>6 DEF Inv, TypeOK, StackInv
<1>8. OperationOf(stage)' = OperationOf(stage)
  BY <1>1 DEF OperationOf
<1>9. Staged' /\ TakenDown' /\ Reported'
  BY <1>1, <1>4, <1>5, <1>8 DEF Inv, Staged, TakenDown, Reported, Finished, startVars, dockerVars
<1> QED
  BY <1>6, <1>7, <1>9 DEF Inv

\* The operation of a stage has returned.
LEMMA ReturnKeeps == ASSUME Inv, OperationReturns PROVE Inv'
<1> USE DEF demoOptions, options, external
<1>1. /\ UNCHANGED <<options, startVars, interrupted, dockerVars, histVars, appeared, faults>>
      /\ UNCHANGED <<demoOptions, external, report>>
      /\ call' = Idle /\ call.step \in {"ok", "err"}
      /\ stage \in {"take away", "give back", "bring back", "finish"}
  BY DEF OperationReturns, Continue, Abort
<1>2. at = "ready" /\ profile = "development" /\ ~report.completed
  BY <1>1 DEF Inv, Staged, Reported, TypeOK, StackTypeOK
<1>3. call' \in CallType /\ call'.step = "idle"
  BY <1>1, OperationTypes
<1>4. StackInv'
  BY <1>1, <1>2, <1>3, CallerStep DEF Inv, histVars
<1>5. /\ dbStopped' \in BOOLEAN /\ failed' \in BOOLEAN /\ (failed => failed')
      /\ (call.step = "err" => failed')
      /\ <<stage, stage'>> \in {<<"take away", "send">>, <<"give back", "reconcile">>, <<"bring back", "evidence">>,
                               <<"finish", "report">>, <<"take away", "bring back">>, <<"take away", "evidence">>,
                               <<"give back", "bring back">>, <<"give back", "evidence">>}
      /\ (stage \in {"take away", "give back"} /\ stage' \in {"bring back", "evidence"} => failed')
  BY DEF OperationReturns, Continue, Abort, Deferred, Inv, TypeOK
<1>6. TypeOK'
  BY <1>1, <1>4, <1>5 DEF Inv, TypeOK, StackInv
<1>7. Staged'
  BY <1>1, <1>2, <1>3, <1>5 DEF Inv, Staged, startVars
<1>8. stage = "finish" /\ call.step = "err" => faults # 0 \/ appeared # 0
  <2>1. stage = "finish" => call.cleanup /\ call.op = OperationOf("finish")
    BY <1>1, <1>2 DEF Inv, Staged
  <2>2. OperationOf("finish").act # "start"
    BY OperationTypes DEF OperationOf
  <2> QED
    BY <2>1, <2>2 DEF Inv, StackInv, CleanupWorks
<1>9. TakenDown'
  <2>1. stage' \notin {"finish", "returned"} /\ (stage' = "report" => stage = "finish")
    BY <1>5
  <2>2. own'[attempt'] = own[attempt] /\ live' = live /\ cleanup' = cleanup
    BY <1>1 DEF startVars, dockerVars
  <2>3. cleanup => stage' = "report" \/ own[attempt] = Resources
    BY <1>2, <1>5 DEF Inv, TakenDown
  <2>4. ~cleanup => own[attempt] = Resources
    BY <1>2 DEF Inv, TakenDown
  <2>5. stage' = "report" /\ (~failed' \/ (faults = 0 /\ appeared = 0)) => Finished
    BY <1>1, <1>5, <1>8, <2>1 DEF Inv, TakenDown
  <2> QED
    <3>1. UNCHANGED <<at, profile, faults, appeared, cleanup>>
      BY <1>1 DEF startVars
    <3>2. Finished => Finished'
      BY <2>2 DEF Finished
    <3> QED
      BY <2>1, <2>2, <2>3, <2>4, <2>5, <3>1, <3>2 DEF TakenDown
<1>10. Reported'
  BY <1>1, <1>2, <1>5 DEF Inv, Reported
<1> QED
  BY <1>4, <1>6, <1>7, <1>9, <1>10 DEF Inv

\* The evidence, the report, and the consumer.
LEMMA EndKeeps == ASSUME Inv, CollectEvidence \/ Report \/ Store PROVE Inv'
<1> USE DEF demoOptions, options, external
<1>1. CASE CollectEvidence
  <2>1. /\ UNCHANGED <<options, startVars, interrupted, call, dockerVars, histVars, appeared>>
        /\ UNCHANGED <<demoOptions, dbStopped, external, report>>
        /\ stage = "evidence" /\ stage' = "finish" /\ failed' \in BOOLEAN /\ (failed => failed')
    BY <1>1 DEF CollectEvidence, Continue, Inv, TypeOK
  <2>0. faults' \in 0 .. MaxFaults /\ (faults' = 0 => faults = 0)
    <3>1. faults \in 0 .. MaxFaults
      BY DEF Inv, TypeOK, StackTypeOK
    <3>2. faults' = faults \/ (faults < MaxFaults /\ faults' = faults + 1)
      BY <1>1 DEF CollectEvidence
    <3> QED
      BY <3>1, <3>2, StackAssumption
  <2>2. at = "ready" /\ call.step = "idle" /\ profile = "development" /\ ~report.completed
    BY <2>1, NoCall DEF Inv, Reported
  <2>3. StackInv'
    BY <2>0, <2>1, StackRests DEF Inv
  <2>4. TypeOK'
    BY <2>1, <2>3 DEF Inv, TypeOK, StackInv
  <2>5. Staged' /\ TakenDown' /\ Reported'
    BY <2>0, <2>1, <2>2 DEF Inv, Staged, TakenDown, Reported, startVars, dockerVars
  <2> QED
    BY <2>3, <2>4, <2>5 DEF Inv
<1>2. CASE Report
  <2>1. /\ UNCHANGED <<stackVars, demoOptions, dbStopped, external>>
        /\ stage = "report" /\ stage' = "returned" /\ failed' \in BOOLEAN /\ (failed => failed')
        /\ report' = [report EXCEPT !.completed = ~failed]
    BY <1>2 DEF Report, Continue, Inv, TypeOK
  <2>2. at = "ready" /\ call.step = "idle" /\ profile = "development"
    BY <2>1, NoCall
  <2>3. /\ report' \in [accepted : SUBSET Inputs, stored : SUBSET Inputs, completed : BOOLEAN]
        /\ report'.accepted = report.accepted /\ report'.stored = report.stored /\ report'.completed = ~failed
    BY <2>1 DEF Inv, TypeOK
  <2>4. StackInv'
    BY <2>1, StackRests DEF Inv, StackInv, StackTypeOK, stackVars
  <2>5. TypeOK'
    BY <2>1, <2>3, <2>4 DEF Inv, TypeOK, StackInv
  <2>6. Staged' /\ TakenDown'
    BY <2>1, <2>2 DEF Inv, Staged, TakenDown, Finished, stackVars, startVars, dockerVars
  <2>7. Reported'
    BY <2>1, <2>2, <2>3 DEF Inv, Reported, TakenDown, Finished, stackVars, startVars, dockerVars
  <2> QED
    BY <2>4, <2>5, <2>6, <2>7 DEF Inv
<1>3. CASE Store
  <2>1. /\ UNCHANGED <<stackVars, stage, demoOptions, dbStopped, failed, topic, report>>
        /\ table' \in SUBSET topic
    BY <1>3 DEF Store, Inv, TypeOK
  <2>2. StackInv'
    BY <2>1, StackRests DEF Inv, StackInv, StackTypeOK, stackVars
  <2>3. TypeOK'
    BY <2>1, <2>2 DEF Inv, TypeOK, StackInv
  <2>4. Staged' /\ TakenDown' /\ Reported'
    BY <2>1 DEF Inv, Staged, TakenDown, Reported, Finished, OperationOf, stackVars, startVars, dockerVars
  <2> QED
    BY <2>2, <2>3, <2>4 DEF Inv
<1> QED
  BY <1>1, <1>2, <1>3

-----------------------------------------------------------------------------
(* The theorems.                                                           *)

(***************************************************************************)
(* The inductive invariant: what is left of each attempt's project, what   *)
(* verifyOwner has established, what the demo is waiting for and what its  *)
(* report may say.                                                         *)
(***************************************************************************)
THEOREM Invariance == Spec => []Inv
<1>1. Init => Inv
  <2> SUFFICES ASSUME Init PROVE Inv
    OBVIOUS
  <2> USE DEF Init, StackInit
  <2>1. StackTypeOK
    <3>1. own \in [Attempts -> SUBSET Resources] /\ attempt \in Attempts
      BY StackAssumption DEF Attempts
    <3>2. appeared \in 0 .. MaxForeign /\ faults \in 0 .. MaxFaults
      BY StackAssumption
    <3>3. call \in CallType
      BY OperationTypes
    <3> QED
      BY <3>1, <3>2, <3>3 DEF StackTypeOK
  <2>2. StackInv
    <3>1. own[attempt] = {} /\ \A p \in Attempts : own[p] = {}
      BY StackAssumption DEF Attempts
    <3> QED
      BY <2>1, <3>1, OperationTypes DEF StackInv, StartCalls, Verified, ForeignIsSafe, Remains, CleanupWorks
  <2>3. TypeOK
    BY <2>1 DEF TypeOK
  <2>4. Staged /\ TakenDown /\ Reported
    BY DEF Staged, TakenDown, Reported
  <2> QED
    BY <2>2, <2>3, <2>4 DEF Inv
<1>2. Inv /\ [Next]_vars => Inv'
  <2> SUFFICES ASSUME Inv, [Next]_vars PROVE Inv'
    OBVIOUS
  <2>1. CASE StackSteps
    BY <2>1, StartupKeeps, VerifyKeeps, CommandKeeps DEF StackSteps, Operate
  <2>2. CASE Environment
    BY <2>2, DisturbKeeps
  <2>3. CASE Store
    BY <2>3, EndKeeps
  <2>4. CASE UserCalls
    BY <2>4, UserKeeps
  <2>5. CASE RunDemo
    BY <2>5, StartedKeeps, SendingKeeps, CallKeeps, ReturnKeeps, EndKeeps DEF RunDemo
  <2>6. CASE UNCHANGED vars
    <3>1. UNCHANGED stackVars /\ UNCHANGED demoVars
      BY <2>6 DEF vars
    <3>2. StackInv'
      BY <3>1, StackRests DEF Inv, StackInv, StackTypeOK, stackVars
    <3>3. TypeOK'
      BY <3>1, <3>2 DEF Inv, TypeOK, StackInv, demoVars, demoOptions, external
    <3>4. Staged' /\ TakenDown' /\ Reported'
      BY <3>1 DEF Inv, Staged, TakenDown, Reported, Finished, OperationOf, stackVars, startVars, dockerVars, options,
                  demoVars, demoOptions, external
    <3> QED
      BY <3>2, <3>3, <3>4 DEF Inv
  <2> QED
    BY <2>1, <2>2, <2>3, <2>4, <2>5, <2>6 DEF Next
<1> QED
  BY <1>1, <1>2, PTL DEF Spec

(***************************************************************************)
(* Start's loop never leaves an attempt's resources behind, unless it says *)
(* that the cleanup failed.                                                *)
(***************************************************************************)
THEOREM NothingLeaks == Spec => []NoLeak
<1>1. Inv => NoLeak
  BY DEF Inv, StackInv, StackTypeOK, Remains, NoLeak, Attempts
<1> QED
  BY <1>1, Invariance, PTL

(***************************************************************************)
(* No operation hits a foreign resource that was there when verifyOwner    *)
(* began.                                                                  *)
(***************************************************************************)
THEOREM OthersAreSafe == Spec => []ForeignIsSafe
<1>1. Inv => ForeignIsSafe
  BY DEF Inv, StackInv
<1> QED
  BY <1>1, Invariance, PTL

(***************************************************************************)
(* A demo's report that says Completed is true to its word.                *)
(***************************************************************************)
THEOREM ReportIsTrue == Spec => []CompletedMeansStored
<1>1. Inv => CompletedMeansStored
  <2> SUFFICES ASSUME Inv, report.completed PROVE CompletedMeansStored
    BY DEF CompletedMeansStored
  <2>1. /\ stage = "returned" /\ at = "ready" /\ Finished
        /\ report.accepted = Inputs /\ report.stored = Inputs
    BY DEF Inv, Reported
  <2>2. profile = "development"
    BY <2>1 DEF Inv, Staged, TypeOK, StackTypeOK
  <2>3. ~cleanup => own[attempt] = Resources
    BY <2>1, <2>2 DEF Inv, TakenDown
  <2> QED
    BY <2>1, <2>3 DEF CompletedMeansStored, Finished, Resources
<1> QED
  BY <1>1, Invariance, PTL

(***************************************************************************)
(* The deferred cleanups of RunDemo and startAttempt take the stack down   *)
(* at whatever point the demo was interrupted or failed.                   *)
(***************************************************************************)
THEOREM InterruptsAreCleaned == Spec => []InterruptIsCleaned
<1>1. Inv => InterruptIsCleaned
  <2> SUFFICES ASSUME Inv, stage = "returned", faults = 0, appeared = 0
               PROVE  IF at = "failed" \/ cleanup THEN \A p \in Attempts : own[p] = {} ELSE live = {}
    BY DEF InterruptIsCleaned
  <2>1. \A p \in Attempts : p # attempt => own[p] = {}
    BY DEF Inv, StackInv, Remains
  <2>2. at = "failed" => own[attempt] = {}
    BY DEF Inv, StackInv, Remains, CleanupWorks
  <2>3. at # "failed" => Finished
    BY DEF Inv, Staged, TakenDown
  <2> QED
    BY <2>1, <2>2, <2>3 DEF Finished
<1> QED
  BY <1>1, Invariance, PTL
=============================================================================
