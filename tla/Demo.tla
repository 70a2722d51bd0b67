-------------------------------- MODULE Demo --------------------------------
(***************************************************************************)
(* The walkthroughs of internal/runenv/demo.go: RunDemo starts a           *)
(* development stack, takes its database away if recovery is asked for,    *)
(* sends the example events, brings the database back, waits until exactly *)
(* the accepted identifiers are stored, and in a deferred function         *)
(* restores, collects evidence, destroys or stops the stack and writes the *)
(* report.  The caller may be interrupted at any point.                    *)
(*                                                                         *)
(* A selfhost stack has no demo: its user calls the stack's operations in  *)
(* any order.  The API and the consumer are external here (modules Ingest  *)
(* and Reader): a 202 means that the topic holds every event, any other    *)
(* answer that it may hold some, and an event in the topic is stored once  *)
(* while the consumer and the database run.                                *)
(***************************************************************************)
EXTENDS Stack

CONSTANT Inputs     \* the events of examples/checkout/events.json

VARIABLES
    stage,      \* where RunDemo is
    recovery, cleanup,  \* DemoOptions
    dbStopped,
    failed,     \* result # nil
    topic, table,       \* external: the events in the broker and the database
    report      \* DemoReport

demoOptions == <<recovery, cleanup>>
external == <<topic, table>>
demoVars == <<stage, demoOptions, dbStopped, failed, external, report>>
vars == <<stackVars, demoVars>>

-----------------------------------------------------------------------------
\* The consumer stores an event.
Store ==
    /\ {"postgres", "consumer"} \subseteq live
    /\ \E e \in topic \ table : table' = table \cup {e}
    /\ UNCHANGED <<stackVars, stage, demoOptions, dbStopped, failed, topic, report>>

\* The user of a selfhost stack calls an operation, and gets its result.
UserCalls ==
    /\ profile = "selfhost" /\ at = "ready"
    /\ \/ /\ call.step = "idle"
          /\ \E op \in {Destroy, Stop, KillConsumer} \cup {SetServiceRunning(n, b) : n \in Services, b \in BOOLEAN} :
                Begin(op, FALSE)
       \/ call.step \in {"ok", "err"} /\ call' = Idle /\ UNCHANGED seen
    /\ UNCHANGED <<options, startVars, interrupted, dockerVars, harmed, appeared, faults, demoVars>>

-----------------------------------------------------------------------------
(* RunDemo.                                                                *)

\* The deferred function begins with the database, if it is known to be down.
Deferred == IF dbStopped THEN "bring back" ELSE "evidence"

\* The next stage, or an early return with an error.
Continue(from, to) == stage = from /\ stage' = to /\ UNCHANGED failed
Abort(from) == stage = from /\ stage' = Deferred /\ failed' = TRUE

\* Start has returned: without a stack there is nothing to defer.
Started ==
    /\ profile = "development"
    /\ \/ at = "ready" /\ Continue("start", "load")
       \/ at = "failed" /\ stage = "start" /\ stage' = "returned" /\ failed' = TRUE
    /\ UNCHANGED <<stackVars, demoOptions, dbStopped, external, report>>

\* The pool, events.json and DecodeBatch.
Load ==
    /\ Continue("load", IF recovery THEN "take away" ELSE "send") \/ Abort("load")
    /\ UNCHANGED <<stackVars, demoOptions, dbStopped, external, report>>

\* A stage that is one operation on the stack, under its context.
Calls(s, op, clean) ==
    /\ stage = s /\ call.step = "idle"
    /\ Begin(op, clean)

CallOperation ==
    /\ \/ Calls("take away", SetServiceRunning("postgres", FALSE), FALSE)
       \/ Calls("give back", SetServiceRunning("postgres", TRUE), FALSE)
       \/ Calls("bring back", SetServiceRunning("postgres", TRUE), TRUE)
       \/ Calls("finish", IF cleanup THEN Destroy ELSE Stop, TRUE)
    /\ UNCHANGED <<options, startVars, interrupted, dockerVars, harmed, appeared, faults>>
    /\ UNCHANGED demoVars

\* dbStopped follows the operations that succeed.
OperationReturns ==
    /\ call' = Idle
    /\ \/ /\ call.step = "ok"
          /\ \/ Continue("take away", "send") /\ dbStopped' = TRUE
             \/ Continue("give back", "reconcile") /\ dbStopped' = FALSE
             \/ Continue("bring back", "evidence") /\ UNCHANGED dbStopped
             \/ Continue("finish", "report") /\ UNCHANGED dbStopped
       \/ /\ call.step = "err"
          /\ \/ Abort("take away")
             \/ Abort("give back")
             \/ stage = "bring back" /\ stage' = "evidence" /\ failed' = TRUE
             \/ stage = "finish" /\ stage' = "report" /\ failed' = TRUE
          /\ UNCHANGED dbStopped
    /\ UNCHANGED <<options, startVars, interrupted, dockerVars, histVars, appeared, faults>>
    /\ UNCHANGED <<demoOptions, external, report>>

\* SendInputs: a 202 that names exactly the events sent ...
Send ==
    /\ ~interrupted
    /\ Continue("send", IF recovery THEN "give back" ELSE "reconcile")
    /\ topic' = Inputs
    /\ report' = [report EXCEPT !.accepted = Inputs]
    /\ UNCHANGED <<stackVars, demoOptions, dbStopped, table>>

\* ... or an error, after which the delivery is uncertain.
SendFails ==
    /\ Abort("send")
    /\ topic' \in SUBSET Inputs
    /\ UNCHANGED <<stackVars, demoOptions, dbStopped, table, report>>

\* Mutant: as many identifiers as were accepted is enough, or fewer.
ReconcileSubset(ids, actual) == actual \subseteq ids

\* reconcileIDs: the table has every accepted identifier and no other; its key
\* makes a duplicate impossible.
ReconcileIDs(ids, actual) == actual = ids

\* A query of the reconciliation loop that ends it.
Reconciled ==
    /\ ~interrupted /\ "postgres" \in live
    /\ ReconcileIDs(report.accepted, table)
    /\ Continue("reconcile", "funnel")
    /\ report' = [report EXCEPT !.stored = table]
    /\ UNCHANGED <<stackVars, demoOptions, dbStopped, external>>

\* 30 seconds have passed, or the caller was interrupted.
ReconcileOver ==
    /\ Abort("reconcile")
    /\ UNCHANGED <<stackVars, demoOptions, dbStopped, external, report>>

Funnel ==
    /\ (~interrupted /\ "postgres" \in live /\ Continue("funnel", Deferred)) \/ Abort("funnel")
    /\ UNCHANGED <<stackVars, demoOptions, dbStopped, external, report>>

\* The deferred CollectEvidence only reads, but its error is an error.
CollectEvidence ==
    /\ \/ Continue("evidence", "finish") /\ UNCHANGED faults
       \/ /\ faults < MaxFaults /\ faults' = faults + 1
          /\ stage = "evidence" /\ stage' = "finish" /\ failed' = TRUE
    /\ UNCHANGED <<options, startVars, interrupted, call, dockerVars, histVars, appeared>>
    /\ UNCHANGED <<demoOptions, dbStopped, external, report>>

\* demo.json; writing it may fail.
Report ==
    /\ Continue("report", "returned") \/ (stage = "report" /\ stage' = "returned" /\ failed' = TRUE)
    /\ report' = [report EXCEPT !.completed = ~failed]
    /\ UNCHANGED <<stackVars, demoOptions, dbStopped, external>>

-----------------------------------------------------------------------------
RunDemo == Started \/ Load \/ CallOperation \/ OperationReturns \/ Send \/ SendFails \/ Reconciled
    \/ ReconcileOver \/ Funnel \/ CollectEvidence \/ Report

\* The stack's own steps leave the demo's variables alone.
StackSteps == (Startup \/ Operate) /\ UNCHANGED demoVars
Environment == (Interrupt \/ ForeignAppears) /\ stage # "returned" /\ UNCHANGED demoVars

Init ==
    /\ StackInit
    /\ stage = "start" /\ recovery \in BOOLEAN /\ cleanup \in BOOLEAN
    /\ profile = "selfhost" => ~recovery /\ ~cleanup
    /\ dbStopped = FALSE /\ failed = FALSE /\ topic = {} /\ table = {}
    /\ report = [accepted |-> {}, stored |-> {}, completed |-> FALSE]

Next == StackSteps \/ Environment \/ Store \/ UserCalls \/ RunDemo

\* Commands, requests and queries end, by themselves or at their deadline.
Spec == Init /\ [][Next]_vars /\ WF_vars(StackSteps) /\ WF_vars(RunDemo)

-----------------------------------------------------------------------------
TypeOK ==
    /\ StackTypeOK
    /\ stage \in {"start", "load", "take away", "send", "give back", "reconcile", "funnel",
                  "bring back", "evidence", "finish", "report", "returned"}
    /\ recovery \in BOOLEAN /\ cleanup \in BOOLEAN /\ dbStopped \in BOOLEAN /\ failed \in BOOLEAN
    /\ topic \in SUBSET Inputs /\ table \in SUBSET topic
    /\ report \in [accepted : SUBSET Inputs, stored : SUBSET Inputs, completed : BOOLEAN]

(***************************************************************************)
(* A report that says Completed is true to its word: every input was       *)
(* acknowledged and read back from the database, and the stack was removed *)
(* (-cleanup), or is stopped with its volumes kept, "Without -cleanup,     *)
(* demos stop their own services and preserve volumes"                     *)
(* (docs/development.md:76).                                               *)
(***************************************************************************)
CompletedMeansStored ==
    report.completed =>
        /\ report.accepted = Inputs /\ report.stored = Inputs
        /\ IF cleanup THEN own[attempt] = {} ELSE live = {} /\ "volume" \in own[attempt]

(***************************************************************************)
(* Interrupted or failing at any point, the demo takes its stack down as   *)
(* it was asked to, as long as the commands of the cleanup themselves work *)
(* and nobody else has put anything into the project: the deferred         *)
(* functions of RunDemo and startAttempt do not use the caller's context.  *)
(***************************************************************************)
InterruptIsCleaned ==
    stage = "returned" /\ faults = 0 /\ appeared = 0 =>
        IF at = "failed" \/ cleanup THEN \A p \in Attempts : own[p] = {} ELSE live = {}

(***************************************************************************)
(* A demo ends: the attempts to start are counted, and every wait has a    *)
(* deadline.                                                               *)
(***************************************************************************)
DemoEnds == profile = "development" ~> stage = "returned"

-----------------------------------------------------------------------------
(* The inductive invariant.                                                *)

\* The operation of a stage.
OperationOf(s) ==
    CASE s = "take away" -> SetServiceRunning("postgres", FALSE)
      [] s = "finish" -> IF cleanup THEN Destroy ELSE Stop
      [] OTHER -> SetServiceRunning("postgres", TRUE)

\* Where the demo is, and the operation it is waiting for.
Staged ==
    /\ profile = "selfhost" => stage = "start"
    /\ stage \in {"start", "load", "take away", "send"} => topic = {}
    /\ stage # "start" => at = "ready" \/ (at = "failed" /\ stage = "returned")
    /\ profile = "development" /\ at = "ready" /\ call.step # "idle" =>
        /\ stage \in {"take away", "give back", "bring back", "finish"}
        /\ call.op = OperationOf(stage)
        /\ (call.cleanup <=> stage \in {"bring back", "finish"})

\* The stack is as the demo was asked to leave it.
Finished == IF cleanup THEN own[attempt] = {} ELSE live = {}

\* Only the last operation takes resources away, and only it must succeed.
TakenDown ==
    /\ profile = "development" /\ at = "ready" /\ (cleanup => stage \notin {"finish", "report", "returned"})
            => own[attempt] = Resources
    /\ stage = "finish" /\ call.step = "ok" => Finished
    /\ stage \in {"report", "returned"} /\ at = "ready" /\ (~failed \/ (faults = 0 /\ appeared = 0)) => Finished

\* What the report may say.
Reported ==
    /\ stage \in {"give back", "reconcile", "funnel"} => report.accepted = Inputs
    /\ stage = "funnel" => report.stored = Inputs
    /\ stage \in {"bring back", "evidence", "finish", "report", "returned"} /\ ~failed =>
        report.accepted = Inputs /\ report.stored = Inputs
    /\ report.completed =>
        /\ stage = "returned" /\ at = "ready" /\ Finished
        /\ report.accepted = Inputs /\ report.stored = Inputs

Inv == TypeOK /\ StackInv /\ Staged /\ TakenDown /\ Reported
=============================================================================
