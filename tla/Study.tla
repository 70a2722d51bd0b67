------------------------------- MODULE Study --------------------------------
(***************************************************************************)
(* A benchmark study: RunStudy of internal/benchmark/study.go with the     *)
(* journal of journal.go and the files of artifacts.go.                    *)
(*                                                                         *)
(* A study measures its cases one after the other and keeps a journal so   *)
(* that a later run may resume it.  A run may be interrupted or killed at  *)
(* any point, every write may fail before or after it took effect, and     *)
(* the source and the runtime may be different ones when a run resumes.    *)
(* What a measurement does is abstracted to its outcome.  A source         *)
(* version stands for everything known before the stack is up (revision,   *)
(* fingerprint, controls, seed, mode), a runtime for what the manifest     *)
(* adds (images, configuration).                                           *)
(***************************************************************************)
EXTENDS Naturals

CONSTANTS
    CaseCount,      \* the study's cases are 1 .. CaseCount, in order
    Pipeline,       \* the cases whose observer may fail on its own
    Sources,        \* the versions the checkout may be at
    Runtimes,       \* the fingerprints a stack may have
    None,           \* no journal, no index, no fingerprint
    MaxRuns,        \* bound: processes started
    MaxFaults       \* bound: failing operations

Cases == 1 .. CaseCount

ASSUME CaseAssumption == CaseCount \in Nat \ {0} /\ Pipeline \subseteq Cases
ASSUME ValueAssumption == Sources # {} /\ Runtimes # {} /\ None \notin Runtimes
ASSUME BoundAssumption == MaxRuns \in Nat /\ MaxFaults \in Nat

VARIABLES
    source,         \* the version the checkout is at
    saved,          \* journal.json, or None
    captures,       \* raw/<case>-attempt-<attempt>.json.gz
    manifests,      \* the k of the manifest-k.json
    samples,        \* the k of the resources-k.json.gz
    index,          \* index.json, or None
    pc,             \* where RunStudy is
    journal,        \* the journal in memory, or None
    identity,       \* the identity of this run
    at,             \* the case of the loop
    measured,       \* the outcome of the measurement
    bound,          \* the identity is bound to the journal
    sampling,       \* SampleResources runs
    interrupted,    \* ctx is done
    failed,         \* result is an error so far
    result,         \* what the last RunStudy to return has returned
    runs, faults

disk == <<saved, captures, manifests, samples, index>>
memory == <<journal, identity, at, measured, bound, sampling>>
vars == <<source, disk, pc, memory, interrupted, failed, result, runs, faults>>

Done(status) == status \in {"complete", "limited"}

-----------------------------------------------------------------------------
(* Writes.  A failing write counts as a fault.                             *)

Fault == faults < MaxFaults /\ faults' = faults + 1

\* An error is returned: the deferred function runs once the stack is up.
ReturnError == pc' = "resources" /\ failed' = TRUE

\* atomicJSON: a rename, after which the directory's sync may still fail.
AtomicJSON(file, value, label) ==
    \/ file' = value /\ pc' = label /\ UNCHANGED <<failed, faults>>
    \/ file' \in {file, value} /\ ReturnError /\ Fault

\* What writeStudyIndex publishes of a journal.
IndexOf(j, status) ==
    [status |-> status, identity |-> j.identity, cases |-> j.cases,
     manifests |-> j.manifests, samples |-> j.samples]

-----------------------------------------------------------------------------
(* The environment.                                                        *)

EditSource ==
    /\ source' \in Sources \ {source}
    /\ UNCHANGED <<disk, pc, memory, interrupted, failed, result, runs, faults>>

Interrupt ==
    /\ pc # "idle" /\ ~interrupted
    /\ interrupted' = TRUE
    /\ UNCHANGED <<source, disk, pc, memory, failed, result, runs, faults>>

\* The process is killed: what it held in memory is gone.
Forget ==
    /\ journal' = None
    /\ identity' = None
    /\ at' = 1
    /\ measured' = "none"
    /\ bound' = FALSE
    /\ sampling' = FALSE
    /\ interrupted' = FALSE
    /\ failed' = FALSE

Crash ==
    /\ pc # "idle" /\ Fault
    /\ pc' = "idle"
    /\ Forget
    /\ result' = "none"
    /\ UNCHANGED <<source, disk, runs>>

-----------------------------------------------------------------------------
(* Starting and resuming.                                                  *)

\* sourceIdentity: the revision and the fingerprint of the checkout.
SourceIdentity == source

\* imageFingerprint and runtimeFingerprint: whatever stack came up.
RuntimeIdentities == Runtimes

NewCase == [status |-> "pending", attempt |-> 0, artifact |-> 0, history |-> {}]

NewJournal ==
    [status |-> "new", executions |-> 0, identity |-> [source |-> SourceIdentity, runtime |-> None],
     cases |-> [c \in Cases |-> NewCase], manifests |-> {}, samples |-> {}]

\* RunStudy returns before the deferred function exists.
ReturnEarly(value) ==
    /\ pc' = "idle"
    /\ Forget
    /\ result' = value

Begin ==
    /\ pc = "idle" /\ runs < MaxRuns
    /\ runs' = runs + 1

\* A new study, in an empty directory.
Fresh ==
    /\ Begin /\ saved = None
    /\ \/ /\ saved' = NewJournal
          /\ pc' = "stack"
          /\ journal' = NewJournal
          /\ identity' = NewJournal.identity
          /\ UNCHANGED <<at, measured, bound, sampling, interrupted, failed, result, faults>>
       \/ /\ saved' \in {None, NewJournal}
          /\ ReturnEarly("error")
          /\ Fault
    /\ UNCHANGED <<source, captures, manifests, samples, index>>

\* Compatible: a fingerprint that differs refuses the run.
Compatible(j, id) == j.identity = id

\* VerifyArtifact of a case's capture: the file exists and is the one the
\* reference was made from.
VerifyArtifact(c, p) == \E f \in captures : f.case = c /\ f.attempt = p.artifact

\* Everything a run verifies before it touches the study.
Verified(j) ==
    /\ \A c \in Cases : Done(j.cases[c].status) => VerifyArtifact(c, j.cases[c])
    /\ j.manifests \subseteq manifests
    /\ j.samples \subseteq samples

\* The identity a run resumes with: the fingerprints of the runtime are not
\* known yet and taken from the journal.
Preflight(j) == [source |-> SourceIdentity, runtime |-> j.identity.runtime]

AllDone(j) == \A c \in Cases : Done(j.cases[c].status)

Resume ==
    /\ Begin /\ saved # None
    /\ Compatible(saved, Preflight(saved)) /\ Verified(saved)
    /\ ~AllDone(saved)
    /\ pc' = "stack"
    /\ journal' = saved
    /\ identity' = [source |-> SourceIdentity, runtime |-> None]
    /\ UNCHANGED <<source, disk, at, measured, bound, sampling, interrupted, failed, result, faults>>

ResumeRefused ==
    /\ Begin /\ saved # None
    /\ ~(Compatible(saved, Preflight(saved)) /\ Verified(saved))
    /\ ReturnEarly("error")
    /\ UNCHANGED <<source, disk, faults>>

\* Every case is done: there is nothing to measure.
ResumeDone ==
    /\ Begin /\ saved # None
    /\ Compatible(saved, Preflight(saved)) /\ Verified(saved)
    /\ AllDone(saved)
    /\ ReturnEarly(IF saved.status = "complete" THEN "nil" ELSE "error")
    /\ UNCHANGED <<source, disk, faults>>

\* runenv.Start; the stack fails, or the context is done.
StackUp ==
    /\ pc = "stack"
    /\ pc' = "bind"
    /\ UNCHANGED <<source, disk, memory, interrupted, failed, result, runs, faults>>

StackFails ==
    /\ pc = "stack"
    /\ \/ Fault
       \/ interrupted /\ UNCHANGED faults
    /\ ReturnEarly("error")
    /\ UNCHANGED <<source, disk, runs>>

\* The manifest cannot be captured.
ManifestFails ==
    /\ pc = "bind"
    /\ \/ Fault
       \/ interrupted /\ UNCHANGED faults
    /\ ReturnError
    /\ UNCHANGED <<source, disk, memory, interrupted, result, runs>>

\* The journal of a new session on a stack whose identity is known.
Bound(j, id) == [j EXCEPT !.identity = id, !.executions = @ + 1, !.status = "running"]

\* Mutant: a study is resumed on whatever stack came up.
BindAnyRuntime ==
    /\ pc = "bind"
    /\ \E r \in RuntimeIdentities :
         LET id == [identity EXCEPT !.runtime = r]
             j == Bound(journal, id)
         IN  /\ identity' = id
             /\ journal' = j
             /\ AtomicJSON(saved, j, "manifest")
    /\ bound' = TRUE
    /\ UNCHANGED <<source, captures, manifests, samples, index, at, measured, sampling, interrupted, result, runs>>

\* The runtime is fingerprinted and the session is numbered, and saved before
\* any file takes the number.
Bind ==
    /\ pc = "bind"
    /\ \E r \in RuntimeIdentities :
         LET id == [identity EXCEPT !.runtime = r]
             j == Bound(journal, id)
         IN  /\ journal.identity.runtime # None => Compatible(journal, id)
             /\ identity' = id
             /\ journal' = j
             /\ AtomicJSON(saved, j, "manifest")
    /\ bound' = TRUE
    /\ UNCHANGED <<source, captures, manifests, samples, index, at, measured, sampling, interrupted, result, runs>>

\* The stack is not the one the journal was bound to.
BindRefused ==
    /\ pc = "bind" /\ journal.identity.runtime # None
    /\ \E r \in RuntimeIdentities : ~Compatible(journal, [identity EXCEPT !.runtime = r])
    /\ ReturnError
    /\ UNCHANGED <<source, disk, memory, interrupted, result, runs, faults>>

\* WriteJSONArtifact of the manifest: Link refuses a name that exists.
WriteManifest ==
    /\ pc = "manifest"
    /\ LET k == journal.executions
       IN  \/ /\ k \notin manifests
              /\ manifests' = manifests \union {k}
              /\ journal' = [journal EXCEPT !.manifests = @ \union {k}]
              /\ pc' = "bound"
              /\ UNCHANGED <<failed, faults>>
           \/ /\ (k \in manifests /\ UNCHANGED faults) \/ Fault
              /\ ReturnError
              /\ UNCHANGED <<manifests, journal>>
    /\ UNCHANGED <<source, saved, captures, samples, index, identity, at, measured, bound, sampling, interrupted, result, runs>>

\* The manifest is recorded and the sampling of the resources begins.
SaveManifest ==
    /\ pc = "bound"
    /\ AtomicJSON(saved, journal, "client")
    /\ sampling' = (pc' = "client")
    /\ UNCHANGED <<source, captures, manifests, samples, index, journal, identity, at, measured, bound, interrupted, result, runs>>

\* s.HTTPClient.
OpenClient ==
    /\ pc = "client"
    /\ \/ pc' = "loop" /\ UNCHANGED <<failed, faults>>
       \/ ReturnError /\ Fault
    /\ UNCHANGED <<source, disk, memory, interrupted, result, runs>>

-----------------------------------------------------------------------------
(* The loop over the cases.                                                *)

Progress == journal.cases[at]

Started(j, c) == [j EXCEPT !.cases[c].attempt = @ + 1, !.cases[c].status = "running"]

Recorded(j, c, status) ==
    [j EXCEPT !.cases[c].status = status,
              !.cases[c].artifact = j.cases[c].attempt,
              !.cases[c].history = @ \union {j.cases[c].attempt}]

SkipDone ==
    /\ pc = "loop" /\ at \in Cases
    /\ Done(Progress.status)
    /\ at' = at + 1
    /\ UNCHANGED <<source, disk, pc, journal, identity, measured, bound, sampling, interrupted, failed, result, runs, faults>>

\* The context is checked before a case starts.
LoopStopped ==
    /\ pc = "loop" /\ at \in Cases
    /\ ~Done(Progress.status) /\ interrupted
    /\ ReturnError
    /\ UNCHANGED <<source, disk, memory, interrupted, result, runs, faults>>

\* Mutant: the attempt's number stays in memory until its capture is written.
StartCaseUnsaved ==
    /\ pc = "loop" /\ at \in Cases
    /\ ~Done(Progress.status) /\ ~interrupted
    /\ journal' = Started(journal, at)
    /\ pc' = "measure"
    /\ UNCHANGED <<source, disk, identity, at, measured, bound, sampling, interrupted, failed, result, runs, faults>>

\* Mutant: a resumed study measures every case again.
StartAnyCase ==
    /\ pc = "loop" /\ at \in Cases
    /\ ~interrupted
    /\ journal' = Started(journal, at)
    /\ AtomicJSON(saved, Started(journal, at), "measure")
    /\ UNCHANGED <<source, captures, manifests, samples, index, identity, at, measured, bound, sampling, interrupted, result, runs>>

\* The attempt is numbered, and saved before it begins.
StartCase ==
    /\ pc = "loop" /\ at \in Cases
    /\ ~Done(Progress.status) /\ ~interrupted
    /\ journal' = Started(journal, at)
    /\ AtomicJSON(saved, Started(journal, at), "measure")
    /\ UNCHANGED <<source, captures, manifests, samples, index, identity, at, measured, bound, sampling, interrupted, result, runs>>

\* studyOutcome of a report with every repetition: the plan was met, or the
\* load or a fault was late.
StudyOutcome == {"complete", "limited"}

\* verifiedObservationOnly: nothing failed but the observation of a pipeline
\* that delivered everything in every repetition.
VerifiedObservationOnly == at \in Pipeline /\ ~interrupted

\* The measurement.  A context that is done while it lasts makes it fail.
Measure ==
    /\ pc = "measure"
    /\ \/ ~interrupted /\ measured' \in StudyOutcome /\ UNCHANGED faults
       \/ interrupted /\ measured' = "error" /\ UNCHANGED faults
       \/ measured' = "error" /\ Fault
       \/ VerifiedObservationOnly /\ measured' = "unobserved" /\ Fault
    /\ pc' = "capture"
    /\ UNCHANGED <<source, disk, journal, identity, at, bound, sampling, interrupted, failed, result, runs>>

\* The status an outcome is recorded with; the context is consulted again.
Outcome ==
    IF measured \in StudyOutcome THEN measured
    ELSE IF interrupted THEN "incomplete"
    ELSE IF measured = "unobserved" THEN "limited"
    ELSE "failed"

Capture == [case |-> at, attempt |-> Progress.attempt, status |-> Outcome, identity |-> identity]

Taken == \E f \in captures : f.case = at /\ f.attempt = Progress.attempt

\* Mutant: the journal records the capture whether or not it was written.
WriteCaptureUnchecked ==
    /\ pc = "capture"
    /\ \/ captures' = captures \union {Capture} /\ UNCHANGED faults
       \/ captures' = captures /\ Fault
    /\ journal' = Recorded(journal, at, Outcome)
    /\ pc' = "record"
    /\ UNCHANGED <<source, saved, manifests, samples, index, identity, at, measured, bound, sampling, interrupted, failed, result, runs>>

\* WriteCompressed of the capture: Link refuses a name that exists.
WriteCapture ==
    /\ pc = "capture"
    /\ \/ /\ ~Taken
          /\ captures' = captures \union {Capture}
          /\ journal' = Recorded(journal, at, Outcome)
          /\ pc' = "record"
          /\ UNCHANGED <<failed, faults>>
       \/ /\ (Taken /\ UNCHANGED faults) \/ Fault
          /\ ReturnError
          /\ UNCHANGED <<captures, journal>>
    /\ UNCHANGED <<source, saved, manifests, samples, index, identity, at, measured, bound, sampling, interrupted, result, runs>>

SaveCase ==
    /\ pc = "record"
    /\ AtomicJSON(saved, journal, "index")
    /\ UNCHANGED <<source, captures, manifests, samples, index, memory, interrupted, result, runs>>

\* The index of an unfinished study.
WriteIndex ==
    /\ pc = "index"
    /\ AtomicJSON(index, IndexOf(journal, "incomplete"), "next")
    /\ UNCHANGED <<source, saved, captures, manifests, samples, memory, interrupted, result, runs>>

\* An error ends the study, unless it was one of the observation only.
NextCase ==
    /\ pc = "next"
    /\ \/ measured = "error" /\ ReturnError /\ UNCHANGED at
       \/ measured # "error" /\ pc' = "loop" /\ at' = at + 1 /\ UNCHANGED failed
    /\ UNCHANGED <<source, disk, journal, identity, measured, bound, sampling, interrupted, result, runs, faults>>

\* The loop is over: RunStudy returns nil, and the deferred function runs.
LoopEnds ==
    /\ pc = "loop" /\ at \notin Cases
    /\ pc' = "resources"
    /\ UNCHANGED <<source, disk, memory, interrupted, failed, result, runs, faults>>

-----------------------------------------------------------------------------
(* The deferred function.                                                  *)

\* The samples are written, if any were taken.
WriteResources ==
    /\ pc = "resources"
    /\ pc' = "destroy"
    /\ LET k == journal.executions
       IN  \/ ~sampling /\ UNCHANGED <<samples, journal, failed, faults>>
           \/ /\ sampling /\ k \notin samples
              /\ samples' = samples \union {k}
              /\ journal' = [journal EXCEPT !.samples = @ \union {k}]
              /\ UNCHANGED <<failed, faults>>
           \/ /\ sampling
              /\ (k \in samples /\ UNCHANGED faults) \/ Fault
              /\ failed' = TRUE
              /\ UNCHANGED <<samples, journal>>
    /\ UNCHANGED <<source, saved, captures, manifests, index, identity, at, measured, bound, sampling, interrupted, result, runs>>

\* Services are restored, evidence is collected, the stack is destroyed.
Destroy ==
    /\ pc = "destroy"
    /\ pc' = "recheck"
    /\ \/ UNCHANGED <<failed, faults>>
       \/ failed' = TRUE /\ Fault
    /\ UNCHANGED <<source, disk, memory, interrupted, result, runs>>

FinalStatus(error) ==
    IF ~error THEN "complete" ELSE IF interrupted THEN "incomplete" ELSE "failed"

\* The source is fingerprinted again, and the status follows.
Recheck ==
    /\ pc = "recheck" /\ bound
    /\ \/ failed' = (failed \/ SourceIdentity # identity.source) /\ UNCHANGED faults
       \/ failed' = TRUE /\ Fault
    /\ journal' = [journal EXCEPT !.status = FinalStatus(failed')]
    /\ pc' = "close"
    /\ UNCHANGED <<source, disk, identity, at, measured, bound, sampling, interrupted, result, runs>>

\* Nothing was bound: the journal is left alone.
LeaveUnbound ==
    /\ pc = "recheck" /\ ~bound
    /\ ReturnEarly("error")
    /\ UNCHANGED <<source, disk, runs, faults>>

\* The journal and then the index, whether or not the journal was saved.
SaveFinal ==
    /\ pc = "close"
    /\ \/ saved' = journal /\ UNCHANGED <<failed, faults>>
       \/ saved' \in {saved, journal} /\ failed' = TRUE /\ Fault
    /\ pc' = "publish"
    /\ UNCHANGED <<source, captures, manifests, samples, index, memory, interrupted, result, runs>>

Publish ==
    /\ pc = "publish"
    /\ \/ /\ index' = IndexOf(journal, journal.status)
          /\ ReturnEarly(IF failed THEN "error" ELSE "nil")
          /\ UNCHANGED faults
       \/ /\ index' \in {index, IndexOf(journal, journal.status)}
          /\ ReturnEarly("error")
          /\ Fault
    /\ UNCHANGED <<source, saved, captures, manifests, samples, runs>>

-----------------------------------------------------------------------------
Init ==
    /\ source \in Sources
    /\ saved = None /\ index = None
    /\ captures = {} /\ manifests = {} /\ samples = {}
    /\ pc = "idle"
    /\ journal = None /\ identity = None
    /\ at = 1 /\ measured = "none"
    /\ bound = FALSE /\ sampling = FALSE /\ interrupted = FALSE /\ failed = FALSE
    /\ result = "none"
    /\ runs = 0 /\ faults = 0

Starting ==
    \/ Fresh \/ Resume \/ ResumeRefused \/ ResumeDone
    \/ StackUp \/ StackFails
    \/ ManifestFails \/ Bind \/ BindRefused
    \/ WriteManifest \/ SaveManifest \/ OpenClient

Looping ==
    \/ SkipDone \/ LoopStopped \/ StartCase
    \/ Measure \/ WriteCapture \/ SaveCase
    \/ WriteIndex \/ NextCase \/ LoopEnds

Finishing ==
    \/ WriteResources \/ Destroy
    \/ Recheck \/ LeaveUnbound
    \/ SaveFinal \/ Publish

Next == EditSource \/ Interrupt \/ Crash \/ Starting \/ Looping \/ Finishing

Spec == Init /\ [][Next]_vars

-----------------------------------------------------------------------------
(* Properties.                                                             *)

Identities == [source : Sources, runtime : Runtimes \union {None}]

Statuses == {"pending", "running", "complete", "limited", "failed", "incomplete"}

Tables ==
    [Cases -> [status : Statuses, attempt : Nat, artifact : Nat, history : SUBSET Nat]]

Journals ==
    [status : {"new", "running", "complete", "failed", "incomplete"}, executions : Nat,
     identity : Identities, cases : Tables, manifests : SUBSET Nat, samples : SUBSET Nat]

Indices ==
    [status : {"complete", "failed", "incomplete"},
     identity : Identities, cases : Tables, manifests : SUBSET Nat, samples : SUBSET Nat]

Files == [case : Cases, attempt : Nat, status : Statuses, identity : Identities]

ASSUME NoneAssumption ==
    None \notin Journals /\ None \notin Indices /\ None \notin Identities

FilesOK ==
    /\ saved \in Journals \union {None}
    /\ captures \subseteq Files /\ manifests \subseteq Nat /\ samples \subseteq Nat
    /\ index \in Indices \union {None}

MemoryOK ==
    /\ journal \in Journals \union {None}
    /\ identity \in Identities \union {None}

ControlOK ==
    /\ source \in Sources
    /\ pc \in {"idle", "stack", "bind", "manifest", "bound", "client", "loop", "measure", "capture",
               "record", "index", "next", "resources", "destroy", "recheck", "close", "publish"}
    /\ at \in Nat \ {0}
    /\ measured \in {"none", "complete", "limited", "error", "unobserved"}
    /\ result \in {"none", "nil", "error"}
    /\ runs \in Nat /\ faults \in Nat

FlagsOK ==
    bound \in BOOLEAN /\ sampling \in BOOLEAN /\ interrupted \in BOOLEAN /\ failed \in BOOLEAN

TypeOK == FilesOK /\ MemoryOK /\ ControlOK /\ FlagsOK

\* What a record of a study says about its captures is what the files hold.
Backed(r) ==
    /\ r.manifests \subseteq manifests /\ r.samples \subseteq samples
    /\ \A c \in Cases :
         LET p == r.cases[c]
         IN  /\ \A a \in p.history : \E f \in captures :
                  f.case = c /\ f.attempt = a /\ f.identity = r.identity
             /\ Done(p.status) => \E f \in captures :
                  f.case = c /\ f.attempt = p.artifact /\ f.status = p.status
                  /\ f.identity = r.identity

\* The name of a capture, manifest or resource file is free when RunStudy
\* comes to write it, although a killed run may have left files that no
\* journal names: the attempt and the session are saved before the file that
\* carries their number is written, and Link never has to refuse.
NamesAreFresh ==
    /\ pc = "capture" => ~Taken
    /\ pc = "manifest" => journal.executions \notin manifests
    /\ pc = "resources" /\ sampling => journal.executions \notin samples

Running == pc # "idle"

Measuring == pc \in {"measure", "capture", "record", "index", "next"}

\* How far a run is and what it holds.
RunShape ==
    /\ Running => saved # None /\ journal # None /\ identity # None
    /\ ~Running => ~bound /\ ~sampling /\ ~failed
    /\ pc \in {"stack", "bind"} => ~bound
    /\ pc \in {"manifest", "bound", "client", "loop", "close", "publish"} \/ Measuring => bound
    /\ pc \in {"client", "loop"} \/ Measuring => sampling
    /\ pc \in {"stack", "bind", "manifest", "bound"} => ~sampling
    /\ pc \in {"stack", "bind", "manifest", "bound"} => ~failed
    /\ sampling => bound /\ journal.executions \in journal.manifests
    /\ Measuring => at \in Cases
    /\ pc = "bound" => journal.executions \in journal.manifests
    /\ pc \in {"close", "publish"} => journal.status \in {"complete", "failed", "incomplete"}
    /\ pc \in {"stack", "bind", "manifest", "measure", "capture", "index", "next"} => saved = journal

\* Everything that was measured was measured under the journal's identity.
OneIdentity ==
    /\ Running => identity.source = saved.identity.source
    /\ bound => identity.runtime # None /\ journal.identity = identity
    /\ Running /\ ~bound => journal = saved
    /\ Running /\ saved.identity.runtime # None => journal.identity = saved.identity
    /\ sampling => saved.identity = identity
    /\ saved = None => captures = {} /\ manifests = {} /\ samples = {} /\ index = None
    /\ captures # {} => saved.identity.runtime # None
    /\ \A f \in captures : f.identity = saved.identity
    /\ index # None /\ index.status = "complete" =>
          index.identity = saved.identity /\ saved.identity.runtime # None

\* No number was given to a file before the journal on disk had it.
NumbersAreSaved ==
    /\ \A f \in captures : f.attempt <= saved.cases[f.case].attempt
    /\ \A k \in manifests \union samples : k <= saved.executions
    /\ Running => saved.executions <= journal.executions
    /\ Running => \A c \in Cases : saved.cases[c].attempt <= journal.cases[c].attempt
    /\ sampling => saved.executions = journal.executions

\* A case's progress names files that exist, and is done as they say.
CaseNamed(p, c, files) ==
    /\ \A a \in p.history : \E f \in files : f.case = c /\ f.attempt = a
    /\ Done(p.status) => \E f \in files :
         f.case = c /\ f.attempt = p.artifact /\ f.status = p.status

NamedIn(r, cs, ms, ss) ==
    /\ r.manifests \subseteq ms /\ r.samples \subseteq ss
    /\ \A c \in Cases : CaseNamed(r.cases[c], c, cs)

Named(r) == NamedIn(r, captures, manifests, samples)

SavedNamed == saved # None => Named(saved)
JournalNamed == Running => Named(journal)
IndexNamed == index # None => Named(index)

\* The numbers of the session and of the attempt in progress are new.
NumbersAreNew ==
    /\ pc \in {"measure", "capture"} => ~Taken
    /\ pc = "manifest" => journal.executions \notin manifests
    /\ pc \in {"manifest", "bound", "client", "loop"} \/ Measuring => journal.executions \notin samples
    /\ pc = "resources" /\ sampling => journal.executions \notin samples

\* What is in memory is ahead of the disk, and done cases agree.
MemoryIsAhead ==
    /\ Running => \A c \in Cases :
         Done(saved.cases[c].status) => journal.cases[c] = saved.cases[c]
    /\ pc \in {"measure", "capture"} => journal.cases[at].status = "running"

\* A run that meets no error has taken samples and written them.
CompleteIsSampled ==
    /\ pc \in {"resources", "destroy", "recheck"} /\ ~failed => sampling
    /\ pc \in {"destroy", "recheck"} /\ ~failed => journal.samples # {}
    /\ pc \in {"close", "publish"} /\ journal.status = "complete" => sampling /\ journal.samples # {}
    /\ index # None /\ index.status = "complete" => index.manifests # {} /\ index.samples # {}

Inv ==
    /\ TypeOK /\ RunShape /\ OneIdentity /\ NumbersAreSaved
    /\ NumbersAreNew
    /\ SavedNamed /\ JournalNamed /\ IndexNamed
    /\ CompleteIsSampled
    /\ MemoryIsAhead

\* The journal on disk never names a file that is missing, holds another
\* outcome or was measured under another identity, whatever write failed and
\* wherever a run was killed: RunStudy writes a capture before the journal
\* that names it (study.go 557 - 566), and a resume therefore never refuses
\* the study's own artifacts.
JournalIsBacked == saved # None => Backed(saved)

\* What benchmarks/audit_study.py verifies of the files behind an index that
\* says complete: captures of the index's own identity and status, every
\* attempt of the history, and at least one manifest and one resource file.
AuditedEvidence ==
    index # None /\ index.status = "complete" =>
        /\ Backed(index)
        /\ index.identity.runtime # None
        /\ index.manifests # {} /\ index.samples # {}

\* A case the journal on disk calls done is never measured again: its status
\* and its capture stay what they are through every later run, and no
\* capture is replaced ("completed captures are immutable", study.go 243).
DoneIsFinal ==
    [][/\ captures \subseteq captures'
       /\ saved # None => \A c \in Cases :
            Done(saved.cases[c].status) => saved'.cases[c] = saved.cases[c]]_vars

\* An index that says complete lists no case that is not done, as
\* audit_study.py 326 requires and tests/integration/study_test.go 57 asserts.
AuditedStatus ==
    index # None /\ index.status = "complete" => AllDone(index)

\* When RunStudy returns nil, index.json says complete, as
\* tests/integration/study_test.go 41 - 46 asserts after a resume.
NilIsPublished ==
    result = "nil" /\ pc = "idle" => index # None /\ index.status = "complete"

=============================================================================
