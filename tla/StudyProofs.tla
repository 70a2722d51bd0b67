----------------------------- MODULE StudyProofs ----------------------------
(***************************************************************************)
(* Proofs about module Study.                                              *)
(***************************************************************************)
EXTENDS Study, TLAPS

USE CaseAssumption, ValueAssumption, BoundAssumption, NoneAssumption

\* A journal in memory or on disk is a journal wherever it is not None.
LEMMA Records ==
    ASSUME Inv, Running
    PROVE  saved \in Journals /\ journal \in Journals /\ identity \in Identities
BY DEF Inv, TypeOK, FilesOK, MemoryOK, RunShape, Running

\* What binding a session changes in a journal.
LEMMA BoundFields ==
    ASSUME NEW j \in Journals, NEW id \in Identities
    PROVE  /\ Bound(j, id) \in Journals
           /\ Bound(j, id).identity = id /\ Bound(j, id).status = "running"
           /\ Bound(j, id).executions = j.executions + 1
           /\ Bound(j, id).cases = j.cases
           /\ Bound(j, id).manifests = j.manifests /\ Bound(j, id).samples = j.samples
<1>1. j.executions + 1 \in Nat /\ DOMAIN j = {"status", "executions", "identity", "cases", "manifests", "samples"}
  BY DEF Journals
<1>2. Bound(j, id) = [j EXCEPT !.identity = id, !.executions = j.executions + 1, !.status = "running"]
  BY DEF Bound, Journals
<1>3. \A n \in Nat : [j EXCEPT !.identity = id, !.executions = n, !.status = "running"] \in Journals
  BY DEF Journals
<1>q. QED
  BY <1>1, <1>2, <1>3 DEF Journals

\* What the start of an attempt changes in a journal.
LEMMA StartedFields ==
    ASSUME NEW j \in Journals, NEW c \in Cases
    PROVE  /\ Started(j, c) \in Journals
           /\ Started(j, c).identity = j.identity /\ Started(j, c).status = j.status
           /\ Started(j, c).executions = j.executions
           /\ Started(j, c).manifests = j.manifests /\ Started(j, c).samples = j.samples
           /\ \A d \in Cases \ {c} : Started(j, c).cases[d] = j.cases[d]
           /\ Started(j, c).cases[c].status = "running"
           /\ Started(j, c).cases[c].attempt = j.cases[c].attempt + 1
           /\ Started(j, c).cases[c].history = j.cases[c].history
<1> DEFINE p == [j.cases[c] EXCEPT !.attempt = @ + 1, !.status = "running"]
<1> j.cases \in Tables
  BY DEF Journals
<1>0. j.cases[c] \in [status : Statuses, attempt : Nat, artifact : Nat, history : SUBSET Nat]
      /\ "running" \in Statuses
  BY DEF Tables, Statuses
<1>1. p \in [status : Statuses, attempt : Nat, artifact : Nat, history : SUBSET Nat]
      /\ p.status = "running" /\ p.attempt = j.cases[c].attempt + 1 /\ p.history = j.cases[c].history
  <2>1. \A n \in Nat : LET r == [j.cases[c] EXCEPT !.attempt = n, !.status = "running"]
                       IN  /\ r \in [status : Statuses, attempt : Nat, artifact : Nat, history : SUBSET Nat]
                           /\ r.status = "running" /\ r.attempt = n /\ r.history = j.cases[c].history
    BY <1>0
  <2>2. j.cases[c].attempt + 1 \in Nat
    BY <1>0
  <2>q. QED
    BY <2>1, <2>2
<1>2. Started(j, c) = [j EXCEPT !.cases = [j.cases EXCEPT ![c] = p]]
  BY DEF Started, Journals, Tables
<1> HIDE DEF p
<1>3. [j.cases EXCEPT ![c] = p] \in Tables
  BY <1>1 DEF Tables
<1>q. QED
  BY <1>1, <1>2, <1>3 DEF Journals, Tables

\* What the end of an attempt changes in a journal.
LEMMA RecordedFields ==
    ASSUME NEW j \in Journals, NEW c \in Cases, NEW status \in Statuses
    PROVE  /\ Recorded(j, c, status) \in Journals
           /\ Recorded(j, c, status).identity = j.identity
           /\ Recorded(j, c, status).status = j.status
           /\ Recorded(j, c, status).executions = j.executions
           /\ Recorded(j, c, status).manifests = j.manifests
           /\ Recorded(j, c, status).samples = j.samples
           /\ \A d \in Cases \ {c} : Recorded(j, c, status).cases[d] = j.cases[d]
           /\ Recorded(j, c, status).cases[c].status = status
           /\ Recorded(j, c, status).cases[c].attempt = j.cases[c].attempt
           /\ Recorded(j, c, status).cases[c].artifact = j.cases[c].attempt
           /\ Recorded(j, c, status).cases[c].history = j.cases[c].history \union {j.cases[c].attempt}
<1> DEFINE p == [j.cases[c] EXCEPT !.status = status, !.artifact = j.cases[c].attempt,
                                   !.history = @ \union {j.cases[c].attempt}]
<1> j.cases \in Tables
  BY DEF Journals
<1>1. p \in [status : Statuses, attempt : Nat, artifact : Nat, history : SUBSET Nat]
      /\ p.status = status /\ p.attempt = j.cases[c].attempt /\ p.artifact = j.cases[c].attempt
      /\ p.history = j.cases[c].history \union {j.cases[c].attempt}
  BY DEF Tables
<1>2. Recorded(j, c, status) = [j EXCEPT !.cases = [j.cases EXCEPT ![c] = p]]
  BY DEF Recorded, Journals, Tables
<1> HIDE DEF p
<1>3. [j.cases EXCEPT ![c] = p] \in Tables
  BY <1>1 DEF Tables
<1>q. QED
  BY <1>1, <1>2, <1>3 DEF Journals, Tables

\* The journal of a new study.
LEMMA NewJournalFields ==
    ASSUME source \in Sources
    PROVE  /\ NewJournal \in Journals /\ NewJournal # None
           /\ NewJournal.identity = [source |-> source, runtime |-> None]
           /\ NewJournal.identity.source = source /\ NewJournal.identity.runtime = None
           /\ NewJournal.identity \in Identities
           /\ NewJournal.executions = 0
           /\ NewJournal.manifests = {} /\ NewJournal.samples = {}
           /\ \A c \in Cases : /\ NewJournal.cases[c].status = "pending"
                               /\ NewJournal.cases[c].attempt = 0 /\ NewJournal.cases[c].history = {}
<1>1. [c \in Cases |-> NewCase] \in Tables
  BY DEF NewCase, Tables, Statuses
<1>2. [source |-> source, runtime |-> None] \in Identities
  BY DEF Identities
<1>3. NewJournal \in Journals
  BY <1>1, <1>2 DEF NewJournal, Journals, SourceIdentity
<1>q. QED
  BY <1>2, <1>3 DEF NewJournal, NewCase, SourceIdentity

\* A session is bound: the journal in memory names it, and so does the one on
\* disk if the save succeeds.
LEMMA BindFacts ==
    ASSUME Inv, Bind
    PROVE  /\ pc = "bind" /\ Running
           /\ identity' \in Identities /\ identity'.source = identity.source
           /\ identity'.runtime \in Runtimes /\ identity'.runtime # None
           /\ journal.identity.runtime # None => journal.identity = identity'
           /\ journal' \in Journals
           /\ journal'.identity = identity' /\ journal'.status = "running"
           /\ journal'.executions = journal.executions + 1
           /\ journal'.cases = journal.cases
           /\ journal'.manifests = journal.manifests /\ journal'.samples = journal.samples
           /\ \/ saved' = journal' /\ pc' = "manifest" /\ failed' = failed
              \/ saved' \in {saved, journal'} /\ pc' = "resources" /\ failed' = TRUE
           /\ bound' = TRUE
           /\ UNCHANGED <<source, captures, manifests, samples, index, at, measured, sampling, interrupted, result, runs>>
<1>1. PICK r \in Runtimes :
        /\ journal.identity.runtime # None => Compatible(journal, [identity EXCEPT !.runtime = r])
        /\ identity' = [identity EXCEPT !.runtime = r]
        /\ journal' = Bound(journal, [identity EXCEPT !.runtime = r])
        /\ AtomicJSON(saved, Bound(journal, [identity EXCEPT !.runtime = r]), "manifest")
  BY DEF Bind, RuntimeIdentities
<1>2. pc = "bind" /\ Running /\ identity \in Identities /\ journal \in Journals
  BY Records DEF Bind, Running
<1>3. identity' \in Identities /\ identity'.source = identity.source /\ identity'.runtime = r
  BY <1>1, <1>2 DEF Identities
<1>4. journal' = Bound(journal, identity')
  BY <1>1
<1>5. AtomicJSON(saved, journal', "manifest")
  BY <1>1
<1>6. journal.identity.runtime # None => journal.identity = identity'
  BY <1>1 DEF Compatible
<1>7. \/ saved' = journal' /\ pc' = "manifest" /\ failed' = failed
      \/ saved' \in {saved, journal'} /\ pc' = "resources" /\ failed' = TRUE
  BY <1>5 DEF AtomicJSON, ReturnError
<1>q. QED
  BY <1>2, <1>3, <1>4, <1>6, <1>7, BoundFields DEF Bind

\* An attempt starts: it has its number in memory, and on disk before it is
\* measured.
LEMMA StartFacts ==
    ASSUME Inv, StartCase
    PROVE  /\ pc = "loop" /\ Running /\ at \in Cases /\ ~Done(journal.cases[at].status)
           /\ journal' \in Journals
           /\ journal'.identity = journal.identity /\ journal'.status = journal.status
           /\ journal'.executions = journal.executions
           /\ journal'.manifests = journal.manifests /\ journal'.samples = journal.samples
           /\ \A d \in Cases \ {at} : journal'.cases[d] = journal.cases[d]
           /\ journal'.cases[at].status = "running"
           /\ journal'.cases[at].attempt = journal.cases[at].attempt + 1
           /\ journal'.cases[at].history = journal.cases[at].history
           /\ \/ saved' = journal' /\ pc' = "measure" /\ failed' = failed
              \/ saved' \in {saved, journal'} /\ pc' = "resources" /\ failed' = TRUE
           /\ UNCHANGED <<source, captures, manifests, samples, index, identity, at, measured, bound, sampling, interrupted, result, runs>>
<1>1. pc = "loop" /\ Running /\ at \in Cases /\ journal \in Journals /\ ~Done(journal.cases[at].status)
  BY Records DEF StartCase, Running, Progress
<1>2. journal' = Started(journal, at)
  BY DEF StartCase
<1>3. AtomicJSON(saved, journal', "measure")
  BY <1>2 DEF StartCase
<1>7. \/ saved' = journal' /\ pc' = "measure" /\ failed' = failed
      \/ saved' \in {saved, journal'} /\ pc' = "resources" /\ failed' = TRUE
  BY <1>3 DEF AtomicJSON, ReturnError
<1>q. QED
  BY <1>1, <1>2, <1>7, StartedFields DEF StartCase

\* A capture is written and named in memory, or neither.
LEMMA CaptureFacts ==
    ASSUME Inv, WriteCapture
    PROVE  /\ pc = "capture" /\ Running /\ at \in Cases
           /\ \/ /\ captures' = captures \union {Capture}
                 /\ Capture \in Files
                 /\ Capture.case = at /\ Capture.attempt = journal.cases[at].attempt
                 /\ Capture.identity = identity /\ Capture.status = journal'.cases[at].status
                 /\ journal' \in Journals
                 /\ journal'.identity = journal.identity /\ journal'.status = journal.status
                 /\ journal'.executions = journal.executions
                 /\ journal'.manifests = journal.manifests /\ journal'.samples = journal.samples
                 /\ \A d \in Cases \ {at} : journal'.cases[d] = journal.cases[d]
                 /\ journal'.cases[at].attempt = journal.cases[at].attempt
                 /\ journal'.cases[at].artifact = journal.cases[at].attempt
                 /\ journal'.cases[at].history = journal.cases[at].history \union {journal.cases[at].attempt}
                 /\ pc' = "record" /\ failed' = failed
              \/ UNCHANGED <<captures, journal>> /\ pc' = "resources" /\ failed' = TRUE
           /\ UNCHANGED <<source, saved, manifests, samples, index, identity, at, measured, bound, sampling, interrupted, result, runs>>
<1>1. pc = "capture" /\ Running /\ at \in Cases /\ journal \in Journals /\ identity \in Identities
  BY Records DEF WriteCapture, Running, Inv, RunShape, Measuring
<1>2. Outcome \in Statuses
  BY DEF Outcome, StudyOutcome, Statuses, Inv, TypeOK, ControlOK
<1>3. journal.cases[at].attempt \in Nat
  BY <1>1 DEF Journals, Tables
<1>4. /\ Capture \in Files /\ Capture.case = at /\ Capture.attempt = journal.cases[at].attempt
      /\ Capture.identity = identity /\ Capture.status = Outcome
  BY <1>1, <1>2, <1>3 DEF Capture, Files, Progress
<1>5. CASE /\ captures' = captures \union {Capture}
           /\ journal' = Recorded(journal, at, Outcome)
           /\ pc' = "record"
           /\ UNCHANGED <<failed, faults>>
  BY <1>1, <1>2, <1>4, <1>5, RecordedFields DEF WriteCapture
<1>6. CASE ReturnError /\ UNCHANGED <<captures, journal>>
  BY <1>1, <1>6 DEF WriteCapture, ReturnError
<1>q. QED
  BY <1>5, <1>6 DEF WriteCapture

\* Every step keeps the types of the control state.
LEMMA ControlStep ==
    ASSUME Inv, Next
    PROVE  ControlOK'
<1> USE DEF Fault, ReturnError, AtomicJSON, Forget, ReturnEarly, Begin, disk, memory
<1>a. TypeOK /\ RunShape /\ OneIdentity /\ NumbersAreSaved /\ NumbersAreNew
      /\ SavedNamed /\ JournalNamed /\ IndexNamed /\ CompleteIsSampled /\ MemoryIsAhead
  BY DEF Inv
<1>1. CASE EditSource
  BY <1>a, <1>1 DEF EditSource, TypeOK, ControlOK
<1>2. CASE Interrupt
  BY <1>a, <1>2 DEF Interrupt, TypeOK, ControlOK
<1>3. CASE Crash
  BY <1>a, <1>3 DEF Crash, TypeOK, ControlOK
<1>4. CASE Fresh
  BY <1>a, <1>4 DEF Fresh, TypeOK, ControlOK
<1>5. CASE Resume
  BY <1>a, <1>5 DEF Resume, TypeOK, ControlOK
<1>6. CASE ResumeRefused
  BY <1>a, <1>6 DEF ResumeRefused, TypeOK, ControlOK
<1>7. CASE ResumeDone
  BY <1>a, <1>7 DEF ResumeDone, TypeOK, ControlOK
<1>8. CASE StackUp
  BY <1>a, <1>8 DEF StackUp, TypeOK, ControlOK
<1>9. CASE StackFails
  BY <1>a, <1>9 DEF StackFails, TypeOK, ControlOK
<1>10. CASE ManifestFails
  BY <1>a, <1>10 DEF ManifestFails, TypeOK, ControlOK
<1>11. CASE Bind
  BY <1>a, <1>11 DEF Bind, TypeOK, ControlOK
<1>12. CASE BindRefused
  BY <1>a, <1>12 DEF BindRefused, TypeOK, ControlOK
<1>13. CASE WriteManifest
  BY <1>a, <1>13 DEF WriteManifest, TypeOK, ControlOK
<1>14. CASE SaveManifest
  BY <1>a, <1>14 DEF SaveManifest, TypeOK, ControlOK
<1>15. CASE OpenClient
  BY <1>a, <1>15 DEF OpenClient, TypeOK, ControlOK
<1>16. CASE SkipDone
  BY <1>a, <1>16 DEF SkipDone, TypeOK, ControlOK
<1>17. CASE LoopStopped
  BY <1>a, <1>17 DEF LoopStopped, TypeOK, ControlOK
<1>18. CASE StartCase
  BY <1>a, <1>18 DEF StartCase, TypeOK, ControlOK
<1>19. CASE Measure
  BY <1>a, <1>19 DEF Measure, TypeOK, ControlOK, StudyOutcome
<1>20. CASE WriteCapture
  BY <1>a, <1>20 DEF WriteCapture, TypeOK, ControlOK
<1>21. CASE SaveCase
  BY <1>a, <1>21 DEF SaveCase, TypeOK, ControlOK
<1>22. CASE WriteIndex
  BY <1>a, <1>22 DEF WriteIndex, TypeOK, ControlOK
<1>23. CASE NextCase
  BY <1>a, <1>23 DEF NextCase, TypeOK, ControlOK
<1>24. CASE LoopEnds
  BY <1>a, <1>24 DEF LoopEnds, TypeOK, ControlOK
<1>25. CASE WriteResources
  BY <1>a, <1>25 DEF WriteResources, TypeOK, ControlOK
<1>26. CASE Destroy
  BY <1>a, <1>26 DEF Destroy, TypeOK, ControlOK
<1>27. CASE Recheck
  BY <1>a, <1>27 DEF Recheck, TypeOK, ControlOK
<1>28. CASE LeaveUnbound
  BY <1>a, <1>28 DEF LeaveUnbound, TypeOK, ControlOK
<1>29. CASE SaveFinal
  BY <1>a, <1>29 DEF SaveFinal, TypeOK, ControlOK
<1>30. CASE Publish
  BY <1>a, <1>30 DEF Publish, TypeOK, ControlOK
<1>q. QED
  BY <1>1, <1>2, <1>3, <1>4, <1>5, <1>6, <1>7, <1>8, <1>9, <1>10, <1>11, <1>12, <1>13, <1>14, <1>15, <1>16,
     <1>17, <1>18, <1>19, <1>20, <1>21, <1>22, <1>23, <1>24, <1>25, <1>26, <1>27, <1>28, <1>29, <1>30 DEF Next, Starting, Looping, Finishing

\* Every step keeps the flags Boolean.
LEMMA FlagStep ==
    ASSUME Inv, Next
    PROVE  FlagsOK'
<1> USE DEF Fault, ReturnError, AtomicJSON, Forget, ReturnEarly, Begin, disk, memory
<1>a. TypeOK /\ RunShape /\ OneIdentity /\ NumbersAreSaved /\ NumbersAreNew
      /\ SavedNamed /\ JournalNamed /\ IndexNamed /\ CompleteIsSampled /\ MemoryIsAhead
  BY DEF Inv
<1>1. CASE EditSource
  BY <1>a, <1>1 DEF EditSource, TypeOK, FlagsOK
<1>2. CASE Interrupt
  BY <1>a, <1>2 DEF Interrupt, TypeOK, FlagsOK
<1>3. CASE Crash
  BY <1>a, <1>3 DEF Crash, TypeOK, FlagsOK
<1>4. CASE Fresh
  BY <1>a, <1>4 DEF Fresh, TypeOK, FlagsOK
<1>5. CASE Resume
  BY <1>a, <1>5 DEF Resume, TypeOK, FlagsOK
<1>6. CASE ResumeRefused
  BY <1>a, <1>6 DEF ResumeRefused, TypeOK, FlagsOK
<1>7. CASE ResumeDone
  BY <1>a, <1>7 DEF ResumeDone, TypeOK, FlagsOK
<1>8. CASE StackUp
  BY <1>a, <1>8 DEF StackUp, TypeOK, FlagsOK
<1>9. CASE StackFails
  BY <1>a, <1>9 DEF StackFails, TypeOK, FlagsOK
<1>10. CASE ManifestFails
  BY <1>a, <1>10 DEF ManifestFails, TypeOK, FlagsOK
<1>11. CASE Bind
  BY <1>a, <1>11 DEF Bind, TypeOK, FlagsOK
<1>12. CASE BindRefused
  BY <1>a, <1>12 DEF BindRefused, TypeOK, FlagsOK
<1>13. CASE WriteManifest
  BY <1>a, <1>13 DEF WriteManifest, TypeOK, FlagsOK
<1>14. CASE SaveManifest
  BY <1>a, <1>14 DEF SaveManifest, TypeOK, FlagsOK
<1>15. CASE OpenClient
  BY <1>a, <1>15 DEF OpenClient, TypeOK, FlagsOK
<1>16. CASE SkipDone
  BY <1>a, <1>16 DEF SkipDone, TypeOK, FlagsOK
<1>17. CASE LoopStopped
  BY <1>a, <1>17 DEF LoopStopped, TypeOK, FlagsOK
<1>18. CASE StartCase
  BY <1>a, <1>18 DEF StartCase, TypeOK, FlagsOK
<1>19. CASE Measure
  BY <1>a, <1>19 DEF Measure, TypeOK, FlagsOK
<1>20. CASE WriteCapture
  BY <1>a, <1>20 DEF WriteCapture, TypeOK, FlagsOK
<1>21. CASE SaveCase
  BY <1>a, <1>21 DEF SaveCase, TypeOK, FlagsOK
<1>22. CASE WriteIndex
  BY <1>a, <1>22 DEF WriteIndex, TypeOK, FlagsOK
<1>23. CASE NextCase
  BY <1>a, <1>23 DEF NextCase, TypeOK, FlagsOK
<1>24. CASE LoopEnds
  BY <1>a, <1>24 DEF LoopEnds, TypeOK, FlagsOK
<1>25. CASE WriteResources
  BY <1>a, <1>25 DEF WriteResources, TypeOK, FlagsOK
<1>26. CASE Destroy
  BY <1>a, <1>26 DEF Destroy, TypeOK, FlagsOK
<1>27. CASE Recheck
  BY <1>a, <1>27 DEF Recheck, TypeOK, FlagsOK
<1>28. CASE LeaveUnbound
  BY <1>a, <1>28 DEF LeaveUnbound, TypeOK, FlagsOK
<1>29. CASE SaveFinal
  BY <1>a, <1>29 DEF SaveFinal, TypeOK, FlagsOK
<1>30. CASE Publish
  BY <1>a, <1>30 DEF Publish, TypeOK, FlagsOK
<1>q. QED
  BY <1>1, <1>2, <1>3, <1>4, <1>5, <1>6, <1>7, <1>8, <1>9, <1>10, <1>11, <1>12, <1>13, <1>14, <1>15, <1>16,
     <1>17, <1>18, <1>19, <1>20, <1>21, <1>22, <1>23, <1>24, <1>25, <1>26, <1>27, <1>28, <1>29, <1>30 DEF Next, Starting, Looping, Finishing

\* Every step leaves well-formed files.
LEMMA FilesStep ==
    ASSUME Inv, Next
    PROVE  FilesOK'
<1> USE DEF Fault, ReturnError, AtomicJSON, Forget, ReturnEarly, Begin, disk, memory
<1>a. TypeOK /\ RunShape /\ OneIdentity /\ NumbersAreSaved /\ NumbersAreNew
      /\ SavedNamed /\ JournalNamed /\ IndexNamed /\ CompleteIsSampled /\ MemoryIsAhead
  BY DEF Inv
<1>1. CASE EditSource
  BY <1>a, <1>1, Records DEF EditSource, TypeOK, FilesOK, MemoryOK
<1>2. CASE Interrupt
  BY <1>a, <1>2, Records DEF Interrupt, TypeOK, FilesOK, MemoryOK
<1>3. CASE Crash
  BY <1>a, <1>3, Records DEF Crash, TypeOK, FilesOK, MemoryOK
<1>4. CASE Fresh
  BY <1>a, <1>4, Records DEF Fresh, TypeOK, FilesOK, MemoryOK, NewJournal, NewCase, SourceIdentity,
     ControlOK, Journals, Indices, Identities, Tables, Statuses
<1>5. CASE Resume
  BY <1>a, <1>5, Records DEF Resume, TypeOK, FilesOK, MemoryOK
<1>6. CASE ResumeRefused
  BY <1>a, <1>6, Records DEF ResumeRefused, TypeOK, FilesOK, MemoryOK
<1>7. CASE ResumeDone
  BY <1>a, <1>7, Records DEF ResumeDone, TypeOK, FilesOK, MemoryOK
<1>8. CASE StackUp
  BY <1>a, <1>8, Records DEF StackUp, TypeOK, FilesOK, MemoryOK
<1>9. CASE StackFails
  BY <1>a, <1>9, Records DEF StackFails, TypeOK, FilesOK, MemoryOK
<1>10. CASE ManifestFails
  BY <1>a, <1>10, Records DEF ManifestFails, TypeOK, FilesOK, MemoryOK
<1>11. CASE Bind
  BY <1>a, <1>11, Records, BindFacts DEF TypeOK, FilesOK, MemoryOK
<1>12. CASE BindRefused
  BY <1>a, <1>12, Records DEF BindRefused, TypeOK, FilesOK, MemoryOK
<1>13. CASE WriteManifest
  BY <1>a, <1>13, Records DEF WriteManifest, TypeOK, FilesOK, MemoryOK, Running, Journals, Indices,
     Identities, Tables, Statuses
<1>14. CASE SaveManifest
  BY <1>a, <1>14, Records DEF SaveManifest, TypeOK, FilesOK, MemoryOK, Running
<1>15. CASE OpenClient
  BY <1>a, <1>15, Records DEF OpenClient, TypeOK, FilesOK, MemoryOK
<1>16. CASE SkipDone
  BY <1>a, <1>16, Records DEF SkipDone, TypeOK, FilesOK, MemoryOK
<1>17. CASE LoopStopped
  BY <1>a, <1>17, Records DEF LoopStopped, TypeOK, FilesOK, MemoryOK
<1>18. CASE StartCase
  BY <1>a, <1>18, Records, StartFacts DEF TypeOK, FilesOK, MemoryOK
<1>19. CASE Measure
  BY <1>a, <1>19, Records DEF Measure, TypeOK, FilesOK, MemoryOK
<1>20. CASE WriteCapture
  BY <1>a, <1>20, Records, CaptureFacts DEF TypeOK, FilesOK, MemoryOK
<1>21. CASE SaveCase
  BY <1>a, <1>21, Records DEF SaveCase, TypeOK, FilesOK, MemoryOK, Running
<1>22. CASE WriteIndex
  BY <1>a, <1>22, Records DEF WriteIndex, TypeOK, FilesOK, MemoryOK, Running, IndexOf, Journals, Indices,
     Identities, Tables, Statuses
<1>23. CASE NextCase
  BY <1>a, <1>23, Records DEF NextCase, TypeOK, FilesOK, MemoryOK
<1>24. CASE LoopEnds
  BY <1>a, <1>24, Records DEF LoopEnds, TypeOK, FilesOK, MemoryOK
<1>25. CASE WriteResources
  BY <1>a, <1>25, Records DEF WriteResources, TypeOK, FilesOK, MemoryOK, Running, Journals, Indices,
     Identities, Tables, Statuses
<1>26. CASE Destroy
  BY <1>a, <1>26, Records DEF Destroy, TypeOK, FilesOK, MemoryOK
<1>27. CASE Recheck
  BY <1>a, <1>27, Records DEF Recheck, TypeOK, FilesOK, MemoryOK
<1>28. CASE LeaveUnbound
  BY <1>a, <1>28, Records DEF LeaveUnbound, TypeOK, FilesOK, MemoryOK
<1>29. CASE SaveFinal
  BY <1>a, <1>29, Records DEF SaveFinal, TypeOK, FilesOK, MemoryOK, Running
<1>30. CASE Publish
  BY <1>a, <1>30, Records DEF Publish, TypeOK, FilesOK, MemoryOK, Running, IndexOf, RunShape, Journals,
     Indices, Identities, Tables, Statuses
<1>q. QED
  BY <1>1, <1>2, <1>3, <1>4, <1>5, <1>6, <1>7, <1>8, <1>9, <1>10, <1>11, <1>12, <1>13, <1>14, <1>15, <1>16,
     <1>17, <1>18, <1>19, <1>20, <1>21, <1>22, <1>23, <1>24, <1>25, <1>26, <1>27, <1>28, <1>29, <1>30 DEF Next, Starting, Looping, Finishing

\* Every step leaves a well-formed journal and identity in memory.
LEMMA MemoryStep ==
    ASSUME Inv, Next
    PROVE  MemoryOK'
<1> USE DEF Fault, ReturnError, AtomicJSON, Forget, ReturnEarly, Begin, disk, memory
<1>a. TypeOK /\ RunShape /\ OneIdentity /\ NumbersAreSaved /\ NumbersAreNew
      /\ SavedNamed /\ JournalNamed /\ IndexNamed /\ CompleteIsSampled /\ MemoryIsAhead
  BY DEF Inv
<1>1. CASE EditSource
  BY <1>a, <1>1, Records DEF EditSource, TypeOK, MemoryOK
<1>2. CASE Interrupt
  BY <1>a, <1>2, Records DEF Interrupt, TypeOK, MemoryOK
<1>3. CASE Crash
  BY <1>a, <1>3, Records DEF Crash, TypeOK, MemoryOK
<1>4. CASE Fresh
  BY <1>a, <1>4, Records DEF Fresh, TypeOK, MemoryOK, NewJournal, NewCase, SourceIdentity, ControlOK,
     Journals, Indices, Identities, Tables, Statuses
<1>5. CASE Resume
  BY <1>a, <1>5, Records DEF Resume, TypeOK, MemoryOK, FilesOK, ControlOK, SourceIdentity, Identities
<1>6. CASE ResumeRefused
  BY <1>a, <1>6, Records DEF ResumeRefused, TypeOK, MemoryOK
<1>7. CASE ResumeDone
  BY <1>a, <1>7, Records DEF ResumeDone, TypeOK, MemoryOK
<1>8. CASE StackUp
  BY <1>a, <1>8, Records DEF StackUp, TypeOK, MemoryOK
<1>9. CASE StackFails
  BY <1>a, <1>9, Records DEF StackFails, TypeOK, MemoryOK
<1>10. CASE ManifestFails
  BY <1>a, <1>10, Records DEF ManifestFails, TypeOK, MemoryOK
<1>11. CASE Bind
  BY <1>a, <1>11, Records, BindFacts DEF TypeOK, MemoryOK
<1>12. CASE BindRefused
  BY <1>a, <1>12, Records DEF BindRefused, TypeOK, MemoryOK
<1>13. CASE WriteManifest
  BY <1>a, <1>13, Records DEF WriteManifest, TypeOK, MemoryOK, Running, Journals, Indices, Identities,
     Tables, Statuses
<1>14. CASE SaveManifest
  BY <1>a, <1>14, Records DEF SaveManifest, TypeOK, MemoryOK
<1>15. CASE OpenClient
  BY <1>a, <1>15, Records DEF OpenClient, TypeOK, MemoryOK
<1>16. CASE SkipDone
  BY <1>a, <1>16, Records DEF SkipDone, TypeOK, MemoryOK
<1>17. CASE LoopStopped
  BY <1>a, <1>17, Records DEF LoopStopped, TypeOK, MemoryOK
<1>18. CASE StartCase
  BY <1>a, <1>18, Records, StartFacts DEF TypeOK, MemoryOK
<1>19. CASE Measure
  BY <1>a, <1>19, Records DEF Measure, TypeOK, MemoryOK
<1>20. CASE WriteCapture
  BY <1>a, <1>20, Records, CaptureFacts DEF TypeOK, MemoryOK
<1>21. CASE SaveCase
  BY <1>a, <1>21, Records DEF SaveCase, TypeOK, MemoryOK
<1>22. CASE WriteIndex
  BY <1>a, <1>22, Records DEF WriteIndex, TypeOK, MemoryOK
<1>23. CASE NextCase
  BY <1>a, <1>23, Records DEF NextCase, TypeOK, MemoryOK
<1>24. CASE LoopEnds
  BY <1>a, <1>24, Records DEF LoopEnds, TypeOK, MemoryOK
<1>25. CASE WriteResources
  BY <1>a, <1>25, Records DEF WriteResources, TypeOK, MemoryOK, Running, Journals, Indices, Identities,
     Tables, Statuses
<1>26. CASE Destroy
  BY <1>a, <1>26, Records DEF Destroy, TypeOK, MemoryOK
<1>27. CASE Recheck
  BY <1>a, <1>27, Records DEF Recheck, TypeOK, MemoryOK, Running, FinalStatus, Journals, Indices, Identities,
     Tables, Statuses
<1>28. CASE LeaveUnbound
  BY <1>a, <1>28, Records DEF LeaveUnbound, TypeOK, MemoryOK
<1>29. CASE SaveFinal
  BY <1>a, <1>29, Records DEF SaveFinal, TypeOK, MemoryOK
<1>30. CASE Publish
  BY <1>a, <1>30, Records DEF Publish, TypeOK, MemoryOK
<1>q. QED
  BY <1>1, <1>2, <1>3, <1>4, <1>5, <1>6, <1>7, <1>8, <1>9, <1>10, <1>11, <1>12, <1>13, <1>14, <1>15, <1>16,
     <1>17, <1>18, <1>19, <1>20, <1>21, <1>22, <1>23, <1>24, <1>25, <1>26, <1>27, <1>28, <1>29, <1>30 DEF Next, Starting, Looping, Finishing

\* Every step keeps what a run holds in line with how far it is.
LEMMA ShapeStep ==
    ASSUME Inv, Next
    PROVE  RunShape'
<1> USE DEF Fault, ReturnError, AtomicJSON, Forget, ReturnEarly, Begin, disk, memory
<1>a. TypeOK /\ RunShape /\ OneIdentity /\ NumbersAreSaved /\ NumbersAreNew
      /\ SavedNamed /\ JournalNamed /\ IndexNamed /\ CompleteIsSampled /\ MemoryIsAhead
  BY DEF Inv
<1>1. CASE EditSource
  BY <1>a, <1>1, Records DEF EditSource, RunShape, Running, Measuring
<1>2. CASE Interrupt
  BY <1>a, <1>2, Records DEF Interrupt, RunShape, Running, Measuring
<1>3. CASE Crash
  BY <1>a, <1>3, Records DEF Crash, RunShape, Running, Measuring
<1>4. CASE Fresh
  BY <1>a, <1>4, Records, NewJournalFields DEF Fresh, RunShape, Running, Measuring, TypeOK, FilesOK, ControlOK
<1>5. CASE Resume
  BY <1>a, <1>5, Records DEF Resume, RunShape, Running, Measuring, SourceIdentity, Identities, TypeOK,
     FilesOK, ControlOK
<1>6. CASE ResumeRefused
  BY <1>a, <1>6, Records DEF ResumeRefused, RunShape, Running, Measuring
<1>7. CASE ResumeDone
  BY <1>a, <1>7, Records DEF ResumeDone, RunShape, Running, Measuring
<1>8. CASE StackUp
  BY <1>a, <1>8, Records DEF StackUp, RunShape, Running, Measuring
<1>9. CASE StackFails
  BY <1>a, <1>9, Records DEF StackFails, RunShape, Running, Measuring
<1>10. CASE ManifestFails
  BY <1>a, <1>10, Records DEF ManifestFails, RunShape, Running, Measuring
<1>11. CASE Bind
  <2> USE <1>a, <1>11, Records, BindFacts
  <2>1. CASE saved' = journal' /\ pc' = "manifest"
    BY <2>1 DEF RunShape, Running, Measuring
  <2>2. CASE saved' = saved /\ pc' = "resources"
    BY <2>2 DEF RunShape, Running, Measuring
  <2>3. CASE saved' = journal' /\ pc' = "resources"
    BY <2>3 DEF RunShape, Running, Measuring
  <2>q. QED
    BY <2>1, <2>2, <2>3
<1>12. CASE BindRefused
  BY <1>a, <1>12, Records DEF BindRefused, RunShape, Running, Measuring
<1>13. CASE WriteManifest
  BY <1>a, <1>13, Records DEF WriteManifest, RunShape, Running, Measuring, Journals, Indices, Identities,
     Tables, Statuses
<1>14. CASE SaveManifest
  BY <1>a, <1>14, Records DEF SaveManifest, RunShape, Running, Measuring
<1>15. CASE OpenClient
  BY <1>a, <1>15, Records DEF OpenClient, RunShape, Running, Measuring
<1>16. CASE SkipDone
  BY <1>a, <1>16, Records DEF SkipDone, RunShape, Running, Measuring
<1>17. CASE LoopStopped
  BY <1>a, <1>17, Records DEF LoopStopped, RunShape, Running, Measuring
<1>18. CASE StartCase
  BY <1>a, <1>18, Records, StartFacts DEF RunShape, Running, Measuring
<1>19. CASE Measure
  BY <1>a, <1>19, Records DEF Measure, RunShape, Running, Measuring
<1>20. CASE WriteCapture
  BY <1>a, <1>20, Records, CaptureFacts DEF RunShape, Running, Measuring
<1>21. CASE SaveCase
  BY <1>a, <1>21, Records DEF SaveCase, RunShape, Running, Measuring
<1>22. CASE WriteIndex
  BY <1>a, <1>22, Records DEF WriteIndex, RunShape, Running, Measuring
<1>23. CASE NextCase
  BY <1>a, <1>23, Records DEF NextCase, RunShape, Running, Measuring
<1>24. CASE LoopEnds
  BY <1>a, <1>24, Records DEF LoopEnds, RunShape, Running, Measuring
<1>25. CASE WriteResources
  BY <1>a, <1>25, Records DEF WriteResources, RunShape, Running, Measuring, Journals, Indices, Identities,
     Tables, Statuses
<1>26. CASE Destroy
  BY <1>a, <1>26, Records DEF Destroy, RunShape, Running, Measuring
<1>27. CASE Recheck
  BY <1>a, <1>27, Records DEF Recheck, RunShape, Running, Measuring, FinalStatus, TypeOK, FlagsOK, Journals,
     Indices, Identities, Tables, Statuses
<1>28. CASE LeaveUnbound
  BY <1>a, <1>28, Records DEF LeaveUnbound, RunShape, Running, Measuring
<1>29. CASE SaveFinal
  BY <1>a, <1>29, Records DEF SaveFinal, RunShape, Running, Measuring
<1>30. CASE Publish
  BY <1>a, <1>30, Records DEF Publish, RunShape, Running, Measuring
<1>q. QED
  BY <1>1, <1>2, <1>3, <1>4, <1>5, <1>6, <1>7, <1>8, <1>9, <1>10, <1>11, <1>12, <1>13, <1>14, <1>15, <1>16,
     <1>17, <1>18, <1>19, <1>20, <1>21, <1>22, <1>23, <1>24, <1>25, <1>26, <1>27, <1>28, <1>29, <1>30 DEF Next, Starting, Looping, Finishing

\* Every step keeps to one identity: Compatible at the start and at the binding
\* leaves no other.
LEMMA IdentityStep ==
    ASSUME Inv, Next
    PROVE  OneIdentity'
<1> USE DEF Fault, ReturnError, AtomicJSON, Forget, ReturnEarly, Begin, disk, memory
<1>a. TypeOK /\ RunShape /\ OneIdentity /\ NumbersAreSaved /\ NumbersAreNew
      /\ SavedNamed /\ JournalNamed /\ IndexNamed /\ CompleteIsSampled /\ MemoryIsAhead
  BY DEF Inv
<1>1. CASE EditSource
  BY <1>a, <1>1, Records DEF EditSource, RunShape, Running, Measuring, OneIdentity
<1>2. CASE Interrupt
  BY <1>a, <1>2, Records DEF Interrupt, RunShape, Running, Measuring, OneIdentity
<1>3. CASE Crash
  BY <1>a, <1>3, Records DEF Crash, RunShape, Running, Measuring, OneIdentity
<1>4. CASE Fresh
  BY <1>a, <1>4, Records, NewJournalFields DEF Fresh, RunShape, Running, Measuring, OneIdentity, TypeOK,
     FilesOK, ControlOK
<1>5. CASE Resume
  BY <1>a, <1>5, Records DEF Resume, RunShape, Running, Measuring, OneIdentity, Compatible, Preflight,
     SourceIdentity, Identities, Journals
<1>6. CASE ResumeRefused
  BY <1>a, <1>6, Records DEF ResumeRefused, RunShape, Running, Measuring, OneIdentity
<1>7. CASE ResumeDone
  BY <1>a, <1>7, Records DEF ResumeDone, RunShape, Running, Measuring, OneIdentity
<1>8. CASE StackUp
  BY <1>a, <1>8, Records DEF StackUp, RunShape, Running, Measuring, OneIdentity
<1>9. CASE StackFails
  BY <1>a, <1>9, Records DEF StackFails, RunShape, Running, Measuring, OneIdentity
<1>10. CASE ManifestFails
  BY <1>a, <1>10, Records DEF ManifestFails, RunShape, Running, Measuring, OneIdentity
<1>11. CASE Bind
  <2> USE <1>a, <1>11, Records, BindFacts
  <2>1. CASE saved' = journal' /\ pc' = "manifest"
    BY <2>1 DEF RunShape, Running, Measuring, OneIdentity
  <2>2. CASE saved' = saved /\ pc' = "resources"
    BY <2>2 DEF RunShape, Running, Measuring, OneIdentity
  <2>3. CASE saved' = journal' /\ pc' = "resources"
    BY <2>3 DEF RunShape, Running, Measuring, OneIdentity
  <2>q. QED
    BY <2>1, <2>2, <2>3
<1>12. CASE BindRefused
  BY <1>a, <1>12, Records DEF BindRefused, RunShape, Running, Measuring, OneIdentity
<1>13. CASE WriteManifest
  BY <1>a, <1>13, Records DEF WriteManifest, RunShape, Running, Measuring, OneIdentity, Journals, Indices,
     Identities, Tables, Statuses
<1>14. CASE SaveManifest
  BY <1>a, <1>14, Records DEF SaveManifest, RunShape, Running, Measuring, OneIdentity
<1>15. CASE OpenClient
  BY <1>a, <1>15, Records DEF OpenClient, RunShape, Running, Measuring, OneIdentity
<1>16. CASE SkipDone
  BY <1>a, <1>16, Records DEF SkipDone, RunShape, Running, Measuring, OneIdentity
<1>17. CASE LoopStopped
  BY <1>a, <1>17, Records DEF LoopStopped, RunShape, Running, Measuring, OneIdentity
<1>18. CASE StartCase
  BY <1>a, <1>18, Records, StartFacts DEF RunShape, Running, Measuring, OneIdentity
<1>19. CASE Measure
  BY <1>a, <1>19, Records DEF Measure, RunShape, Running, Measuring, OneIdentity
<1>20. CASE WriteCapture
  BY <1>a, <1>20, Records, CaptureFacts DEF RunShape, Running, Measuring, OneIdentity
<1>21. CASE SaveCase
  BY <1>a, <1>21, Records DEF SaveCase, RunShape, Running, Measuring, OneIdentity
<1>22. CASE WriteIndex
  BY <1>a, <1>22, Records DEF WriteIndex, RunShape, Running, Measuring, OneIdentity, IndexOf, Journals,
     Indices, Identities, Tables, Statuses
<1>23. CASE NextCase
  BY <1>a, <1>23, Records DEF NextCase, RunShape, Running, Measuring, OneIdentity
<1>24. CASE LoopEnds
  BY <1>a, <1>24, Records DEF LoopEnds, RunShape, Running, Measuring, OneIdentity
<1>25. CASE WriteResources
  BY <1>a, <1>25, Records DEF WriteResources, RunShape, Running, Measuring, OneIdentity, Journals, Indices,
     Identities, Tables, Statuses
<1>26. CASE Destroy
  BY <1>a, <1>26, Records DEF Destroy, RunShape, Running, Measuring, OneIdentity
<1>27. CASE Recheck
  BY <1>a, <1>27, Records DEF Recheck, RunShape, Running, Measuring, OneIdentity, FinalStatus, Journals,
     Indices, Identities, Tables, Statuses
<1>28. CASE LeaveUnbound
  BY <1>a, <1>28, Records DEF LeaveUnbound, RunShape, Running, Measuring, OneIdentity
<1>29. CASE SaveFinal
  BY <1>a, <1>29, Records DEF SaveFinal, RunShape, Running, Measuring, OneIdentity
<1>30. CASE Publish
  BY <1>a, <1>30, Records DEF Publish, RunShape, Running, Measuring, OneIdentity, IndexOf, CompleteIsSampled,
     Journals, Indices, Identities, Tables, Statuses
<1>q. QED
  BY <1>1, <1>2, <1>3, <1>4, <1>5, <1>6, <1>7, <1>8, <1>9, <1>10, <1>11, <1>12, <1>13, <1>14, <1>15, <1>16,
     <1>17, <1>18, <1>19, <1>20, <1>21, <1>22, <1>23, <1>24, <1>25, <1>26, <1>27, <1>28, <1>29, <1>30 DEF Next, Starting, Looping, Finishing

\* Every step gives a number to a file only after the journal on disk has it.
LEMMA NumberStep ==
    ASSUME Inv, Next
    PROVE  NumbersAreSaved'
<1> USE DEF Fault, ReturnError, AtomicJSON, Forget, ReturnEarly, Begin, disk, memory
<1>a. TypeOK /\ RunShape /\ OneIdentity /\ NumbersAreSaved /\ NumbersAreNew
      /\ SavedNamed /\ JournalNamed /\ IndexNamed /\ CompleteIsSampled /\ MemoryIsAhead
  BY DEF Inv
<1>1. CASE EditSource
  BY <1>a, <1>1, Records DEF EditSource, RunShape, Running, Measuring, OneIdentity, NumbersAreSaved
<1>2. CASE Interrupt
  BY <1>a, <1>2, Records DEF Interrupt, RunShape, Running, Measuring, OneIdentity, NumbersAreSaved
<1>3. CASE Crash
  BY <1>a, <1>3, Records DEF Crash, RunShape, Running, Measuring, OneIdentity, NumbersAreSaved
<1>4. CASE Fresh
  BY <1>a, <1>4, Records, NewJournalFields DEF Fresh, RunShape, Running, Measuring, OneIdentity,
     NumbersAreSaved, TypeOK, FilesOK, ControlOK
<1>5. CASE Resume
  BY <1>a, <1>5, Records DEF Resume, RunShape, Running, Measuring, OneIdentity, NumbersAreSaved, TypeOK,
     FilesOK, ControlOK, Journals, Tables
<1>6. CASE ResumeRefused
  BY <1>a, <1>6, Records DEF ResumeRefused, RunShape, Running, Measuring, OneIdentity, NumbersAreSaved
<1>7. CASE ResumeDone
  BY <1>a, <1>7, Records DEF ResumeDone, RunShape, Running, Measuring, OneIdentity, NumbersAreSaved
<1>8. CASE StackUp
  BY <1>a, <1>8, Records DEF StackUp, RunShape, Running, Measuring, OneIdentity, NumbersAreSaved
<1>9. CASE StackFails
  BY <1>a, <1>9, Records DEF StackFails, RunShape, Running, Measuring, OneIdentity, NumbersAreSaved
<1>10. CASE ManifestFails
  BY <1>a, <1>10, Records DEF ManifestFails, RunShape, Running, Measuring, OneIdentity, NumbersAreSaved
<1>11. CASE Bind
  <2> USE <1>a, <1>11, Records, BindFacts
  <2>1. CASE saved' = journal' /\ pc' = "manifest"
    BY <2>1 DEF RunShape, Running, Measuring, OneIdentity, NumbersAreSaved, Journals, Tables, Files, TypeOK,
       FilesOK, ControlOK
  <2>2. CASE saved' = saved /\ pc' = "resources"
    BY <2>2 DEF RunShape, Running, Measuring, OneIdentity, NumbersAreSaved, Journals, Tables, Files, TypeOK,
       FilesOK, ControlOK
  <2>3. CASE saved' = journal' /\ pc' = "resources"
    BY <2>3 DEF RunShape, Running, Measuring, OneIdentity, NumbersAreSaved, Journals, Tables, Files, TypeOK,
       FilesOK, ControlOK
  <2>q. QED
    BY <2>1, <2>2, <2>3
<1>12. CASE BindRefused
  BY <1>a, <1>12, Records DEF BindRefused, RunShape, Running, Measuring, OneIdentity, NumbersAreSaved
<1>13. CASE WriteManifest
  BY <1>a, <1>13, Records DEF WriteManifest, RunShape, Running, Measuring, OneIdentity, NumbersAreSaved,
     Journals, Indices, Identities, Tables, Statuses
<1>14. CASE SaveManifest
  <2> USE <1>a, <1>14, Records
  <2>1. CASE saved' = journal /\ pc' = "client"
    BY <2>1 DEF SaveManifest, RunShape, Running, Measuring, OneIdentity, NumbersAreSaved, Journals, Tables,
       Files, TypeOK, FilesOK, ControlOK
  <2>2. CASE saved' = saved /\ pc' = "resources"
    BY <2>2 DEF SaveManifest, RunShape, Running, Measuring, OneIdentity, NumbersAreSaved, Journals, Tables,
       Files, TypeOK, FilesOK, ControlOK
  <2>3. CASE saved' = journal /\ pc' = "resources"
    BY <2>3 DEF SaveManifest, RunShape, Running, Measuring, OneIdentity, NumbersAreSaved, Journals, Tables,
       Files, TypeOK, FilesOK, ControlOK
  <2>q. QED
    BY <2>1, <2>2, <2>3 DEF SaveManifest
<1>15. CASE OpenClient
  BY <1>a, <1>15, Records DEF OpenClient, RunShape, Running, Measuring, OneIdentity, NumbersAreSaved
<1>16. CASE SkipDone
  BY <1>a, <1>16, Records DEF SkipDone, RunShape, Running, Measuring, OneIdentity, NumbersAreSaved
<1>17. CASE LoopStopped
  BY <1>a, <1>17, Records DEF LoopStopped, RunShape, Running, Measuring, OneIdentity, NumbersAreSaved
<1>18. CASE StartCase
  <2> USE <1>a, <1>18, Records, StartFacts
  <2>1. CASE saved' = journal' /\ pc' = "measure"
    BY <2>1 DEF RunShape, Running, Measuring, OneIdentity, NumbersAreSaved, Journals, Tables, Files, TypeOK,
       FilesOK, ControlOK
  <2>2. CASE saved' = saved /\ pc' = "resources"
    BY <2>2 DEF RunShape, Running, Measuring, OneIdentity, NumbersAreSaved, Journals, Tables, Files, TypeOK,
       FilesOK, ControlOK
  <2>3. CASE saved' = journal' /\ pc' = "resources"
    BY <2>3 DEF RunShape, Running, Measuring, OneIdentity, NumbersAreSaved, Journals, Tables, Files, TypeOK,
       FilesOK, ControlOK
  <2>q. QED
    BY <2>1, <2>2, <2>3
<1>19. CASE Measure
  BY <1>a, <1>19, Records DEF Measure, RunShape, Running, Measuring, OneIdentity, NumbersAreSaved
<1>20. CASE WriteCapture
  BY <1>a, <1>20, Records, CaptureFacts DEF WriteCapture, RunShape, Running, Measuring, OneIdentity,
     NumbersAreSaved, Journals, Tables, Files
<1>21. CASE SaveCase
  BY <1>a, <1>21, Records DEF SaveCase, RunShape, Running, Measuring, OneIdentity, NumbersAreSaved, Journals,
     Tables, Files, TypeOK, FilesOK, ControlOK
<1>22. CASE WriteIndex
  BY <1>a, <1>22, Records DEF WriteIndex, RunShape, Running, Measuring, OneIdentity, NumbersAreSaved
<1>23. CASE NextCase
  BY <1>a, <1>23, Records DEF NextCase, RunShape, Running, Measuring, OneIdentity, NumbersAreSaved
<1>24. CASE LoopEnds
  BY <1>a, <1>24, Records DEF LoopEnds, RunShape, Running, Measuring, OneIdentity, NumbersAreSaved
<1>25. CASE WriteResources
  BY <1>a, <1>25, Records DEF WriteResources, RunShape, Running, Measuring, OneIdentity, NumbersAreSaved,
     Journals, Indices, Identities, Tables, Statuses
<1>26. CASE Destroy
  BY <1>a, <1>26, Records DEF Destroy, RunShape, Running, Measuring, OneIdentity, NumbersAreSaved
<1>27. CASE Recheck
  BY <1>a, <1>27, Records DEF Recheck, RunShape, Running, Measuring, OneIdentity, NumbersAreSaved, Journals,
     Indices, Identities, Tables, Statuses
<1>28. CASE LeaveUnbound
  BY <1>a, <1>28, Records DEF LeaveUnbound, RunShape, Running, Measuring, OneIdentity, NumbersAreSaved
<1>29. CASE SaveFinal
  BY <1>a, <1>29, Records DEF SaveFinal, RunShape, Running, Measuring, OneIdentity, NumbersAreSaved,
     Journals, Tables, Files, TypeOK, FilesOK, ControlOK
<1>30. CASE Publish
  BY <1>a, <1>30, Records DEF Publish, RunShape, Running, Measuring, OneIdentity, NumbersAreSaved
<1>q. QED
  BY <1>1, <1>2, <1>3, <1>4, <1>5, <1>6, <1>7, <1>8, <1>9, <1>10, <1>11, <1>12, <1>13, <1>14, <1>15, <1>16,
     <1>17, <1>18, <1>19, <1>20, <1>21, <1>22, <1>23, <1>24, <1>25, <1>26, <1>27, <1>28, <1>29, <1>30 DEF Next, Starting, Looping, Finishing

\* No file is ever removed or replaced.
LEMMA FilesGrow ==
    ASSUME Inv, [Next]_vars
    PROVE  captures \subseteq captures' /\ manifests \subseteq manifests' /\ samples \subseteq samples'
<1> USE DEF Fault, ReturnError, AtomicJSON, Forget, ReturnEarly, Begin, disk, memory
<1>1. CASE EditSource
  BY <1>1 DEF EditSource
<1>2. CASE Interrupt
  BY <1>2 DEF Interrupt
<1>3. CASE Crash
  BY <1>3 DEF Crash
<1>4. CASE Fresh
  BY <1>4 DEF Fresh
<1>5. CASE Resume
  BY <1>5 DEF Resume
<1>6. CASE ResumeRefused
  BY <1>6 DEF ResumeRefused
<1>7. CASE ResumeDone
  BY <1>7 DEF ResumeDone
<1>8. CASE StackUp
  BY <1>8 DEF StackUp
<1>9. CASE StackFails
  BY <1>9 DEF StackFails
<1>10. CASE ManifestFails
  BY <1>10 DEF ManifestFails
<1>11. CASE Bind
  BY <1>11 DEF Bind
<1>12. CASE BindRefused
  BY <1>12 DEF BindRefused
<1>13. CASE WriteManifest
  BY <1>13 DEF WriteManifest
<1>14. CASE SaveManifest
  BY <1>14 DEF SaveManifest
<1>15. CASE OpenClient
  BY <1>15 DEF OpenClient
<1>16. CASE SkipDone
  BY <1>16 DEF SkipDone
<1>17. CASE LoopStopped
  BY <1>17 DEF LoopStopped
<1>18. CASE StartCase
  BY <1>18 DEF StartCase
<1>19. CASE Measure
  BY <1>19 DEF Measure
<1>20. CASE WriteCapture
  BY <1>20 DEF WriteCapture
<1>21. CASE SaveCase
  BY <1>21 DEF SaveCase
<1>22. CASE WriteIndex
  BY <1>22 DEF WriteIndex
<1>23. CASE NextCase
  BY <1>23 DEF NextCase
<1>24. CASE LoopEnds
  BY <1>24 DEF LoopEnds
<1>25. CASE WriteResources
  BY <1>25 DEF WriteResources
<1>26. CASE Destroy
  BY <1>26 DEF Destroy
<1>27. CASE Recheck
  BY <1>27 DEF Recheck
<1>28. CASE LeaveUnbound
  BY <1>28 DEF LeaveUnbound
<1>29. CASE SaveFinal
  BY <1>29 DEF SaveFinal
<1>30. CASE Publish
  BY <1>30 DEF Publish
<1>u. CASE UNCHANGED vars
  BY <1>u DEF vars
<1>q. QED
  BY <1>1, <1>2, <1>3, <1>4, <1>5, <1>6, <1>7, <1>8, <1>9, <1>10, <1>11, <1>12, <1>13, <1>14, <1>15, <1>16,
     <1>17, <1>18, <1>19, <1>20, <1>21, <1>22, <1>23, <1>24, <1>25, <1>26, <1>27, <1>28, <1>29, <1>30, <1>u DEF Next, Starting, Looping, Finishing

\* More files name at least as much.
LEMMA NamedGrows ==
    ASSUME NEW r, NEW cs, NEW ms, NEW ss, NEW cs2, NEW ms2, NEW ss2,
           cs \subseteq cs2, ms \subseteq ms2, ss \subseteq ss2, NamedIn(r, cs, ms, ss)
    PROVE  NamedIn(r, cs2, ms2, ss2)
<1>1. ASSUME NEW c \in Cases PROVE CaseNamed(r.cases[c], c, cs2)
  <2>1. CaseNamed(r.cases[c], c, cs)
    BY DEF NamedIn
  <2>q. QED
    BY <2>1 DEF CaseNamed
<1>q. QED
  BY <1>1 DEF NamedIn

\* What is named depends on the cases and the files a record lists.
LEMMA NamedAlike ==
    ASSUME NEW r, NEW r2, NEW cs, NEW ms, NEW ss, NamedIn(r, cs, ms, ss),
           r2.cases = r.cases, r2.manifests \subseteq ms, r2.samples \subseteq ss
    PROVE  NamedIn(r2, cs, ms, ss)
BY DEF NamedIn

\* The journal in memory names files that exist.
LEMMA JournalNamedStep ==
    ASSUME Inv, Next
    PROVE  JournalNamed'
<1> SUFFICES ASSUME Running' PROVE NamedIn(journal', captures', manifests', samples')
  BY DEF JournalNamed, Named
<1>a. /\ SavedNamed /\ RunShape /\ TypeOK
      /\ Running => NamedIn(journal, captures, manifests, samples)
  BY DEF Inv, JournalNamed, Named
<1>b. captures \subseteq captures' /\ manifests \subseteq manifests' /\ samples \subseteq samples'
  BY FilesGrow
<1>c. Running => NamedIn(journal, captures', manifests', samples')
  BY <1>a, <1>b, NamedGrows
<1>1. CASE Fresh
  <2>1. journal' = NewJournal
    BY <1>1 DEF Fresh, ReturnEarly, Running
  <2>q. QED
    BY <2>1, <1>a, NewJournalFields DEF NamedIn, CaseNamed, Done, TypeOK, ControlOK
<1>2. CASE Resume
  BY <1>2, <1>a, <1>b, NamedGrows DEF Resume, Begin, SavedNamed, Named, disk
<1>3. CASE Bind
  BY <1>3, <1>c, BindFacts, NamedAlike DEF NamedIn
<1>4. CASE WriteManifest
  <2>1. Running /\ journal \in Journals
    BY <1>4, Records DEF WriteManifest, Running
  <2>2. CASE UNCHANGED journal
    BY <1>c, <2>1, <2>2
  <2>3. CASE /\ manifests' = manifests \union {journal.executions}
             /\ journal' = [journal EXCEPT !.manifests = @ \union {journal.executions}]
    <3>1. /\ journal'.cases = journal.cases /\ journal'.samples = journal.samples
          /\ journal'.manifests = journal.manifests \union {journal.executions}
      BY <2>1, <2>3 DEF Journals
    <3>2. journal'.manifests \subseteq manifests' /\ journal'.samples \subseteq samples'
      BY <1>c, <2>1, <2>3, <3>1, <1>a, <1>b DEF NamedIn
    <3>q. QED
      BY <1>c, <2>1, <3>1, <3>2, NamedAlike
  <2>q. QED
    BY <1>4, <2>2, <2>3 DEF WriteManifest
<1>5. CASE StartCase
  <2>1. ASSUME NEW c \in Cases PROVE CaseNamed(journal'.cases[c], c, captures')
    <3>1. CaseNamed(journal.cases[c], c, captures')
      BY <1>c, <1>5, StartFacts DEF NamedIn
    <3>q. QED
      BY <3>1, <1>5, StartFacts DEF CaseNamed, Done
  <2>q. QED
    BY <1>c, <1>5, <2>1, StartFacts DEF NamedIn
<1>6. CASE WriteCapture
  <2>1. CASE UNCHANGED journal
    BY <1>6, <1>c, <2>1, CaptureFacts
  <2>2. CASE pc' = "record"
    <3> DEFINE F == Capture
    <3>f. /\ F \in captures' /\ F.case = at /\ F.attempt = journal.cases[at].attempt
          /\ F.status = journal'.cases[at].status
          /\ journal'.manifests = journal.manifests /\ journal'.samples = journal.samples
          /\ \A d \in Cases \ {at} : journal'.cases[d] = journal.cases[d]
          /\ journal'.cases[at].artifact = journal.cases[at].attempt
          /\ journal'.cases[at].history = journal.cases[at].history \union {journal.cases[at].attempt}
          /\ at \in Cases /\ Running
      BY <1>6, <2>2, CaptureFacts
    <3> HIDE DEF F
    <3>1. ASSUME NEW c \in Cases PROVE CaseNamed(journal'.cases[c], c, captures')
      <4>1. CaseNamed(journal.cases[c], c, captures')
        BY <1>c, <3>f DEF NamedIn
      <4>2. CASE c # at
        BY <4>1, <4>2, <3>f
      <4>3. CASE c = at
        BY <4>1, <4>3, <3>f DEF CaseNamed
      <4>q. QED
        BY <4>2, <4>3
    <3>q. QED
      BY <1>c, <3>1, <3>f DEF NamedIn
  <2>q. QED
    BY <1>6, <2>1, <2>2, CaptureFacts
<1>7. CASE WriteResources
  <2>1. Running /\ journal \in Journals
    BY <1>7, Records DEF WriteResources, Running
  <2>2. CASE UNCHANGED journal
    BY <1>c, <2>1, <2>2
  <2>3. CASE /\ samples' = samples \union {journal.executions}
             /\ journal' = [journal EXCEPT !.samples = @ \union {journal.executions}]
    <3>1. /\ journal'.cases = journal.cases /\ journal'.manifests = journal.manifests
          /\ journal'.samples = journal.samples \union {journal.executions}
      BY <2>1, <2>3 DEF Journals
    <3>2. journal'.manifests \subseteq manifests' /\ journal'.samples \subseteq samples'
      BY <1>c, <2>1, <2>3, <3>1, <1>a, <1>b DEF NamedIn
    <3>q. QED
      BY <1>c, <2>1, <3>1, <3>2, NamedAlike
  <2>q. QED
    BY <1>7, <2>2, <2>3 DEF WriteResources
<1>8. CASE Recheck
  <2>1. Running /\ journal \in Journals
    BY <1>8, Records DEF Recheck, Running
  <2>2. /\ journal'.cases = journal.cases /\ journal'.manifests = journal.manifests
        /\ journal'.samples = journal.samples
    BY <1>8, <2>1 DEF Recheck, Journals
  <2>q. QED
    BY <1>c, <2>1, <2>2, NamedAlike DEF NamedIn
<1>9. CASE pc' = "idle"
  BY <1>9 DEF Running
<1>10. CASE UNCHANGED journal /\ Running
  BY <1>c, <1>10
<1>q. QED
  BY <1>1, <1>2, <1>3, <1>4, <1>5, <1>6, <1>7, <1>8, <1>9, <1>10
  DEF Next, Starting, Looping, Finishing, EditSource, Interrupt, Crash, ResumeRefused, ResumeDone,
      StackUp, StackFails, ManifestFails, BindRefused, SaveManifest, OpenClient, SkipDone, LoopStopped,
      Measure, SaveCase, WriteIndex, NextCase, LoopEnds, Destroy, LeaveUnbound, SaveFinal, Publish,
      memory, disk, ReturnEarly, Running

\* What a step leaves in journal.json: the old journal, the one in memory, or
\* the one of a new study.
LEMMA SaveKinds ==
    ASSUME Inv, Next
    PROVE  \/ saved' = saved
           \/ saved' = journal' /\ Running' /\ Running
           \/ saved' = NewJournal /\ saved = None
<1>a. Running \/ pc = "idle"
  BY DEF Running
<1> USE DEF Fault, ReturnError, AtomicJSON, Forget, ReturnEarly, Begin, disk, memory, Running
<1>1. CASE Bind
  BY <1>1, BindFacts
<1>2. CASE StartCase
  BY <1>2, StartFacts
<1>3. CASE Fresh
  BY <1>3 DEF Fresh
<1>4. CASE SaveManifest
  BY <1>4 DEF SaveManifest
<1>5. CASE SaveCase
  BY <1>5 DEF SaveCase
<1>6. CASE SaveFinal
  BY <1>6 DEF SaveFinal
<1>7. CASE UNCHANGED saved
  BY <1>7
<1>q. QED
  BY <1>1, <1>2, <1>3, <1>4, <1>5, <1>6, <1>7
  DEF Next, Starting, Looping, Finishing, EditSource, Interrupt, Crash, Resume, ResumeRefused, ResumeDone,
      StackUp, StackFails, ManifestFails, BindRefused, WriteManifest, OpenClient, SkipDone, LoopStopped,
      Measure, WriteCapture, WriteIndex, NextCase, LoopEnds, WriteResources, Destroy, Recheck,
      LeaveUnbound, Publish

\* The journal on disk names files that exist.
LEMMA SavedNamedStep ==
    ASSUME Inv, Next
    PROVE  SavedNamed'
<1> SUFFICES ASSUME saved' # None PROVE NamedIn(saved', captures', manifests', samples')
  BY DEF SavedNamed, Named
<1>1. CASE saved' = saved
  BY <1>1, FilesGrow, NamedGrows DEF Inv, SavedNamed, Named
<1>2. CASE saved' = journal' /\ Running'
  BY <1>2, JournalNamedStep DEF JournalNamed, Named
<1>3. CASE saved' = NewJournal
  BY <1>3, NewJournalFields DEF NamedIn, CaseNamed, Done, Inv, TypeOK, ControlOK
<1>q. QED
  BY <1>1, <1>2, <1>3, SaveKinds

\* What a step leaves in index.json.
LEMMA IndexKinds ==
    ASSUME Inv, Next
    PROVE  \/ index' = index
           \/ Running /\ index' = IndexOf(journal, "incomplete") /\ pc' # "idle"
           \/ pc = "publish" /\ index' = IndexOf(journal, journal.status)
<1> USE DEF Fault, ReturnError, AtomicJSON, ReturnEarly, Begin, disk, memory, Running
<1>1. CASE WriteIndex
  BY <1>1 DEF WriteIndex
<1>2. CASE Publish
  BY <1>2 DEF Publish
<1>7. CASE UNCHANGED index
  BY <1>7
<1>q. QED
  BY <1>1, <1>2, <1>7
  DEF Next, Starting, Looping, Finishing, EditSource, Interrupt, Crash, Fresh, Resume, ResumeRefused, ResumeDone,
      StackUp, StackFails, ManifestFails, Bind, BindRefused, WriteManifest, SaveManifest, OpenClient, SkipDone,
      LoopStopped, StartCase, Measure, WriteCapture, SaveCase, NextCase, LoopEnds, WriteResources, Destroy,
      Recheck, LeaveUnbound, SaveFinal

\* The index names files that exist.
LEMMA IndexNamedStep ==
    ASSUME Inv, Next
    PROVE  IndexNamed'
<1> SUFFICES ASSUME index' # None PROVE NamedIn(index', captures', manifests', samples')
  BY DEF IndexNamed, Named
<1>1. CASE index' = index
  BY <1>1, FilesGrow, NamedGrows DEF Inv, IndexNamed, Named
<1>2. ASSUME NEW status, index' = IndexOf(journal, status), Running
      PROVE  NamedIn(index', captures', manifests', samples')
  <2>1. NamedIn(journal, captures', manifests', samples')
    BY <1>2, FilesGrow, NamedGrows DEF Inv, JournalNamed, Named
  <2>2. /\ index'.cases = journal.cases /\ index'.manifests = journal.manifests
        /\ index'.samples = journal.samples
    BY <1>2 DEF IndexOf
  <2>q. QED
    BY <2>1, <2>2, NamedAlike DEF NamedIn
<1>q. QED
  BY <1>1, <1>2, IndexKinds DEF Running

\* The numbers of the session and of the attempt stay new until their files
\* are written.
LEMMA NewStep ==
    ASSUME Inv, Next
    PROVE  NumbersAreNew'
<1> USE DEF Fault, ReturnError, AtomicJSON, Forget, ReturnEarly, Begin, disk, memory
<1>a. TypeOK /\ RunShape /\ OneIdentity /\ NumbersAreSaved /\ NumbersAreNew
      /\ SavedNamed /\ JournalNamed /\ IndexNamed /\ CompleteIsSampled /\ MemoryIsAhead
  BY DEF Inv
<1>1. CASE EditSource
  BY <1>a, <1>1, Records DEF EditSource, RunShape, Running, Measuring, NumbersAreNew, NumbersAreSaved, Taken,
     Progress
<1>2. CASE Interrupt
  BY <1>a, <1>2, Records DEF Interrupt, RunShape, Running, Measuring, NumbersAreNew, NumbersAreSaved, Taken,
     Progress
<1>3. CASE Crash
  BY <1>a, <1>3, Records DEF Crash, RunShape, Running, Measuring, NumbersAreNew, NumbersAreSaved, Taken,
     Progress
<1>4. CASE Fresh
  BY <1>a, <1>4, Records DEF Fresh, RunShape, Running, Measuring, NumbersAreNew, NumbersAreSaved, Taken,
     Progress
<1>5. CASE Resume
  BY <1>a, <1>5, Records DEF Resume, RunShape, Running, Measuring, NumbersAreNew, NumbersAreSaved, Taken,
     Progress
<1>6. CASE ResumeRefused
  BY <1>a, <1>6, Records DEF ResumeRefused, RunShape, Running, Measuring, NumbersAreNew, NumbersAreSaved,
     Taken, Progress
<1>7. CASE ResumeDone
  BY <1>a, <1>7, Records DEF ResumeDone, RunShape, Running, Measuring, NumbersAreNew, NumbersAreSaved, Taken,
     Progress
<1>8. CASE StackUp
  BY <1>a, <1>8, Records DEF StackUp, RunShape, Running, Measuring, NumbersAreNew, NumbersAreSaved, Taken,
     Progress
<1>9. CASE StackFails
  BY <1>a, <1>9, Records DEF StackFails, RunShape, Running, Measuring, NumbersAreNew, NumbersAreSaved, Taken,
     Progress
<1>10. CASE ManifestFails
  BY <1>a, <1>10, Records DEF ManifestFails, RunShape, Running, Measuring, NumbersAreNew, NumbersAreSaved,
     Taken, Progress
<1>11. CASE Bind
  <2> USE <1>a, <1>11, Records, BindFacts
  <2>1. CASE saved' = journal' /\ pc' = "manifest"
    BY <2>1 DEF RunShape, Running, Measuring, NumbersAreNew, NumbersAreSaved, Taken, Progress, Journals,
       TypeOK, FilesOK
  <2>2. CASE saved' = saved /\ pc' = "resources"
    BY <2>2 DEF RunShape, Running, Measuring, NumbersAreNew, NumbersAreSaved, Taken, Progress, Journals,
       TypeOK, FilesOK
  <2>3. CASE saved' = journal' /\ pc' = "resources"
    BY <2>3 DEF RunShape, Running, Measuring, NumbersAreNew, NumbersAreSaved, Taken, Progress, Journals,
       TypeOK, FilesOK
  <2>q. QED
    BY <2>1, <2>2, <2>3
<1>12. CASE BindRefused
  BY <1>a, <1>12, Records DEF BindRefused, RunShape, Running, Measuring, NumbersAreNew, NumbersAreSaved,
     Taken, Progress
<1>13. CASE WriteManifest
  BY <1>a, <1>13, Records DEF WriteManifest, RunShape, Running, Measuring, NumbersAreNew, NumbersAreSaved,
     Taken, Progress, Journals
<1>14. CASE SaveManifest
  BY <1>a, <1>14, Records DEF SaveManifest, RunShape, Running, Measuring, NumbersAreNew, NumbersAreSaved,
     Taken, Progress
<1>15. CASE OpenClient
  BY <1>a, <1>15, Records DEF OpenClient, RunShape, Running, Measuring, NumbersAreNew, NumbersAreSaved,
     Taken, Progress
<1>16. CASE SkipDone
  BY <1>a, <1>16, Records DEF SkipDone, RunShape, Running, Measuring, NumbersAreNew, NumbersAreSaved, Taken,
     Progress
<1>17. CASE LoopStopped
  BY <1>a, <1>17, Records DEF LoopStopped, RunShape, Running, Measuring, NumbersAreNew, NumbersAreSaved,
     Taken, Progress
<1>18. CASE StartCase
  <2> USE <1>a, <1>18, Records, StartFacts
  <2>1. CASE saved' = journal' /\ pc' = "measure"
    BY <2>1 DEF RunShape, Running, Measuring, NumbersAreNew, NumbersAreSaved, Taken, Progress, Journals,
       Tables, TypeOK, FilesOK, Files
  <2>2. CASE saved' = saved /\ pc' = "resources"
    BY <2>2 DEF RunShape, Running, Measuring, NumbersAreNew, NumbersAreSaved, Taken, Progress, Journals,
       Tables, TypeOK, FilesOK, Files
  <2>3. CASE saved' = journal' /\ pc' = "resources"
    BY <2>3 DEF RunShape, Running, Measuring, NumbersAreNew, NumbersAreSaved, Taken, Progress, Journals,
       Tables, TypeOK, FilesOK, Files
  <2>q. QED
    BY <2>1, <2>2, <2>3
<1>19. CASE Measure
  BY <1>a, <1>19, Records DEF Measure, RunShape, Running, Measuring, NumbersAreNew, NumbersAreSaved, Taken,
     Progress
<1>20. CASE WriteCapture
  BY <1>a, <1>20, Records, CaptureFacts DEF RunShape, Running, Measuring, NumbersAreNew, NumbersAreSaved,
     Taken, Progress
<1>21. CASE SaveCase
  BY <1>a, <1>21, Records DEF SaveCase, RunShape, Running, Measuring, NumbersAreNew, NumbersAreSaved, Taken,
     Progress
<1>22. CASE WriteIndex
  BY <1>a, <1>22, Records DEF WriteIndex, RunShape, Running, Measuring, NumbersAreNew, NumbersAreSaved,
     Taken, Progress
<1>23. CASE NextCase
  BY <1>a, <1>23, Records DEF NextCase, RunShape, Running, Measuring, NumbersAreNew, NumbersAreSaved, Taken,
     Progress
<1>24. CASE LoopEnds
  BY <1>a, <1>24, Records DEF LoopEnds, RunShape, Running, Measuring, NumbersAreNew, NumbersAreSaved, Taken,
     Progress
<1>25. CASE WriteResources
  BY <1>a, <1>25, Records DEF WriteResources, RunShape, Running, Measuring, NumbersAreNew, NumbersAreSaved,
     Taken, Progress, Journals
<1>26. CASE Destroy
  BY <1>a, <1>26, Records DEF Destroy, RunShape, Running, Measuring, NumbersAreNew, NumbersAreSaved, Taken,
     Progress
<1>27. CASE Recheck
  BY <1>a, <1>27, Records DEF Recheck, RunShape, Running, Measuring, NumbersAreNew, NumbersAreSaved, Taken,
     Progress, Journals, Indices, Identities, Tables, Statuses
<1>28. CASE LeaveUnbound
  BY <1>a, <1>28, Records DEF LeaveUnbound, RunShape, Running, Measuring, NumbersAreNew, NumbersAreSaved,
     Taken, Progress
<1>29. CASE SaveFinal
  BY <1>a, <1>29, Records DEF SaveFinal, RunShape, Running, Measuring, NumbersAreNew, NumbersAreSaved, Taken,
     Progress
<1>30. CASE Publish
  BY <1>a, <1>30, Records DEF Publish, RunShape, Running, Measuring, NumbersAreNew, NumbersAreSaved, Taken,
     Progress
<1>q. QED
  BY <1>1, <1>2, <1>3, <1>4, <1>5, <1>6, <1>7, <1>8, <1>9, <1>10, <1>11, <1>12, <1>13, <1>14, <1>15, <1>16,
     <1>17, <1>18, <1>19, <1>20, <1>21, <1>22, <1>23, <1>24, <1>25, <1>26, <1>27, <1>28, <1>29, <1>30 DEF Next, Starting, Looping, Finishing

\* A run that meets no error has written its samples.
LEMMA SampledStep ==
    ASSUME Inv, Next
    PROVE  CompleteIsSampled'
<1> USE DEF Fault, ReturnError, AtomicJSON, Forget, ReturnEarly, Begin, disk, memory
<1>a. TypeOK /\ RunShape /\ OneIdentity /\ NumbersAreSaved /\ NumbersAreNew
      /\ SavedNamed /\ JournalNamed /\ IndexNamed /\ CompleteIsSampled /\ MemoryIsAhead
  BY DEF Inv
<1>1. CASE EditSource
  BY <1>a, <1>1, Records, IndexKinds DEF EditSource, RunShape, Running, Measuring, CompleteIsSampled
<1>2. CASE Interrupt
  BY <1>a, <1>2, Records, IndexKinds DEF Interrupt, RunShape, Running, Measuring, CompleteIsSampled
<1>3. CASE Crash
  BY <1>a, <1>3, Records, IndexKinds DEF Crash, RunShape, Running, Measuring, CompleteIsSampled
<1>4. CASE Fresh
  BY <1>a, <1>4, Records, IndexKinds DEF Fresh, RunShape, Running, Measuring, CompleteIsSampled
<1>5. CASE Resume
  BY <1>a, <1>5, Records, IndexKinds DEF Resume, RunShape, Running, Measuring, CompleteIsSampled
<1>6. CASE ResumeRefused
  BY <1>a, <1>6, Records, IndexKinds DEF ResumeRefused, RunShape, Running, Measuring, CompleteIsSampled
<1>7. CASE ResumeDone
  BY <1>a, <1>7, Records, IndexKinds DEF ResumeDone, RunShape, Running, Measuring, CompleteIsSampled
<1>8. CASE StackUp
  BY <1>a, <1>8, Records, IndexKinds DEF StackUp, RunShape, Running, Measuring, CompleteIsSampled
<1>9. CASE StackFails
  BY <1>a, <1>9, Records, IndexKinds DEF StackFails, RunShape, Running, Measuring, CompleteIsSampled
<1>10. CASE ManifestFails
  BY <1>a, <1>10, Records, IndexKinds DEF ManifestFails, RunShape, Running, Measuring, CompleteIsSampled
<1>11. CASE Bind
  BY <1>a, <1>11, Records, IndexKinds, BindFacts DEF RunShape, Running, Measuring, CompleteIsSampled
<1>12. CASE BindRefused
  BY <1>a, <1>12, Records, IndexKinds DEF BindRefused, RunShape, Running, Measuring, CompleteIsSampled
<1>13. CASE WriteManifest
  BY <1>a, <1>13, Records, IndexKinds DEF WriteManifest, RunShape, Running, Measuring, CompleteIsSampled,
     Journals
<1>14. CASE SaveManifest
  BY <1>a, <1>14, Records, IndexKinds DEF SaveManifest, RunShape, Running, Measuring, CompleteIsSampled
<1>15. CASE OpenClient
  BY <1>a, <1>15, Records, IndexKinds DEF OpenClient, RunShape, Running, Measuring, CompleteIsSampled
<1>16. CASE SkipDone
  BY <1>a, <1>16, Records, IndexKinds DEF SkipDone, RunShape, Running, Measuring, CompleteIsSampled
<1>17. CASE LoopStopped
  BY <1>a, <1>17, Records, IndexKinds DEF LoopStopped, RunShape, Running, Measuring, CompleteIsSampled
<1>18. CASE StartCase
  BY <1>a, <1>18, Records, IndexKinds, StartFacts DEF RunShape, Running, Measuring, CompleteIsSampled
<1>19. CASE Measure
  BY <1>a, <1>19, Records, IndexKinds DEF Measure, RunShape, Running, Measuring, CompleteIsSampled
<1>20. CASE WriteCapture
  BY <1>a, <1>20, Records, IndexKinds, CaptureFacts DEF RunShape, Running, Measuring, CompleteIsSampled
<1>21. CASE SaveCase
  BY <1>a, <1>21, Records, IndexKinds DEF SaveCase, RunShape, Running, Measuring, CompleteIsSampled
<1>22. CASE WriteIndex
  BY <1>a, <1>22, Records, IndexKinds DEF WriteIndex, RunShape, Running, Measuring, CompleteIsSampled, IndexOf
<1>23. CASE NextCase
  BY <1>a, <1>23, Records, IndexKinds DEF NextCase, RunShape, Running, Measuring, CompleteIsSampled
<1>24. CASE LoopEnds
  BY <1>a, <1>24, Records, IndexKinds DEF LoopEnds, RunShape, Running, Measuring, CompleteIsSampled
<1>25. CASE WriteResources
  BY <1>a, <1>25, Records, IndexKinds DEF WriteResources, RunShape, Running, Measuring, CompleteIsSampled,
     Journals, TypeOK, FlagsOK
<1>26. CASE Destroy
  BY <1>a, <1>26, Records, IndexKinds DEF Destroy, RunShape, Running, Measuring, CompleteIsSampled
<1>27. CASE Recheck
  BY <1>a, <1>27, Records, IndexKinds DEF Recheck, RunShape, Running, Measuring, CompleteIsSampled,
     FinalStatus, TypeOK, FlagsOK, Journals, Indices, Identities, Tables, Statuses
<1>28. CASE LeaveUnbound
  BY <1>a, <1>28, Records, IndexKinds DEF LeaveUnbound, RunShape, Running, Measuring, CompleteIsSampled
<1>29. CASE SaveFinal
  BY <1>a, <1>29, Records, IndexKinds DEF SaveFinal, RunShape, Running, Measuring, CompleteIsSampled
<1>30. CASE Publish
  BY <1>a, <1>30, Records, IndexKinds DEF Publish, RunShape, Running, Measuring, CompleteIsSampled, IndexOf
<1>q. QED
  BY <1>1, <1>2, <1>3, <1>4, <1>5, <1>6, <1>7, <1>8, <1>9, <1>10, <1>11, <1>12, <1>13, <1>14, <1>15, <1>16,
     <1>17, <1>18, <1>19, <1>20, <1>21, <1>22, <1>23, <1>24, <1>25, <1>26, <1>27, <1>28, <1>29, <1>30 DEF Next, Starting, Looping, Finishing

\* The journal in memory agrees with the disk about done cases.
LEMMA AheadStep ==
    ASSUME Inv, Next
    PROVE  MemoryIsAhead'
<1> USE DEF Fault, ReturnError, AtomicJSON, Forget, ReturnEarly, Begin, disk, memory
<1>a. TypeOK /\ RunShape /\ OneIdentity /\ NumbersAreSaved /\ NumbersAreNew
      /\ SavedNamed /\ JournalNamed /\ IndexNamed /\ CompleteIsSampled /\ MemoryIsAhead
  BY DEF Inv
<1>1. CASE EditSource
  BY <1>a, <1>1, Records DEF EditSource, RunShape, Running, Measuring, MemoryIsAhead, Done
<1>2. CASE Interrupt
  BY <1>a, <1>2, Records DEF Interrupt, RunShape, Running, Measuring, MemoryIsAhead, Done
<1>3. CASE Crash
  BY <1>a, <1>3, Records DEF Crash, RunShape, Running, Measuring, MemoryIsAhead, Done
<1>4. CASE Fresh
  BY <1>a, <1>4, Records, NewJournalFields DEF Fresh, RunShape, Running, Measuring, MemoryIsAhead, Done,
     TypeOK, FilesOK, ControlOK
<1>5. CASE Resume
  BY <1>a, <1>5, Records DEF Resume, RunShape, Running, Measuring, MemoryIsAhead, Done
<1>6. CASE ResumeRefused
  BY <1>a, <1>6, Records DEF ResumeRefused, RunShape, Running, Measuring, MemoryIsAhead, Done
<1>7. CASE ResumeDone
  BY <1>a, <1>7, Records DEF ResumeDone, RunShape, Running, Measuring, MemoryIsAhead, Done
<1>8. CASE StackUp
  BY <1>a, <1>8, Records DEF StackUp, RunShape, Running, Measuring, MemoryIsAhead, Done
<1>9. CASE StackFails
  BY <1>a, <1>9, Records DEF StackFails, RunShape, Running, Measuring, MemoryIsAhead, Done
<1>10. CASE ManifestFails
  BY <1>a, <1>10, Records DEF ManifestFails, RunShape, Running, Measuring, MemoryIsAhead, Done
<1>11. CASE Bind
  <2> USE <1>a, <1>11, Records, BindFacts
  <2>1. CASE saved' = journal' /\ pc' = "manifest"
    BY <2>1 DEF RunShape, Running, Measuring, MemoryIsAhead, Done
  <2>2. CASE saved' = saved /\ pc' = "resources"
    BY <2>2 DEF RunShape, Running, Measuring, MemoryIsAhead, Done
  <2>3. CASE saved' = journal' /\ pc' = "resources"
    BY <2>3 DEF RunShape, Running, Measuring, MemoryIsAhead, Done
  <2>q. QED
    BY <2>1, <2>2, <2>3
<1>12. CASE BindRefused
  BY <1>a, <1>12, Records DEF BindRefused, RunShape, Running, Measuring, MemoryIsAhead, Done
<1>13. CASE WriteManifest
  BY <1>a, <1>13, Records DEF WriteManifest, RunShape, Running, Measuring, MemoryIsAhead, Done, Journals
<1>14. CASE SaveManifest
  BY <1>a, <1>14, Records DEF SaveManifest, RunShape, Running, Measuring, MemoryIsAhead, Done
<1>15. CASE OpenClient
  BY <1>a, <1>15, Records DEF OpenClient, RunShape, Running, Measuring, MemoryIsAhead, Done
<1>16. CASE SkipDone
  BY <1>a, <1>16, Records DEF SkipDone, RunShape, Running, Measuring, MemoryIsAhead, Done
<1>17. CASE LoopStopped
  BY <1>a, <1>17, Records DEF LoopStopped, RunShape, Running, Measuring, MemoryIsAhead, Done
<1>18. CASE StartCase
  <2> USE <1>a, <1>18, Records, StartFacts
  <2>1. CASE saved' = journal' /\ pc' = "measure"
    BY <2>1 DEF RunShape, Running, Measuring, MemoryIsAhead, Done
  <2>2. CASE saved' = saved /\ pc' = "resources"
    BY <2>2 DEF RunShape, Running, Measuring, MemoryIsAhead, Done
  <2>3. CASE saved' = journal' /\ pc' = "resources"
    BY <2>3 DEF RunShape, Running, Measuring, MemoryIsAhead, Done
  <2>q. QED
    BY <2>1, <2>2, <2>3
<1>19. CASE Measure
  BY <1>a, <1>19, Records DEF Measure, RunShape, Running, Measuring, MemoryIsAhead, Done
<1>20. CASE WriteCapture
  BY <1>a, <1>20, Records, CaptureFacts DEF RunShape, Running, Measuring, MemoryIsAhead, Done
<1>21. CASE SaveCase
  BY <1>a, <1>21, Records DEF SaveCase, RunShape, Running, Measuring, MemoryIsAhead, Done
<1>22. CASE WriteIndex
  BY <1>a, <1>22, Records DEF WriteIndex, RunShape, Running, Measuring, MemoryIsAhead, Done
<1>23. CASE NextCase
  BY <1>a, <1>23, Records DEF NextCase, RunShape, Running, Measuring, MemoryIsAhead, Done
<1>24. CASE LoopEnds
  BY <1>a, <1>24, Records DEF LoopEnds, RunShape, Running, Measuring, MemoryIsAhead, Done
<1>25. CASE WriteResources
  BY <1>a, <1>25, Records DEF WriteResources, RunShape, Running, Measuring, MemoryIsAhead, Done, Journals
<1>26. CASE Destroy
  BY <1>a, <1>26, Records DEF Destroy, RunShape, Running, Measuring, MemoryIsAhead, Done
<1>27. CASE Recheck
  BY <1>a, <1>27, Records DEF Recheck, RunShape, Running, Measuring, MemoryIsAhead, Done, Journals, Indices,
     Identities, Tables, Statuses
<1>28. CASE LeaveUnbound
  BY <1>a, <1>28, Records DEF LeaveUnbound, RunShape, Running, Measuring, MemoryIsAhead, Done
<1>29. CASE SaveFinal
  BY <1>a, <1>29, Records DEF SaveFinal, RunShape, Running, Measuring, MemoryIsAhead, Done
<1>30. CASE Publish
  BY <1>a, <1>30, Records DEF Publish, RunShape, Running, Measuring, MemoryIsAhead, Done
<1>q. QED
  BY <1>1, <1>2, <1>3, <1>4, <1>5, <1>6, <1>7, <1>8, <1>9, <1>10, <1>11, <1>12, <1>13, <1>14, <1>15, <1>16,
     <1>17, <1>18, <1>19, <1>20, <1>21, <1>22, <1>23, <1>24, <1>25, <1>26, <1>27, <1>28, <1>29, <1>30 DEF Next, Starting, Looping, Finishing

\* The invariant holds before the first run.
LEMMA InitInv ==
    ASSUME Init
    PROVE  Inv
<1>1. TypeOK
  <2>1. FilesOK /\ MemoryOK
    BY DEF Init, FilesOK, MemoryOK
  <2>2. ControlOK
    BY DEF Init, ControlOK
  <2>3. FlagsOK
    BY DEF Init, FlagsOK
  <2>q. QED
    BY <2>1, <2>2, <2>3 DEF TypeOK
<1>2. RunShape /\ OneIdentity /\ NumbersAreSaved /\ NumbersAreNew
  BY DEF Init, RunShape, OneIdentity, NumbersAreSaved, NumbersAreNew, Running, Measuring
<1>3. SavedNamed /\ JournalNamed /\ IndexNamed /\ CompleteIsSampled /\ MemoryIsAhead
  BY DEF Init, SavedNamed, JournalNamed, IndexNamed, CompleteIsSampled, MemoryIsAhead, Running
<1>q. QED
  BY <1>1, <1>2, <1>3 DEF Inv

\* Every step keeps it.
LEMMA StepInv ==
    ASSUME Inv, [Next]_vars
    PROVE  Inv'
<1>1. CASE Next
  BY <1>1, ControlStep, FlagStep, FilesStep, MemoryStep, ShapeStep, IdentityStep, NumberStep, NewStep,
     JournalNamedStep, SavedNamedStep, IndexNamedStep, SampledStep, AheadStep
  DEF Inv, TypeOK
<1>2. CASE UNCHANGED vars
  <2>1. TypeOK'
    BY <1>2 DEF Inv, vars, disk, memory, TypeOK, FilesOK, MemoryOK, ControlOK, FlagsOK
  <2>2. (RunShape /\ OneIdentity /\ NumbersAreSaved /\ NumbersAreNew)'
    BY <1>2 DEF Inv, vars, disk, memory, RunShape, OneIdentity, NumbersAreSaved, NumbersAreNew, Running,
       Measuring, Taken, Progress
  <2>3. (SavedNamed /\ JournalNamed /\ IndexNamed /\ CompleteIsSampled /\ MemoryIsAhead)'
    BY <1>2 DEF Inv, vars, disk, memory, SavedNamed, JournalNamed, IndexNamed, Named, CompleteIsSampled,
       MemoryIsAhead, Running
  <2>q. QED
    BY <2>1, <2>2, <2>3 DEF Inv
<1>q. QED
  BY <1>1, <1>2

\* The inductive invariant of a study, for any cases, versions and bounds.
THEOREM Invariance == Spec => []Inv
<1>1. Init => Inv
  BY InitInv
<1>2. Inv /\ [Next]_vars => Inv'
  BY StepInv
<1>q. QED
  BY <1>1, <1>2, PTL DEF Spec

\* The journal on disk is backed by files of its own identity: a resume never
\* refuses the study's own artifacts.
THEOREM JournalBacked == Spec => []JournalIsBacked
<1>1. Inv => JournalIsBacked
  <2> SUFFICES ASSUME Inv, saved # None PROVE Backed(saved)
    BY DEF JournalIsBacked
  <2>1. /\ NamedIn(saved, captures, manifests, samples)
        /\ \A f \in captures : f.identity = saved.identity
    BY DEF Inv, SavedNamed, Named, OneIdentity
  <2>2. ASSUME NEW c \in Cases PROVE CaseNamed(saved.cases[c], c, captures)
    BY <2>1 DEF NamedIn
  <2>q. QED
    BY <2>1, <2>2 DEF Backed, NamedIn, CaseNamed
<1>q. QED
  BY <1>1, Invariance, PTL

\* An index that says complete has the evidence the audit asks for.
THEOREM EvidenceIsAudited == Spec => []AuditedEvidence
<1>1. Inv => AuditedEvidence
  <2> SUFFICES ASSUME Inv, index # None, index.status = "complete"
               PROVE  Backed(index) /\ index.identity.runtime # None
                      /\ index.manifests # {} /\ index.samples # {}
    BY DEF AuditedEvidence
  <2>1. /\ NamedIn(index, captures, manifests, samples)
        /\ \A f \in captures : f.identity = index.identity
        /\ index.identity.runtime # None /\ index.manifests # {} /\ index.samples # {}
    BY DEF Inv, IndexNamed, Named, OneIdentity, CompleteIsSampled
  <2>2. ASSUME NEW c \in Cases PROVE CaseNamed(index.cases[c], c, captures)
    BY <2>1 DEF NamedIn
  <2>q. QED
    BY <2>1, <2>2 DEF Backed, NamedIn, CaseNamed
<1>q. QED
  BY <1>1, Invariance, PTL

\* No capture, manifest or resource file ever needs a name that is taken.
THEOREM NamesFresh == Spec => []NamesAreFresh
<1>1. Inv => NamesAreFresh
  BY DEF Inv, NumbersAreNew, NamesAreFresh
<1>q. QED
  BY <1>1, Invariance, PTL

\* A step leaves captures and the cases the journal calls done as they are.
LEMMA DoneStep ==
    ASSUME Inv, [Next]_vars
    PROVE  /\ captures \subseteq captures'
           /\ saved # None => \A c \in Cases :
                Done(saved.cases[c].status) => saved'.cases[c] = saved.cases[c]
<1>1. captures \subseteq captures'
  BY FilesGrow
<1>2. ASSUME saved # None, NEW c \in Cases, Done(saved.cases[c].status)
      PROVE  saved'.cases[c] = saved.cases[c]
  <2>1. CASE saved' = saved
    BY <2>1
  <2>2. ASSUME Next, saved' # saved PROVE saved'.cases[c] = journal'.cases[c] /\ Running
    BY <1>2, <2>2, SaveKinds
  <2>3. ASSUME Next, saved' # saved PROVE journal'.cases[c] = saved.cases[c]
    <3>1. journal.cases[c] = saved.cases[c]
      BY <1>2, <2>2, <2>3 DEF Inv, MemoryIsAhead
    <3>2. CASE Bind
      BY <3>1, <3>2, BindFacts
    <3>3. CASE StartCase
      BY <1>2, <3>1, <3>3, StartFacts
    <3>4. CASE UNCHANGED journal
      BY <3>1, <3>4
    <3>5. Bind \/ StartCase \/ UNCHANGED journal
      BY <1>2, <2>2, <2>3
      DEF Next, Starting, Looping, Finishing, EditSource, Interrupt, Crash, Fresh, Resume, ResumeRefused, ResumeDone,
          StackUp, StackFails, ManifestFails, BindRefused, WriteManifest, SaveManifest, OpenClient, SkipDone,
          LoopStopped, Measure, WriteCapture, SaveCase, WriteIndex, NextCase, LoopEnds, WriteResources, Destroy,
          Recheck, LeaveUnbound, SaveFinal, Publish, Begin, ReturnEarly, memory, disk, Running
    <3>q. QED
      BY <3>2, <3>3, <3>4, <3>5
  <2>4. CASE UNCHANGED vars
    BY <2>4 DEF vars, disk
  <2>q. QED
    BY <2>1, <2>2, <2>3, <2>4
<1>q. QED
  BY <1>1, <1>2

\* Done cases and captures are final, through any number of runs and faults.
THEOREM DoneStaysDone == Spec => DoneIsFinal
<1>1. Inv /\ [Next]_vars =>
        [/\ captures \subseteq captures'
         /\ saved # None => \A c \in Cases :
              Done(saved.cases[c].status) => saved'.cases[c] = saved.cases[c]]_vars
  BY DoneStep
<1>q. QED
  BY <1>1, Invariance, PTL DEF Spec, DoneIsFinal

=============================================================================
