----------------------------- MODULE OutboxProofs ---------------------------
(***************************************************************************)
(* For any orders, dispatchers, batch size and number of attempts, crashes *)
(* and uncertain answers: the outbox implements Obligation, and no order   *)
(* is overtaken.                                                           *)
(***************************************************************************)
EXTENDS Outbox, FiniteSetTheorems, TLAPS

USE DEF States, Resting

\* The order of an appended row.
LEMMA Appended ==
    ASSUME NEW o \in Orders, NEW s \in Seq(Orders)
    PROVE  /\ Append(s, o) \in Seq(Orders)
           /\ DOMAIN Append(s, o) = DOMAIN s \cup {Len(s) + 1}
           /\ \A i \in DOMAIN s : Append(s, o)[i] = s[i] /\ i < Len(s) + 1
           /\ Append(s, o)[Len(s) + 1] = o
  OBVIOUS

\* Of two pending rows the older one has no more pending rows before it.
LEMMA BeforeGrows ==
    ASSUME TypeOK, NEW i \in Pending, NEW j \in Pending, i < j
    PROVE  Cardinality(Before(i)) <= Cardinality(Before(j)) /\ Cardinality(Before(j)) \in Nat
           /\ Cardinality(Before(i)) \in Nat
<1>1. IsFiniteSet(1 .. Len(rows))
  BY FS_Interval DEF TypeOK
<1>2. Before(j) \subseteq 1 .. Len(rows) /\ Before(i) \subseteq Before(j)
  BY DEF Before, Pending, TypeOK
<1>3. IsFiniteSet(Before(j)) /\ IsFiniteSet(Before(i))
  BY <1>1, <1>2, FS_Subset
<1> QED
  BY <1>2, <1>3, FS_Subset, FS_CardinalityType

-----------------------------------------------------------------------------
\* The empty table.
LEMMA InitInv == Init => Inv
  BY OutboxAssumption DEF Init, Inv, TypeOK, TableShape, AnswerShape, Downward, OldestFirst, Saved

\* A saved order is appended: it is behind every row and in no selection.
LEMMA CreateInv == Inv /\ CreateOrder => Inv'
<1> SUFFICES ASSUME Inv, CreateOrder PROVE Inv'
  OBVIOUS
<1>0. PICK o \in Orders : state[o] = "none" /\ state' = [state EXCEPT ![o] = "pending"] /\ rows' = Append(rows, o)
  BY DEF CreateOrder
<1>1. rows \in Seq(Orders) /\ state \in [Orders -> States] /\ UNCHANGED <<disp, topic, delayed, faults>>
  BY DEF CreateOrder, Inv, TypeOK
<1>2. /\ rows' \in Seq(Orders)
      /\ DOMAIN rows' = DOMAIN rows \cup {Len(rows) + 1}
      /\ \A i \in DOMAIN rows : rows'[i] = rows[i] /\ i < Len(rows) + 1
      /\ rows'[Len(rows) + 1] = o
  BY <1>0, <1>1, Appended
<1>3. \A i \in DOMAIN rows : rows[i] \in Saved /\ rows[i] # o /\ state'[rows[i]] = state[rows[i]]
  BY <1>0, <1>1 DEF Inv, TableShape, Saved
<1>4. Saved' = Saved \cup {o} /\ o \notin Saved
  BY <1>0, <1>1 DEF Saved
<1>5. TypeOK'
  BY <1>0, <1>1, <1>2 DEF Inv, TypeOK
<1>6. TableShape' /\ AnswerShape'
  BY <1>1, <1>2, <1>3, <1>4 DEF Inv, TableShape, AnswerShape
<1>7. Downward'
  BY <1>1, <1>2, <1>3, <1>4 DEF Inv, Downward, AnswerShape
<1>8. OldestFirst'
  BY <1>0, <1>1, <1>2, <1>3 DEF Inv, OldestFirst
<1> QED
  BY <1>5, <1>6, <1>7, <1>8 DEF Inv

\* A selection is downward closed: an older pending row has no more pending
\* rows before it, so it is within the limit too.
LEMMA SelectInv == ASSUME NEW d \in Dispatchers PROVE Inv /\ Select(d) => Inv'
<1> SUFFICES ASSUME Inv, Select(d) PROVE Inv'
  OBVIOUS
<1>0. UNCHANGED <<rows, state, topic, delayed, faults>>
  BY DEF Select
<1>1. PICK sel \in Selection :
        disp' = [disp EXCEPT ![d] = [at |-> "sending", sel |-> sel, tries |-> 1, answer |-> "none"]]
  BY DEF Select
<1>2. sel = {rows[i] : i \in {i \in Pending : Cardinality(Before(i)) <= BatchSize}}
  BY <1>1 DEF Selection
<1>3. sel \subseteq Saved
  BY <1>2 DEF Pending, Inv, TableShape
<1>4. disp'[d].at = "sending" /\ disp'[d].sel = sel /\ \A e \in Dispatchers \ {d} : disp'[e] = disp[e]
  BY <1>1 DEF Inv, TypeOK
<1>5. TypeOK'
  <2>1. sel \in SUBSET Orders /\ 1 \in 0 .. MaxAttempts
    BY <1>3, OutboxAssumption DEF Saved
  <2>2. disp' \in [Dispatchers -> [at : {"idle", "sending", "answered"}, sel : SUBSET Orders,
                                  tries : 0 .. MaxAttempts, answer : States]]
    BY <1>1, <2>1 DEF Inv, TypeOK
  <2> QED
    BY <1>0, <2>2 DEF Inv, TypeOK
<1>6. TableShape' /\ AnswerShape' /\ OldestFirst'
  BY <1>0, <1>3, <1>4 DEF Inv, TableShape, AnswerShape, OldestFirst, Saved
<1>7. ASSUME NEW i \in DOMAIN rows, NEW j \in DOMAIN rows, i < j, rows[j] \in sel, state[rows[i]] = "pending"
      PROVE  rows[i] \in sel
  <2>1. PICK k \in Pending : rows[k] = rows[j] /\ Cardinality(Before(k)) <= BatchSize
    BY <1>2, <1>7
  <2>2. k = j /\ i \in Pending
    BY <1>7, <2>1 DEF Inv, TableShape, Pending
  <2>3. Cardinality(Before(i)) <= Cardinality(Before(j)) /\ Cardinality(Before(j)) \in Nat /\ Cardinality(Before(i)) \in Nat
    BY <1>7, <2>1, <2>2, BeforeGrows DEF Inv
  <2>4. Cardinality(Before(i)) <= BatchSize
    BY <2>1, <2>2, <2>3, OutboxAssumption
  <2> QED
    BY <1>2, <2>2, <2>4
<1>8. Downward'
  BY <1>0, <1>4, <1>7 DEF Inv, Downward
<1> QED
  BY <1>5, <1>6, <1>8 DEF Inv

\* A step of the API or of the client that writes nothing to the table and
\* keeps or drops a selection.
LEMMA TableKept ==
    ASSUME Inv, UNCHANGED <<rows, state>>, TypeOK', AnswerShape', (topic \cup delayed)' \subseteq Saved,
           \A d \in Dispatchers : disp'[d].sel = disp[d].sel \/ disp'[d].sel = {}
    PROVE  Inv'
<1>1. TableShape' /\ OldestFirst' /\ Saved' = Saved
  BY DEF Inv, TableShape, OldestFirst, Saved
<1>2. Downward'
  BY DEF Inv, Downward
<1> QED
  BY <1>1, <1>2 DEF Inv

\* An answer moves its dispatcher only, and never changes the selection.
LEMMA AnsweredShape ==
    ASSUME Inv, NEW d \in Dispatchers, NEW answer \in States \ {"none"}, Answered(d, answer),
           topic \subseteq topic', UNCHANGED state, answer = "acknowledged" => disp[d].sel \subseteq topic'
    PROVE  /\ AnswerShape'
           /\ disp' \in [Dispatchers -> [at : {"idle", "sending", "answered"}, sel : SUBSET Orders,
                                         tries : 0 .. MaxAttempts, answer : States]]
           /\ \A e \in Dispatchers : disp'[e].sel = disp[e].sel
<1>1. disp'[d].at = "answered" /\ disp'[d].sel = disp[d].sel /\ disp'[d].answer = answer
      /\ \A e \in Dispatchers \ {d} : disp'[e] = disp[e]
  BY DEF Inv, TypeOK, Answered
<1>2. disp' \in [Dispatchers -> [at : {"idle", "sending", "answered"}, sel : SUBSET Orders,
                                 tries : 0 .. MaxAttempts, answer : States]]
  BY DEF Inv, TypeOK, Answered
<1>3. Saved' = Saved
  BY DEF Saved
<1>4. AnswerShape'
  BY <1>1, <1>3 DEF Inv, AnswerShape
<1> QED
  BY <1>1, <1>2, <1>4

\* A dispatcher that starts again holds nothing.
LEMMA RestedShape ==
    ASSUME Inv, NEW d \in Dispatchers, disp' = [disp EXCEPT ![d] = Resting],
           UNCHANGED topic, Saved' = Saved
    PROVE  /\ AnswerShape'
           /\ disp' \in [Dispatchers -> [at : {"idle", "sending", "answered"}, sel : SUBSET Orders,
                                         tries : 0 .. MaxAttempts, answer : States]]
           /\ \A e \in Dispatchers : disp'[e].sel = disp[e].sel \/ disp'[e].sel = {}
<1>1. disp'[d] = [at |-> "idle", sel |-> {}, tries |-> 0, answer |-> "none"]
      /\ \A e \in Dispatchers \ {d} : disp'[e] = disp[e]
  BY DEF Inv, TypeOK
<1>2. 0 \in 0 .. MaxAttempts
  BY OutboxAssumption
<1>3. disp' \in [Dispatchers -> [at : {"idle", "sending", "answered"}, sel : SUBSET Orders,
                                 tries : 0 .. MaxAttempts, answer : States]]
  BY <1>2 DEF Inv, TypeOK
<1>4. AnswerShape'
  BY <1>1 DEF Inv, AnswerShape
<1> QED
  BY <1>1, <1>3, <1>4

\* An acknowledged batch is in the queue.
LEMMA AcceptedInv == ASSUME NEW d \in Dispatchers PROVE Inv /\ Accepted(d) => Inv'
<1> SUFFICES ASSUME Inv, Accepted(d) PROVE Inv'
  OBVIOUS
<1>1. topic' = topic \cup disp[d].sel /\ Answered(d, "acknowledged") /\ UNCHANGED <<rows, state, delayed, faults>>
  BY DEF Accepted
<1>2. (topic \cup delayed)' \subseteq Saved
  BY <1>1 DEF Inv, TableShape, AnswerShape
<1>3. /\ AnswerShape'
      /\ disp' \in [Dispatchers -> [at : {"idle", "sending", "answered"}, sel : SUBSET Orders,
                                    tries : 0 .. MaxAttempts, answer : States]]
      /\ \A e \in Dispatchers : disp'[e].sel = disp[e].sel
  BY <1>1, AnsweredShape
<1>4. TypeOK'
  BY <1>1, <1>2, <1>3 DEF Inv, TypeOK, Saved
<1> QED
  BY <1>1, <1>2, <1>3, <1>4, TableKept

\* A rejected batch changes the answer only.
LEMMA RejectedInv == ASSUME NEW d \in Dispatchers PROVE Inv /\ Rejected(d) => Inv'
<1> SUFFICES ASSUME Inv, Rejected(d) PROVE Inv'
  OBVIOUS
<1>1. Answered(d, "rejected") /\ UNCHANGED <<rows, state, topic, delayed, faults>>
  BY DEF Rejected
<1>2. (topic \cup delayed)' \subseteq Saved
  BY <1>1 DEF Inv, TableShape
<1>3. /\ AnswerShape'
      /\ disp' \in [Dispatchers -> [at : {"idle", "sending", "answered"}, sel : SUBSET Orders,
                                    tries : 0 .. MaxAttempts, answer : States]]
      /\ \A e \in Dispatchers : disp'[e].sel = disp[e].sel
  BY <1>1, AnsweredShape
<1>4. TypeOK'
  BY <1>1, <1>2, <1>3 DEF Inv, TypeOK
<1> QED
  BY <1>1, <1>2, <1>3, <1>4, TableKept

\* A refused key changes the answer only.
LEMMA RefusedInv == ASSUME NEW d \in Dispatchers PROVE Inv /\ Refused(d) => Inv'
<1> SUFFICES ASSUME Inv, Refused(d) PROVE Inv'
  OBVIOUS
<1>1. Answered(d, "pending") /\ UNCHANGED <<rows, state, topic, delayed>> /\ Fault
  BY DEF Refused
<1>2. (topic \cup delayed)' \subseteq Saved
  BY <1>1 DEF Inv, TableShape
<1>3. /\ AnswerShape'
      /\ disp' \in [Dispatchers -> [at : {"idle", "sending", "answered"}, sel : SUBSET Orders,
                                    tries : 0 .. MaxAttempts, answer : States]]
      /\ \A e \in Dispatchers : disp'[e].sel = disp[e].sel
  BY <1>1, AnsweredShape
<1>4. faults' \in 0 .. MaxFaults
  BY <1>1, OutboxAssumption DEF Inv, TypeOK, Fault
<1>5. TypeOK'
  BY <1>1, <1>3, <1>4 DEF Inv, TypeOK
<1> QED
  BY <1>1, <1>2, <1>3, <1>5, TableKept

\* A retry or a last uncertain attempt publishes rows of the selection only.
LEMMA UncertainInv == ASSUME NEW d \in Dispatchers PROVE Inv /\ Uncertain(d) => Inv'
<1> SUFFICES ASSUME Inv, Uncertain(d) PROVE Inv'
  OBVIOUS
<1>1. UNCHANGED <<rows, state>> /\ Fault
  BY DEF Uncertain
<1>2. topic \subseteq topic' /\ (topic \cup delayed)' \subseteq Saved
  BY DEF Uncertain, Inv, TableShape, AnswerShape
<1>3. /\ AnswerShape'
      /\ disp' \in [Dispatchers -> [at : {"idle", "sending", "answered"}, sel : SUBSET Orders,
                                    tries : 0 .. MaxAttempts, answer : States]]
      /\ \A e \in Dispatchers : disp'[e].sel = disp[e].sel
  <2>1. CASE MayRetry(d)
    <3>1. disp' = [disp EXCEPT ![d].tries = @ + 1]
      BY <2>1 DEF Uncertain
    <3>2. disp[d].tries + 1 \in 0 .. MaxAttempts
      BY <2>1, OutboxAssumption DEF MayRetry, Inv, TypeOK
    <3>3. disp' \in [Dispatchers -> [at : {"idle", "sending", "answered"}, sel : SUBSET Orders,
                                    tries : 0 .. MaxAttempts, answer : States]]
      BY <3>1, <3>2 DEF Inv, TypeOK
    <3>4. \A e \in Dispatchers : disp'[e].sel = disp[e].sel /\ disp'[e].at = disp[e].at /\ disp'[e].answer = disp[e].answer
      BY <3>1 DEF Inv, TypeOK
    <3>5. AnswerShape'
      BY <1>1, <1>2, <3>4 DEF Inv, AnswerShape, Saved
    <3> QED
      BY <3>3, <3>4, <3>5
  <2>2. CASE ~MayRetry(d)
    <3>1. Answered(d, "pending")
      BY <2>2 DEF Uncertain
    <3> QED
      BY <1>1, <1>2, <3>1, AnsweredShape
  <2> QED
    BY <2>1, <2>2
<1>4. faults' \in 0 .. MaxFaults
  BY <1>1, OutboxAssumption DEF Inv, TypeOK, Fault
<1>5. TypeOK'
  BY <1>1, <1>2, <1>3, <1>4 DEF Inv, TypeOK, Saved
<1> QED
  BY <1>1, <1>2, <1>3, <1>5, TableKept

\* A dispatcher that dies forgets its selection.
LEMMA CrashInv == ASSUME NEW d \in Dispatchers PROVE Inv /\ Crash(d) => Inv'
<1> SUFFICES ASSUME Inv, Crash(d) PROVE Inv'
  OBVIOUS
<1>1. disp' = [disp EXCEPT ![d] = Resting] /\ UNCHANGED <<rows, state, topic, delayed>> /\ Fault
  BY DEF Crash
<1>2. (topic \cup delayed)' \subseteq Saved /\ Saved' = Saved
  BY <1>1 DEF Inv, TableShape, Saved
<1>3. /\ AnswerShape'
      /\ disp' \in [Dispatchers -> [at : {"idle", "sending", "answered"}, sel : SUBSET Orders,
                                    tries : 0 .. MaxAttempts, answer : States]]
      /\ \A e \in Dispatchers : disp'[e].sel = disp[e].sel \/ disp'[e].sel = {}
  BY <1>1, <1>2, RestedShape
<1>4. faults' \in 0 .. MaxFaults
  BY <1>1, OutboxAssumption DEF Inv, TypeOK, Fault
<1>5. TypeOK'
  BY <1>1, <1>3, <1>4 DEF Inv, TypeOK
<1> QED
  BY <1>1, <1>2, <1>3, <1>5, TableKept

\* A late request adds an event of a saved order.
LEMMA ArriveInv == Inv /\ Arrive => Inv'
<1> SUFFICES ASSUME Inv, Arrive PROVE Inv'
  OBVIOUS
<1>1. UNCHANGED <<rows, state, disp, faults>>
  BY DEF Arrive
<1>2. topic \subseteq topic' /\ (topic \cup delayed)' \subseteq Saved
  BY DEF Arrive, Inv, TableShape
<1>3. AnswerShape'
  BY <1>1, <1>2 DEF Inv, AnswerShape, Saved
<1>4. TypeOK'
  BY <1>1, <1>2 DEF Inv, TypeOK, Saved
<1> QED
  BY <1>1, <1>2, <1>3, <1>4, TableKept

\* The UPDATE writes pending rows of the selection only, all of them, and
\* never removes an order.
LEMMA UpdateWrites ==
    ASSUME Inv, NEW d \in Dispatchers, Update(d)
    PROVE  /\ disp[d].answer \in States \ {"none"}
           /\ state' \in [Orders -> States]
           /\ \A o \in Orders : state'[o] = IF o \in Updated(d) THEN disp[d].answer ELSE state[o]
           /\ Saved' = Saved
<1>1. disp[d].answer \in States \ {"none"}
  BY DEF Inv, TypeOK, AnswerShape, Update
<1>2. state' = [o \in Orders |-> IF o \in Updated(d) THEN disp[d].answer ELSE state[o]]
  BY DEF Update
<1>3. state' \in [Orders -> States]
  BY <1>1, <1>2 DEF Inv, TypeOK
<1> QED
  BY <1>1, <1>2, <1>3 DEF Saved, Updated

\* The UPDATE decides a downward closed part of the pending rows, so what stays
\* pending is behind what is decided.
LEMMA UpdateInv == ASSUME NEW d \in Dispatchers PROVE Inv /\ Update(d) => Inv'
<1> SUFFICES ASSUME Inv, Update(d) PROVE Inv'
  OBVIOUS
<1>1. disp' = [disp EXCEPT ![d] = Resting] /\ UNCHANGED <<rows, topic, delayed, faults>>
  BY DEF Update
<1>2. /\ disp[d].answer \in States \ {"none"}
      /\ state' \in [Orders -> States]
      /\ \A o \in Orders : state'[o] = IF o \in Updated(d) THEN disp[d].answer ELSE state[o]
      /\ Saved' = Saved
  BY UpdateWrites
<1>3. /\ AnswerShape'
      /\ disp' \in [Dispatchers -> [at : {"idle", "sending", "answered"}, sel : SUBSET Orders,
                                    tries : 0 .. MaxAttempts, answer : States]]
      /\ \A e \in Dispatchers : disp'[e].sel = disp[e].sel \/ disp'[e].sel = {}
  BY <1>1, <1>2, RestedShape
<1>4. TypeOK' /\ TableShape'
  BY <1>1, <1>2, <1>3 DEF Inv, TypeOK, TableShape
<1>5. \A i \in DOMAIN rows : rows[i] \in Orders /\ (state'[rows[i]] = "pending" => state[rows[i]] = "pending")
  BY <1>2 DEF Inv, TableShape, Saved, Updated
<1>6. Downward'
  BY <1>1, <1>3, <1>5 DEF Inv, Downward
<1>7. OldestFirst'
  <2> SUFFICES ASSUME NEW i \in DOMAIN rows, NEW j \in DOMAIN rows, i < j, state'[rows[i]] = "pending"
               PROVE  state'[rows[j]] = "pending"
    BY <1>1 DEF OldestFirst
  <2>1. state[rows[i]] = "pending" /\ state[rows[j]] = "pending"
    BY <1>5 DEF Inv, OldestFirst
  <2>2. rows[j] \in disp[d].sel => rows[i] \in disp[d].sel
    BY <2>1 DEF Inv, Downward
  <2> QED
    BY <1>2, <1>5, <2>1, <2>2 DEF Updated
<1> QED
  BY <1>3, <1>4, <1>6, <1>7 DEF Inv

\* A step that changes nothing.
LEMMA StutterInv == Inv /\ UNCHANGED vars => Inv'
  BY DEF Inv, TypeOK, TableShape, AnswerShape, Downward, OldestFirst, Saved, vars

\* The invariant holds for any number of orders, dispatchers and failures.
THEOREM Invariance == Spec => []Inv
<1>1. Inv /\ [Next]_vars => Inv'
  BY CreateInv, ArriveInv, SelectInv, AcceptedInv, RejectedInv, RefusedInv, UncertainInv, UpdateInv, CrashInv, StutterInv
  DEF Next, Dispatch
<1> QED
  BY <1>1, InitInv, PTL DEF Spec

\* dispatch_once never overtakes an order: a row that is still pending has
\* only pending rows after it, however many dispatchers overlap.
THEOREM NotOvertaken == Spec => []OldestFirst
<1>1. Inv => OldestFirst
  BY DEF Inv
<1> QED
  BY <1>1, Invariance, PTL

-----------------------------------------------------------------------------
\* The debt of each order, state by state.
LEMMA DebtOf ==
    ASSUME state \in [Orders -> States]
    PROVE  \A o \in Orders :
             /\ state[o] = "none" <=> Debt[state[o]] = "none"
             /\ state[o] = "pending" <=> Debt[state[o]] = "owed"
             /\ state[o] = "acknowledged" <=> Debt[state[o]] = "settled"
             /\ state[o] = "rejected" <=> Debt[state[o]] = "parked"
<1>1. \A x \in States : /\ x = "none" <=> Debt[x] = "none"
                        /\ x = "pending" <=> Debt[x] = "owed"
                        /\ x = "acknowledged" <=> Debt[x] = "settled"
                        /\ x = "rejected" <=> Debt[x] = "parked"
  BY DEF Debt
<1> QED
  BY <1>1

\* Saving an order makes it owe its event.
LEMMA CreateOwes == Inv /\ CreateOrder => O!Next
<1> SUFFICES ASSUME Inv, CreateOrder PROVE O!Next
  OBVIOUS
<1>0. PICK o \in Orders : state[o] = "none" /\ state' = [state EXCEPT ![o] = "pending"]
  BY DEF CreateOrder
<1>1. state \in [Orders -> States] /\ topic' = topic
  BY DEF CreateOrder, Inv, TypeOK
<1>2. O!Decide({o}, "none", "owed")
  BY <1>0, <1>1 DEF O!Decide, Debt
<1> QED
  BY <1>2 DEF O!Next

\* The queue gains events of saved orders only.
LEMMA PublishesSaved ==
    ASSUME Inv, UNCHANGED state, topic \subseteq topic', topic' \subseteq Saved
    PROVE  O!Next
<1>1. \A o \in Saved : Debt[state[o]] # "none"
  BY DebtOf DEF Saved, Inv, TypeOK
<1>2. topic' \in SUBSET {o \in Orders : [x \in Orders |-> Debt[state[x]]][o] # "none"}
  BY <1>1 DEF Saved
<1>3. O!Publish
  BY <1>2 DEF O!Publish
<1> QED
  BY <1>3 DEF O!Next

\* The UPDATE settles published events, parks rejected ones, or leaves the
\* table as it is.
LEMMA UpdateDecides ==
    ASSUME Inv, NEW d \in Dispatchers, Update(d)
    PROVE  O!Next \/ UNCHANGED <<state, topic>>
<1>1. /\ disp[d].answer \in States \ {"none"}
      /\ state' \in [Orders -> States]
      /\ \A o \in Orders : state'[o] = IF o \in Updated(d) THEN disp[d].answer ELSE state[o]
  BY UpdateWrites
<1>2. topic' = topic /\ state \in [Orders -> States] /\ Updated(d) \subseteq Orders
      /\ \A o \in Updated(d) : state[o] = "pending"
  BY DEF Update, Updated, Inv, TypeOK
<1>3. CASE Updated(d) = {} \/ disp[d].answer = "pending"
  <2>1. state' = state
    BY <1>1, <1>2, <1>3
  <2> QED
    BY <1>2, <2>1
<1>4. CASE Updated(d) # {} /\ disp[d].answer = "acknowledged"
  <2>1. Updated(d) \in SUBSET topic
    BY <1>4 DEF Update, Updated, Inv, AnswerShape
  <2>2. O!Decide(Updated(d), "owed", "settled")
    BY <1>1, <1>2, <1>4 DEF O!Decide, Debt
  <2> QED
    BY <2>1, <2>2 DEF O!Next
<1>5. CASE Updated(d) # {} /\ disp[d].answer = "rejected"
  <2>1. O!Decide(Updated(d), "owed", "parked")
    BY <1>1, <1>2, <1>5 DEF O!Decide, Debt
  <2> QED
    BY <1>2, <2>1 DEF O!Next
<1> QED
  BY <1>1, <1>3, <1>4, <1>5

\* create_order and dispatch_once implement the obligation of a transactional
\* outbox: an order that was saved owes its event, the debt is settled only by
\* an event in the queue, and no decision is ever taken back.
THEOREM Refinement == Spec => ImplementsObligation
<1>1. Init => O!Init
  BY DEF Init, O!Init, Debt
<1>2. Inv /\ [Next]_vars => [O!Next]_<<[o \in Orders |-> Debt[state[o]]], topic>>
  <2> SUFFICES ASSUME Inv, [Next]_vars
               PROVE  O!Next \/ UNCHANGED <<state, topic>>
    OBVIOUS
  <2>1. CASE CreateOrder
    BY <2>1, CreateOwes
  <2>2. CASE Arrive
    <3>1. UNCHANGED state /\ topic \subseteq topic' /\ topic' \subseteq Saved
      BY <2>2 DEF Arrive, Inv, TableShape
    <3> QED
      BY <3>1, PublishesSaved
  <2>3. ASSUME NEW d \in Dispatchers, Accepted(d) PROVE O!Next
    <3>1. UNCHANGED state /\ topic \subseteq topic' /\ topic' \subseteq Saved
      BY <2>3 DEF Accepted, Inv, TableShape, AnswerShape
    <3> QED
      BY <3>1, PublishesSaved
  <2>4. ASSUME NEW d \in Dispatchers, Uncertain(d) PROVE O!Next
    <3>1. UNCHANGED state /\ topic \subseteq topic' /\ topic' \subseteq Saved
      BY <2>4 DEF Uncertain, Inv, TableShape, AnswerShape
    <3> QED
      BY <3>1, PublishesSaved
  <2>5. ASSUME NEW d \in Dispatchers, Select(d) \/ Rejected(d) \/ Refused(d) \/ Crash(d)
        PROVE  UNCHANGED <<state, topic>>
    BY <2>5 DEF Select, Rejected, Refused, Crash
  <2>6. CASE UNCHANGED vars
    BY <2>6 DEF vars
  <2> QED
    BY <2>1, <2>2, <2>3, <2>4, <2>5, <2>6, UpdateDecides DEF Next, Dispatch
<1> QED
  BY <1>1, <1>2, Invariance, PTL DEF Spec, ImplementsObligation, O!Spec
=============================================================================
