------------------------------- MODULE Outbox -------------------------------
(***************************************************************************)
(* The outbox example: create_order and dispatch_once of                   *)
(* examples/outbox/app.py, with the retries of the HTTP client it uses     *)
(* (examples/checkout/ingest_client.py).                                   *)
(*                                                                         *)
(* A dispatcher reads pending rows, sends them without a lock, and writes  *)
(* the answer in a second transaction; it may die in between, and another  *)
(* one may run at the same time.  The API is external: a 202 means that    *)
(* the queue holds the whole batch; a lost answer, a server error or a bad *)
(* acknowledgement that it may hold any part of it, now or later; any      *)
(* other answer that this attempt published nothing.                       *)
(***************************************************************************)
EXTENDS Naturals, Sequences, FiniteSets

CONSTANTS
    Orders, Dispatchers,
    BatchSize,      \* rows of a dispatch
    MaxAttempts,    \* the client's HTTP attempts
    MaxFaults       \* bound: crashes, uncertain answers and refused keys

ASSUME OutboxAssumption ==
    BatchSize \in Nat \ {0} /\ MaxAttempts \in Nat \ {0} /\ MaxFaults \in Nat

VARIABLES
    rows,       \* the outbox in the order of its rowids
    state,      \* the state column; "none" before the order exists
    disp,       \* each dispatcher: where it is, its rows, its attempts, the answer
    topic,      \* external: the events in the queue
    delayed,    \* external: events of lost requests that may still arrive
    faults

vars == <<rows, state, disp, topic, delayed, faults>>

Resting == [at |-> "idle", sel |-> {}, tries |-> 0, answer |-> "none"]
Fault == faults < MaxFaults /\ faults' = faults + 1

-----------------------------------------------------------------------------
\* One transaction saves the order and its pending event.  An order that
\* exists keeps both, whatever is asked for.
CreateOrder ==
    /\ \E o \in Orders :
        /\ state[o] = "none"
        /\ state' = [state EXCEPT ![o] = "pending"] /\ rows' = Append(rows, o)
    /\ UNCHANGED <<disp, topic, delayed, faults>>

Pending == {i \in DOMAIN rows : state[rows[i]] = "pending"}
Before(i) == {j \in Pending : j <= i}

\* Mutant: the query has no ORDER BY.
SelectionUnordered == {sel \in SUBSET {rows[i] : i \in Pending} : Cardinality(sel) <= BatchSize}

\* Mutant: the query skips the first row.
SelectionOffset == {{rows[i] : i \in {i \in Pending : Cardinality(Before(i)) \in 2 .. BatchSize + 1}}}

\* SELECT ... WHERE state='pending' ORDER BY rowid LIMIT batch_size.
Selection == {{rows[i] : i \in {i \in Pending : Cardinality(Before(i)) <= BatchSize}}}

Select(d) ==
    /\ disp[d] = Resting
    /\ \E sel \in Selection \ {{}} :
        disp' = [disp EXCEPT ![d] = [at |-> "sending", sel |-> sel, tries |-> 1, answer |-> "none"]]
    /\ UNCHANGED <<rows, state, topic, delayed, faults>>

Answered(d, answer) == disp' = [disp EXCEPT ![d].at = "answered", ![d].answer = answer]

\* 202 with exactly the identifiers of the batch.
Accepted(d) ==
    /\ disp[d].at = "sending"
    /\ topic' = topic \cup disp[d].sel
    /\ Answered(d, "acknowledged")
    /\ UNCHANGED <<rows, state, delayed, faults>>

\* 400 or 413.
Rejected(d) ==
    /\ disp[d].at = "sending"
    /\ Answered(d, "rejected")
    /\ UNCHANGED <<rows, state, topic, delayed, faults>>

\* Authentication or certificate: not retried, and the rows stay pending.
Refused(d) ==
    /\ disp[d].at = "sending" /\ Fault
    /\ Answered(d, "pending")
    /\ UNCHANGED <<rows, state, topic, delayed>>

MayRetry(d) == disp[d].tries < MaxAttempts

\* 429, a server error, a lost connection or a bad acknowledgement: retried,
\* and after the last attempt the rows stay pending.
Uncertain(d) ==
    /\ disp[d].at = "sending" /\ Fault
    /\ \E now \in SUBSET disp[d].sel : \E later \in SUBSET (disp[d].sel \ now) :
        topic' = topic \cup now /\ delayed' = delayed \cup later
    /\ IF MayRetry(d)
       THEN disp' = [disp EXCEPT ![d].tries = @ + 1]
       ELSE Answered(d, "pending")
    /\ UNCHANGED <<rows, state>>

\* Mutant: the UPDATE does not ask for state='pending'.
UpdatedAny(d) == disp[d].sel

\* The rows that UPDATE ... WHERE event_id=? AND state='pending' touches.
Updated(d) == {o \in disp[d].sel : state[o] = "pending"}

Update(d) ==
    /\ disp[d].at = "answered"
    /\ state' = [o \in Orders |-> IF o \in Updated(d) THEN disp[d].answer ELSE state[o]]
    /\ disp' = [disp EXCEPT ![d] = Resting]
    /\ UNCHANGED <<rows, topic, delayed, faults>>

\* The process dies; the next one starts from the table.
Crash(d) ==
    /\ disp[d].at # "idle" /\ Fault
    /\ disp' = [disp EXCEPT ![d] = Resting]
    /\ UNCHANGED <<rows, state, topic, delayed>>

\* A request whose answer was lost still takes effect.
Arrive ==
    /\ \E o \in delayed : topic' = topic \cup {o} /\ delayed' = delayed \ {o}
    /\ UNCHANGED <<rows, state, disp, faults>>

-----------------------------------------------------------------------------
Init ==
    /\ rows = <<>> /\ state = [o \in Orders |-> "none"]
    /\ disp = [d \in Dispatchers |-> Resting]
    /\ topic = {} /\ delayed = {} /\ faults = 0

Dispatch(d) == Select(d) \/ Accepted(d) \/ Rejected(d) \/ Refused(d) \/ Uncertain(d) \/ Update(d)

Next == CreateOrder \/ Arrive \/ \E d \in Dispatchers : Dispatch(d) \/ Crash(d)

\* A timer runs the command again and again, and every attempt has a timeout.
Spec == Init /\ [][Next]_vars /\ \A d \in Dispatchers : WF_vars(Dispatch(d))

-----------------------------------------------------------------------------
States == {"none", "pending", "acknowledged", "rejected"}

TypeOK ==
    /\ rows \in Seq(Orders) /\ state \in [Orders -> States]
    /\ disp \in [Dispatchers -> [at : {"idle", "sending", "answered"}, sel : SUBSET Orders,
                                 tries : 0 .. MaxAttempts, answer : States]]
    /\ topic \subseteq Orders /\ delayed \subseteq Orders /\ faults \in 0 .. MaxFaults

(***************************************************************************)
(* The refinement: an order that exists owes its event; it is settled only *)
(* by an event that is in the queue ("acknowledged: HTTP 202 named exactly *)
(* the selected IDs", examples/outbox/README.md), and an acknowledged or   *)
(* rejected row never changes again, whatever a second dispatcher or a     *)
(* restarted one was told about the same rows.                             *)
(***************************************************************************)
Debt == [none |-> "none", pending |-> "owed", acknowledged |-> "settled", rejected |-> "parked"]

O == INSTANCE Obligation WITH
        Orders <- Orders,
        debt <- [o \in Orders |-> Debt[state[o]]],
        published <- topic

\* The dispatchers implement the obligation.
ImplementsObligation == O!Spec

(***************************************************************************)
(* No order is overtaken: the rows that have been decided are always a     *)
(* prefix of the table, even with stale selections of several dispatchers, *)
(* because each selection held every older row that was pending.           *)
(***************************************************************************)
OldestFirst ==
    \A i, j \in DOMAIN rows : i < j /\ state[rows[i]] = "pending" => state[rows[j]] = "pending"

(***************************************************************************)
(* Every order's event is acknowledged or parked in the end, once crashes, *)
(* uncertain answers and refused keys stop.                                *)
(***************************************************************************)
EveryOrderDecided ==
    \A o \in Orders : state[o] = "pending" ~> state[o] \in {"acknowledged", "rejected"}

-----------------------------------------------------------------------------
(***************************************************************************)
(* The inductive invariant.  An order has one row; what is selected,       *)
(* published or under way belongs to a saved order; an answer that says    *)
(* acknowledged is backed by the queue; and a selection holds every        *)
(* pending row older than one of its own, because rows are only appended   *)
(* and never become pending again.                                         *)
(***************************************************************************)
Saved == {o \in Orders : state[o] # "none"}

TableShape ==
    /\ \A i \in DOMAIN rows : rows[i] \in Saved
    /\ \A i, j \in DOMAIN rows : rows[i] = rows[j] => i = j
    /\ topic \cup delayed \subseteq Saved

AnswerShape ==
    \A d \in Dispatchers :
        /\ disp[d].sel \subseteq Saved
        /\ disp[d].at = "answered" => disp[d].answer # "none"
        /\ disp[d].at = "answered" /\ disp[d].answer = "acknowledged" => disp[d].sel \subseteq topic

Downward ==
    \A d \in Dispatchers, i, j \in DOMAIN rows :
        i < j /\ rows[j] \in disp[d].sel /\ state[rows[i]] = "pending" => rows[i] \in disp[d].sel

\* The conjunction that every step of an order, a dispatcher and the API preserves.
Inv == TypeOK /\ TableShape /\ AnswerShape /\ Downward /\ OldestFirst
=============================================================================
