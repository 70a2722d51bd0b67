----------------------------- MODULE Obligation -----------------------------
(***************************************************************************)
(* What a transactional outbox promises: an order that was saved owes an   *)
(* event.  The debt is settled only by an event that was published, or     *)
(* parked for an operator, and neither decision is ever taken back.        *)
(***************************************************************************)
CONSTANT Orders

VARIABLES
    debt,           \* the state of each order's event
    published       \* the orders whose event the queue holds

Init == debt = [o \in Orders |-> "none"] /\ published = {}

Decide(os, from, to) ==
    /\ os # {} /\ \A o \in os : debt[o] = from
    /\ debt' = [o \in Orders |-> IF o \in os THEN to ELSE debt[o]]
    /\ UNCHANGED published

\* Only the events of saved orders are published, any number of times.
Publish ==
    /\ \E os \in SUBSET {o \in Orders : debt[o] # "none"} : published' = published \cup os
    /\ UNCHANGED debt

Next ==
    \/ \E o \in Orders : Decide({o}, "none", "owed")
    \/ Publish
    \/ \E os \in SUBSET published : Decide(os, "owed", "settled")
    \/ \E os \in SUBSET Orders : Decide(os, "owed", "parked")

Spec == Init /\ [][Next]_<<debt, published>>
=============================================================================
