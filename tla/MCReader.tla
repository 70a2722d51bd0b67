------------------------------ MODULE MCReader ------------------------------
(* Values of Reader's constants for TLC. *)
EXTENDS Reader, TLC

CONSTANTS m1, m2, p1, k1, b1, b2

\* One partition takes every key.
AllInP1 == [k \in Keys |-> p1]

MemberSymmetry == Permutations(Members)
=============================================================================
