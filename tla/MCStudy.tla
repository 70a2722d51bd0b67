------------------------------- MODULE MCStudy ------------------------------
(***************************************************************************)
(* Module Study for TLC.  The versions of the source are interchangeable,  *)
(* and so are the fingerprints of the runtime.                             *)
(***************************************************************************)
EXTENDS Study, TLC

Symmetry == Permutations(Sources) \union Permutations(Runtimes)

=============================================================================
