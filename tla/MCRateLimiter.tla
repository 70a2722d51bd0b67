--------------------------- MODULE MCRateLimiter ---------------------------
(***************************************************************************)
(* Instances of RateLimiter for TLC.  The handlers are interchangeable.    *)
(***************************************************************************)
EXTENDS RateLimiter, TLC

Symmetry == Permutations(Handlers)
=============================================================================
