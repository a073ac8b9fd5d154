----------------------------- MODULE MCRateLimiter -----------------------------
(* Constants of the TLC runs of RateLimiter. *)
EXTENDS RateLimiter, TLC

Symmetry == Permutations(Request)
=============================================================================
