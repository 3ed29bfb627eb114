---------------------------- MODULE MCRateLimiter ----------------------------
(* Symmetry for model checking RateLimiter. *)
EXTENDS RateLimiter, TLC

Symmetric == Permutations(Procs) \cup Permutations(Keys)
=============================================================================
