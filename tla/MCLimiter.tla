----------------------------- MODULE MCLimiter -----------------------------
(* Two interchangeable concurrent requests, of one pod or of two: the limits *)
(* are such that the tokens of two completions overshoot.                   *)
EXTENDS Limiter, TLC

Symmetry == Permutations(Requests)
============================================================================
