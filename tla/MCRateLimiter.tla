---------------------------- MODULE MCRateLimiter ----------------------------
(***************************************************************************)
(* Symmetry for the model-checking run of RateLimiter: nothing orders the *)
(* requests of a user; no liveness is checked.                             *)
(***************************************************************************)
EXTENDS RateLimiter, TLC

Interchangeable == Permutations(Requests)

===============================================================================
