-------------------------- MODULE MCStrategyRegistry --------------------------
(***************************************************************************)
(* Symmetry for the model-checking runs of StrategyRegistry: the ids are   *)
(* random and nothing in the code orders them; no liveness is checked.     *)
(***************************************************************************)
EXTENDS StrategyRegistry, TLC

Interchangeable == Permutations(Ids)

===============================================================================
