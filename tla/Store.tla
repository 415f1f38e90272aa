------------------------------- MODULE Store -------------------------------
(* The rows the modules on published and displayed results have in common. *)
EXTENDS Naturals

CONSTANTS
  Models,  \* ids of models
  Runs,    \* ids of runs
  ModelOf  \* runs.model_id

ASSUME StoreAssumption == ModelOf \in [Runs -> Models]
=============================================================================
