--------------------------- MODULE MCOrchestrator ---------------------------
(* Orchestrator for TLC: the ids are interchangeable.                      *)
EXTENDS Orchestrator, TLC

IdSymmetry == Permutations(Ids)
=============================================================================
