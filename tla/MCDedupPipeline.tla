-------------------------- MODULE MCDedupPipeline --------------------------
(***************************************************************************)
(* DedupPipeline for TLC: the writer threads run the same code and nothing  *)
(* distinguishes them but their names.                                      *)
(***************************************************************************)
EXTENDS DedupPipeline, TLC

WorkerSymmetry == Permutations(Workers)
=============================================================================
