-------------------------- MODULE MCReleasePipeline --------------------------
(* ReleasePipeline on a small instance. The jobs are interchangeable.      *)
EXTENDS ReleasePipeline, TLC

CONSTANTS j1, j2

JobSymmetry == Permutations(Jobs)
=============================================================================
