---------------------------- MODULE MCJobPipeline ----------------------------
(* Instances of JobPipeline for TLC. *)
EXTENDS JobPipeline, TLC

(* The run with several jobs has no streams, whose initial state names one. *)
Symmetry == Permutations(Jobs)
=============================================================================
