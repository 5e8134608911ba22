---------------------------- MODULE MCAimdWorkers ----------------------------
(* AimdWorkers on small instances.                                         *)
EXTENDS AimdWorkers, TLC

Symmetry == Permutations(Requests) \cup Permutations(Devices)
=============================================================================
