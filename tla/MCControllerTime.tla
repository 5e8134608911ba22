--------------------------- MODULE MCControllerTime ---------------------------
(* ControllerTime on small instances.                                      *)
EXTENDS ControllerTime, TLC

Symmetry == Permutations(Requests)
=============================================================================
