---------------------------- MODULE MCReplanGate ----------------------------
(* Small instances of ReplanGate.  The requests of one kind are            *)
(* interchangeable in the safety runs.                                      *)
EXTENDS ReplanGate, TLC

Symmetry == Permutations(Planner) \cup Permutations(Rescue) \cup Permutations(Edit)
=============================================================================
