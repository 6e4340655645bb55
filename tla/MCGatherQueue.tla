---------------------------- MODULE MCGatherQueue ---------------------------
(* Small instances of GatherQueue.  Workers that stall or not alike are     *)
(* interchangeable in the safety runs.                                      *)
EXTENDS GatherQueue, TLC

Symmetry == Permutations(Worker)
=============================================================================
