------------------------- MODULE MCShortlistReview --------------------------
(* Small instances of ShortlistReview: three travelers, so that the quorum  *)
(* is two, and two selections, so that an edit can replace one and return   *)
(* to it.                                                                   *)
EXTENDS ShortlistReview, TLC

Symmetry == Permutations(Traveler \ Leaver) \cup Permutations(Leaver) \cup Permutations(Selection)
            \cup Permutations(Editor) \cup Permutations(Planner)
=============================================================================
