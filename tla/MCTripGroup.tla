------------------------------ MODULE MCTripGroup ------------------------------
(***************************************************************************)
(* A leader, one traveler who joins, and one invite.                       *)
(***************************************************************************)
EXTENDS TripGroup

MCMaxUses == [i \in Invite |-> 1]
===============================================================================
