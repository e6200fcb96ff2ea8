------------------------------ MODULE MCRides ------------------------------
(* Instances of Rides for TLC: u1 owns contacts c1 and c2, u2 owns c3; each  *)
(* driver has one vehicle.                                                 *)
EXTENDS Rides, TLC

CONSTANTS u1, u2, d1, v1, v2, c1, c2, c3

MCDriverOf == [v \in Vehicles |-> d1]
MCOwnerOf == [c \in Contacts |-> IF c = c3 THEN u2 ELSE u1]

Symmetry == Permutations(Workers) \cup Permutations(RideIds)
              \cup Permutations(ShareIds) \cup Permutations(Positions)
=============================================================================
