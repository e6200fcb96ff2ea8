--------------------------- MODULE MCLiveTracking ---------------------------
(* Instances of LiveTracking for TLC: one rider, one driver.               *)
EXTENDS LiveTracking, TLC

CONSTANTS u1, d1

MCDriverOf == [v \in Vehicles |-> d1]
MCOwnerOf == [c \in Contacts |-> u1]

Symmetry == Permutations(Workers) \cup Permutations(ShareIds)
              \cup Permutations(Positions) \cup Permutations(Clients)
=============================================================================
