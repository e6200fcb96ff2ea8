------------------------------- MODULE MCSos -------------------------------
(* Instances of Sos for TLC: u1 owns every contact but c3, which is u2's.   *)
EXTENDS Sos, TLC

CONSTANTS u1, u2, c1, c2, c3

MCOwnerOf == [c \in Contacts |-> IF c = c3 THEN u2 ELSE u1]

Symmetry == Permutations(Workers) \cup Permutations(SosIds)
              \cup Permutations(Pins)
=============================================================================
