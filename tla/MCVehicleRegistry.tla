------------------------- MODULE MCVehicleRegistry -------------------------
(* Instances of VehicleRegistry for TLC.                                   *)
EXTENDS VehicleRegistry, TLC

\* AA1, "A A1", "A  A1", "A-A1", A1
MCInputs == {<<"A", "A", "1">>, <<"A", " ", "A", "1">>,
             <<"A", " ", " ", "A", "1">>, <<"A", "-", "A", "1">>, <<"A", "1">>}

\* Three spellings of one plate.
MCSpellings == {<<"A", "A", "1">>, <<"A", " ", "A", "1">>, <<"A", "-", "A", "1">>}

Symmetry == Permutations(Workers) \cup Permutations(VehicleIds)
              \cup Permutations(Drivers)
=============================================================================
