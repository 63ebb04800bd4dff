------------------------- MODULE MCAvailabilitySet -------------------------
(* Instances of AvailabilitySet for TLC. *)
EXTENDS AvailabilitySet, TLC

CONSTANTS m1, m2, m3

ThreeMachines == {m1, m2, m3}
OneOrThree == {1, 3}
Symmetry == Permutations(ThreeMachines)
=============================================================================
