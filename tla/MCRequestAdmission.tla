------------------------- MODULE MCRequestAdmission -------------------------
(* Instances of RequestAdmission for TLC. *)
EXTENDS RequestAdmission, TLC

Symmetry == Permutations(Request) \cup Permutations(Outside)

=============================================================================
