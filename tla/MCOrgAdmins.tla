---------------------------- MODULE MCOrgAdmins ----------------------------
(* Instances of OrgAdmins for TLC. *)
EXTENDS OrgAdmins, TLC

Symmetry == Permutations(User) \cup Permutations(Tx)

=============================================================================
