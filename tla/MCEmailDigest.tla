--------------------------- MODULE MCEmailDigest ---------------------------
(* Instances of EmailDigest for TLC: two users, the first with two rows. *)
EXTENDS EmailDigest

CONSTANTS n1, n2, n3

MCNote == {n1, n2, n3}
MCUser == {1, 2}
MCOwner == [n \in MCNote |-> IF n = n3 THEN 2 ELSE 1]

\* One user, for the runs with two runners.
MCNoteOne == {n1, n2}
MCUserOne == {1}
MCOwnerOne == [n \in MCNoteOne |-> 1]

=============================================================================
