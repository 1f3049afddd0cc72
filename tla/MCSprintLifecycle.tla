------------------------ MODULE MCSprintLifecycle ------------------------
(* SprintLifecycle on small instances: one board, every sprint on it.      *)
EXTENDS SprintLifecycle, TLC

CONSTANTS b1, i1, i2, t1, t2, NumSprints

MCSprint == 1 .. NumSprints
MCBoardOf == [s \in 1 .. NumSprints |-> b1]

NoExceptions == {[i \in {} |-> Backlog]}
BacklogExceptions == NoExceptions \cup {[i \in {x} |-> Backlog] : x \in Issue}

TxSymmetry == Permutations(Tx)
IssueSymmetry == Permutations(Issue)
Symmetry == TxSymmetry \cup IssueSymmetry

============================================================================
