---------------------------- MODULE MCItemDialog ----------------------------
(* Instances of ItemDialog for TLC. *)
EXTENDS ItemDialog, TLC

CONSTANTS i1, i2, p1, p2

\* A bug and a number for an item still to be created.
OneBug == i1 :> [proj |-> p1, kind |-> "plain"]

\* Two bugs.
TwoBugs == [i \in {i1, i2} |-> [proj |-> p1, kind |-> "plain"]]

=============================================================================
