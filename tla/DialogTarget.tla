---------------------------- MODULE DialogTarget ----------------------------
(***************************************************************************)
(* What the sections of the work item dialog share: the item it shows.     *)
(* The dialog turns to another item, opens or closes while requests of its *)
(* sections are under way.                                                 *)
(***************************************************************************)
EXTENDS ClientParts

CONSTANT Item      \* work items

ASSUME TargetAssumption == None \notin Item

VARIABLE shown     \* the item the dialog shows, None while it is closed

\* The dialog turns to i, or closes.
Turn(i) ==
    /\ i # shown
    /\ shown' = i
=============================================================================
