--------------------------- MODULE BoardLifecycle ---------------------------
(***************************************************************************)
(* What the sprint lifecycle promises for a board, without requests, locks *)
(* or issues: each sprint goes through its phases one step at a time, and  *)
(* a sprint starts only while no other one of its board is active, unless  *)
(* the project allows parallel sprints.                                    *)
(***************************************************************************)
CONSTANTS Sprint, BoardOf, AllowParallel

VARIABLE phase

Phases == {"none", "future", "active", "closed", "cancelled"}

Init == phase = [s \in Sprint |-> "none"]

Create(s) == phase[s] = "none" /\ phase' = [phase EXCEPT ![s] = "future"]

Start(s) ==
    /\ phase[s] = "future"
    /\ \/ AllowParallel
       \/ \A o \in Sprint \ {s} : BoardOf[o] = BoardOf[s] => phase[o] # "active"
    /\ phase' = [phase EXCEPT ![s] = "active"]

Complete(s) == phase[s] = "active" /\ phase' = [phase EXCEPT ![s] = "closed"]

(* Unfinished issues may go to a sprint created by the same step.          *)
CompleteInto(s, n) ==
    /\ phase[s] = "active"
    /\ phase[n] = "none"
    /\ BoardOf[n] = BoardOf[s]
    /\ phase' = [phase EXCEPT ![s] = "closed", ![n] = "future"]

Cancel(s) ==
    /\ phase[s] \in {"future", "active"}
    /\ phase' = [phase EXCEPT ![s] = "cancelled"]

Next ==
    \/ \E s \in Sprint : Create(s) \/ Start(s) \/ Complete(s) \/ Cancel(s)
    \/ \E s, n \in Sprint : CompleteInto(s, n)

Spec == Init /\ [][Next]_phase

============================================================================
