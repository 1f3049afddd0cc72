---------------------------- MODULE MCClientPages ----------------------------
(* Instances of ClientPages for TLC. *)
EXTENDS ClientPages

CONSTANTS i1, i2, r1, r2, main, dev

AllInputs == "sections" :> 6 @@ "events" :> 4 @@ "audit" :> 4 @@ "planning" :> 4

TwoRepos == [i \in Item |-> {r1, r2}]
OneBranch == {<<i1, r1>>}
Defaults == r1 :> main @@ r2 :> dev
=============================================================================
