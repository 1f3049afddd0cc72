-------------------------- MODULE MCAgileWorkspace --------------------------
(* Instances of AgileWorkspace for TLC. *)
EXTENDS AgileWorkspace

CONSTANTS ia, ib, ic, s1, s2, todo, doing, done, left, right

Pages == <<s1, s2, Backlog>>
Lists == s1 :> <<ia, ib>> @@ s2 :> <<>> @@ Backlog :> <<ic>>
AllTodo == [i \in Issue |-> IF i = ib THEN doing ELSE todo]
OneActive == s1 :> "active" @@ s2 :> "future"
OneOrTwo == {OneActive, [s \in Sprint |-> "active"]}
TwoColumns == left :> <<todo, doing>> @@ right :> <<done>>
Limits == left :> 9 @@ right :> 1
Mixed == {<<0, 3, 0>>, <<0, 2, 1>>, <<1, 1, 1>>, <<2, 0, 1>>, <<1, 0, 3>>}
OneHidden == {{}, {ia}}

=============================================================================
