----------------------------- MODULE LatestLoad -----------------------------
(***************************************************************************)
(* useLatestLoad and useAgileProject of views/agile/useAgileProject.js: a  *)
(* load that runs again whenever its inputs (its key) change or agile data *)
(* changes, of which only the latest answer counts.                        *)
(*                                                                         *)
(* A load v is a record: gen counts the requests, key is what it is to     *)
(* show, data what has arrived, for the key it was asked with, and mount   *)
(* the number it began with.                                               *)
(***************************************************************************)
EXTENDS Naturals

CONSTANT NoData     \* nothing has arrived

\* A new one, numbered on from gen: the answers of the one before are not its own.
LoadOf(key, gen) == [gen |-> gen, mount |-> gen, key |-> key, for |-> key, data |-> NoData]

\* A request is made for the current key.
Asks(v) == [v EXCEPT !.gen = @ + 1]
Request(v) == [gen |-> v.gen, for |-> v.key, got |-> NoData]

\* Slip: the data of the inputs before is handed out too.
Mut_Handed(v) == v.data

\* Data is handed out only for the inputs it was asked with.
Handed(v) == IF v.for = v.key THEN v.data ELSE NoData

Latest(v, q) == q.gen = v.gen

\* An answer that is not the latest request's is dropped.
Arrived(v, q) == IF Latest(v, q) THEN [v EXCEPT !.for = q.for, !.data = q.got] ELSE v
=============================================================================
