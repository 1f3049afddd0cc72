----------------------------- MODULE ClientParts -----------------------------
(***************************************************************************)
(* What the modules of the web client's parts share (ClientShell composes  *)
(* them).  The parts keep no state in common, so one behaviour exercises   *)
(* one of them, chosen at first: what would be the product of their states *)
(* is their sum.                                                           *)
(***************************************************************************)
EXTENDS Naturals, FiniteSets, Sequences, TLC

CONSTANTS
    None,
    Parts,        \* the parts exercised
    MaxInputs     \* bound: what the user, timers and other people do in each

ASSUME PartsAssumption == \A p \in Parts : MaxInputs[p] \in Nat

VARIABLES
    part,       \* the part exercised
    inputs      \* how much has been done

\* f with x at k.
Put(f, k, x) == [i \in DOMAIN f \cup {k} |-> IF i = k THEN x ELSE f[i]]

ByUser(A) == inputs < MaxInputs[part] /\ A /\ inputs' = inputs + 1
=============================================================================
