------------------------------ MODULE ClientPush ------------------------------
(***************************************************************************)
(* Pushed notifications: lib/push.js, which registers the browser's token  *)
(* with the server when the page starts, tries again when that fails, and  *)
(* withdraws it when the user logs out, ProfileMenu.jsx.  Tokens are       *)
(* numbered as the push service makes them; the newest one alone works.    *)
(***************************************************************************)
EXTENDS ClientParts

CONSTANTS
    Person,       \* who uses the browser, one after the other
    Attempts      \* bound: attempts at registering (the code makes five)

ASSUME PushAssumption == Attempts \in Nat \ {0}

VARIABLES
    signedIn,     \* who is, or None
    tokens,       \* how many tokens were made
    works,        \* the token that works in this browser, or 0
    kept,         \* the token the browser remembers, or 0
    targets,      \* the server's: whom each token is registered for
    ready,        \* the push library is started in this page
    run,          \* the attempts at registering under way
    leaving,      \* how far logging out has come
    missed        \* history: a registration ran into a logout, or the withdrawal
                  \* of one did not reach the server

push == <<signedIn, tokens, works, kept, targets, ready, run, leaving, missed>>

Idle == [at |-> "idle", attempt |-> 0, token |-> 0]
Staying == [at |-> "no", token |-> 0]

PushTypeOK ==
    /\ signedIn \in Person \cup {None}
    /\ works \in {0, tokens} /\ kept \in 0..tokens
    /\ targets \in [1..tokens -> Person \cup {None}]
    /\ ready \in BOOLEAN /\ missed \in BOOLEAN
    /\ run.at \in {"idle", "library", "token", "keep", "send", "sent", "wait"}
    /\ run.attempt \in 0..Attempts /\ run.token \in 0..tokens
    /\ leaving.at \in {"no", "delete", "withdraw", "forget", "leave"}

PushInit ==
    /\ signedIn = None /\ tokens = 0 /\ works = 0 /\ kept = 0 /\ targets = << >>
    /\ ready = FALSE /\ run = Idle /\ leaving = Staying /\ missed = FALSE
-----------------------------------------------------------------------------
(* The attempts.  There is one row of them at a time. *)

Started == [at |-> "library", attempt |-> 1, token |-> 0]

\* The page starts, for whoever is signed in; what an earlier page did stops, and
\* what it had sent may still have reached the server.
Boots(p) ==
    /\ leaving = Staying
    /\ IF signedIn = None THEN signedIn' = p ELSE p = signedIn /\ UNCHANGED signedIn
    /\ ready' = FALSE
    /\ run' \in {Started, Idle}        \* not where push is off or not allowed
    /\ targets' \in {targets} \cup {[targets EXCEPT ![t] = signedIn] :
                                        t \in {run.token : x \in {run.at} \cap {"send"}}}
    /\ UNCHANGED <<tokens, works, kept, leaving, missed>>

\* The connection came back: only without a token is it tried again.
Online ==
    /\ signedIn # None /\ run = Idle /\ kept = 0
    /\ run' = Started
    /\ UNCHANGED <<signedIn, tokens, works, kept, targets, ready, leaving, missed>>

\* Without its library the page does not try again.
LibraryLoads ==
    /\ run.at = "library"
    /\ \/ ready' = TRUE /\ run' = [run EXCEPT !.at = "token"]
       \/ ready' = ready /\ run' = Idle
    /\ UNCHANGED <<signedIn, tokens, works, kept, targets, leaving, missed>>

\* The push service answers with the token there is, or makes one.
TokenComes ==
    /\ run.at = "token"
    /\ IF works # 0 THEN UNCHANGED <<tokens, works, targets>>
       ELSE /\ tokens' = tokens + 1 /\ works' = tokens'
            /\ targets' = Append(targets, None)
    /\ run' = [run EXCEPT !.at = "keep", !.token = works']
    /\ UNCHANGED <<signedIn, kept, ready, leaving, missed>>

\* Slip: the token is remembered once it is registered.
Mut_Keeps(step) == IF step = "sent" THEN kept' = run.token ELSE UNCHANGED kept

\* The token is remembered before it is registered.
Keeps(step) == IF step = "keep" THEN kept' = run.token ELSE UNCHANGED kept

KeepToken ==
    /\ run.at = "keep"
    /\ Keeps("keep")
    /\ run' = [run EXCEPT !.at = "send"]
    /\ UNCHANGED <<signedIn, tokens, works, targets, ready, leaving, missed>>

\* Registering a token moves it from whomever it was registered for.
RegisterServed ==
    /\ run.at = "send"
    /\ targets' = [targets EXCEPT ![run.token] = signedIn]
    /\ run' = [run EXCEPT !.at = "sent"]
    /\ missed' = (missed \/ leaving # Staying)
    /\ UNCHANGED <<signedIn, tokens, works, kept, ready, leaving>>

Registered ==
    /\ run.at = "sent"
    /\ Keeps("sent")
    /\ run' = Idle
    /\ UNCHANGED <<signedIn, tokens, works, targets, ready, leaving, missed>>

\* Any step can fail, and the answer to the last one be lost.
AttemptFails ==
    /\ run.at \in {"library", "token", "send", "sent"}
    /\ run' = IF run.attempt < Attempts THEN [run EXCEPT !.at = "wait"] ELSE Idle
    /\ UNCHANGED <<signedIn, tokens, works, kept, targets, ready, leaving, missed>>
TriesAgain ==
    /\ run.at = "wait"
    /\ run' = [Started EXCEPT !.attempt = run.attempt + 1]
    /\ UNCHANGED <<signedIn, tokens, works, kept, targets, ready, leaving, missed>>

\* The push service replaces a token when it likes.
Rotates ==
    /\ works # 0
    /\ tokens' = tokens + 1 /\ works' = tokens'
    /\ targets' = Append(targets, None)
    /\ UNCHANGED <<signedIn, kept, ready, run, leaving, missed>>
-----------------------------------------------------------------------------
(* Logging out. *)

LogsOut ==
    /\ signedIn # None /\ leaving = Staying
    /\ leaving' = [at |-> "delete", token |-> kept]
    /\ missed' = (missed \/ run # Idle)
    /\ UNCHANGED <<signedIn, tokens, works, kept, targets, ready, run>>

\* The token is given up where the library is started, and if that fails or not
\* the server is told.
GivesUpToken ==
    /\ leaving.at = "delete"
    /\ works' \in IF ready THEN {0, works} ELSE {works}
    /\ leaving' = [leaving EXCEPT !.at = IF leaving.token # 0 THEN "withdraw" ELSE "forget"]
    /\ UNCHANGED <<signedIn, tokens, kept, targets, ready, run, missed>>

\* A token is withdrawn by whom it is registered for.
WithdrawFor == signedIn

Withdraws ==
    /\ leaving.at = "withdraw"
    /\ leaving' = [leaving EXCEPT !.at = "forget"]
    /\ targets' = IF targets[leaving.token] = WithdrawFor
                  THEN [targets EXCEPT ![leaving.token] = None] ELSE targets
    /\ UNCHANGED <<signedIn, tokens, works, kept, ready, run, missed>>
WithdrawFails ==
    /\ leaving.at = "withdraw"
    /\ leaving' = [leaving EXCEPT !.at = "forget"]
    /\ missed' = TRUE
    /\ UNCHANGED <<signedIn, tokens, works, kept, targets, ready, run>>

Forgets ==
    /\ leaving.at = "forget"
    /\ kept' = 0 /\ leaving' = [leaving EXCEPT !.at = "leave"]
    /\ UNCHANGED <<signedIn, tokens, works, targets, ready, run, missed>>

\* The session is ended, or not; the page is left in any case.
Leaves ==
    /\ leaving.at = "leave"
    /\ signedIn' = None /\ leaving' = Staying /\ ready' = FALSE /\ run' = Idle
    /\ UNCHANGED <<tokens, works, kept, targets, missed>>
-----------------------------------------------------------------------------
PushUser == (\E p \in Person : Boots(p)) \/ Online \/ LogsOut \/ Rotates

PushAnswers ==
    \/ LibraryLoads \/ TokenComes \/ KeepToken \/ RegisterServed \/ Registered
    \/ AttemptFails \/ TriesAgain
    \/ GivesUpToken \/ Withdraws \/ WithdrawFails \/ Forgets \/ Leaves
-----------------------------------------------------------------------------
(* Properties. *)

\* Nobody's notifications are shown in a browser nobody is signed in at: a logout
\* withdraws what is registered for the token that works, though an answer to the
\* registration was lost or the page was opened again meanwhile, unless an attempt
\* was under way or the server could not be told.
SharedBrowserSafe ==
    signedIn = None /\ works # 0 /\ ~missed => targets[works] = None
=============================================================================
