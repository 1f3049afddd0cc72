----------------------------- MODULE ClientManaged -----------------------------
(***************************************************************************)
(* The lists that are managed in place: members and custom fields of a     *)
(* project, invitations, webhooks, sessions, saved views, and the          *)
(* releases, components and labels of an Agile project.                    *)
(*                                                                         *)
(* They work alike: an operation is asked for at a row, confirmed if it    *)
(* destroys something, sent, and the list loaded again when it succeeded.  *)
(* Nothing numbers the loads.  What differs is which operations there are, *)
(* what state of a row they are offered at and leave it in.                *)
(***************************************************************************)
EXTENDS ClientParts

CONSTANT Entry        \* the rows there can be: 1, 2, ...

\* None is no secret.
ASSUME ManagedAssumption == Entry \subseteq Nat /\ None \notin [row : Entry, secret : Nat]

VARIABLES
    kind,       \* which list it is
    entries,    \* the server's rows, by state
    secrets,    \* how often each row's secret was made
    roster,     \* the rows on the page; None while they are not shown
    asked,      \* what the confirmation on screen is about, or None
    ops,        \* operations under way
    fetches,    \* loads under way
    notice,     \* the secret on the page: of which row, the how manieth
    ticking,    \* the list's poll is under way
    unsure,     \* history: others changed something since the latest load
                \* began, it was not alone, or an answer was lost
    foreign     \* history: rows of which another secret may have been made

managed == <<kind, entries, secrets, roster, asked, ops, fetches, notice, ticking, unsure, foreign>>

\* An operation: the states it is offered at, the state it leaves, those the
\* server accepts it at, and whether it is confirmed, makes a secret and loads.
Op(name, from, to, accepts, confirmed) ==
    [name |-> name, from |-> from, to |-> to, accepts |-> accepts, confirmed |-> confirmed,
     secret |-> FALSE, loads |-> TRUE]
Create(name, to) == Op(name, {"none"}, to, {"none"}, FALSE)

Members == {Create("add", "member"), Create("add", "lead"),
            Op("role", {"member"}, "lead", {"member", "lead"}, FALSE),
            Op("role", {"lead"}, "member", {"member", "lead"}, FALSE),
            Op("remove", {"member", "lead"}, "none", {"member", "lead"}, TRUE)}

Fields == {Create("add", "field"), Op("remove", {"field"}, "none", {"field"}, TRUE)}

Invitations == {Create("send", "pending"),
                Op("revoke", {"pending"}, "revoked", {"pending", "expired", "revoked"}, TRUE)}

Webhooks == {[Create("create", "active") EXCEPT !.secret = TRUE],
             Op("pause", {"active"}, "paused", {"active", "paused"}, FALSE),
             Op("resume", {"paused"}, "active", {"active", "paused"}, FALSE),
             Op("test", {"active", "paused"}, "same", {"active", "paused"}, FALSE),
             [Op("rotate", {"active", "paused"}, "same", {"active", "paused"}, TRUE)
                 EXCEPT !.secret = TRUE, !.loads = FALSE],
             Op("delete", {"active", "paused"}, "none", {"active", "paused"}, TRUE)}

\* Not the session the page itself runs in.
Sessions == {Op("revoke", {"session"}, "none", {"session"}, TRUE)}

Releases == {Create("create", "unreleased"),
             Op("release", {"unreleased"}, "released", {"unreleased"}, TRUE),
             Op("archive", {"unreleased"}, "archived", {"unreleased", "released", "archived"}, TRUE)}

Components == {Create("create", "component"),
               Op("archive", {"component"}, "archived", {"component", "archived"}, TRUE)}

Labels == {Create("create", "label"), Op("delete", {"label"}, "none", {"label"}, TRUE)}

Views == {Create("save", "mine"), Op("remove", {"mine"}, "none", {"mine"}, TRUE)}

Operations == [members |-> Members, fields |-> Fields, invitations |-> Invitations,
               webhooks |-> Webhooks, sessions |-> Sessions, releases |-> Releases,
               components |-> Components, labels |-> Labels, views |-> Views]

\* The states a row can be in, and those others can put it in.
States(k) ==
    (UNION {op.from \cup op.accepts : op \in Operations[k]})
    \cup (IF k = "invitations" THEN {"accepted"} ELSE IF k = "sessions" THEN {"none", "own"}
          ELSE IF k = "views" THEN {"shared"} ELSE {})

ManagedTypeOK ==
    /\ kind \in DOMAIN Operations
    /\ entries \in [Entry -> States(kind)] /\ secrets \in [Entry -> Nat]
    /\ roster # None => roster \in [Entry -> States(kind)]
    /\ asked # None => asked.op.confirmed
    /\ \A o \in ops : o.op \in Operations[kind] /\ o.row \in Entry
    /\ notice # None => notice.row \in Entry /\ notice.secret \in Nat
    /\ ticking \in BOOLEAN /\ unsure \in BOOLEAN /\ foreign \subseteq Entry

Fetch(by, secret) == [by |-> by, got |-> None, then |-> secret]

\* The list is opened with whatever there is.
ManagedInit ==
    /\ kind \in IF part = "managed" THEN DOMAIN Operations ELSE {"views"}
    /\ entries \in {[e \in Entry |-> IF e = 1 THEN s ELSE "none"] :
                        s \in IF part = "managed" THEN States(kind) ELSE {"none"}}
    /\ secrets = [e \in Entry |-> 0]
    /\ roster = None /\ asked = None /\ ops = {} /\ notice = None
    /\ fetches = {Fetch("page", None)} /\ ticking = FALSE /\ unsure = FALSE /\ foreign = {}

\* Slip: a load is taken for the latest whatever else is under way.
Mut_Fetches(new) == fetches' = fetches /\ unsure' = FALSE

\* A load begins.
Fetches(new) ==
    /\ fetches' = fetches \cup {new}
    /\ unsure' = (fetches # {})

\* The tabs of the Agile page show no rows while they are loaded.
Blanked == IF kind \in {"releases", "components", "labels"} THEN None ELSE roster
-----------------------------------------------------------------------------
(* The server, and others. *)

OpServed(o) ==
    /\ o.answer = "none" /\ entries[o.row] \in o.op.accepts
    \* a release is compared with what was listed
    /\ o.op.name = "release" => entries[o.row] = o.seen
    /\ entries' = IF o.op.to = "same" THEN entries ELSE [entries EXCEPT ![o.row] = o.op.to]
    /\ secrets' = IF o.op.secret THEN [secrets EXCEPT ![o.row] = @ + 1] ELSE secrets
    /\ \E how \in {"ok", "lost"} :
         ops' = (ops \ {o}) \cup {[o EXCEPT !.answer = how, !.secret = secrets'[o.row]]}
    /\ UNCHANGED <<kind, roster, asked, fetches, notice, ticking, unsure, foreign>>

OpRefused(o) ==
    /\ o.answer = "none"
    /\ ops' = (ops \ {o}) \cup {[o EXCEPT !.answer = "refused"]}
    /\ UNCHANGED <<kind, entries, secrets, roster, asked, fetches, notice, ticking, unsure, foreign>>

FetchServed(f) ==
    /\ f.got = None
    /\ fetches' = (fetches \ {f}) \cup {[f EXCEPT !.got = entries]}
    /\ UNCHANGED <<kind, entries, secrets, roster, asked, ops, notice, ticking, unsure, foreign>>

ByOthers(e, s) ==
    /\ s \in States(kind) \ {"own"} /\ entries[e] \notin {s, "own"}
    /\ entries' = [entries EXCEPT ![e] = s]
    /\ unsure' = TRUE
    /\ foreign' = foreign \cup {e}
    /\ UNCHANGED <<kind, secrets, roster, asked, ops, fetches, notice, ticking>>
-----------------------------------------------------------------------------
(* The page. *)

SendsOp(op, e) == ops' = ops \cup {[op |-> op, row |-> e, seen |-> roster[e], answer |-> "none", secret |-> 0]}

\* Pressed at a row, or in the form that makes one.
Press(op, e) ==
    /\ roster # None /\ roster[e] \in op.from
    /\ IF op.confirmed THEN asked' = [op |-> op, row |-> e, seen |-> roster[e]] /\ UNCHANGED ops
       ELSE SendsOp(op, e) /\ UNCHANGED asked
    /\ UNCHANGED <<kind, entries, secrets, roster, fetches, notice, ticking, unsure, foreign>>

\* What is confirmed is the row as it was when it was pressed.
Answer(yes) ==
    /\ asked # None
    /\ asked' = None
    /\ ops' = IF ~yes THEN ops
              ELSE ops \cup {[op |-> asked.op, row |-> asked.row, seen |-> asked.seen,
                              answer |-> "none", secret |-> 0]}
    /\ UNCHANGED <<kind, entries, secrets, roster, fetches, notice, ticking, unsure, foreign>>

Secret(o) == [row |-> o.row, secret |-> o.secret]

\* Slip: a secret that is on the page is not replaced.
Mut_ShowSecret(s) == notice' = IF notice = None THEN s ELSE notice

ShowSecret(s) == notice' = IF s = None THEN notice ELSE s

\* A secret that was rotated is shown at once; that of a new webhook when the
\* list has come.  What failed is told of, and nothing is loaded.
OpDone(o) ==
    LET secret == IF o.op.secret THEN Secret(o) ELSE None
        fails == o.answer # "ok"
    IN /\ o.answer # "none"
       /\ ops' = ops \ {o}
       /\ IF fails \/ ~o.op.loads
          THEN /\ ShowSecret(IF fails THEN None ELSE secret)
               /\ unsure' = (unsure \/ o.answer = "lost")
               /\ UNCHANGED <<roster, fetches>>
          ELSE /\ Fetches(Fetch("page", secret))
               /\ roster' = Blanked
               /\ UNCHANGED notice
       /\ foreign' = IF \/ o.answer = "lost" \/ \E p \in ops \ {o} : p.row = o.row
                        \/ \E f \in fetches : f.then # None /\ f.then.row = o.row
                     THEN foreign \cup {o.row} ELSE foreign
       /\ UNCHANGED <<kind, entries, secrets, asked, ticking>>

FetchArrives(f) ==
    /\ f.got # None
    /\ roster' = f.got
    /\ fetches' = fetches \ {f}
    /\ ticking' = (ticking /\ f.by # "poll")
    /\ ShowSecret(f.then)
    /\ UNCHANGED <<kind, entries, secrets, asked, ops, unsure, foreign>>

\* Without an answer the page goes on with the rows it has.
FetchFails(f) ==
    /\ f.got = None
    /\ roster' = IF roster = None THEN [e \in Entry |-> "none"] ELSE roster
    /\ fetches' = fetches \ {f}
    /\ ticking' = (ticking /\ f.by # "poll")
    /\ ShowSecret(f.then)
    /\ unsure' = TRUE
    /\ UNCHANGED <<kind, entries, secrets, asked, ops, foreign>>

\* Sessions are polled, and can be loaded by hand.
RefreshSessions(by) ==
    /\ kind = "sessions" /\ (by = "poll" => ~ticking)
    /\ Fetches(Fetch(by, None))
    /\ ticking' = (ticking \/ by = "poll")
    /\ UNCHANGED <<kind, entries, secrets, roster, asked, ops, notice, foreign>>

SecretSaved ==
    /\ notice # None /\ notice' = None
    /\ UNCHANGED <<kind, entries, secrets, roster, asked, ops, fetches, ticking, unsure, foreign>>
-----------------------------------------------------------------------------
ManagedUser ==
    \/ \E e \in Entry : \/ \E op \in Operations[kind] : Press(op, e)
                        \/ \E s \in States(kind) : ByOthers(e, s)
    \/ \E by \in {"page", "poll"} : RefreshSessions(by)
    \/ \E f \in fetches : FetchFails(f)
    \/ SecretSaved

ManagedAnswers ==
    \/ \E o \in ops : OpServed(o) \/ OpRefused(o) \/ OpDone(o)
    \/ \E f \in fetches : FetchServed(f) \/ FetchArrives(f)
    \/ \E yes \in BOOLEAN : Answer(yes)
-----------------------------------------------------------------------------
(* Properties. *)

\* When nothing is under way the list is the server's, whichever operations were
\* carried out and whatever was refused, as long as nobody else changed it since
\* it was loaded, the last load was alone, and no answer was lost.
ManagedListRight == ops = {} /\ fetches = {} /\ ~unsure => roster = entries

\* The signing secret on the page is the one in force, as long as nobody else
\* changes the webhook, no answer to a change of it is lost and two do not cross:
\* who copies it can verify what comes.
SecretInForce ==
    notice # None /\ notice.row \notin foreign /\ entries[notice.row] # "none" =>
        \/ notice.secret = secrets[notice.row]
        \/ \E o \in ops : o.row = notice.row \/ o.op.secret
        \/ \E f \in fetches : f.then # None

\* The panel shows what the server has: the rows, and the secret shown once.
ManagedRight == ManagedListRight /\ SecretInForce
=============================================================================
