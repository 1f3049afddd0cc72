----------------------------- MODULE ClientList -----------------------------
(***************************************************************************)
(* The list of work items and its figures: filters, tabs, pages and polls  *)
(* of state/AppContext.jsx with lib/poller.js, the filter bars of shell/,  *)
(* and views/ListView.jsx with its bulk actions (routes/bugs.py).          *)
(*                                                                         *)
(* Answers carry no number here: the one that arrives last is shown, and   *)
(* the poll, which asks again for what is current, sets it right.          *)
(***************************************************************************)
EXTENDS ClientParts

CONSTANTS
    Item,         \* work items, by number
    PageSize

ASSUME ListAssumption == Item \subseteq Nat /\ IsFiniteSet(Item) /\ PageSize \in Nat \ {0}

VARIABLES
    rows,       \* the server's items: open or not, version, changes by others
    look,       \* the filter and the page asked for
    listed,     \* the rows on the page, by item, as they came
    pages,      \* how many pages there are, as it came
    figures,    \* the filter the figures are for
    asks,       \* requests for rows and figures under way
    poll,       \* the poll: idle or running
    hidden,     \* the window is hidden
    selected,   \* ticked rows
    bulk,       \* a bulk action: none, to be confirmed, sent, read or answered
    lost,       \* history: items of which somebody else's change was overwritten
    overlapped  \* history: items two requests wrote that had read the same version

list == <<rows, look, listed, pages, figures, asks, poll, hidden, selected, bulk, lost, overlapped>>

Filter == {"any", "open"}
NoBulk == [phase |-> "none"]
Row == [open : BOOLEAN, ver : Nat, foreign : Nat]

ListTypeOK ==
    /\ \A i \in DOMAIN rows : i \in Item /\ rows[i] \in Row
    /\ \A i \in DOMAIN listed : i \in Item /\ listed[i] \in Row
    /\ look \in [filter : Filter, page : Nat] /\ pages \in Nat \ {0}
    /\ figures \in Filter
    /\ poll \in {"idle", "running"} /\ hidden \in BOOLEAN
    /\ selected \subseteq Item
    /\ bulk.phase \in {"none", "confirm", "sent", "read", "ok", "failed"}

Ask(kind, l, by) == [kind |-> kind, look |-> l, by |-> by, got |-> None]

Both(l, by) == {Ask("rows", l, by), Ask("figures", l, by)}

\* The rows a look shows: newest first, a page of them.
Matching(f) == {i \in DOMAIN rows : f = "any" \/ rows[i].open}
OnPage(l) ==
    LET all == Matching(l.filter)
        before(i) == Cardinality({j \in all : j > i})
    IN {i \in all : before(i) \div PageSize = l.page - 1}
PagesOf(f) == LET n == (Cardinality(Matching(f)) + PageSize - 1) \div PageSize
              IN IF n = 0 THEN 1 ELSE n
Shows(l) == [rows |-> [i \in OnPage(l) |-> rows[i]], pages |-> PagesOf(l.filter)]

\* The page once it has been loaded.
ListInit ==
    /\ rows = [i \in Item |-> [open |-> TRUE, ver |-> 0, foreign |-> 0]]
    /\ look = [filter |-> "any", page |-> 1]
    /\ listed = Shows(look).rows /\ pages = Shows(look).pages /\ figures = "any"
    /\ asks = {}
    /\ poll = "idle" /\ hidden = FALSE
    /\ selected = {} /\ bulk = NoBulk /\ lost = {} /\ overlapped = {}
-----------------------------------------------------------------------------
(* What is looked at. *)

\* Every change of page or filter asks for the rows again; the figures, which
\* the status filter concerns too, wait for the poll.
LookAt(l) ==
    /\ look' = l
    /\ asks' = asks \cup {Ask("rows", l, "user")}
    /\ UNCHANGED <<rows, listed, pages, figures, poll, hidden, selected, bulk, lost, overlapped>>

SetFilter(f) == f # look.filter /\ LookAt([filter |-> f, page |-> 1])

SetPage(p) == p \in 1..pages /\ p \in {look.page - 1, look.page + 1} /\ LookAt([look EXCEPT !.page = p])

\* The list is opened again after another view: everything is asked for.
ComeBack ==
    /\ bulk.phase = "none"
    /\ asks' = asks \cup Both(look, "user")
    /\ selected' = {}
    /\ UNCHANGED <<rows, look, listed, pages, figures, poll, hidden, bulk, lost, overlapped>>

Hide(h) ==
    /\ h # hidden /\ hidden' = h
    /\ UNCHANGED <<rows, look, listed, pages, figures, asks, poll, selected, bulk, lost, overlapped>>

\* A poll begins when the one before has ended and the window is on screen.
Poll ==
    /\ poll = "idle" /\ ~hidden
    /\ poll' = "running"
    /\ asks' = asks \cup Both(look, "poll")
    /\ UNCHANGED <<rows, look, listed, pages, figures, hidden, selected, bulk, lost, overlapped>>
-----------------------------------------------------------------------------
(* Answers. *)

AskServed(q) ==
    /\ q.kind = "rows" /\ q.got = None
    /\ asks' = (asks \ {q}) \cup {[q EXCEPT !.got = Shows(q.look)]}
    /\ UNCHANGED <<rows, look, listed, pages, figures, poll, hidden, selected, bulk, lost, overlapped>>

\* The poll has ended when both of its requests are answered.
Ends(q) == poll' = IF q.by = "poll" /\ \A r \in asks \ {q} : r.by # "poll" THEN "idle" ELSE poll

\* The ticks hold as long as the page has the same rows.
StillTicked(new) == IF DOMAIN new = DOMAIN listed THEN selected ELSE {}

\* A page that no longer exists gives way to the last one, which is asked for.
RowsArrive(q) ==
    LET n == q.got.pages
        last == [look EXCEPT !.page = n]
    IN /\ q.kind = "rows" /\ q.got # None
       /\ listed' = q.got.rows /\ pages' = n
       /\ selected' = StillTicked(q.got.rows)
       /\ IF look.page > n
          THEN look' = last /\ asks' = (asks \ {q}) \cup {Ask("rows", last, "user")}
          ELSE asks' = asks \ {q} /\ UNCHANGED look
       /\ Ends(q)
       /\ UNCHANGED <<rows, figures, hidden, bulk, lost, overlapped>>

FiguresArrive(q) ==
    /\ q.kind = "figures"
    /\ figures' = q.look.filter
    /\ asks' = asks \ {q}
    /\ Ends(q)
    /\ UNCHANGED <<rows, look, listed, pages, hidden, selected, bulk, lost, overlapped>>

\* Slip: the poll does not go on after a failure.
Mut_AskFails(q) ==
    /\ q.got = None
    /\ asks' = {IF r.by = "poll" /\ q.by = "poll" THEN [r EXCEPT !.by = "user"] ELSE r : r \in asks \ {q}}
    /\ poll' = poll
    /\ UNCHANGED <<rows, look, listed, pages, figures, hidden, selected, bulk, lost, overlapped>>

\* A poll ends with its first failure, whatever else of it is under way, and
\* is tried again later.
AskFails(q) ==
    /\ q.got = None
    /\ asks' = {IF r.by = "poll" /\ q.by = "poll" THEN [r EXCEPT !.by = "user"] ELSE r : r \in asks \ {q}}
    /\ poll' = IF q.by = "poll" THEN "idle" ELSE poll
    /\ UNCHANGED <<rows, look, listed, pages, figures, hidden, selected, bulk, lost, overlapped>>
-----------------------------------------------------------------------------
(* Ticks and bulk actions. *)

Toggle(i) ==
    /\ i \in DOMAIN listed
    /\ selected' = IF i \in selected THEN selected \ {i} ELSE selected \cup {i}
    /\ UNCHANGED <<rows, look, listed, pages, figures, asks, poll, hidden, bulk, lost, overlapped>>

ToggleAll ==
    /\ selected' = IF DOMAIN listed \subseteq selected THEN selected \ DOMAIN listed
                   ELSE selected \cup DOMAIN listed
    /\ selected' # selected
    /\ UNCHANGED <<rows, look, listed, pages, figures, asks, poll, hidden, bulk, lost, overlapped>>

\* What a bulk action takes: the ticked rows, each with the version on the page.
Picked == [i \in selected |-> listed[i]]

\* A status applies at once, a deletion after a confirmation; each to the rows
\* as they were when it was pressed.
Apply(action) ==
    /\ bulk.phase = "none" /\ selected # {}
    /\ bulk' = [phase |-> IF action = "delete" THEN "confirm" ELSE "sent",
                action |-> action, picked |-> Picked]
    /\ UNCHANGED <<rows, look, listed, pages, figures, asks, poll, hidden, selected, lost, overlapped>>

Confirm(yes) ==
    /\ bulk.phase = "confirm"
    /\ bulk' = IF yes THEN [bulk EXCEPT !.phase = "sent"] ELSE NoBulk
    /\ UNCHANGED <<rows, look, listed, pages, figures, asks, poll, hidden, selected, lost, overlapped>>

\* Slip: the versions are not sent, and nothing is compared.
Mut_Hit == DOMAIN bulk.picked \cap DOMAIN rows

\* Rows that changed since they were listed are left alone.
Hit == {i \in DOMAIN bulk.picked : i \in DOMAIN rows /\ rows[i].ver = bulk.picked[i].ver}

\* The rows are read without a lock, and their versions compared.
BulkRead ==
    /\ bulk.phase = "sent"
    /\ bulk' = [bulk EXCEPT !.phase = "read", !.picked = [i \in Hit |-> rows[i]]]
    /\ lost' = lost \cup {i \in Hit : rows[i].foreign # bulk.picked[i].foreign}
    /\ UNCHANGED <<rows, look, listed, pages, figures, asks, poll, hidden, selected, overlapped>>

\* They are written later, all at once, as what was read makes them: what is
\* closed already is passed over.
Changing == {i \in DOMAIN bulk.picked \cap DOMAIN rows : bulk.action = "delete" \/ bulk.picked[i].open}

BulkWritten ==
    /\ bulk.phase = "read"
    /\ rows' = IF bulk.action = "delete" THEN [i \in DOMAIN rows \ Changing |-> rows[i]]
               ELSE [i \in DOMAIN rows |->
                     IF i \in Changing THEN [rows[i] EXCEPT !.open = FALSE, !.ver = bulk.picked[i].ver + 1]
                     ELSE rows[i]]
    /\ lost' = lost \cup {i \in Changing : rows[i].foreign # bulk.picked[i].foreign}
    /\ \E how \in {"ok", "failed"} : bulk' = [bulk EXCEPT !.phase = how]
    /\ UNCHANGED <<look, listed, pages, figures, asks, poll, hidden, selected, overlapped>>

BulkRefused ==
    /\ bulk.phase \in {"sent", "read"}
    /\ bulk' = [bulk EXCEPT !.phase = "failed"]
    /\ UNCHANGED <<rows, look, listed, pages, figures, asks, poll, hidden, selected, lost, overlapped>>

BulkDone ==
    /\ bulk.phase \in {"ok", "failed"}
    /\ bulk' = NoBulk
    /\ IF bulk.phase = "ok" THEN selected' = {} /\ asks' = asks \cup Both(look, "user")
       ELSE UNCHANGED <<selected, asks>>
    /\ UNCHANGED <<rows, look, listed, pages, figures, poll, hidden, lost, overlapped>>

\* Somebody else's request writes what it read at the version base.
ForeignChange(i, base) ==
    /\ i \in DOMAIN rows /\ base <= rows[i].ver
    /\ rows' = [rows EXCEPT ![i] = [open |-> ~@.open, ver |-> base + 1, foreign |-> @.foreign + 1]]
    /\ overlapped' = overlapped \cup
           (IF base # rows[i].ver \/ (bulk.phase = "read" /\ i \in DOMAIN bulk.picked) THEN {i} ELSE {})
    /\ UNCHANGED <<look, listed, pages, figures, asks, poll, hidden, selected, bulk, lost>>
-----------------------------------------------------------------------------
ListUser ==
    \/ \E f \in Filter : SetFilter(f)
    \/ \E p \in 1..Cardinality(Item) : SetPage(p)
    \/ \E i \in Item : Toggle(i) \/ \E base \in 0..MaxInputs[part] : ForeignChange(i, base)
    \/ \E action \in {"delete", "close"} : Apply(action)
    \/ \E h \in BOOLEAN : Hide(h)
    \/ ComeBack \/ ToggleAll
    \/ BulkRefused
    \/ \E q \in asks : AskFails(q)

ListAnswers ==
    \/ \E q \in asks : AskServed(q) \/ RowsArrive(q) \/ FiguresArrive(q)
    \/ \E yes \in BOOLEAN : Confirm(yes)
    \/ BulkRead \/ BulkWritten \/ BulkDone

\* Requests of the user's are answered, and polls come and are answered.
OfUser == {q \in asks : q.by = "user"}
UserAnswers ==
    \/ \E q \in OfUser : AskServed(q) \/ RowsArrive(q) \/ FiguresArrive(q)
    \/ \E yes \in BOOLEAN : Confirm(yes)
    \/ BulkRead \/ BulkWritten \/ BulkDone
PollAnswers == \E q \in asks \ OfUser : AskServed(q) \/ RowsArrive(q) \/ FiguresArrive(q)
-----------------------------------------------------------------------------
(* Properties. *)

\* A bulk action overwrites or deletes what somebody else changed since the user
\* saw it, however long the confirmation stays open, only where two requests that
\* had read the same version both wrote: the comparison misses nothing else.
NothingOverwritten == lost \subseteq overlapped

\* While the window is on screen the list ends up showing what the server has
\* for the filter and the page, in whatever order answers came and requests
\* failed; and the figures end up being those of the filter.
ListSettles == part = "list" => <>[](~hidden => /\ listed = Shows(look).rows
                                                /\ pages = Shows(look).pages
                                                /\ figures = look.filter)
=============================================================================
