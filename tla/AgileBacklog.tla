---------------------------- MODULE AgileBacklog ----------------------------
(***************************************************************************)
(* The backlog panel: views/agile/BacklogPanel.jsx with logic/backlog.js   *)
(* and the dialogs of SprintDialogs.jsx.                                   *)
(*                                                                         *)
(* Issues are moved between and within the lists by menu or by dragging.   *)
(* The lists on the page change at once, the request follows; a drag may   *)
(* carry the ticked issues with it, except those a filter or a collapsed   *)
(* list hides.  Data that arrives during a drag waits for its end.  Rows   *)
(* are dragged by their issue, so nothing is dragged on a page that shows  *)
(* an issue twice.                                                         *)
(***************************************************************************)
EXTENDS AgileServer

CONSTANT Filters    \* bound: the sets of issues a filter may hide

ASSUME FiltersAssumption == Filters \subseteq SUBSET Issue

VARIABLES
    lists,      \* the lists on the page
    mixed,      \* history: they go back to data that was torn
    hides,      \* the issues the filter hides, and the lists that are collapsed
    ticked,     \* selected issues
    drag,       \* the drag under way: its issue, the lists when it began, and
                \* data that arrived since, torn or not
    dialog,     \* the sprint dialog that is open, with the sprint as it was then
    sends       \* moves and sprint requests under way

backlog == <<lists, mixed, hides, ticked, drag, dialog, sends>>

NoLists == [k \in List |-> <<>>]
NoDrag == [of |-> None]
NoDialog == [kind |-> "none"]
Kinds == {"start", "complete", "delete", "edit"}

BacklogTypeOK ==
    /\ lists \in [List -> Seq(Issue)]
    /\ mixed \in BOOLEAN
    /\ hides.filter \subseteq Issue /\ hides.collapsed \subseteq Sprint
    /\ ticked \subseteq Issue
    /\ drag # NoDrag => drag.of \in Issue /\ drag.start \in [List -> Seq(Issue)]
    /\ dialog \in [kind : Kinds, sprint : Sprint, ver : Nat, busy : BOOLEAN] \cup {NoDialog}
    /\ \A m \in sends : /\ m.kind \in Kinds \cup {"move"}
                        /\ m.answer \in {"none", "ok", "lost", "failed"}

BacklogInit ==
    /\ lists = NoLists
    /\ mixed = FALSE
    /\ hides = [filter |-> {}, collapsed |-> {}]
    /\ ticked = {}
    /\ drag = NoDrag
    /\ dialog = NoDialog
    /\ sends = {}

\* A panel that is mounted again starts anew; what it had sent goes on.
BacklogMounts ==
    /\ lists' = NoLists
    /\ mixed' = FALSE
    /\ hides' = [filter |-> {}, collapsed |-> {}]
    /\ ticked' = {}
    /\ drag' = NoDrag
    /\ dialog' = NoDialog

OnBacklog == tab = "backlog" /\ Handed(view) # NoData
Idle == drag = NoDrag /\ dialog = NoDialog

Held(i) == \E k \in List : i \in Range(lists[k])
Hidden(i) == i \in hides.filter \/ (Held(i) /\ \A k \in List : i \in Range(lists[k]) => k \in hides.collapsed)
Shows(i) == Held(i) /\ ~Hidden(i)
-----------------------------------------------------------------------------
(* Pure helpers. *)

\* All issues in the order of the page.
Flat(ls) ==
    LET upto[n \in 0..Len(ListOrder)] == IF n = 0 THEN <<>> ELSE upto[n - 1] \o ls[ListOrder[n]]
    IN upto[Len(ListOrder)]

\* Slip: the issues stay in the other lists.
Mut_MoveLocally(ls, ids, k, at) ==
    LET rest == Without(ls[k], Range(ids))
    IN [ls EXCEPT ![k] = Into(rest, IF at < Len(rest) THEN at ELSE Len(rest), ids)]

\* The optimistic move: ids taken out of every list and put at a place of k.
MoveLocally(ls, ids, k, at) ==
    LET rest == Without(ls[k], Range(ids))
        end == IF at < Len(rest) THEN at ELSE Len(rest)
    IN [l \in List |-> IF l = k THEN Into(rest, end, ids) ELSE Without(ls[l], Range(ids))]

\* What moves with i: the ticked issues on screen if i is one of them.
MovingFor(i) ==
    IF i \notin ticked \/ Cardinality(ticked) < 2 THEN <<i>>
    ELSE Only(Flat(lists), {x \in ticked : x = i \/ Shows(x)})

\* The list k with a dropped onto another of its issues.
Reordered(s, a, over) ==
    IF over \notin Range(s) \/ over = a THEN s
    ELSE Into(Without(s, {a}), Position(s, over) - 1, <<a>>)

\* Slip: the place is counted among the issues on screen.
Mut_PlaceOf(list, moving, shown, above, below, k) ==
    IF above # None THEN Position(Without(shown, moving), above)
    ELSE IF below # None THEN 0
    ELSE IF k = Backlog THEN 0 ELSE Len(Without(list, moving))

\* How many of the list's other issues stay above the place.
PlaceOf(list, moving, shown, above, below, k) ==
    LET rest == Without(list, moving)
    IN IF above # None THEN Position(rest, above)
       ELSE IF below # None THEN Position(rest, below) - 1
       ELSE IF k = Backlog THEN 0 ELSE Len(rest)

\* What a finished drag means: the issues, the list, the neighbour to name and
\* the place; no issues when nothing changed.
PlanDrop(a, over) ==
    LET k == ListOf(lists, a)
        list == Reordered(lists[k], a, over)
        ids == IF a \in ticked /\ Cardinality(ticked) > 1
               THEN Only(Flat(drag.start), {x \in ticked : x = a \/ Shows(x)})
               ELSE <<a>>
        shown == Only(list, {a} \cup {x \in Range(list) \ Range(ids) : Shows(x)})
        n == Position(shown, a)
        above == IF n > 1 THEN shown[n - 1] ELSE None
        below == IF n < Len(shown) THEN shown[n + 1] ELSE None
    IN [ids |-> IF Len(ids) = 1 /\ drag.start[k] = list THEN <<>> ELSE ids,
        to |-> k,
        before |-> above,
        after |-> IF above # None THEN None ELSE below,
        at |-> PlaceOf(list, Range(ids), shown, above, below, k)]
-----------------------------------------------------------------------------
(* Data. *)

\* Data arrives: at once, or after the drag.
TakesPlanning(data) ==
    IF drag = NoDrag THEN lists' = data.lists /\ mixed' = data.torn /\ UNCHANGED drag
    ELSE drag' = [drag EXCEPT !.waiting = data.lists, !.torn = data.torn] /\ UNCHANGED <<lists, mixed>>

\* Slip: data that arrived during the drag is forgotten.
Mut_Settled(restore) == IF restore THEN drag.start ELSE lists

\* The lists after a drag that moves nothing (restore), or before its move.
Settled(restore) ==
    IF drag.waiting # NoData THEN drag.waiting ELSE IF restore THEN drag.start ELSE lists

SettledMixed == IF drag.waiting # NoData THEN drag.torn ELSE mixed

\* The panel the request was sent from is still mounted, with the same load.
Mine(m) == tab = "backlog" /\ view.mount <= m.gen

\* Moves and dialogs remember the panel they belong to and what they promised.
Send(m) == sends' = sends \cup {m}

\* The ids as the server takes them: each once, the order of those that were
\* named twice left open.
Taken(ids) ==
    IF IsInjective(ids) THEN {ids}
    ELSE {s \in [1..Cardinality(Range(ids)) -> Range(ids)] : IsInjective(s)}

Sending(ids, k, before, after, base, result) ==
    \E s \in Taken(ids) :
      Send([kind |-> "move", ids |-> s, to |-> k, before |-> before, after |-> after,
            gen |-> view.gen, answer |-> "none",
            agrees |-> mixed \/ Placed(base, s, k, before, after) = result])
-----------------------------------------------------------------------------
(* The user. *)

Filter(X) ==
    /\ OnBacklog /\ drag = NoDrag
    /\ hides' = [hides EXCEPT !.filter = X]
    /\ UNCHANGED <<server, page, lists, mixed, ticked, drag, dialog, sends>>

Collapse(s) ==
    /\ OnBacklog /\ drag = NoDrag
    /\ s \in Live(view.data.sprints)
    /\ hides' = [hides EXCEPT !.collapsed = SymDiff(@, {s})]
    /\ UNCHANGED <<server, page, lists, mixed, ticked, drag, dialog, sends>>

Tick(i) ==
    /\ OnBacklog /\ drag = NoDrag /\ Shows(i)
    /\ ticked' = SymDiff(ticked, {i})
    /\ UNCHANGED <<server, page, lists, mixed, hides, drag, dialog, sends>>

ClearTicks ==
    /\ OnBacklog /\ ticked # {}
    /\ ticked' = {}
    /\ UNCHANGED <<server, page, lists, mixed, hides, drag, dialog, sends>>

\* The actions menu: to the top or the bottom of a list.
MoveTo(i, k, where) ==
    LET ids == MovingFor(i)
        rest == Without(lists[k], Range(ids))
        first == IF rest = <<>> THEN None ELSE rest[1]
        last == IF rest = <<>> THEN None ELSE rest[Len(rest)]
        result == MoveLocally(lists, ids, k, IF where = "top" THEN 0 ELSE Len(rest))
    IN /\ OnBacklog /\ Idle /\ Shows(i)
       /\ \E here \in {l \in List : i \in Range(lists[l])} :
            IF k = here THEN where \in {"top", "bottom"}
            ELSE where = IF k = Backlog THEN "top" ELSE "bottom"
       /\ k \in Live(view.data.sprints)
       /\ lists' = result
       /\ Sending(ids, k, IF where = "bottom" THEN last ELSE None,
                  IF where = "top" THEN first ELSE None, lists, result)
       /\ UNCHANGED <<server, page, mixed, hides, ticked, drag, dialog>>

DragStart(i) ==
    /\ OnBacklog /\ Idle /\ Shows(i)
    /\ EachOnce(lists)
    /\ drag' = [of |-> i, start |-> lists, waiting |-> NoData, torn |-> FALSE]
    /\ UNCHANGED <<server, page, lists, mixed, hides, ticked, dialog, sends>>

\* The pointer enters another list, over one of its issues or, if none of them
\* is on screen, over the list itself.
DragOver(k, over) ==
    LET a == drag.of
        target == lists[k]
    IN /\ drag # NoDrag
       /\ k # ListOf(lists, a) /\ k \notin hides.collapsed
       /\ k \in Live(view.data.sprints)
       /\ IF over = None THEN \A x \in Range(target) : x \in hides.filter
          ELSE over \in Range(target) \ hides.filter
       /\ lists' = MoveLocally(lists, <<a>>, k,
                               IF over = None THEN Len(target) ELSE Position(target, over) - 1)
       /\ UNCHANGED <<server, page, mixed, hides, ticked, drag, dialog, sends>>

\* Let go over an issue of the list it is in by now, itself included.
Drop(over) ==
    LET a == drag.of
        plan == PlanDrop(a, over)
        result == MoveLocally(drag.start, plan.ids, plan.to, plan.at)
    IN /\ drag # NoDrag
       /\ over \in Range(lists[ListOf(lists, a)]) \ hides.filter
       /\ drag' = NoDrag
       /\ IF plan.ids = <<>> THEN lists' = Settled(TRUE) /\ mixed' = SettledMixed /\ UNCHANGED sends
          ELSE /\ lists' = result /\ mixed' = mixed
               /\ Sending(plan.ids, plan.to, plan.before, plan.after, drag.start, result)
       /\ UNCHANGED <<server, page, hides, ticked, dialog>>

\* Escape, or let go outside.
DragCancel ==
    /\ drag # NoDrag
    /\ lists' = Settled(TRUE) /\ mixed' = SettledMixed
    /\ drag' = NoDrag
    /\ UNCHANGED <<server, page, hides, ticked, dialog, sends>>

\* Start, Complete, Edit and Delete of a sprint, with the sprint as loaded; a
\* form is busy as long as a request it sent before is.
OpenDialog(kind, s) ==
    LET seen == view.data.sprints
    IN /\ OnBacklog /\ Idle
       /\ s \in Live(seen)
       /\ kind = "start" => /\ seen[s].state = "future"
                            /\ CanStart(seen)
                            /\ lists[s] # <<>>
       /\ kind = "complete" => seen[s].state = "active"
       /\ dialog' = [kind |-> kind, sprint |-> s, ver |-> seen[s].ver,
                     busy |-> kind # "delete" /\ \E m \in sends : m.kind = kind /\ Mine(m)]
       /\ UNCHANGED <<server, page, lists, mixed, hides, ticked, drag, sends>>

CloseDialog ==
    /\ dialog # NoDialog
    /\ dialog' = NoDialog
    /\ UNCHANGED <<server, page, lists, mixed, hides, ticked, drag, sends>>

\* Submitted, for a completion with the list the open issues go to.  The
\* deletion's confirmation closes at once.
SubmitDialog(to) ==
    /\ dialog # NoDialog /\ ~dialog.busy
    /\ IF dialog.kind = "complete"
       THEN to # Backlog => view.data.sprints[to].state = "future"
       ELSE to = Backlog
    /\ Send([kind |-> dialog.kind, sprint |-> dialog.sprint, ver |-> dialog.ver, to |-> to,
             gen |-> view.gen, answer |-> "none", agrees |-> TRUE])
    /\ dialog' = IF dialog.kind = "delete" THEN NoDialog ELSE [dialog EXCEPT !.busy = TRUE]
    /\ UNCHANGED <<server, page, lists, mixed, hides, ticked, drag>>
-----------------------------------------------------------------------------
(* Requests. *)

Answered(m, how) == sends' = (sends \ {m}) \cup {[m EXCEPT !.answer = how]}

SendServed(m) ==
    /\ m.answer = "none"
    /\ IF m.kind = "move" THEN ServeMove(m.ids, m.to, m.before, m.after)
       ELSE ServeSprint(m.kind, m.sprint, m.ver, m.to)
    /\ Answered(m, "ok") \/ Answered(m, "lost")
    /\ UNCHANGED <<page, lists, mixed, hides, ticked, drag, dialog>>

SendRefused(m) ==
    /\ m.answer = "none"
    /\ Answered(m, "failed")
    /\ UNCHANGED <<server, page, lists, mixed, hides, ticked, drag, dialog>>

\* A start's answer opens the board's tab, if it is not open.
OpensBoard(m) == m.kind = "start" /\ tab # "board"

\* Whatever panel is mounted by now loads again; whichever dialog is open is
\* closed, except a deletion's confirmation.
SendOk(m) ==
    /\ m.answer = "ok" /\ ~OpensBoard(m)
    /\ sends' = sends \ {m}
    /\ Reload(view)
    /\ ticked' = IF m.kind = "move" /\ Mine(m) THEN {} ELSE ticked
    /\ dialog' = IF m.kind \in {"complete", "edit"} /\ Mine(m) /\ dialog.kind # "delete"
                 THEN NoDialog ELSE dialog
    /\ UNCHANGED <<server, tab, lists, mixed, hides, drag>>

\* A move that failed loads the lists again; a dialog stays open.
SendFails(m) ==
    /\ m.answer \in {"lost", "failed"}
    /\ sends' = sends \ {m}
    /\ IF m.kind = "move" /\ Mine(m) THEN Reload(view)
       ELSE missed' = (missed \/ m.answer = "lost") /\ UNCHANGED <<view, fetches>>
    /\ dialog' = IF dialog.kind = m.kind /\ Mine(m) THEN [dialog EXCEPT !.busy = FALSE] ELSE dialog
    /\ UNCHANGED <<server, tab, lists, mixed, hides, ticked, drag>>
-----------------------------------------------------------------------------
BacklogGestures ==
    \/ \E X \in Filters : X # hides.filter /\ Filter(X)
    \/ \E s \in Sprint : Collapse(s) \/ \E kind \in Kinds : OpenDialog(kind, s)
    \/ \E i \in Issue : Tick(i) \/ DragStart(i)
    \/ \E k \in List, i \in Issue \cup {None} : DragOver(k, i)
    \/ ClearTicks \/ DragCancel \/ CloseDialog

BacklogRequests ==
    \/ \E i \in Issue, k \in List, w \in {"top", "bottom"} : Held(i) /\ MoveTo(i, k, w)
    \/ \E i \in Issue : Drop(i)
    \/ \E k \in List : SubmitDialog(k)

BacklogAnswers == \E m \in sends : SendServed(m) \/ SendRefused(m) \/ SendOk(m) \/ SendFails(m)
-----------------------------------------------------------------------------
(* Properties. *)

\* Whatever is moved, dragged, filtered or refused, an issue is in one list of
\* the page at most, and there once, unless the data had read the issue's
\* sprint before and the backlog after a move took it out.
EachIssueOnce == ~mixed => EachOnce(lists)

\* A move puts the issues where the page shows them: the neighbour that is
\* named to the server stands for the same place, hidden issues or not (torn
\* data excepted).
DropLandsWhereShown == \A m \in sends : m.agrees
=============================================================================
