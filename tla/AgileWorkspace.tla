--------------------------- MODULE AgileWorkspace ---------------------------
(***************************************************************************)
(* The agile pages: views/SprintsView.jsx with one of its panels mounted   *)
(* at a time.  Requests of a panel go on after it is left, and a change    *)
(* announced by any of them ("agile:refresh") makes the mounted panel load *)
(* again.                                                                  *)
(***************************************************************************)
EXTENDS AgileBacklog, AgileBoard

CONSTANT Budgets       \* bound: how many requests of the backlog, how many of the
                       \* board or turns to the other tab, and how many gestures
                       \* or moves by others there are, as one of these allows

ASSUME WorkspaceAssumption == Budgets \subseteq Nat \X Nat \X Nat

VARIABLE inputs        \* how many of each there have been

vars == <<server, page, backlog, board, inputs>>

Tabs == {"backlog", "board"}

TypeOK ==
    /\ ServerTypeOK /\ BacklogTypeOK /\ BoardTypeOK
    /\ tab \in Tabs /\ inputs \in Nat \X Nat \X Nat

Init ==
    /\ ServerInit /\ BacklogInit /\ BoardInit
    /\ tab \in Tabs
    /\ view = LoadOf(<<tab, None>>, 1)
    /\ fetches = {Request(view)}
    /\ missed = FALSE
    /\ inputs = <<0, 0, 0>>

\* The panel of a tab is mounted and loads.
Mounts(t) ==
    LET fresh == LoadOf(<<t, None>>, view.gen + 1)
    IN /\ t # tab
       /\ tab' = t
       /\ view' = fresh
       /\ fetches' = fetches \cup {Request(fresh)}
       /\ missed' = FALSE
       /\ BacklogMounts /\ BoardMounts
       /\ UNCHANGED server

OpenTab(t) == Mounts(t) /\ UNCHANGED sends

\* A sprint was started: the board is opened.
Started(m) ==
    /\ m.answer = "ok" /\ m.kind = "start"
    /\ sends' = sends \ {m}
    /\ Mounts("board")

\* What q has once it has read one statement more; a board's cards are one.
ReadOn(q) ==
    IF q.for[1] = "board" THEN BoardView(q.for[2])
    ELSE IF q.got = NoData THEN Opened
    ELSE IF q.got.read = "sprints" THEN Filled(q.got) ELSE Whole(q.got)

\* All has been read.
Served(q) == q.got # NoData /\ (q.for[1] = "backlog" => q.got.read = "all")

FetchServed(q) ==
    /\ ~Served(q)
    /\ fetches' = (fetches \ {q}) \cup {[q EXCEPT !.got = ReadOn(q)]}
    /\ UNCHANGED <<server, tab, view, missed, backlog, board>>

\* The panel takes what its latest request brings.
FetchArrives(q) ==
    /\ Served(q)
    /\ fetches' = fetches \ {q}
    /\ view' = Arrived(view, q)
    /\ IF ~Latest(view, q) THEN UNCHANGED <<backlog, board>>
       ELSE IF tab = "backlog"
       THEN /\ TakesPlanning(q.got)
            /\ UNCHANGED <<hides, ticked, dialog, sends, board>>
       ELSE /\ cards' = q.got.cards
            /\ again' = again \cap {m.card : m \in moves}
            /\ UNCHANGED <<backlog, chosen, moves>>
    /\ UNCHANGED <<server, tab, missed>>

\* What is on screen is kept.
FetchFails(q) ==
    /\ ~Served(q)
    /\ fetches' = fetches \ {q}
    /\ missed' = (missed \/ Latest(view, q))
    /\ UNCHANGED <<server, tab, view, backlog, board>>

\* One more of kind k, if there is room.
Counts(k) ==
    LET more == [inputs EXCEPT ![k] = @ + 1]
    IN (\E b \in Budgets : \A n \in 1..3 : more[n] <= b[n]) /\ inputs' = more

Gestures ==
    \/ BacklogGestures /\ UNCHANGED board
    \/ BoardReplies /\ UNCHANGED backlog

BoardOrTab ==
    \/ BoardRequests /\ UNCHANGED backlog
    \/ \E t \in Tabs : OpenTab(t)

Answers ==
    \/ BacklogAnswers /\ UNCHANGED board
    \/ \E m \in sends : Started(m)
    \/ BoardAnswers /\ UNCHANGED backlog
    \/ \E q \in fetches : FetchServed(q) \/ FetchArrives(q) \/ FetchFails(q)

Next ==
    \/ Counts(1) /\ BacklogRequests /\ UNCHANGED board
    \/ Counts(2) /\ BoardOrTab
    \/ Counts(3) /\ Gestures
    \/ Answers /\ UNCHANGED inputs

Spec == Init /\ [][Next]_vars
-----------------------------------------------------------------------------
(* Properties. *)

Quiet == sends = {} /\ moves = {} /\ fetches = {} /\ ~missed

\* When nothing is under way the lists on the page are the server's, whichever
\* moves failed and in whatever order answers came.
BacklogSettles == OnBacklog /\ drag = NoDrag /\ Quiet => lists = PlanningView

\* The page shows no issue twice but what torn data brought, and comes to show
\* what the server has.
BacklogRight == EachIssueOnce /\ BacklogSettles

\* When nothing is under way every card shows the status the server has,
\* whichever moves were refused and whatever others moved meanwhile.  Excepted,
\* until the next load, are a card that was moved again before the answer to its
\* first move (two refusals leave it in between) and one that a load had brought
\* to where the refused move wanted it (it is put back all the same).
BoardSettles == OnBoard /\ Quiet => \A i \in DOMAIN cards \ again : cards[i].is = status[i].is

\* The board shows the sprint that is chosen, and comes to show it as it is.
BoardRight == OwnSprint /\ BoardSettles
=============================================================================
