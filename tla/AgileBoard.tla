----------------------------- MODULE AgileBoard -----------------------------
(***************************************************************************)
(* The active sprint's board: views/agile/BoardPanel.jsx with              *)
(* logic/board.js.                                                         *)
(*                                                                         *)
(* A card that is moved shows its new status at once.  The request carries *)
(* the version the card had; a column at its limit has the server ask for  *)
(* an acknowledgement, which a dialog gets from the user.                  *)
(***************************************************************************)
EXTENDS AgileServer

CONSTANTS
    Column,
    Statuses,     \* the statuses of each column, in workflow order
    Limit         \* the number of cards above which each column warns

ASSUME BoardAssumption ==
    /\ Statuses \in [Column -> Seq(Status)]
    /\ Limit \in [Column -> Nat]

VARIABLES
    chosen,     \* the active sprint chosen, None for the first
    cards,      \* the cards on the page
    moves,      \* moves and flags under way
    again       \* history: cards moved again before the answer, or put back
                \* though the latest load had brought the status asked for

board == <<chosen, cards, moves, again>>

NoCards == [i \in {} |-> None]

BoardTypeOK ==
    /\ chosen \in Sprint \cup {None}
    /\ DOMAIN cards \subseteq Issue
    /\ \A i \in DOMAIN cards : cards[i] \in [is : Status, ver : Nat]
    /\ \A m \in moves : /\ m.kind \in {"move", "flag"} /\ m.card \in Issue
                        /\ m.answer \in {"none", "ok", "lost", "failed", "asked"}
    /\ again \subseteq Issue

BoardInit ==
    /\ chosen = None
    /\ cards = NoCards
    /\ moves = {}
    /\ again = {}

BoardMounts ==
    /\ chosen' = None
    /\ cards' = NoCards
    /\ again' = {}
    /\ UNCHANGED moves

OnBoard == tab = "board" /\ Handed(view) # NoData
-----------------------------------------------------------------------------
(* Pure helpers and the server's view. *)

\* The column a status is in; issues with a status in none are not shown.
ColumnOf(s) == {c \in Column : s \in Range(Statuses[c])}

\* The status asked for when a card is dropped on a column; none if the column
\* has no status or the card's own.
DropStatus(c, is) ==
    IF Statuses[c] = <<>> \/ is \in Range(Statuses[c]) THEN None ELSE Statuses[c][1]

Active == Only(ListOrder, {k \in Sprint : sprints[k].state = "active"})

\* The sprint asked for, or the first active one.
BoardView(s) ==
    LET k == IF s # None THEN s ELSE IF Active = <<>> THEN None ELSE Active[1]
        on == IF k = None THEN {} ELSE {i \in Range(order[k]) : ColumnOf(status[i].is) # {}}
    IN [sprint |-> k, active |-> Range(Active), cards |-> [i \in on |-> status[i]]]

\* The cards the column of a status would hold with one more.
Crowd(i, to) ==
    LET k == ListOf(order, i)
    IN Cardinality({x \in Range(order[k]) \ {i} : ColumnOf(status[x].is) \cap ColumnOf(to) # {}}) + 1

OverLimit(i, to) == \E c \in ColumnOf(to) : Crowd(i, to) > Limit[c]
-----------------------------------------------------------------------------
(* The user. *)

\* A sprint is chosen where several are active: the load's key changes.
ChooseSprint(s) ==
    /\ OnBoard /\ view.data.sprint # None
    /\ s \in view.data.active \ {view.data.sprint}
    /\ chosen' = s
    /\ Reload([view EXCEPT !.key = <<"board", s>>])
    \* nothing is shown until the data is there
    /\ cards' = NoCards
    /\ UNCHANGED <<server, tab, moves, again>>

\* Dragged to a column, or moved to one of its statuses by the menu.
MoveCard(i, to) ==
    /\ OnBoard /\ i \in DOMAIN cards
    /\ to # cards[i].is
    /\ \/ \E c \in Column : DropStatus(c, cards[i].is) = to
       \/ ColumnOf(to) # {}
    /\ cards' = [cards EXCEPT ![i].is = to]
    /\ moves' = moves \cup {[kind |-> "move", card |-> i, from |-> cards[i].is, to |-> to,
                             ver |-> cards[i].ver, ack |-> FALSE, answer |-> "none",
                             gen |-> view.gen]}
    /\ again' = IF \E m \in moves : m.card = i /\ m.kind = "move" THEN again \cup {i} ELSE again
    /\ UNCHANGED <<server, page, chosen>>

Flag(i) ==
    /\ OnBoard /\ i \in DOMAIN cards
    /\ moves' = moves \cup {[kind |-> "flag", card |-> i, from |-> cards[i].is,
                             to |-> cards[i].is, ver |-> cards[i].ver, ack |-> TRUE,
                             answer |-> "none", gen |-> view.gen]}
    /\ UNCHANGED <<server, page, chosen, cards, again>>
-----------------------------------------------------------------------------
(* Requests. *)

MoveAnswered(m, how) == moves' = (moves \ {m}) \cup {[m EXCEPT !.answer = how]}

MoveServed(m) ==
    /\ m.answer = "none"
    /\ m.ack \/ ~OverLimit(m.card, m.to)
    /\ ServeIssue(m.card, m.ver, IF m.kind = "flag" THEN status[m.card].is ELSE m.to)
    /\ MoveAnswered(m, "ok") \/ MoveAnswered(m, "lost")
    /\ UNCHANGED <<page, chosen, cards, again>>

MoveRefused(m) ==
    /\ m.answer = "none"
    /\ MoveAnswered(m, "failed")
    /\ UNCHANGED <<server, page, chosen, cards, again>>

\* The server asks for an acknowledgement, and the user is asked; a question
\* that is open is answered with no.
MoveOverLimit(m) ==
    /\ m.answer = "none" /\ ~m.ack
    /\ status[m.card].ver = m.ver /\ OverLimit(m.card, m.to)
    /\ moves' = {IF x = m THEN [x EXCEPT !.answer = "asked"]
                 ELSE IF x.answer = "asked" THEN [x EXCEPT !.answer = "failed"] ELSE x
                 : x \in moves}
    /\ UNCHANGED <<server, page, chosen, cards, again>>

MoveAnyway(m) ==
    /\ m.answer = "asked"
    /\ moves' = (moves \ {m}) \cup {[m EXCEPT !.answer = "none", !.ack = TRUE]}
    /\ UNCHANGED <<server, page, chosen, cards, again>>

NotAnyway(m) ==
    /\ m.answer = "asked"
    /\ MoveAnswered(m, "failed")
    /\ UNCHANGED <<server, page, chosen, cards, again>>

MoveOk(m) ==
    /\ m.answer = "ok"
    /\ moves' = moves \ {m}
    /\ Reload(view)
    /\ UNCHANGED <<server, tab, chosen, cards, again>>

\* Slip: every card that shows the status asked for is put back.
Mut_Reverted(m) ==
    [i \in DOMAIN cards |-> IF cards[i].is = m.to THEN [cards[i] EXCEPT !.is = m.from] ELSE cards[i]]

\* Only this card's optimistic move is undone, if it still shows it.
Reverted(m) ==
    [i \in DOMAIN cards |-> IF i = m.card /\ cards[i].is = m.to
                            THEN [cards[i] EXCEPT !.is = m.from] ELSE cards[i]]

\* The panel it was sent from is still mounted.
MyCard(m) == tab = "board" /\ view.mount <= m.gen

\* The card, if the data on the page has it at the status m asked for.
Brought(m) == {i \in {m.card} \cap DOMAIN view.data.cards : view.data.cards[i].is = m.to}

MoveFails(m) ==
    /\ m.answer \in {"lost", "failed"}
    /\ moves' = moves \ {m}
    /\ missed' = (missed \/ m.answer = "lost")
    /\ IF m.kind = "move" /\ MyCard(m)
       THEN cards' = Reverted(m) /\ again' = again \cup Brought(m)
       ELSE UNCHANGED <<cards, again>>
    /\ UNCHANGED <<server, tab, view, fetches, chosen>>

\* Somebody else moves a card; the page hears of it at its next load.
OthersMove(i, to) ==
    /\ to # status[i].is
    /\ ServeIssue(i, status[i].ver, to)
    /\ missed' = TRUE
    /\ UNCHANGED <<tab, view, fetches, chosen, cards, moves, again>>
-----------------------------------------------------------------------------
BoardRequests ==
    \/ \E s \in Sprint : ChooseSprint(s)
    \/ \E i \in Issue : Flag(i) \/ \E to \in Status : MoveCard(i, to)

BoardReplies ==
    \/ \E m \in moves : MoveAnyway(m) \/ NotAnyway(m)
    \/ \E i \in Issue, to \in Status : OthersMove(i, to)

BoardAnswers ==
    \E m \in moves : MoveServed(m) \/ MoveRefused(m) \/ MoveOverLimit(m) \/ MoveOk(m) \/ MoveFails(m)
-----------------------------------------------------------------------------
(* Properties. *)

\* The cards are those of the sprint that is chosen, never another's.
OwnSprint ==
    OnBoard => /\ chosen # None => view.data.sprint = chosen
               /\ view.data.sprint = None => DOMAIN cards = {}
=============================================================================
