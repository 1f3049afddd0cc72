----------------------------- MODULE AgileServer -----------------------------
(***************************************************************************)
(* What the agile pages show and change, as the server keeps it: the       *)
(* issues in their lists and statuses, the sprints, and the answers of     *)
(* POST move, transition, start, complete and cancel                       *)
(* (app/routes/agile_board.py, app/routes/agile.py, app/agile/sprints.py). *)
(* A request that changes something is one step here; SprintLifecycle      *)
(* looks inside them.                                                      *)
(*                                                                         *)
(* One panel is mounted at a time and its data comes through one load.     *)
(***************************************************************************)
EXTENDS Naturals, FiniteSets, SequencesExt, LatestLoad

CONSTANTS
    Issue,
    Sprint,
    Status,
    Done,          \* the statuses of the last column
    None,
    Backlog,       \* the list of the issues in no sprint
    ListOrder,     \* sprints, then the backlog: the order of the lists on the page
    Order0,        \* the lists at first
    Status0,       \* the statuses at first
    States0,       \* the sprints' states at first
    Parallel       \* the project lets sprints run in parallel

List == Sprint \cup {Backlog}

\* No issue is in two of the lists ls, or twice in one.
EachOnce(ls) ==
    \A k, l \in List : \A m \in DOMAIN ls[k], n \in DOMAIN ls[l] : ls[k][m] = ls[l][n] => k = l /\ m = n

ASSUME ServerAssumption ==
    /\ Done \subseteq Status
    /\ Backlog \notin Sprint
    /\ None \notin Issue \cup List
    /\ ListOrder \in Seq(List) /\ Range(ListOrder) = List /\ IsInjective(ListOrder)
    /\ Order0 \in [List -> Seq(Issue)] /\ EachOnce(Order0)
    /\ NoData \notin [List -> Seq(Issue)]
    /\ Status0 \in [Issue -> Status]
    /\ States0 \subseteq [Sprint -> {"future", "active"}]
    /\ Parallel \in BOOLEAN

VARIABLES
    order,      \* the issues of each list, by rank
    status,     \* the status and the version of each issue
    sprints,    \* the state and the version of each sprint
    tab,        \* the panel that is mounted
    view,       \* its load
    fetches,    \* requests of loads that have not been answered
    missed      \* history: what is shown may be behind: a load failed, or a
                \* change went through and its answer was lost

server == <<order, status, sprints>>
page == <<tab, view, fetches, missed>>

Closed == {"closed", "cancelled"}

ServerTypeOK ==
    /\ order \in [List -> Seq(Issue)]
    /\ status \in [Issue -> [is : Status, ver : Nat]]
    /\ sprints \in [Sprint -> [state : {"future", "active"} \cup Closed, ver : Nat]]
    /\ missed \in BOOLEAN

ServerInit ==
    /\ order = Order0
    /\ status = [i \in Issue |-> [is |-> Status0[i], ver |-> 0]]
    /\ \E states \in States0 : sprints = [s \in Sprint |-> [state |-> states[s], ver |-> 0]]

ListOf(lists, i) == CHOOSE k \in List : i \in Range(lists[k])

\* The elements of s that are in X, in their order, and those that are not.
Only(s, X) ==
    LET upto[n \in 0..Len(s)] ==
            IF n = 0 THEN <<>> ELSE IF s[n] \in X THEN Append(upto[n - 1], s[n]) ELSE upto[n - 1]
    IN upto[Len(s)]
Without(s, X) == Only(s, Range(s) \ X)
Position(s, x) == SelectInSeq(s, LAMBDA y : y = x)
Into(s, at, ids) == SubSeq(s, 1, at) \o ids \o SubSeq(s, at + 1, Len(s))

\* The issues ids, put into the list k after the issue before or before the
\* issue after, else on top of the backlog or at the bottom of a sprint.
Placed(lists, ids, k, before, after) ==
    LET rest == Without(lists[k], Range(ids))
        at == IF before # None THEN Position(rest, before)
              ELSE IF after # None THEN Position(rest, after) - 1
              ELSE IF k = Backlog THEN 0 ELSE Len(rest)
    IN [l \in List |-> IF l = k THEN Into(rest, at, ids) ELSE Without(lists[l], Range(ids))]

\* The lists that can still change.
Live(ss) == {Backlog} \cup {s \in Sprint : ss[s].state \notin Closed}

\* A sprint can be started: none is active, unless they may run in parallel.
CanStart(ss) == ~Parallel => \A s \in Sprint : ss[s].state # "active"

\* A neighbour has to be in the list, and not among what moves; a closed
\* sprint takes nothing, and gives nothing away.
Movable(ids, k, before, after) ==
    /\ {before, after} \ {None} \subseteq Range(order[k]) \ Range(ids)
    /\ k \in Live(sprints)
    /\ \A i \in Range(ids) : ListOf(order, i) \in Live(sprints) \cup {k}

ServeMove(ids, k, before, after) ==
    /\ Movable(ids, k, before, after)
    /\ order' = Placed(order, ids, k, before, after)
    /\ UNCHANGED <<status, sprints>>

\* The lists with i at the bottom of the backlog.
Bottomed(i) ==
    [l \in List |-> IF l = Backlog THEN Append(Without(order[l], {i}), i) ELSE Without(order[l], {i})]

\* An issue of an ended sprint is open again.
Reopens(i, to) ==
    /\ \E s \in Sprint : sprints[s].state \in Closed /\ i \in Range(order[s])
    /\ to # status[i].is /\ to \notin Done

\* An issue changes its status, or only its version (a flag); reopened, it goes
\* to the bottom of the backlog.
ServeIssue(i, ver, to) ==
    /\ status[i].ver = ver
    /\ status' = [status EXCEPT ![i] = [is |-> to, ver |-> ver + 1]]
    /\ order' = IF Reopens(i, to) THEN Bottomed(i) ELSE order
    /\ UNCHANGED sprints

OnTop(lists, ids, k, from) ==
    [l \in List |-> IF l = k THEN ids \o lists[k]
                    ELSE IF l = from THEN Without(lists[from], Range(ids)) ELSE lists[l]]

Open(s) == Only(order[s], {i \in Issue : status[i].is \notin Done})

\* Slip: a sprint that is deleted is put in the state of the request's name.
Mut_SprintBecomes(s, state) ==
    sprints' = [sprints EXCEPT ![s] = [state |-> IF state = "cancelled" THEN "delete" ELSE state,
                                       ver |-> @.ver + 1]]

SprintBecomes(s, state) == sprints' = [sprints EXCEPT ![s] = [state |-> state, ver |-> @.ver + 1]]

ServeSprint(kind, s, ver, to) ==
    /\ sprints[s].ver = ver
    /\ \/ /\ kind = "start"
          /\ sprints[s].state = "future" /\ order[s] # <<>>
          /\ CanStart(sprints)
          /\ SprintBecomes(s, "active") /\ UNCHANGED order
       \/ /\ kind = "complete"
          /\ sprints[s].state = "active"
          /\ to \in Live(sprints) \ {s}
          /\ SprintBecomes(s, "closed")
          /\ order' = OnTop(order, Open(s), to, s)
       \/ /\ kind = "delete"
          /\ sprints[s].state \notin Closed
          /\ SprintBecomes(s, "cancelled")
          /\ order' = OnTop(order, order[s], Backlog, s)
       \/ /\ kind = "edit"
          /\ SprintBecomes(s, sprints[s].state) /\ UNCHANGED order
    /\ UNCHANGED status
-----------------------------------------------------------------------------
(* The load of the panel. *)

\* What the server hands out: open sprints in the backlog view, no finished
\* issue in the backlog.
PlanningView == [k \in List |->
                 IF k = Backlog THEN Open(Backlog)
                 ELSE IF k \in Live(sprints) THEN order[k] ELSE <<>>]

\* The backlog panel's data is put together by three statements, between which
\* other requests commit: the open sprints, their issues, the backlog.  It is
\* torn if the lists read are not those the server has at the last.
Opened == [read |-> "sprints", sprints |-> sprints, lists |-> [k \in List |-> <<>>], torn |-> TRUE]

Filled(d) ==
    [d EXCEPT !.read = "issues",
              !.lists = [k \in List |-> IF k \in Live(d.sprints) \ {Backlog} THEN order[k] ELSE <<>>]]

Whole(d) ==
    LET all == [d.lists EXCEPT ![Backlog] = Open(Backlog)]
    IN [d EXCEPT !.read = "all", !.lists = all, !.torn = all # PlanningView]

\* A panel runs its load again: what it asks for now is newer than anything missed.
Reload(v) ==
    /\ view' = Asks(v)
    /\ fetches' = fetches \cup {Request(Asks(v))}
    /\ missed' = FALSE
=============================================================================
