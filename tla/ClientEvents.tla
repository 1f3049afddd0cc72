----------------------------- MODULE ClientEvents -----------------------------
(***************************************************************************)
(* The page of events: views/EventsView.jsx and modals/EventModal.jsx with *)
(* their server, routes/events.py.                                         *)
(*                                                                         *)
(* The page shows all events or the details of one.  Nothing numbers the   *)
(* loads: whichever answer comes is shown, in whatever mode the page then  *)
(* is.  Tasks are picked at the details of an event and added to the event *)
(* whose details are there when the button is pressed.                     *)
(***************************************************************************)
EXTENDS ClientParts, Functions

CONSTANTS
    Event,        \* the events there can be
    Task,
    MaxEdits,     \* bound: how often one event is edited
    MaxReads      \* bound: loads under way when the user asks for another

ASSUME EventsAssumption == {MaxEdits, MaxReads} \subseteq Nat /\ None \notin Event

VARIABLES
    events,       \* the server's, each with its version
    everPlanned,         \* the numbers events ever had
    eventOf,      \* bugs.event_id
    calendar,     \* the state of the view
    eventForm,        \* the event form
    eventReads,   \* loads under way
    eventWrites,  \* saves, deletions and additions under way
    vague,        \* history: what changed or crossed since its latest load
    misfiled      \* history: a task was added to an event it was not picked for

eventsState == <<events, everPlanned, eventOf, calendar, eventForm, eventReads, eventWrites, vague, misfiled>>
server == <<events, everPlanned, eventOf>>

Kinds == {"grid", "detail"}
NoDraft == [open |-> FALSE, id |-> None]

\* The view when it is mounted, and what the history says of it: an answer that
\* was not asked for last came in (late), and the picks outlived their event by
\* more than a step back (turned).
Away == [mount |-> 0, mode |-> "away", grid |-> None, detail |-> None, opened |-> None,
         filter |-> None, typed |-> None, picked |-> {}, adding |-> FALSE, asking |-> None,
         late |-> FALSE, turned |-> FALSE]

EventsTypeOK ==
    /\ DOMAIN events \subseteq Event /\ \A e \in DOMAIN events : events[e] \in 0..MaxEdits
    /\ DOMAIN events \subseteq everPlanned /\ everPlanned \subseteq Event
    /\ eventOf \in [Task -> Event \cup {None}]
    /\ DOMAIN calendar = DOMAIN Away
    /\ calendar.mode \in {"away", "list", "detail"} /\ calendar.mount \in Nat
    /\ {calendar.opened, calendar.filter, calendar.typed, calendar.asking} \subseteq Event \cup {None}
    /\ eventForm.id \in Event \cup {None} /\ eventForm.open \in BOOLEAN
    /\ vague \subseteq Kinds /\ misfiled \in BOOLEAN

\* The list came, and its first event was opened.
EventsInit ==
    LET first == CHOOSE e \in Event : TRUE
        row(e) == [id |-> e, ver |-> 0, tasks |-> {}]
    IN /\ everPlanned \in {s \in SUBSET Event : first \in s} /\ events = [e \in everPlanned |-> 0]
       /\ eventOf = [t \in Task |-> None]
       /\ calendar = [Away EXCEPT !.mode = "detail", !.opened = first, !.grid = [e \in everPlanned |-> row(e)]]
       /\ eventForm = NoDraft
       /\ eventReads = {[n |-> 0, of |-> "detail", id |-> first, how |-> "open", then |-> None,
                         mount |-> 0, served |-> FALSE, got |-> None]}
       /\ eventWrites = {} /\ vague = {} /\ misfiled = FALSE
-----------------------------------------------------------------------------
(* Loads. *)

EventRow(e) == [id |-> e, ver |-> events[e], tasks |-> {t \in Task : eventOf[t] = e}]

Unused == CHOOSE k \in 0..Cardinality(eventReads) : \A q \in eventReads : q.n # k

\* A load; one that is asked for by a save opens the saved event when it ends.
Reading(of, id, how, then) ==
    [n |-> Unused, of |-> of, id |-> id, how |-> how, then |-> then,
     mount |-> calendar.mount, served |-> FALSE, got |-> None]
GridRead == Reading("grid", None, "open", None)
DetailRead(e) == Reading("detail", e, "open", None)

\* Loads begin beside those that are under way.
Begins(others, new) ==
    /\ eventReads' = others \cup new
    /\ vague' = {k \in Kinds : IF \E q \in new : q.of = k THEN \E r \in others : r.of = k
                               ELSE k \in vague}

\* Slip: what was chosen at one event stays for the next.
Mut_Opening(c, e) == [c EXCEPT !.opened = e, !.mode = "detail", !.detail = None]

\* The details of e are asked for: what narrows those of another event is
\* cleared, except a search that was typed and is not yet applied.
Opening(c, e) ==
    [c EXCEPT !.filter = IF c.opened = e THEN @ ELSE None,
              !.late = @ /\ c.opened = e,
              !.opened = e, !.mode = "detail", !.detail = None]

\* The page turns to e by itself, under what may have been picked at another.
Turning(c, e) == [Opening(c, e) EXCEPT !.turned = @ \/ c.picked # {}]

\* Slip: the picks are kept.
Mut_ListMode(c) == [c EXCEPT !.mode = "list", !.detail = None, !.opened = None, !.late = FALSE]

ListMode(c) ==
    [c EXCEPT !.mode = "list", !.detail = None, !.opened = None, !.picked = {},
              !.late = FALSE, !.turned = FALSE]

EventServed(q) ==
    /\ ~q.served
    /\ eventReads' = (eventReads \ {q}) \cup
         {[q EXCEPT !.served = TRUE,
                    !.got = IF q.of = "grid" THEN [e \in DOMAIN events |-> EventRow(e)]
                            ELSE IF q.id \in DOMAIN events THEN EventRow(q.id) ELSE None]}
    /\ UNCHANGED <<server, calendar, eventForm, eventWrites, vague, misfiled>>

\* A load of the grid has ended, and if it is a save's, the event is opened.
GridEnds(q, grid) ==
    LET c == [calendar EXCEPT !.grid = grid] IN
    IF q.then = None THEN calendar' = c /\ Begins(eventReads \ {q}, {})
    ELSE /\ calendar' = Turning(c, q.then)
         /\ Begins(eventReads \ {q}, {DetailRead(q.then)})

\* It is shown whatever the page shows meanwhile.
DetailEnds(q) ==
    LET strays == calendar.opened # q.id \/ (calendar.detail # None /\ calendar.detail.id # q.id)
    IN /\ calendar' = [calendar EXCEPT !.detail = q.got, !.late = @ \/ calendar.opened # q.id,
                                       !.turned = @ \/ (strays /\ calendar.picked # {})]
       /\ Begins(eventReads \ {q}, {})

\* An answer for a view that is gone is dropped.
EventArrives(q) ==
    /\ q.served /\ (q.of = "detail" => q.got # None)
    /\ IF q.mount # calendar.mount \/ calendar.mode = "away"
       THEN eventReads' = eventReads \ {q} /\ UNCHANGED <<calendar, vague>>
       ELSE IF q.of = "grid" THEN GridEnds(q, q.got) ELSE DetailEnds(q)
    /\ UNCHANGED <<server, eventForm, eventWrites, misfiled>>

\* The grid is blanked; details that were asked for bring the list back, with
\* the picks still there; a failed poll of the details keeps them.
EventFails(q) ==
    /\ q.of = "detail" /\ q.served => q.got = None
    /\ q.of = "grid" => ~q.served
    /\ IF q.mount # calendar.mount \/ calendar.mode = "away"
       THEN eventReads' = eventReads \ {q} /\ UNCHANGED <<calendar, vague>>
       ELSE IF q.of = "grid" THEN GridEnds(q, None)
       ELSE /\ calendar' = IF q.how = "poll" THEN calendar
                           ELSE [calendar EXCEPT !.mode = "list", !.turned = @ \/ calendar.picked # {}]
            /\ eventReads' = eventReads \ {q} /\ vague' = Kinds
    /\ UNCHANGED <<server, eventForm, eventWrites, misfiled>>
-----------------------------------------------------------------------------
(* Moving about. *)

Mounted == calendar.mode # "away"
Calm == Cardinality(eventReads) <= MaxReads
AtDetail == calendar.mode = "detail" /\ calendar.detail # None

\* Neither the form nor a question lies over the page.
Bare == ~eventForm.open /\ calendar.asking = None

Stays == UNCHANGED <<server, eventWrites, misfiled>>

\* The view is mounted.  A link to an event is followed first, and then the
\* view shows the list, as always when it is entered.
EnterView(link) ==
    /\ ~Mounted
    /\ calendar' = ListMode(IF link = None THEN [Away EXCEPT !.mount = calendar.mount + 1]
                            ELSE Opening([Away EXCEPT !.mount = calendar.mount + 1], link))
    /\ LET of(q) == [q EXCEPT !.mount = calendar.mount + 1]
       IN eventReads' = eventReads \cup {of(GridRead)} \cup (IF link = None THEN {} ELSE {of(DetailRead(link))})
    /\ vague' = {}
    /\ eventForm' = NoDraft /\ Stays

LeaveView ==
    /\ Mounted /\ Bare
    /\ calendar' = [Away EXCEPT !.mount = calendar.mount]
    /\ eventForm' = NoDraft /\ UNCHANGED <<eventReads, vague>> /\ Stays

OpenEvent(e) ==
    /\ calendar.mode = "list" /\ Bare /\ Calm /\ calendar.grid # None /\ e \in DOMAIN calendar.grid
    /\ calendar' = Opening(calendar, e) /\ Begins(eventReads, {DetailRead(e)})
    /\ UNCHANGED eventForm /\ Stays

\* A link to an event when the view is there.
FollowLink(e) ==
    /\ Mounted /\ Calm
    /\ calendar' = Turning(calendar, e)
    /\ Begins(eventReads, {DetailRead(e)})
    /\ UNCHANGED eventForm /\ Stays

Back ==
    /\ calendar.mode = "detail" /\ Bare
    /\ calendar' = ListMode(calendar) /\ Begins(eventReads, {GridRead})
    /\ UNCHANGED eventForm /\ Stays

EventsPoll ==
    /\ Mounted
    /\ Begins(eventReads, {IF AtDetail THEN Reading("detail", calendar.detail.id, "poll", None) ELSE GridRead})
    /\ UNCHANGED <<calendar, eventForm>> /\ Stays

\* The item dialog closes over the details; a task may have been moved by it.
ItemCloses(t, e) ==
    /\ AtDetail /\ e \in DOMAIN events \cup {None} /\ e # eventOf[t]
    /\ eventOf' = [eventOf EXCEPT ![t] = e]
    /\ calendar' = Opening(calendar, calendar.detail.id)
    /\ Begins(eventReads, {DetailRead(calendar.detail.id)})
    /\ UNCHANGED <<events, everPlanned, eventForm, eventWrites, misfiled>>
-----------------------------------------------------------------------------
(* Filters: a choice is applied at once, a search when its timer fires. *)

\* The event the user sees, or waits for.
Seen == IF calendar.detail = None THEN calendar.opened ELSE calendar.detail.id

Chooses == calendar' = [calendar EXCEPT !.filter = Seen]
Searches == calendar' = [calendar EXCEPT !.typed = Seen]
ClearsFilters == calendar' = [calendar EXCEPT !.filter = None]

Narrows ==
    /\ calendar.mode = "detail" /\ Bare
    /\ Chooses \/ Searches \/ ClearsFilters
    /\ UNCHANGED <<eventForm, eventReads, vague>> /\ Stays

SearchApplies ==
    /\ Mounted /\ calendar.typed # None
    /\ calendar' = [calendar EXCEPT !.filter = calendar.typed, !.typed = None,
                                    !.late = @ \/ calendar.typed # calendar.opened]
    /\ UNCHANGED <<eventForm, eventReads, vague>> /\ Stays
-----------------------------------------------------------------------------
(* Adding tasks that exist. *)

PickTask(t) ==
    /\ AtDetail /\ Bare /\ ~calendar.adding /\ t \notin calendar.detail.tasks
    /\ calendar' = [calendar EXCEPT !.picked = @ \cup {[task |-> t, under |-> calendar.detail.id]}]
    /\ UNCHANGED <<eventForm, eventReads, vague>> /\ Stays

Writing(kind, id, tasks, reopens) ==
    [kind |-> kind, id |-> id, left |-> tasks, reopens |-> reopens, answer |-> "none", mount |-> calendar.mount]

\* One request for each, side by side.
AddExistingTasks ==
    /\ AtDetail /\ Bare /\ calendar.picked # {} /\ ~calendar.adding
    /\ calendar' = [calendar EXCEPT !.adding = TRUE]
    /\ eventWrites' = eventWrites \cup {Writing("add", calendar.detail.id, {x.task : x \in calendar.picked}, TRUE)}
    /\ misfiled' = (misfiled \/ (~calendar.turned /\ \E x \in calendar.picked : x.under # calendar.detail.id))
    /\ UNCHANGED <<server, eventForm, eventReads, vague>>

OfView(w) == w.mount = calendar.mount /\ Mounted

\* The first request that fails ends it for the page; the others go on.
AddFailed(w, rest) ==
    /\ calendar' = IF OfView(w) THEN [calendar EXCEPT !.adding = FALSE] ELSE calendar
    /\ eventWrites' = (eventWrites \ {w}) \cup (IF rest = {} THEN {} ELSE {[w EXCEPT !.left = rest, !.answer = "failed"]})
    /\ vague' = Kinds

TaskAdded(w, t, lost) ==
    /\ w.kind = "add" /\ t \in w.left /\ w.id \in DOMAIN events
    /\ eventOf' = [eventOf EXCEPT ![t] = w.id]
    /\ IF lost THEN AddFailed(w, w.left \ {t})
       ELSE /\ eventWrites' = (eventWrites \ {w}) \cup
                 (IF w.left = {t} /\ w.answer = "failed" THEN {} ELSE {[w EXCEPT !.left = @ \ {t}]})
            /\ vague' = IF OfView(w) /\ w.answer = "none" THEN vague ELSE Kinds
            /\ UNCHANGED calendar
    /\ UNCHANGED <<events, everPlanned, eventForm, eventReads, misfiled>>

TaskRefused(w, t) ==
    /\ w.kind = "add" /\ t \in w.left
    /\ AddFailed(w, w.left \ {t})
    /\ UNCHANGED <<server, eventForm, eventReads, misfiled>>

\* The picks are dropped and the event they went to is opened, whatever the page
\* has turned to.
TasksAdded(w) ==
    /\ w.kind = "add" /\ w.left = {} /\ w.answer = "none"
    /\ eventWrites' = eventWrites \ {w}
    /\ IF OfView(w)
       THEN /\ calendar' = Opening([calendar EXCEPT !.adding = FALSE, !.picked = {}, !.turned = FALSE], w.id)
            /\ Begins(eventReads, {DetailRead(w.id)})
       ELSE UNCHANGED <<calendar, eventReads, vague>>
    /\ UNCHANGED <<server, eventForm, misfiled>>
-----------------------------------------------------------------------------
(* The form, and deletion. *)

OpensDraft(id) ==
    /\ Bare
    /\ IF id = None THEN calendar.mode = "list" ELSE AtDetail /\ calendar.detail.id = id
    /\ eventForm' = [open |-> TRUE, id |-> id]

ClosesDraft == eventForm.open /\ eventForm' = NoDraft

Drafts ==
    /\ (\E id \in Event \cup {None} : OpensDraft(id)) \/ ClosesDraft
    /\ UNCHANGED <<calendar, eventReads, vague>> /\ Stays

\* Whether the saved event is opened depends on the details there are at the
\* press, though the page shows the list.
SubmitEvent ==
    /\ eventForm.open
    /\ eventWrites' = eventWrites \cup
         {Writing("save", eventForm.id, {}, calendar.detail = None \/ (AtDetail /\ calendar.detail.id = eventForm.id))}
    /\ UNCHANGED <<server, calendar, eventForm, eventReads, vague, misfiled>>

AskDelete ==
    /\ AtDetail /\ Bare
    /\ calendar' = [calendar EXCEPT !.asking = calendar.detail.id]
    /\ UNCHANGED <<eventForm, eventReads, vague>> /\ Stays

AnswerDelete(yes) ==
    /\ calendar.asking # None
    /\ calendar' = [calendar EXCEPT !.asking = None]
    /\ eventWrites' = eventWrites \cup (IF yes THEN {Writing("delete", calendar.asking, {}, FALSE)} ELSE {})
    /\ UNCHANGED <<server, eventForm, eventReads, vague, misfiled>>

Without(e) ==
    /\ events' = Restrict(events, DOMAIN events \ {e})
    /\ eventOf' = [t \in Task |-> IF eventOf[t] = e THEN None ELSE eventOf[t]]
    /\ UNCHANGED everPlanned

\* A save or a deletion is carried out, whether or not its answer comes back.
EventWritten(w) ==
    /\ w.answer = "none" /\ w.kind # "add"
    /\ \E how \in {"ok", "lost"} :
         /\ vague' = IF how = "lost" \/ ~OfView(w) THEN Kinds ELSE vague
         /\ \/ /\ w.kind = "save" /\ w.id = None
               /\ \E e \in Event \ everPlanned :
                    /\ events' = Put(events, e, 0) /\ everPlanned' = everPlanned \cup {e} /\ UNCHANGED eventOf
                    /\ eventWrites' = (eventWrites \ {w}) \cup {[w EXCEPT !.answer = how, !.id = e]}
            \/ /\ w.id \in DOMAIN events
               /\ \/ /\ w.kind = "save" /\ events[w.id] < MaxEdits
                     /\ events' = [events EXCEPT ![w.id] = @ + 1] /\ UNCHANGED <<everPlanned, eventOf>>
                  \/ w.kind = "delete" /\ Without(w.id)
               /\ eventWrites' = (eventWrites \ {w}) \cup {[w EXCEPT !.answer = how]}
    /\ UNCHANGED <<calendar, eventForm, eventReads, misfiled>>

\* Refused, or its answer is lost: the page says so and stays.
EventNotWritten(w) ==
    /\ w.kind # "add" /\ w.answer \in {"none", "lost"}
    /\ eventWrites' = eventWrites \ {w}
    /\ UNCHANGED <<server, calendar, eventForm, eventReads, vague, misfiled>>

\* The form closes, whichever it is, and the grid is loaded before an event is
\* opened.  Details the page turned to after the press are not.
EventSaved(w) ==
    /\ w.kind = "save" /\ w.answer = "ok"
    /\ eventWrites' = eventWrites \ {w}
    /\ IF OfView(w)
       THEN /\ eventForm' = NoDraft
            /\ IF w.reopens THEN Begins(eventReads, {Reading("grid", None, "open", w.id)})
               ELSE eventReads' = eventReads \cup {GridRead} /\ vague' = Kinds
       ELSE UNCHANGED <<eventForm, eventReads, vague>>
    /\ UNCHANGED <<server, calendar, misfiled>>

EventDeleted(w) ==
    /\ w.kind = "delete" /\ w.answer = "ok"
    /\ eventWrites' = eventWrites \ {w}
    /\ IF OfView(w) THEN calendar' = ListMode(calendar) /\ Begins(eventReads, {GridRead})
       ELSE UNCHANGED <<calendar, eventReads, vague>>
    /\ UNCHANGED <<server, eventForm, misfiled>>

\* Someone else deletes an event.
OthersDelete ==
    /\ \E e \in DOMAIN events : Without(e)
    /\ vague' = Kinds
    /\ UNCHANGED <<calendar, eventForm, eventReads, eventWrites, misfiled>>
-----------------------------------------------------------------------------
EventsUser ==
    \/ \E e \in Event \cup {None} : EnterView(e)
    \/ \E e \in Event : OpenEvent(e) \/ FollowLink(e)
    \/ \E t \in Task : PickTask(t) \/ \E e \in Event \cup {None} : ItemCloses(t, e)
    \/ \E yes \in BOOLEAN : AnswerDelete(yes)
    \/ LeaveView \/ Back \/ (Calm /\ EventsPoll) \/ Narrows \/ Drafts \/ AddExistingTasks \/ SubmitEvent \/ AskDelete
    \/ OthersDelete

EventsAnswers ==
    \/ \E q \in eventReads : EventServed(q) \/ EventArrives(q) \/ EventFails(q)
    \/ \E w \in eventWrites : \/ EventWritten(w) \/ EventNotWritten(w) \/ EventSaved(w) \/ EventDeleted(w)
                              \/ TasksAdded(w)
                              \/ \E t \in Task : TaskRefused(w, t) \/ \E lost \in BOOLEAN : TaskAdded(w, t, lost)
    \/ SearchApplies
-----------------------------------------------------------------------------
(* Properties. *)

\* A task is added to the event it was picked for, unless a link, or an answer
\* or failure that came late, put another event under the picks.
TasksWherePicked == ~misfiled

\* What narrows the tasks shown was chosen for their event, unless an answer
\* came late or a search was applied after the turn.
FiltersOwn == AtDetail /\ ~calendar.late => calendar.filter \in {None, calendar.detail.id}

\* With nothing under way, the details are the server's and of the event that
\* was opened, and the list is the server's or blank, unless someone else
\* changed something, as what the user asked for before leaving the page does,
\* an answer was lost, loads crossed, or a task was added after the addition of
\* another that was picked with it had failed: nothing is loaded again then.
EventsSettle ==
    eventReads = {} /\ eventWrites = {} =>
        /\ calendar.mode = "detail" /\ "detail" \notin vague =>
             /\ calendar.detail # None
             /\ calendar.detail.id \in DOMAIN events /\ calendar.detail = EventRow(calendar.detail.id)
             /\ calendar.late \/ calendar.detail.id = calendar.opened
        /\ calendar.mode = "list" /\ "grid" \notin vague =>
             calendar.grid \in {None, [e \in DOMAIN events |-> EventRow(e)]}

EventsRight == TasksWherePicked /\ FiltersOwn /\ EventsSettle
=============================================================================
