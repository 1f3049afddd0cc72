----------------------------- MODULE ItemDialog -----------------------------
(***************************************************************************)
(* The work item dialog of the web client (modals/BugModal.jsx with the    *)
(* modal part of state/AppContext.jsx) beside the server's rows and other  *)
(* people's edits.                                                         *)
(*                                                                         *)
(* The form is seeded once, when the dialog opens or turns to another      *)
(* item; later copies of the item (the 30 second poll, the reload after an *)
(* action) replace what is shown beside it and leave the form alone.  A    *)
(* save is a chain of requests, each guarded by the version the one before *)
(* it returned; the version lives in a ref that outlives the seeding.      *)
(* Answers come late and in any order, or not at all.  The loader's        *)
(* overlay catches clicks, not keys: Escape closes the dialog and Enter    *)
(* saves again while a save is under way.                                  *)
(*                                                                         *)
(* Titles, texts, dates and people are "complete" or not; each project has *)
(* one sprint and one epic (or parent) of its own, named after it.         *)
(***************************************************************************)
EXTENDS Naturals, FiniteSets

CONSTANTS
    Item,          \* ids an item ever has
    Project,
    Press,         \* presses of Save that may be under way together
    None,          \* nothing picked, no item, no version
    Role,          \* of the user: member, manager or admin
    Kinds,         \* the kinds of item in use
    Initial,       \* the items there are at first, with their project and kind
    MaxForeign,    \* edits by others, of one item
    MaxGone,       \* items others delete
    MaxInputs,     \* what the user does in a behaviour: clicks, picks, presses
    MaxGets        \* copies of items under way

Kind == {"plain", "story", "subtask", "epic"}
AgileOnly(k) == k \in {"story", "subtask", "epic"}
Standard(k) == k \in {"plain", "story"}

ASSUME DialogAssumption ==
    /\ None \notin Item \cup Project \cup Nat
    /\ Project # {}
    /\ Role \in {"member", "manager", "admin"}
    /\ Kinds \subseteq Kind
    /\ "plain" \in Kinds
    /\ DOMAIN Initial \subseteq Item
    /\ \A i \in DOMAIN Initial : Initial[i] \in [proj : Project, kind : Kinds]
    /\ MaxForeign \in Nat
    /\ MaxGone \in Nat
    /\ MaxInputs \in Nat
    /\ MaxGets \in Nat

VARIABLES
    row,         \* bugs: version (0: no such item), project, kind, epic or
                 \* parent, sprint; and how many of its edits were others'
    gone,        \* ids of deleted items
    modal,       \* bugModal: open, the item shown and the copy of it held
    form,        \* the fields of the dialog
    expected,    \* expectedVersionRef
    offers,      \* projectAgile, availableSprints, availableEpics, and the
                 \* project they are being loaded for
    gets,        \* copies of items on their way
    save,        \* what each press of Save is doing
    sprintOp,    \* the add to or removal from a sprint under way
    inputs,      \* history: what the user has done so far, counted
    crossed,     \* history: a save begun under another seeding has since put
                 \* its version into expected
    sure,        \* history: every write of this dialog to the item shown is
                 \* one the form knows of, and they came one after the other
    overwrote    \* history: a save overwrote an edit its form never showed, and
                 \* not because a version of another seeding was sent

vars == <<row, gone, modal, form, expected, offers, gets, save, sprintOp, inputs,
          crossed, sure, overwrote>>

canManage == Role \in {"manager", "admin"}
isAdmin == Role = "admin"

\* Who may edit an item: a member keeps to bugs (the plain kind; requirements and
\* tasks differ from it only in this).
CanEdit(k) == canManage \/ k = "plain"

Exists(i) == row[i].ver > 0

Pick == Project \cup {None}
Rows == [ver : Nat, proj : Project, kind : Kind, up : Pick, sprint : Pick, foreign : Nat]
NoRow == [ver |-> 0, proj |-> CHOOSE p \in Project : TRUE, kind |-> "plain",
          up |-> None, sprint |-> None, foreign |-> 0]

\* A row the server has or had, and how many of its edits were this user's.
Own(r) == r.ver - r.foreign

Forms == [proj : Project, kind : Kind, up : Pick, sprint : Pick, complete : BOOLEAN,
          custom : BOOLEAN, preset : Pick, seen : Nat]

Step == {"put", "post", "link", "sprint", "custom"}
Idle == [step |-> "idle"]
Saving == [step : Step, sent : BOOLEAN, live : BOOLEAN, tainted : BOOLEAN,
           id : Item \cup {None}, ver : Nat \cup {None},
           form : Forms, was : Rows, pick : Pick]
Running(n) == save[n] # Idle

Modals == [open : BOOLEAN, id : Item \cup {None}, copy : Rows]
Offers == [agile : {"unknown", "on", "off"}, sprints : SUBSET Project,
           epics : SUBSET Project, loading : Pick]
Gets == [why : {"open", "reload"}, id : Item, copy : Rows]
SprintOps == [op : {"none", "add", "remove"}, id : Item \cup {None}, sprint : Pick]

TypeOK ==
    /\ row \in [Item -> Rows]
    /\ gone \subseteq Item
    /\ modal \in Modals
    /\ form \in Forms
    /\ expected \in Nat \cup {None}
    /\ offers \in Offers
    /\ gets \subseteq Gets
    /\ save \in [Press -> Saving \cup {Idle}]
    /\ sprintOp \in SprintOps
    /\ inputs \in Nat
    /\ crossed \in BOOLEAN
    /\ sure \in BOOLEAN
    /\ overwrote \in BOOLEAN
-----------------------------------------------------------------------------
(* Seeding. *)

SeedEdit(copy) ==
    [proj |-> copy.proj, kind |-> copy.kind, up |-> copy.up, sprint |-> None,
     complete |-> TRUE, custom |-> FALSE, preset |-> None, seen |-> copy.foreign]

SeedCreate(p, k, s) ==
    [proj |-> p, kind |-> k, up |-> None, sprint |-> s, complete |-> FALSE,
     custom |-> FALSE, preset |-> s, seen |-> 0]

\* The form becomes f.  Saves still under way belong to another seeding now.
Seed(m, f) ==
    /\ form' = f
    /\ expected' = IF m.id = None THEN None ELSE m.copy.ver
    /\ save' = [n \in Press |-> IF Running(n) THEN [save[n] EXCEPT !.live = FALSE] ELSE Idle]
    /\ crossed' = FALSE
    /\ sure' = (m.id # None => Own(m.copy) = Own(row[m.id]))

Seeds(m) == m.open /\ (~modal.open \/ m.id # modal.id)

\* Slip: a newer copy of the item shown takes the version along, not the fields.
Mut_Show(m, f) ==
    /\ modal' = m
    /\ IF Seeds(m) THEN Seed(m, f)
                   ELSE /\ expected' = IF m.id = None THEN expected ELSE m.copy.ver
                        /\ UNCHANGED <<form, save, crossed, sure>>

\* The dialog shows m.  The effect keyed on [open, bugId] seeds the form when the
\* dialog opens or turns to another item, and only then.
Show(m, f) ==
    /\ modal' = m
    /\ IF Seeds(m) THEN Seed(m, f) ELSE UNCHANGED <<form, expected, save, crossed, sure>>

\* What the effect that loads the project's sprints and epics depends on.
OfferKey(m, f) == <<m.open, m.id, IF m.id # None THEN m.copy.proj ELSE f.proj, f.proj>>

NoOffers == [agile |-> "unknown", sprints |-> {}, epics |-> {}, loading |-> None]

\* When its key changes it forgets whether Agile is on and loads again; what was
\* offered stays offered until the answer comes.
Reoffer ==
    offers' = IF ~modal'.open THEN NoOffers
              ELSE IF OfferKey(modal', form') = OfferKey(modal, form) THEN offers
              ELSE [offers EXCEPT !.agile = "unknown", !.loading = OfferKey(modal', form')[3]]

Closed == [open |-> FALSE, id |-> None, copy |-> NoRow]

CloseBugModal == Show(Closed, form) /\ Reoffer
-----------------------------------------------------------------------------
(* Opening, reloading and closing: state/AppContext.jsx. *)

served == <<row, gone, overwrote>>

Fetch(why, i) ==
    /\ Exists(i)
    /\ Cardinality(gets) < MaxGets
    /\ gets' = gets \cup {[why |-> why, id |-> i, copy |-> row[i]]}

\* A list row, a link, a notification or a deep link: the dialog opens when the
\* answer comes.
OpenDetail(i) ==
    /\ Fetch("open", i)
    /\ UNCHANGED <<served, modal, form, expected, offers, save, sprintOp, crossed, sure>>

OpenAnswer(g) ==
    /\ g.why = "open"
    /\ gets' = gets \ {g}
    /\ Show([open |-> TRUE, id |-> g.id, copy |-> g.copy], SeedEdit(g.copy))
    /\ Reoffer
    /\ UNCHANGED <<served, sprintOp>>

\* The poll every 30 seconds and on return to the page, and every action's reload.
Poll ==
    /\ modal.open /\ modal.id # None
    /\ Fetch("reload", modal.id)
    /\ UNCHANGED <<served, modal, form, expected, offers, save, sprintOp, crossed, sure>>

\* The copy goes into whatever the dialog now is: {...prev, bug}.
ReloadAnswer(g) ==
    /\ g.why = "reload"
    /\ gets' = gets \ {g}
    /\ Show([modal EXCEPT !.id = g.id, !.copy = g.copy], SeedEdit(g.copy))
    /\ Reoffer
    /\ UNCHANGED <<served, sprintOp>>

\* The read fails: a message, nothing else.
GetFails(g) ==
    /\ gets' = gets \ {g}
    /\ UNCHANGED <<served, modal, form, expected, offers, save, sprintOp, crossed, sure>>

\* A new item for project p, possibly for its sprint.
OpenForm(p, k, s) ==
    /\ ~modal.open
    /\ s \in {None, p}
    /\ Show([open |-> TRUE, id |-> None, copy |-> NoRow], SeedCreate(p, k, s))
    /\ Reoffer
    /\ UNCHANGED <<served, gets, sprintOp>>

\* Cancel, the close button or Escape; Escape also while the loader is up.
Close ==
    /\ modal.open
    /\ CloseBugModal
    /\ UNCHANGED <<served, gets, sprintOp>>
-----------------------------------------------------------------------------
(* Filling the form in. *)

unfilled == <<row, gone, overwrote, gets, save, sprintOp, crossed, sure, expected>>

ReadOnly == modal.id # None /\ ~CanEdit(modal.copy.kind)

Writable == modal.open /\ ~ReadOnly

\* A title and the required custom fields are filled in.
Fill ==
    /\ Writable /\ ~form.complete
    /\ form' = [form EXCEPT !.complete = TRUE]
    /\ UNCHANGED <<unfilled, modal, offers>>

\* A custom field is typed in: its values are now dirty.
EditCustom ==
    /\ Writable
    /\ form' = [form EXCEPT !.custom = TRUE]
    /\ UNCHANGED <<unfilled, modal, offers>>

\* The custom fields load afresh; a new item drops the picks made for the former
\* project unless they were preset for this one.
ChooseProject(p) ==
    /\ Writable /\ p # form.proj
    /\ form' = IF modal.id # None
               THEN [form EXCEPT !.proj = p, !.custom = FALSE]
               ELSE [form EXCEPT !.proj = p, !.custom = FALSE, !.up = None,
                                 !.sprint = IF @ = form.preset /\ p = form.preset THEN @ ELSE None]
    /\ modal' = modal
    /\ Reoffer
    /\ UNCHANGED unfilled

\* The types offered: same-table conversions for an item, what the project's
\* Agile setting allows for a new one.
ChooseKind(k) ==
    /\ Writable /\ k # form.kind
    /\ IF modal.id # None THEN Standard(form.kind) /\ Standard(k)
                          ELSE offers.agile = "off" => ~AgileOnly(k)
    /\ form' = [form EXCEPT !.kind = k]
    /\ UNCHANGED <<unfilled, modal, offers>>

\* An epic that is offered, for a standard issue; a parent found in the project,
\* for a Sub-task.
PickUp(u) ==
    /\ Writable /\ u # form.up
    /\ \/ Standard(form.kind) /\ u \in offers.epics \cup {None}
       \/ form.kind = "subtask" /\ u \in {form.proj, None}
    /\ form' = [form EXCEPT !.up = u]
    /\ UNCHANGED <<unfilled, modal, offers>>

\* The sprint field of a standard issue is a picker for those who plan sprints.
SprintPicker ==
    /\ Writable /\ canManage
    /\ Standard(form.kind)
    /\ modal.id # None => modal.copy.sprint = None /\ sprintOp.op = "none"

PickSprint(s) ==
    /\ SprintPicker /\ s # form.sprint
    /\ s \in offers.sprints \cup {None}
    /\ form' = [form EXCEPT !.sprint = s]
    /\ UNCHANGED <<unfilled, modal, offers>>

Off(f) == [f EXCEPT !.kind = IF AgileOnly(@) THEN "plain" ELSE @]

\* The settings, then the sprints and the epics, of the project asked for last;
\* a new item's type falls back when Agile turns out to be off.
OffersAnswer(agile) ==
    /\ offers.loading # None
    /\ LET p == offers.loading
       IN offers' = CASE agile = "on"  -> [agile |-> "on", sprints |-> {p}, epics |-> {p}, loading |-> None]
                      [] agile = "off" -> [NoOffers EXCEPT !.agile = "off"]
    /\ form' = IF agile = "off" /\ modal.id = None THEN Off(form) ELSE form
    /\ UNCHANGED <<unfilled, modal>>

\* One of the three reads fails: no sprints; the epics stay as they were.
OffersFail(agile) ==
    /\ offers.loading # None
    /\ offers' = [offers EXCEPT !.agile = agile, !.sprints = {}, !.loading = None]
    /\ UNCHANGED <<unfilled, modal, form>>

\* The button beside the hint that the project has no Agile.
EnableAgile ==
    /\ modal.open /\ modal.id = None
    /\ canManage /\ offers.agile = "off"
    /\ offers' = [offers EXCEPT !.agile = "on"]
    /\ UNCHANGED <<unfilled, modal, form>>
-----------------------------------------------------------------------------
(* The item's sprint, changed at once. *)

local == <<modal, expected, offers, save, crossed, sure>>
NoSprintOp == [op |-> "none", id |-> None, sprint |-> None]

AddToSprint ==
    /\ SprintPicker /\ modal.id # None
    /\ form.sprint # None
    /\ sprintOp' = [op |-> "add", id |-> modal.id, sprint |-> form.sprint]
    /\ UNCHANGED <<served, local, form, gets>>

RemoveFromSprint ==
    /\ Writable /\ canManage
    /\ modal.id # None /\ modal.copy.sprint # None
    /\ Standard(form.kind)
    /\ sprintOp.op = "none"
    /\ sprintOp' = [op |-> "remove", id |-> modal.id, sprint |-> modal.copy.sprint]
    /\ UNCHANGED <<served, local, form, gets>>

\* The server puts standard issues into sprints of their project, without a new
\* version.
Plannable(i, p) == Exists(i) /\ row[i].proj = p /\ Standard(row[i].kind)

Reload(i, rows) ==
    gets' = IF Cardinality(gets) < MaxGets /\ rows[i].ver > 0
            THEN gets \cup {[why |-> "reload", id |-> i, copy |-> rows[i]]} ELSE gets

SprintOpDone ==
    LET q == sprintOp
        moved == [row EXCEPT ![q.id].sprint = IF q.op = "add" THEN q.sprint ELSE None]
    IN /\ q.op # "none" /\ Plannable(q.id, q.sprint)
       /\ row' = moved
       /\ form' = IF q.op = "add" THEN [form EXCEPT !.sprint = None] ELSE form
       /\ Reload(q.id, moved)
       /\ sprintOp' = NoSprintOp
       /\ UNCHANGED <<gone, overwrote, local>>

\* Refused, or nobody knows: the answer is lost.
SprintOpFails ==
    LET q == sprintOp
    IN /\ q.op # "none"
       /\ \/ row' = row
          \/ /\ Plannable(q.id, q.sprint)
             /\ row' = [row EXCEPT ![q.id].sprint = IF q.op = "add" THEN q.sprint ELSE None]
       /\ sprintOp' = NoSprintOp
       /\ UNCHANGED <<gone, overwrote, local, form, gets>>
-----------------------------------------------------------------------------
(* Save: onSubmit. *)

dialog == <<modal, form, expected, offers, sure, crossed>>

Editing(s) == s.was.ver > 0

\* Only a sprint that is offered counts.
SprintChosen ==
    IF canManage /\ form.sprint \in offers.sprints THEN form.sprint ELSE None

\* The first request carries the version of the ref; everything else is read from
\* this rendering of the dialog.
Submit(n) ==
    /\ Writable /\ form.complete
    /\ ~Running(n)
    /\ modal.id = None /\ form.kind = "subtask" => form.up # None
    /\ save' = [save EXCEPT ![n] =
                  [step |-> IF modal.id # None THEN "put" ELSE "post",
                   sent |-> TRUE, live |-> TRUE, tainted |-> crossed, id |-> modal.id,
                   ver |-> expected, form |-> form, pick |-> SprintChosen,
                   was |-> IF modal.id # None THEN modal.copy ELSE NoRow]]
    /\ sure' = (sure /\ \A m \in Press : Running(m) => save[m].id # modal.id)
    /\ UNCHANGED <<served, modal, form, expected, offers, crossed, gets, sprintOp>>

\* The chain of requests, each only if there is something for it to do.
Relinks(s) ==
    IF Editing(s)
    THEN \/ Standard(s.form.kind) /\ s.form.up # s.was.up
         \/ s.form.kind = "subtask" /\ s.form.up \notin {None, s.was.up}
    ELSE s.form.kind = "plain" /\ s.form.up # None

Replans(s) ==
    /\ Standard(s.form.kind) /\ s.pick # None
    /\ IF Editing(s) THEN s.pick # s.was.sprint ELSE s.form.kind = "plain"

\* The steps that may come after one.
After(step) ==
    CASE step \in {"put", "post"} -> {"link", "sprint", "custom"}
      [] step = "link" -> {"sprint", "custom"}
      [] step = "sprint" -> {"custom"}
      [] OTHER -> {}

\* Those the save still has to do.  The custom values are those the dialog holds
\* by then.
ToDo(s) ==
    {t \in After(s.step) :
        /\ t = "link" => Relinks(s)
        /\ t = "sprint" => Replans(s)
        /\ t = "custom" => form.custom}

\* The answer to its last request has come, and the save is over.
Finish(n) ==
    /\ save' = [save EXCEPT ![n] = Idle]
    /\ modal' = Closed
    /\ Reoffer

Proceed(n, s) ==
    \/ ToDo(s) = {} /\ Finish(n)
    \/ \E t \in ToDo(s) :
        /\ ToDo(s) \subseteq {t} \cup After(t)
        /\ save' = [save EXCEPT ![n] = [s EXCEPT !.step = t, !.sent = TRUE]]
        /\ UNCHANGED <<modal, offers>>

\* Slip: the row is written without comparing versions.
Mut_Current(s) == Exists(s.id)

\* expected_version, or a hierarchy change's version, is still the row's.
Current(s) == Exists(s.id) /\ row[s.id].ver = s.ver

\* What the server makes of the row: a PUT that changes nothing leaves the
\* version; a move to another project leaves epic and sprint behind.
Put(s, r) ==
    IF s.form.proj = r.proj
    THEN {[r EXCEPT !.kind = s.form.kind, !.ver = @ + 1]}
         \cup (IF s.form.kind = r.kind THEN {r} ELSE {})
    ELSE {[r EXCEPT !.kind = s.form.kind, !.ver = @ + 1, !.proj = s.form.proj,
                    !.up = None, !.sprint = None]}

Overwrites(s) ==
    overwrote' = (overwrote \/ (row[s.id].foreign # s.form.seen /\ ~s.tainted))

\* The row changes to r and the answer, with its version, is on its way.
Commit(n, s, i, r) ==
    /\ row' = [row EXCEPT ![i] = r]
    /\ save' = [save EXCEPT ![n] = [s EXCEPT !.sent = FALSE, !.id = i, !.ver = r.ver]]

ServePut(n) ==
    LET s == save[n]
    IN /\ s.step = "put" /\ s.sent
       /\ Current(s)
       /\ s.form.proj # row[s.id].proj => row[s.id].kind # "subtask"
       /\ \E r \in Put(s, row[s.id]) : Commit(n, s, s.id, r)
       /\ Overwrites(s)
       /\ UNCHANGED <<gone, dialog, gets, sprintOp>>

ServeLink(n) ==
    LET s == save[n]
        r == row[s.id]
    IN /\ s.step = "link" /\ s.sent
       /\ Current(s)
       /\ s.form.up \in {None, r.proj}
       /\ Commit(n, s, s.id, [r EXCEPT !.up = s.form.up, !.ver = @ + 1])
       /\ IF Editing(s) THEN Overwrites(s) ELSE UNCHANGED overwrote
       /\ UNCHANGED <<gone, dialog, gets, sprintOp>>

\* The agile kinds are created where they belong in one request.
ServePost(n, i) ==
    LET s == save[n]
        agile == AgileOnly(s.form.kind)
    IN /\ s.step = "post" /\ s.sent
       /\ ~Exists(i) /\ i \notin gone
       /\ agile => s.form.up \in {None, s.form.proj} /\ s.pick \in {None, s.form.proj}
       /\ Commit(n, s, i,
                 [ver |-> 1, proj |-> s.form.proj, kind |-> s.form.kind,
                  up |-> IF agile THEN s.form.up ELSE None,
                  sprint |-> IF s.form.kind = "story" THEN s.pick ELSE None, foreign |-> 0])
       /\ UNCHANGED <<gone, overwrote, dialog, gets, sprintOp>>

ServeSprint(n) ==
    LET s == save[n]
    IN /\ s.step = "sprint" /\ s.sent
       /\ Plannable(s.id, s.pick)
       /\ Commit(n, s, s.id, [row[s.id] EXCEPT !.sprint = s.pick])
       /\ UNCHANGED <<gone, overwrote, dialog, gets, sprintOp>>

\* Custom values carry no version: they are written over whatever is there.
ServeCustom(n) ==
    LET s == save[n]
    IN /\ s.step = "custom" /\ s.sent
       /\ Exists(s.id)
       /\ Commit(n, s, s.id, [row[s.id] EXCEPT !.ver = @ + 1])
       /\ UNCHANGED <<gone, overwrote, dialog, gets, sprintOp>>

\* Slip: the version a step returned is dropped.
Mut_Answered(n) ==
    LET s == save[n]
    IN /\ Running(n) /\ ~s.sent
       /\ Proceed(n, s)
       /\ UNCHANGED <<served, form, gets, sprintOp, expected, crossed, sure>>

\* A step succeeded.  Those that return the item leave its version in the ref,
\* whatever the dialog shows by now.
Answered(n) ==
    LET s == save[n]
    IN /\ Running(n) /\ ~s.sent
       /\ Proceed(n, s)
       /\ IF Editing(s) /\ s.step \in {"put", "link"}
          THEN /\ expected' = s.ver
               /\ crossed' = (crossed \/ ~s.live)
               /\ sure' = (sure /\ s.live)
          ELSE UNCHANGED <<expected, crossed, sure>>
       /\ UNCHANGED <<served, form, gets, sprintOp>>

\* A step of a creation that may fail without ending it.
Optional(s) == ~Editing(s) /\ s.step \in {"sprint", "custom"}

\* Slip: only a success takes the loader down.
Mut_StepFails(n) ==
    LET s == save[n]
    IN /\ Running(n)
       /\ IF Optional(s) THEN Proceed(n, s) ELSE UNCHANGED <<save, modal, offers>>
       /\ sure' = (sure /\ (s.sent \/ s.id # modal.id))
       /\ UNCHANGED <<served, form, expected, crossed, gets, sprintOp>>

\* A step failed: it was refused, it never reached the server, or its answer is
\* lost and the row changed all the same.  The dialog stays as it is.
StepFails(n) ==
    LET s == save[n]
    IN /\ Running(n)
       /\ IF Optional(s) THEN Proceed(n, s)
          ELSE /\ save' = [save EXCEPT ![n] = Idle]
               /\ UNCHANGED <<modal, offers>>
       /\ sure' = (sure /\ (s.sent \/ s.id # modal.id))
       /\ UNCHANGED <<served, form, expected, crossed, gets, sprintOp>>

\* An agile kind cannot be created in this project: 404.
AgileRefused(n) ==
    LET s == save[n]
    IN /\ s.step = "post" /\ s.sent
       /\ AgileOnly(s.form.kind)
       /\ save' = [save EXCEPT ![n] = Idle]
       /\ offers' = [offers EXCEPT !.agile = "off"]
       /\ form' = IF modal.open /\ modal.id = None THEN Off(form) ELSE form
       /\ UNCHANGED <<served, modal, expected, crossed, sure, gets, sprintOp>>
-----------------------------------------------------------------------------
(* Deletion, and everybody else. *)

Remove(i) ==
    /\ row' = [row EXCEPT ![i] = NoRow]
    /\ gone' = gone \cup {i}

\* Confirmed; the dialog closes when it is done.
DeleteBug ==
    /\ Writable /\ isAdmin
    /\ modal.id # None /\ Exists(modal.id)
    /\ Remove(modal.id)
    /\ CloseBugModal
    /\ UNCHANGED <<overwrote, gets, sprintOp>>

elsewhere == <<dialog, gets, save, sprintOp, overwrote>>

ForeignEdit(i, u) ==
    /\ Exists(i)
    /\ row[i].foreign < MaxForeign
    /\ u \in {None, row[i].proj}
    /\ row' = [row EXCEPT ![i].ver = @ + 1, ![i].foreign = @ + 1, ![i].up = u]
    /\ UNCHANGED <<gone, elsewhere>>

ForeignDelete(i) ==
    /\ Exists(i) /\ Cardinality(gone) < MaxGone
    /\ Remove(i)
    /\ UNCHANGED elsewhere
-----------------------------------------------------------------------------
Init ==
    /\ row = [i \in Item |-> IF i \in DOMAIN Initial
                             THEN [NoRow EXCEPT !.ver = 1, !.proj = Initial[i].proj, !.kind = Initial[i].kind]
                             ELSE NoRow]
    /\ gone = {}
    /\ modal = Closed
    /\ form = SeedCreate(NoRow.proj, "plain", None)
    /\ expected = None
    /\ offers = NoOffers
    /\ gets = {}
    /\ save = [n \in Press |-> Idle]
    /\ sprintOp = NoSprintOp
    /\ inputs = 0
    /\ crossed = FALSE
    /\ sure = TRUE
    /\ overwrote = FALSE

Server(n) ==
    ServePut(n) \/ ServeLink(n) \/ ServeSprint(n) \/ ServeCustom(n)
        \/ \E i \in Item : ServePost(n, i)

SaveStep(n) == Server(n) \/ Answered(n) \/ StepFails(n) \/ AgileRefused(n)

Opening ==
    \/ \E i \in Item : OpenDetail(i)
    \/ \E p \in Project, k \in Kinds, s \in Pick : OpenForm(p, k, s)
    \/ Close
    \/ DeleteBug

Typing ==
    \/ Fill \/ EditCustom
    \/ \E p \in Project : ChooseProject(p)
    \/ \E k \in Kinds : ChooseKind(k)
    \/ \E p \in Pick : PickUp(p) \/ PickSprint(p)
    \/ EnableAgile

User ==
    \/ Opening \/ Typing
    \/ AddToSprint \/ RemoveFromSprint
    \/ \E n \in Press : Submit(n)

Answers ==
    \/ \E g \in gets : OpenAnswer(g) \/ ReloadAnswer(g) \/ GetFails(g)
    \/ \E agile \in {"on", "off"} : OffersAnswer(agile)
    \/ \E agile \in {"unknown", "on"} : OffersFail(agile)
    \/ SprintOpDone \/ SprintOpFails
    \/ \E n \in Press : SaveStep(n)

Others == \E i \in Item : ForeignDelete(i) \/ \E u \in Pick : ForeignEdit(i, u)

Next ==
    \/ inputs < MaxInputs /\ User /\ inputs' = inputs + 1
    \/ (Poll \/ Answers \/ Others) /\ UNCHANGED inputs

\* A request is answered or times out.
Fairness == \A n \in Press : WF_vars(SaveStep(n) /\ UNCHANGED inputs)

Spec == Init /\ [][Next]_vars /\ Fairness
-----------------------------------------------------------------------------
(* Properties. *)

\* A save never overwrites an edit of somebody else that its form never showed,
\* as long as the version it sends was put into expectedVersionRef by the seeding
\* of its form or by a save of that form: whatever polls, reloads, failed steps
\* and repeated presses come in between.
NoLostUpdate == ~overwrote

\* A save that failed half-way can be pressed again (BugModal.jsx:965): when no
\* save of the item is under way, the form knows of every write it made, no two
\* of its saves ran together, and nobody else edited the item since, the version
\* it sends is the row's.
RetryFindsNoConflict ==
    LET i == modal.id
    IN (/\ modal.open /\ i # None
        /\ sure
        /\ \A n \in Press : Running(n) => save[n].id # i)
           => (Exists(i) /\ row[i].foreign = form.seen => expected = row[i].ver)

\* However the requests of a save fail, it ends, and the loader comes down.
EverySaveEnds == \A n \in Press : Running(n) ~> ~Running(n)
=============================================================================
