-------------------------- MODULE ItemDialog_proofs --------------------------
(***************************************************************************)
(* Proofs about ItemDialog, for any items, projects, presses of Save and   *)
(* numbers of requests under way: every variable keeps its type, and a     *)
(* save never overwrites an edit its form never showed, as long as the     *)
(* version it sends belongs to its form.                                   *)
(*                                                                         *)
(* The argument follows the version.  To every version of an item belongs  *)
(* one count of other people's edits.  A copy under way, the seeded form   *)
(* with the version in the ref, and a save with the version it sends are   *)
(* all such pairs; so a version that still is the row's comes with the     *)
(* count the row has.                                                      *)
(***************************************************************************)
EXTENDS ItemDialog, TLAPS

\* The item has been there, and with version v, f of its edits were others'.
Agrees(i, v, f) ==
    /\ i \in Item /\ v \in Nat
    /\ Exists(i) \/ i \in gone
    /\ Exists(i) => /\ v <= row[i].ver
                    /\ v = row[i].ver => f = row[i].foreign

\* Who is named is an item: by an operation on a sprint, and by a save once it
\* has one.
Named ==
    /\ sprintOp.op # "none" => sprintOp.id \in Item
    /\ \A n \in Press : Running(n) =>
         \/ save[n].id \in Item
         \/ save[n].step = "post" /\ save[n].sent

GoneForGood == \A i \in gone : ~Exists(i)

CopiesAgree == \A g \in gets : Agrees(g.id, g.copy.ver, g.copy.foreign)

\* The form on the screen and the version in the ref.
FormAgrees ==
    modal.open /\ modal.id # None /\ ~crossed
        => Agrees(modal.id, expected, form.seen)

\* A save whose next request is checked against its version.
Checked(s) == s.step = "put" \/ (s.step = "link" /\ Editing(s))

SaveAgrees(s) ==
    /\ s.step = "post" => ~Editing(s)
    /\ Checked(s) /\ ~s.tainted => Agrees(s.id, s.ver, s.form.seen)

\* A save of the seeding on the screen is one of the item on the screen.
SaveLives(s) ==
    s.live => /\ s.tainted => crossed
              /\ modal.open /\ Editing(s) => s.id = modal.id /\ s.form.seen = form.seen

SavesAgree == \A n \in Press : Running(n) => SaveAgrees(save[n])
SavesLive == \A n \in Press : Running(n) => SaveLives(save[n])

Base == TypeOK /\ Named

Inv ==
    /\ Base /\ GoneForGood
    /\ CopiesAgree /\ FormAgrees /\ SavesAgree /\ SavesLive
    /\ NoLostUpdate
-----------------------------------------------------------------------------
(* Types. *)

LEMMA NoRowType == NoRow \in Rows
BY DialogAssumption DEF NoRow, Rows, Pick, Kind

LEMMA SeedEditType ==
    ASSUME NEW c \in Rows
    PROVE  SeedEdit(c) \in Forms
BY DEF SeedEdit, Forms, Rows, Pick

LEMMA SeedCreateType ==
    ASSUME NEW p \in Project, NEW k \in Kind, NEW s \in Pick
    PROVE  SeedCreate(p, k, s) \in Forms
BY DEF SeedCreate, Forms, Pick

LEMMA ClosedType == Closed \in Modals
BY NoRowType DEF Closed, Modals

\* A save, running or not.
LEMMA RunningType ==
    ASSUME TypeOK, NEW n \in Press
    PROVE  /\ Running(n) => save[n] \in Saving
           /\ ~Running(n) => save[n] = Idle
BY DEF TypeOK, Running

\* What is waited for when the dialog shows m with the form f.
LEMMA ReofferType ==
    ASSUME TypeOK, modal' \in Modals, form' \in Forms, Reoffer
    PROVE  offers' \in Offers
<1> DEFINE p == IF modal'.id # None THEN modal'.copy.proj ELSE form'.proj
<1>1. p \in Project
  BY DEF Modals, Forms, Rows
<1>2. OfferKey(modal', form')[3] = p
  BY DEF OfferKey
<1>3. NoOffers \in Offers
  BY DEF NoOffers, Offers, Pick
<1>4. [offers EXCEPT !.agile = "unknown", !.loading = p] \in Offers
  BY <1>1 DEF TypeOK, Offers, Pick
<1> QED
  BY <1>2, <1>3, <1>4 DEF Reoffer, TypeOK

\* The dialog shows m, seeded with f if it is to be.
LEMMA ShowType ==
    ASSUME Base, NEW m \in Modals, NEW f \in Forms, Show(m, f), UNCHANGED row
    PROVE  /\ modal' \in Modals /\ form' \in Forms /\ expected' \in Nat \cup {None}
           /\ crossed' \in BOOLEAN /\ sure' \in BOOLEAN
           /\ save' \in [Press -> Saving \cup {Idle}]
           /\ \A n \in Press : Running(n)' =>
                  save'[n].id \in Item \/ (save'[n].step = "post" /\ save'[n].sent)
<1>1. modal' = m
  BY DEF Show
<1>2. CASE Seeds(m)
  <2>1. Seed(m, f)
    BY <1>2 DEF Show
  <2>2. expected' \in Nat \cup {None}
    BY <2>1 DEF Seed, Modals, Rows
  <2>3. \A n \in Press : save[n] \in Saving => [save[n] EXCEPT !.live = FALSE] \in Saving
    BY DEF Saving
  <2>4. save' \in [Press -> Saving \cup {Idle}]
    BY <2>1, <2>3, RunningType DEF Seed, Base
  <2>5. ASSUME NEW n \in Press, Running(n)'
        PROVE  save'[n].id \in Item \/ (save'[n].step = "post" /\ save'[n].sent)
    <3>1. Running(n) /\ save'[n] = [save[n] EXCEPT !.live = FALSE]
      BY <2>1, <2>5 DEF Seed, Running
    <3>2. save'[n].id = save[n].id /\ save'[n].step = save[n].step /\ save'[n].sent = save[n].sent
      BY <3>1, RunningType DEF Base, Saving
    <3> QED
      BY <3>1, <3>2 DEF Base, Named
  <2> QED
    BY <1>1, <2>1, <2>2, <2>4, <2>5 DEF Seed
<1>3. CASE ~Seeds(m)
  BY <1>1, <1>3 DEF Show, Base, TypeOK, Named, Running
<1> QED
  BY <1>2, <1>3

\* What a copy asked for adds.
LEMMA FetchType ==
    ASSUME TypeOK, NEW why \in {"open", "reload"}, NEW i \in Item, Fetch(why, i)
    PROVE  gets' \subseteq Gets
BY DEF TypeOK, Fetch, Gets

LEMMA ReloadType ==
    ASSUME TypeOK, NEW i \in Item, NEW rows \in [Item -> Rows], Reload(i, rows)
    PROVE  gets' \subseteq Gets
BY DEF TypeOK, Reload, Gets

LEMMA OpeningTypes ==
    ASSUME Base, Opening, inputs' \in Nat
    PROVE  Base'
<1> USE DEF Base
<1>1. ASSUME NEW i \in Item, OpenDetail(i) PROVE Base'
  BY <1>1, FetchType DEF OpenDetail, served, TypeOK, Named, Running
<1>2. ASSUME NEW p \in Project, NEW k \in Kinds, NEW s \in Pick, OpenForm(p, k, s) PROVE Base'
  <2> DEFINE m == [open |-> TRUE, id |-> None, copy |-> NoRow]
  <2>1. m \in Modals /\ SeedCreate(p, k, s) \in Forms
    BY NoRowType, SeedCreateType, DialogAssumption DEF Modals
  <2>2. Show(m, SeedCreate(p, k, s)) /\ Reoffer /\ UNCHANGED <<served, gets, sprintOp>>
    BY <1>2 DEF OpenForm
  <2> QED
    BY <2>1, <2>2, ShowType, ReofferType DEF served, TypeOK, Named
<1>3. ASSUME CloseBugModal, row' \in [Item -> Rows], gone' \subseteq Item,
             UNCHANGED <<overwrote, gets, sprintOp>>
      PROVE  Base'
  <2>1. Show(Closed, form) /\ ~Seeds(Closed)
    BY <1>3 DEF CloseBugModal, Seeds, Closed
  <2>2. modal' = Closed /\ UNCHANGED <<form, expected, save, crossed, sure>>
    BY <2>1 DEF Show
  <2>3. offers' \in Offers
    BY <1>3, <2>2, ClosedType, ReofferType DEF CloseBugModal, TypeOK
  <2> QED
    BY <1>3, <2>2, <2>3, ClosedType DEF TypeOK, Named, Running
<1>4. CASE Close
  BY <1>3, <1>4 DEF Close, served, TypeOK
<1>5. CASE DeleteBug
  <2>1. row' \in [Item -> Rows] /\ gone' \subseteq Item
    BY <1>5, NoRowType DEF DeleteBug, Remove, TypeOK, Modals
  <2> QED
    BY <1>3, <1>5, <2>1 DEF DeleteBug
<1> QED
  BY <1>1, <1>2, <1>4, <1>5 DEF Opening

\* Filling the form in touches nothing but the form and what is offered.
LEMMA FilledTypes ==
    ASSUME Base, UNCHANGED unfilled, UNCHANGED modal, form' \in Forms, offers' \in Offers,
           inputs' \in Nat
    PROVE  Base'
BY DEF Base, TypeOK, Named, Running, unfilled

LEMMA TypingTypes ==
    ASSUME Base, Typing, inputs' \in Nat
    PROVE  Base' /\ UNCHANGED <<unfilled, modal>> /\ form'.seen = form.seen
<1> USE DEF Base
<1>0. form \in Forms /\ offers \in Offers /\ modal \in Modals
  BY DEF TypeOK
<1>1. CASE Fill
  <2>1. [form EXCEPT !.complete = TRUE] \in Forms
    BY <1>0 DEF Forms
  <2> QED
    BY <1>0, <1>1, <2>1, FilledTypes DEF Fill, unfilled, Forms
<1>2. CASE EditCustom
  <2>1. [form EXCEPT !.custom = TRUE] \in Forms
    BY <1>0 DEF Forms
  <2> QED
    BY <1>0, <1>2, <2>1, FilledTypes DEF EditCustom, unfilled, Forms
<1>3. ASSUME NEW p \in Project, ChooseProject(p)
      PROVE  Base' /\ UNCHANGED <<unfilled, modal>> /\ form'.seen = form.seen
  <2>1. form' \in Forms /\ form'.seen = form.seen
    BY <1>0, <1>3 DEF ChooseProject, Forms, Pick
  <2>2. offers' \in Offers
    BY <1>0, <1>3, <2>1, ReofferType DEF ChooseProject
  <2> QED
    BY <1>3, <2>1, <2>2, FilledTypes DEF ChooseProject
<1>4. ASSUME NEW k \in Kinds, ChooseKind(k)
      PROVE  Base' /\ UNCHANGED <<unfilled, modal>> /\ form'.seen = form.seen
  <2>1. [form EXCEPT !.kind = k] \in Forms
    BY <1>0, DialogAssumption DEF Forms
  <2> QED
    BY <1>0, <1>4, <2>1, FilledTypes DEF ChooseKind, Forms
<1>5. ASSUME NEW p \in Pick, PickUp(p) \/ PickSprint(p)
      PROVE  Base' /\ UNCHANGED <<unfilled, modal>> /\ form'.seen = form.seen
  <2>1. [form EXCEPT !.up = p] \in Forms /\ [form EXCEPT !.sprint = p] \in Forms
    BY <1>0 DEF Forms
  <2> QED
    BY <1>0, <1>5, <2>1, FilledTypes DEF PickUp, PickSprint, Forms
<1>6. CASE EnableAgile
  <2>1. [offers EXCEPT !.agile = "on"] \in Offers
    BY <1>0 DEF Offers
  <2> QED
    BY <1>0, <1>6, <2>1, FilledTypes DEF EnableAgile
<1> QED
  BY <1>1, <1>2, <1>3, <1>4, <1>5, <1>6 DEF Typing

\* The two reads, the poll and the buttons of the sprint field.
LEMMA AskingTypes ==
    ASSUME Base, Poll \/ AddToSprint \/ RemoveFromSprint, inputs' \in Nat
    PROVE  Base'
<1> USE DEF Base
<1>0. modal \in Modals /\ form \in Forms
  BY DEF TypeOK
<1>1. CASE Poll
  <2>1. modal.id \in Item
    BY <1>0, <1>1 DEF Poll, Modals
  <2> QED
    BY <1>1, <2>1, FetchType DEF Poll, served, TypeOK, Named, Running
<1>2. CASE AddToSprint
  <2>1. sprintOp' \in SprintOps /\ sprintOp'.id \in Item
    BY <1>0, <1>2 DEF AddToSprint, SprintOps, Modals, Forms
  <2> QED
    BY <1>2, <2>1 DEF AddToSprint, served, local, TypeOK, Named, Running
<1>3. CASE RemoveFromSprint
  <2>1. sprintOp' \in SprintOps /\ sprintOp'.id \in Item
    BY <1>0, <1>3 DEF RemoveFromSprint, SprintOps, Modals, Rows
  <2> QED
    BY <1>3, <2>1 DEF RemoveFromSprint, served, local, TypeOK, Named, Running
<1> QED
  BY <1>1, <1>2, <1>3

LEMMA CopyTypes ==
    ASSUME Base, inputs' \in Nat, NEW g \in gets,
           OpenAnswer(g) \/ ReloadAnswer(g) \/ GetFails(g)
    PROVE  Base'
<1> USE DEF Base
<1>0. g \in Gets /\ modal \in Modals /\ gets \subseteq Gets
  BY DEF TypeOK
<1>1. ASSUME NEW m \in Modals, Show(m, SeedEdit(g.copy)), Reoffer, gets' = gets \ {g},
             UNCHANGED <<served, sprintOp>>
      PROVE  Base'
  <2>1. SeedEdit(g.copy) \in Forms
    BY <1>0, SeedEditType DEF Gets
  <2> QED
    BY <1>0, <1>1, <2>1, ShowType, ReofferType DEF served, TypeOK, Named
<1>2. CASE OpenAnswer(g)
  <2>1. [open |-> TRUE, id |-> g.id, copy |-> g.copy] \in Modals
    BY <1>0 DEF Gets, Modals
  <2> QED
    BY <1>1, <1>2, <2>1 DEF OpenAnswer
<1>3. CASE ReloadAnswer(g)
  <2>1. [modal EXCEPT !.id = g.id, !.copy = g.copy] \in Modals
    BY <1>0 DEF Gets, Modals
  <2> QED
    BY <1>1, <1>3, <2>1 DEF ReloadAnswer
<1>4. CASE GetFails(g)
  BY <1>0, <1>4 DEF GetFails, served, TypeOK, Named, Running
<1> QED
  BY <1>2, <1>3, <1>4

LEMMA OffType ==
    ASSUME NEW f \in Forms
    PROVE  Off(f) \in Forms /\ Off(f).seen = f.seen
BY DEF Off, Forms, Kind

\* What the project offers, or that it could not be read.
LEMMA OffersTypes ==
    ASSUME Base, inputs' \in Nat,
           \/ \E agile \in {"on", "off"} : OffersAnswer(agile)
           \/ \E agile \in {"unknown", "on"} : OffersFail(agile)
    PROVE  Base' /\ UNCHANGED <<unfilled, modal>> /\ form'.seen = form.seen
<1> USE DEF Base
<1>0. form \in Forms /\ offers \in Offers
  BY DEF TypeOK
<1>1. ASSUME NEW agile \in {"on", "off"}, OffersAnswer(agile)
      PROVE  Base' /\ UNCHANGED <<unfilled, modal>> /\ form'.seen = form.seen
  <2>1. form' \in Forms /\ form'.seen = form.seen
    BY <1>0, <1>1, OffType DEF OffersAnswer
  <2>2. offers.loading \in Project
    BY <1>0, <1>1 DEF OffersAnswer, Offers, Pick
  <2>3. [agile |-> "on", sprints |-> {offers.loading}, epics |-> {offers.loading},
         loading |-> None] \in Offers
    BY <2>2 DEF Offers, Pick
  <2>4. [NoOffers EXCEPT !.agile = "off"] \in Offers
    BY DEF Offers, NoOffers, Pick
  <2>5. offers' \in Offers
    BY <1>1, <2>3, <2>4 DEF OffersAnswer
  <2> QED
    BY <1>1, <2>1, <2>5, FilledTypes DEF OffersAnswer
<1>2. ASSUME NEW agile \in {"unknown", "on"}, OffersFail(agile)
      PROVE  Base' /\ UNCHANGED <<unfilled, modal>> /\ form'.seen = form.seen
  <2>1. [offers EXCEPT !.agile = agile, !.sprints = {}, !.loading = None] \in Offers
    BY <1>0 DEF Offers, Pick
  <2> QED
    BY <1>0, <1>2, <2>1, FilledTypes DEF OffersFail
<1> QED
  BY <1>1, <1>2

\* The row of an item put into a sprint or taken out of one.
LEMMA SprintOpTypes ==
    ASSUME Base, inputs' \in Nat, SprintOpDone \/ SprintOpFails
    PROVE  Base' /\ form'.seen = form.seen
<1> USE DEF Base
<1> DEFINE to == IF sprintOp.op = "add" THEN sprintOp.sprint ELSE None
           moved == [row EXCEPT ![sprintOp.id].sprint = to]
<1>0. row \in [Item -> Rows] /\ form \in Forms /\ sprintOp \in SprintOps
  BY DEF TypeOK
<1>1. sprintOp.op # "none" => sprintOp.id \in Item
  BY DEF Named
<1>2. to \in Pick
  BY <1>0 DEF SprintOps, Pick
<1>3. sprintOp.op # "none" => moved \in [Item -> Rows]
  BY <1>0, <1>1, <1>2 DEF Rows
<1>4. NoSprintOp \in SprintOps /\ NoSprintOp.op = "none"
  BY DEF NoSprintOp, SprintOps, Pick
<1>5. [form EXCEPT !.sprint = None] \in Forms
  BY <1>0 DEF Forms, Pick
<1>6. CASE SprintOpDone
  <2>1. row' \in [Item -> Rows] /\ gets' \subseteq Gets
    BY <1>1, <1>3, <1>6, ReloadType DEF SprintOpDone
  <2>2. form' \in Forms /\ form'.seen = form.seen
    BY <1>0, <1>5, <1>6 DEF SprintOpDone, Forms
  <2>3. sprintOp' = NoSprintOp /\ UNCHANGED <<gone, overwrote, local>>
    BY <1>6 DEF SprintOpDone
  <2> QED
    BY <1>4, <2>1, <2>2, <2>3 DEF local, TypeOK, Named, Running
<1>7. CASE SprintOpFails
  <2>1. row' \in [Item -> Rows]
    BY <1>0, <1>3, <1>7 DEF SprintOpFails
  <2> QED
    BY <1>4, <1>7, <2>1 DEF SprintOpFails, local, TypeOK, Named, Running
<1> QED
  BY <1>6, <1>7

LEMMA OthersTypes ==
    ASSUME Base, Others, inputs' \in Nat
    PROVE  Base'
<1> USE DEF Base
<1>0. row \in [Item -> Rows] /\ gone \subseteq Item
  BY DEF TypeOK
<1>1. ASSUME NEW i \in Item, ForeignDelete(i) PROVE Base'
  <2>1. row' \in [Item -> Rows] /\ gone' \subseteq Item
    BY <1>0, <1>1, NoRowType DEF ForeignDelete, Remove
  <2> QED
    BY <1>1, <2>1 DEF ForeignDelete, elsewhere, dialog, TypeOK, Named, Running
<1>2. ASSUME NEW i \in Item, NEW u \in Pick, ForeignEdit(i, u) PROVE Base'
  <2>1. row' \in [Item -> Rows]
    BY <1>0, <1>2 DEF ForeignEdit, Rows
  <2> QED
    BY <1>2, <2>1 DEF ForeignEdit, elsewhere, dialog, TypeOK, Named, Running
<1> QED
  BY <1>1, <1>2 DEF Others

\* One save changes: to what may be one, named as it must be.
LEMMA SaveTypes ==
    ASSUME Base, inputs' \in Nat, NEW n \in Press, NEW s,
           save' = [save EXCEPT ![n] = s],
           s = Idle \/ (s \in Saving /\ (s.id \in Item \/ (s.step = "post" /\ s.sent))),
           row' \in [Item -> Rows], gone' = gone, modal' \in Modals, form' \in Forms,
           expected' \in Nat \cup {None}, offers' \in Offers, gets' = gets,
           sprintOp' = sprintOp, crossed' \in BOOLEAN, sure' \in BOOLEAN,
           overwrote' \in BOOLEAN
    PROVE  Base'
<1> USE DEF Base
<1>1. save \in [Press -> Saving \cup {Idle}]
  BY DEF TypeOK
<1>2. save' \in [Press -> Saving \cup {Idle}]
  BY <1>1
<1>3. \A m \in Press : Running(m)' =>
          save'[m].id \in Item \/ (save'[m].step = "post" /\ save'[m].sent)
  BY <1>1 DEF Named, Running
<1>4. TypeOK'
  BY <1>2 DEF TypeOK
<1> QED
  BY <1>3, <1>4 DEF Named

LEMMA SubmitTypes ==
    ASSUME Base, inputs' \in Nat, NEW n \in Press, Submit(n)
    PROVE  Base'
<1> DEFINE s == [step |-> IF modal.id # None THEN "put" ELSE "post",
                 sent |-> TRUE, live |-> TRUE, tainted |-> crossed, id |-> modal.id,
                 ver |-> expected, form |-> form, pick |-> SprintChosen,
                 was |-> IF modal.id # None THEN modal.copy ELSE NoRow]
<1>1. TypeOK
  BY DEF Base
<1>2. modal \in Modals /\ form \in Forms /\ expected \in Nat \cup {None} /\ crossed \in BOOLEAN
  BY <1>1 DEF TypeOK
<1>3. SprintChosen \in Pick
  BY <1>2 DEF SprintChosen, Forms, Pick
<1>4. s \in Saving
  BY <1>2, <1>3, NoRowType DEF Saving, Step, Modals
<1>5. s.id \in Item \/ (s.step = "post" /\ s.sent)
  BY <1>2 DEF Modals
<1>6. save' = [save EXCEPT ![n] = s]
  BY DEF Submit
<1>7. sure' \in BOOLEAN
  BY <1>1 DEF Submit, TypeOK
<1>8. UNCHANGED <<served, modal, form, expected, offers, crossed, gets, sprintOp>>
  BY DEF Submit
<1> QED
  BY <1>1, <1>4, <1>5, <1>6, <1>7, <1>8, SaveTypes DEF served, TypeOK

\* The next request of a save, or its end.
LEMMA ProceedTypes ==
    ASSUME Base, NEW n \in Press, Running(n), Proceed(n, save[n]), form' = form,
           save[n].id \in Item
    PROVE  /\ modal' \in Modals /\ offers' \in Offers
           /\ \E s \in Saving \cup {Idle} :
                /\ save' = [save EXCEPT ![n] = s]
                /\ s \in Saving => s.id \in Item
           /\ modal' = modal \/ modal' = Closed
<1>0. TypeOK /\ save[n] \in Saving
  BY RunningType DEF Base
<1>1. CASE Finish(n)
  <2>1. modal' = Closed /\ modal' \in Modals /\ Reoffer
    BY <1>1, ClosedType DEF Finish
  <2>2. form' \in Forms
    BY <1>0 DEF TypeOK
  <2>3. offers' \in Offers
    BY <1>0, <2>1, <2>2, ReofferType
  <2>4. Idle \notin Saving
    BY DEF Idle, Saving, Step
  <2> QED
    BY <1>1, <2>1, <2>3, <2>4 DEF Finish
<1>2. ASSUME NEW t \in ToDo(save[n]),
             save' = [save EXCEPT ![n] = [save[n] EXCEPT !.step = t, !.sent = TRUE]],
             UNCHANGED <<modal, offers>>
      PROVE  /\ modal' \in Modals /\ offers' \in Offers
             /\ \E s \in Saving \cup {Idle} :
                  /\ save' = [save EXCEPT ![n] = s]
                  /\ s \in Saving => s.id \in Item
             /\ modal' = modal \/ modal' = Closed
  <2>1. t \in Step
    BY DEF ToDo, After, Step
  <2>2. [save[n] EXCEPT !.step = t, !.sent = TRUE] \in Saving
    BY <1>0, <2>1 DEF Saving
  <2>3. [save[n] EXCEPT !.step = t, !.sent = TRUE].id \in Item
    BY <1>0 DEF Saving
  <2> QED
    BY <1>0, <1>2, <2>2, <2>3 DEF TypeOK
<1> QED
  BY <1>1, <1>2 DEF Proceed

\* A committed request.
LEMMA CommitTypes ==
    ASSUME Base, inputs' \in Nat, NEW n \in Press, Running(n), NEW i \in Item, NEW r \in Rows,
           Commit(n, save[n], i, r), overwrote' \in BOOLEAN,
           UNCHANGED <<gone, dialog, gets, sprintOp>>
    PROVE  Base'
<1> DEFINE s == [save[n] EXCEPT !.sent = FALSE, !.id = i, !.ver = r.ver]
<1>0. TypeOK /\ save[n] \in Saving
  BY RunningType DEF Base
<1>1. s \in Saving /\ s.id \in Item
  BY <1>0 DEF Saving, Rows
<1>2. row' \in [Item -> Rows] /\ save' = [save EXCEPT ![n] = s]
  BY <1>0 DEF Commit, TypeOK
<1> HIDE DEF s
<1> QED
  BY <1>0, <1>1, <1>2, SaveTypes DEF dialog, TypeOK

\* A row written: with one version more, and as many edits of others.
Later(r, q) == r \in Rows /\ r.foreign = q.foreign /\ r.ver >= q.ver

LEMMA LaterRows ==
    ASSUME NEW q \in Rows, NEW k \in Kind, NEW p \in Project, NEW u \in Pick
    PROVE  /\ Later(q, q)
           /\ Later([q EXCEPT !.ver = @ + 1], q)
           /\ Later([q EXCEPT !.sprint = u], q)
           /\ Later([q EXCEPT !.up = u, !.ver = @ + 1], q)
           /\ Later([q EXCEPT !.kind = k, !.ver = @ + 1], q)
           /\ Later([q EXCEPT !.kind = k, !.ver = @ + 1, !.proj = p,
                              !.up = None, !.sprint = None], q)
<1>0. q.ver \in Nat /\ q.ver + 1 \in Nat /\ q.ver + 1 >= q.ver /\ q.ver >= q.ver
  BY DEF Rows
<1>1. None \in Pick
  BY DEF Pick
<1>2. Later(q, q)
  BY <1>0 DEF Later
<1>3. Later([q EXCEPT !.ver = @ + 1], q)
  BY <1>0 DEF Later, Rows
<1>4. Later([q EXCEPT !.sprint = u], q)
  BY <1>0 DEF Later, Rows
<1>5. Later([q EXCEPT !.up = u, !.ver = @ + 1], q)
  BY <1>0 DEF Later, Rows
<1>6. Later([q EXCEPT !.kind = k, !.ver = @ + 1], q)
  BY <1>0 DEF Later, Rows
<1>7. Later([q EXCEPT !.kind = k, !.ver = @ + 1, !.proj = p, !.up = None, !.sprint = None], q)
  BY <1>0, <1>1 DEF Later, Rows
<1> QED
  BY <1>2, <1>3, <1>4, <1>5, <1>6, <1>7

LEMMA FieldTypes ==
    ASSUME NEW s \in Saving
    PROVE  s.form.kind \in Kind /\ s.form.proj \in Project /\ s.form.up \in Pick
BY DEF Saving, Forms

\* What the server may make of item i for the request of s: a new row, or the
\* row with as many edits of others as before, its version no smaller.
Writes(s, i, r) ==
    \/ /\ ~Exists(i) /\ i \notin gone
       /\ s.step = "post" /\ r.ver > 0
       /\ UNCHANGED overwrote
    \/ /\ Exists(i) /\ i = s.id /\ s.step # "post"
       /\ Later(r, row[i])
       /\ IF Checked(s) THEN Current(s) /\ Overwrites(s) ELSE UNCHANGED overwrote

LEMMA ServeWrites ==
    ASSUME Base, NEW n \in Press, Server(n)
    PROVE  /\ Running(n)
           /\ UNCHANGED <<gone, dialog, gets, sprintOp>>
           /\ \E i \in Item, r \in Rows :
                Commit(n, save[n], i, r) /\ Writes(save[n], i, r)
<1> DEFINE s == save[n]
           Goal == /\ Running(n)
                   /\ UNCHANGED <<gone, dialog, gets, sprintOp>>
                   /\ \E i \in Item, r \in Rows : Commit(n, s, i, r) /\ Writes(s, i, r)
<1>0. TypeOK /\ row \in [Item -> Rows]
  BY DEF Base, TypeOK
<1>1. ASSUME s.step \in Step PROVE Running(n) /\ s \in Saving
  BY <1>0, <1>1, RunningType DEF Running, Idle, Step
<1>2. ASSUME s.step \in Step, s.step # "post" PROVE s.id \in Item
  BY <1>1, <1>2 DEF Base, Named
<1>3. ASSUME s.step \in Step, s.step # "post", Exists(s.id)
      PROVE  row[s.id] \in Rows /\ row[s.id].ver \in Nat
  BY <1>0, <1>2, <1>3 DEF Rows
<1>4. CASE ServePut(n)
  <2>1. s.step = "put" /\ Current(s) /\ Overwrites(s) /\ Exists(s.id)
        /\ UNCHANGED <<gone, dialog, gets, sprintOp>>
    BY <1>4 DEF ServePut, Current
  <2>2. PICK r \in Put(s, row[s.id]) : Commit(n, s, s.id, r)
    BY <1>4 DEF ServePut
  <2>3. s \in Saving /\ Running(n) /\ s.id \in Item /\ row[s.id] \in Rows
    BY <1>1, <1>2, <1>3, <2>1 DEF Step
  <2>4. Later(r, row[s.id])
    <3> DEFINE q == row[s.id]
               f == s.form
    <3>1. f.kind \in Kind /\ f.proj \in Project
      BY <2>3, FieldTypes
    <3>2. \/ r = [q EXCEPT !.kind = f.kind, !.ver = @ + 1]
          \/ r = q
          \/ r = [q EXCEPT !.kind = f.kind, !.ver = @ + 1, !.proj = f.proj,
                           !.up = None, !.sprint = None]
      BY <2>2 DEF Put
    <3>3. q \in Rows
      BY <2>3
    <3> HIDE DEF q, f
    <3>4. None \in Pick
      BY DEF Pick
    <3>5. /\ Later(q, q)
          /\ Later([q EXCEPT !.kind = f.kind, !.ver = @ + 1], q)
          /\ Later([q EXCEPT !.kind = f.kind, !.ver = @ + 1, !.proj = f.proj,
                             !.up = None, !.sprint = None], q)
      BY <3>1, <3>3, <3>4, LaterRows
    <3>6. Later(r, q)
      BY <3>2, <3>5
    <3> QED
      BY <3>6 DEF q
  <2> QED
    BY <2>1, <2>2, <2>3, <2>4 DEF Writes, Checked, Later
<1>5. CASE ServeLink(n)
  <2> DEFINE r == [row[s.id] EXCEPT !.up = s.form.up, !.ver = @ + 1]
  <2>1. s.step = "link" /\ Current(s) /\ Exists(s.id) /\ Commit(n, s, s.id, r)
        /\ UNCHANGED <<gone, dialog, gets, sprintOp>>
        /\ IF Editing(s) THEN Overwrites(s) ELSE UNCHANGED overwrote
    BY <1>5 DEF ServeLink, Current
  <2>2. s \in Saving /\ Running(n) /\ s.id \in Item /\ row[s.id] \in Rows
    BY <1>1, <1>2, <1>3, <2>1 DEF Step
  <2>3. Later(r, row[s.id])
    <3>1. s.form.up \in Pick
      BY <2>2, FieldTypes
    <3> QED
      BY <2>2, <3>1, FieldTypes, LaterRows
  <2> HIDE DEF r
  <2>4. Checked(s) <=> Editing(s)
    BY <2>1 DEF Checked
  <2>5. Writes(s, s.id, r)
    BY <2>1, <2>3, <2>4 DEF Writes
  <2> QED
    BY <2>1, <2>2, <2>3, <2>5 DEF Later
<1>6. CASE ServeSprint(n)
  <2> DEFINE r == [row[s.id] EXCEPT !.sprint = s.pick]
  <2>1. s.step = "sprint" /\ Exists(s.id) /\ Commit(n, s, s.id, r)
        /\ UNCHANGED <<gone, overwrote, dialog, gets, sprintOp>>
    BY <1>6 DEF ServeSprint, Plannable
  <2>2. s \in Saving /\ Running(n) /\ s.id \in Item /\ row[s.id] \in Rows
    BY <1>1, <1>2, <1>3, <2>1 DEF Step
  <2>3. Later(r, row[s.id])
    <3>1. s.pick \in Pick
      BY <2>2 DEF Saving
    <3> QED
      BY <2>2, <3>1, FieldTypes, LaterRows
  <2> HIDE DEF r
  <2> QED
    BY <2>1, <2>2, <2>3 DEF Writes, Checked, Later
<1>7. CASE ServeCustom(n)
  <2> DEFINE r == [row[s.id] EXCEPT !.ver = @ + 1]
  <2>1. s.step = "custom" /\ Exists(s.id) /\ Commit(n, s, s.id, r)
        /\ UNCHANGED <<gone, overwrote, dialog, gets, sprintOp>>
    BY <1>7 DEF ServeCustom
  <2>2. s \in Saving /\ Running(n) /\ s.id \in Item /\ row[s.id] \in Rows
    BY <1>1, <1>2, <1>3, <2>1 DEF Step
  <2>3. Later(r, row[s.id])
    BY <2>2, FieldTypes, LaterRows
  <2> HIDE DEF r
  <2> QED
    BY <2>1, <2>2, <2>3 DEF Writes, Checked, Later
<1>8. ASSUME NEW i \in Item, ServePost(n, i) PROVE Goal
  <2> DEFINE agile == AgileOnly(s.form.kind)
             r == [ver |-> 1, proj |-> s.form.proj, kind |-> s.form.kind,
                   up |-> IF agile THEN s.form.up ELSE None,
                   sprint |-> IF s.form.kind = "story" THEN s.pick ELSE None, foreign |-> 0]
  <2>1. s.step = "post" /\ ~Exists(i) /\ i \notin gone /\ Commit(n, s, i, r)
        /\ UNCHANGED <<gone, overwrote, dialog, gets, sprintOp>>
    BY <1>8 DEF ServePost
  <2>2. s \in Saving /\ Running(n)
    BY <1>1, <2>1 DEF Step
  <2>3. r \in Rows /\ r.ver > 0
    BY <2>2 DEF Rows, Saving, Forms, Pick
  <2> HIDE DEF r
  <2> QED
    BY <2>1, <2>2, <2>3 DEF Writes
<1> QED
  BY <1>4, <1>5, <1>6, <1>7, <1>8 DEF Server

LEMMA ServerTypes ==
    ASSUME Base, inputs' \in Nat, NEW n \in Press, Server(n)
    PROVE  Base'
<1>1. PICK i \in Item, r \in Rows : Commit(n, save[n], i, r) /\ Writes(save[n], i, r)
  BY ServeWrites
<1>2. Running(n) /\ UNCHANGED <<gone, dialog, gets, sprintOp>>
  BY ServeWrites
<1>3. overwrote' \in BOOLEAN
  BY <1>1 DEF Writes, Overwrites, Base, TypeOK
<1> QED
  BY <1>1, <1>2, <1>3, CommitTypes

\* A step's end: its answer, its failure or, of a creation, its refusal.
LEMMA EndTypes ==
    ASSUME Base, inputs' \in Nat, NEW n \in Press,
           Answered(n) \/ StepFails(n) \/ AgileRefused(n)
    PROVE  Base'
<1>0. TypeOK
  BY DEF Base
<1>1. CASE Answered(n)
  <2>1. Running(n) /\ save[n] \in Saving /\ save[n].id \in Item
    BY <1>1, RunningType DEF Answered, Base, Named
  <2>2. Proceed(n, save[n]) /\ UNCHANGED <<served, form, gets, sprintOp>>
    BY <1>1 DEF Answered
  <2>3. /\ modal' \in Modals /\ offers' \in Offers
        /\ \E s \in Saving \cup {Idle} :
             save' = [save EXCEPT ![n] = s] /\ (s \in Saving => s.id \in Item)
    BY <2>1, <2>2, ProceedTypes
  <2>4. expected' \in Nat \cup {None} /\ crossed' \in BOOLEAN /\ sure' \in BOOLEAN
    BY <1>0, <1>1, <2>1 DEF Answered, Saving, TypeOK
  <2> QED
    BY <1>0, <2>2, <2>3, <2>4, SaveTypes DEF served, TypeOK
<1>2. CASE StepFails(n)
  <2>1. Running(n) /\ save[n] \in Saving
    BY <1>2, RunningType DEF StepFails, Base
  <2>2. sure' \in BOOLEAN /\ UNCHANGED <<served, form, expected, crossed, gets, sprintOp>>
    BY <1>0, <1>2 DEF StepFails, TypeOK
  <2>3. CASE Optional(save[n])
    <3>1. save[n].id \in Item
      BY <2>1, <2>3 DEF Optional, Base, Named
    <3>2. Proceed(n, save[n])
      BY <1>2, <2>3 DEF StepFails
    <3>3. form' = form
      BY <2>2
    <3>4. /\ modal' \in Modals /\ offers' \in Offers
          /\ \E s \in Saving \cup {Idle} :
               save' = [save EXCEPT ![n] = s] /\ (s \in Saving => s.id \in Item)
      BY <2>1, <3>1, <3>2, <3>3, ProceedTypes
    <3> QED
      BY <1>0, <2>2, <3>4, SaveTypes DEF served, TypeOK
  <2>4. CASE ~Optional(save[n])
    <3>1. save' = [save EXCEPT ![n] = Idle] /\ UNCHANGED <<modal, offers>>
      BY <1>2, <2>4 DEF StepFails
    <3> QED
      BY <1>0, <2>2, <3>1, SaveTypes DEF served, TypeOK
  <2> QED
    BY <2>3, <2>4
<1>3. CASE AgileRefused(n)
  <2>1. save' = [save EXCEPT ![n] = Idle]
        /\ UNCHANGED <<served, modal, expected, crossed, sure, gets, sprintOp>>
    BY <1>3 DEF AgileRefused
  <2>2. offers' \in Offers
    BY <1>0, <1>3 DEF AgileRefused, TypeOK, Offers
  <2>3. form' \in Forms
    BY <1>0, <1>3, OffType DEF AgileRefused, TypeOK
  <2> QED
    BY <1>0, <2>1, <2>2, <2>3, SaveTypes DEF served, TypeOK
<1> QED
  BY <1>1, <1>2, <1>3

LEMMA InitTypes == Init => Base
<1> SUFFICES ASSUME Init PROVE Base
  OBVIOUS
<1>1. row \in [Item -> Rows]
  <2>1. \A i \in DOMAIN Initial :
          [NoRow EXCEPT !.ver = 1, !.proj = Initial[i].proj, !.kind = Initial[i].kind] \in Rows
    BY NoRowType, DialogAssumption DEF Rows
  <2> QED
    BY <2>1, NoRowType DEF Init
<1>2. form \in Forms
  BY NoRowType, SeedCreateType DEF Init, Rows, Kind, Pick
<1>3. offers \in Offers /\ sprintOp \in SprintOps
  BY DEF Init, NoOffers, Offers, NoSprintOp, SprintOps, Pick
<1> QED
  BY <1>1, <1>2, <1>3, ClosedType DEF Init, Base, TypeOK, Named, NoSprintOp, Running

LEMMA NextTypes == Base /\ [Next]_vars => Base'
<1> SUFFICES ASSUME Base, [Next]_vars PROVE Base'
  OBVIOUS
<1>1. CASE UNCHANGED vars
  BY <1>1 DEF vars, Base, TypeOK, Named, Running
<1>2. CASE Next
  <2>1. inputs' \in Nat
    BY <1>2 DEF Next, Base, TypeOK
  <2>2. CASE User
    BY <2>1, <2>2, OpeningTypes, TypingTypes, AskingTypes, SubmitTypes DEF User
  <2>3. CASE Poll \/ Others
    BY <2>1, <2>3, AskingTypes, OthersTypes
  <2>4. CASE Answers
    BY <2>1, <2>4, CopyTypes, OffersTypes, SprintOpTypes, ServerTypes, EndTypes
       DEF Answers, SaveStep
  <2> QED
    BY <1>2, <2>2, <2>3, <2>4 DEF Next
<1> QED
  BY <1>1, <1>2

\* Every variable keeps its type, whatever is clicked, answered or lost.
THEOREM TypeCorrect == Spec => []TypeOK
<1>1. Base => TypeOK
  BY DEF Base
<1> QED
  BY <1>1, InitTypes, NextTypes, PTL DEF Spec
-----------------------------------------------------------------------------
(* Versions. *)

\* A row only ages: it goes for good, or gets a greater version, or keeps its
\* version and the count of others' edits.
Ages ==
    /\ gone \subseteq gone'
    /\ \A i \in gone' : ~Exists(i)'
    /\ \A i \in Item : Exists(i) =>
         \/ i \in gone'
         \/ row'[i].ver > row[i].ver
         \/ row'[i].ver = row[i].ver /\ row'[i].foreign = row[i].foreign

LEMMA AgreesKept ==
    ASSUME Base, Base', Ages, NEW i, NEW v, NEW f, Agrees(i, v, f)
    PROVE  Agrees(i, v, f)'
<1>1. i \in Item /\ v \in Nat
  BY DEF Agrees
<1>2. row[i].ver \in Nat /\ row'[i].ver \in Nat
  BY <1>1 DEF Base, TypeOK, Rows
<1>3. CASE i \in gone'
  BY <1>1, <1>3 DEF Agrees, Ages
<1>4. CASE i \notin gone'
  <2>1. Exists(i) /\ v <= row[i].ver /\ (v = row[i].ver => f = row[i].foreign)
    BY <1>4 DEF Agrees, Ages
  <2>2. \/ row'[i].ver > row[i].ver
        \/ row'[i].ver = row[i].ver /\ row'[i].foreign = row[i].foreign
    BY <1>1, <1>4, <2>1 DEF Ages
  <2> QED
    BY <1>1, <1>2, <2>1, <2>2 DEF Agrees, Exists
<1> QED
  BY <1>3, <1>4

LEMMA StillAges == ASSUME Inv, UNCHANGED <<row, gone>> PROVE Ages
BY DEF Inv, GoneForGood, Ages, Exists

LEMMA RemoveAges == ASSUME Inv, NEW i \in Item, Remove(i) PROVE Ages
<1>1. row \in [Item -> Rows] /\ gone \subseteq Item
  BY DEF Inv, Base, TypeOK
<1>2. row' = [row EXCEPT ![i] = NoRow] /\ gone' = gone \cup {i}
  BY DEF Remove
<1>3. \A j \in gone' : ~Exists(j)'
  BY <1>1, <1>2 DEF Inv, GoneForGood, Exists, NoRow
<1> QED
  BY <1>1, <1>2, <1>3 DEF Ages

LEMMA RowAges ==
    ASSUME Inv, NEW i \in Item, NEW r, row' = [row EXCEPT ![i] = r], gone' = gone,
           \/ Exists(i) /\ r.ver \in Nat
              /\ (r.ver > row[i].ver \/ (r.ver = row[i].ver /\ r.foreign = row[i].foreign))
           \/ ~Exists(i) /\ i \notin gone
    PROVE  Ages
<1>1. row \in [Item -> Rows] /\ gone \subseteq Item
  BY DEF Inv, Base, TypeOK
<1>2. i \notin gone
  BY DEF Inv, GoneForGood
<1>3. \A j \in gone' : ~Exists(j)'
  BY <1>1, <1>2 DEF Inv, GoneForGood, Exists
<1> QED
  BY <1>1, <1>3 DEF Ages

\* A step that leaves the dialog and the saves alone.
LEMMA AroundKeeps ==
    ASSUME Inv, Base', Ages, CopiesAgree',
           UNCHANGED <<modal, expected, crossed, save, overwrote>>, form'.seen = form.seen
    PROVE  Inv'
<1>1. \A i, v, f : Agrees(i, v, f) => Agrees(i, v, f)'
  BY AgreesKept DEF Inv
<1>2. GoneForGood'
  BY DEF Ages, GoneForGood
<1>3. FormAgrees'
  BY <1>1 DEF Inv, FormAgrees
<1>4. SavesAgree'
  BY <1>1 DEF Inv, SavesAgree, SaveAgrees, Running
<1>5. SavesLive'
  BY DEF Inv, SavesLive, SaveLives, Running
<1> QED
  BY <1>2, <1>3, <1>4, <1>5 DEF Inv, NoLostUpdate

\* The dialog shows m, seeded with a copy that agrees if it is seeded.
LEMMA ShowKeeps ==
    ASSUME Inv, Base', Ages, NEW m, NEW f, Show(m, f), gets' \subseteq gets, overwrote' = overwrote,
           Seeds(m) /\ m.id # None => Agrees(m.id, m.copy.ver, f.seen)
    PROVE  Inv'
<1>1. \A i, v, u : Agrees(i, v, u) => Agrees(i, v, u)'
  BY AgreesKept DEF Inv
<1>2. GoneForGood' /\ CopiesAgree' /\ NoLostUpdate'
  BY <1>1 DEF Inv, Ages, GoneForGood, CopiesAgree, NoLostUpdate
<1>3. CASE Seeds(m)
  <2>1. /\ modal' = m /\ form' = f /\ crossed' = FALSE
        /\ expected' = IF m.id = None THEN None ELSE m.copy.ver
        /\ save' = [n \in Press |-> IF Running(n) THEN [save[n] EXCEPT !.live = FALSE] ELSE Idle]
    BY <1>3 DEF Show, Seed
  <2>2. FormAgrees'
    BY <1>1, <1>3, <2>1 DEF FormAgrees
  <2>3. ASSUME NEW n \in Press, Running(n)' PROVE SaveAgrees(save[n])' /\ SaveLives(save[n])'
    <3>1. Running(n) /\ save'[n] = [save[n] EXCEPT !.live = FALSE]
      BY <2>1, <2>3 DEF Running
    <3>2. /\ save[n] \in Saving
          /\ save'[n].live = FALSE /\ save'[n].step = save[n].step /\ save'[n].id = save[n].id
          /\ save'[n].tainted = save[n].tainted /\ save'[n].ver = save[n].ver
          /\ save'[n].form = save[n].form /\ save'[n].was = save[n].was
      BY <3>1, RunningType DEF Inv, Base, Saving
    <3>3. SaveAgrees(save[n])
      BY <3>1 DEF Inv, SavesAgree
    <3> QED
      BY <1>1, <3>2, <3>3 DEF SaveAgrees, SaveLives, Checked, Editing
  <2> QED
    BY <1>2, <2>2, <2>3 DEF Inv, SavesAgree, SavesLive
<1>4. CASE ~Seeds(m)
  <2>1. modal' = m /\ UNCHANGED <<form, expected, save, crossed>>
    BY <1>4 DEF Show
  <2>2. modal'.open => modal.open /\ modal'.id = modal.id
    BY <1>4, <2>1 DEF Seeds, Inv, Base, TypeOK, Modals
  <2>3. FormAgrees'
    BY <1>1, <2>1, <2>2 DEF Inv, FormAgrees
  <2>4. SavesAgree'
    BY <1>1, <2>1 DEF Inv, SavesAgree, SaveAgrees, Running
  <2>5. SavesLive'
    BY <2>1, <2>2 DEF Inv, SavesLive, SaveLives, Running
  <2> QED
    BY <1>2, <2>3, <2>4, <2>5 DEF Inv
<1> QED
  BY <1>3, <1>4

\* A copy asked for is the row of the moment.
LEMMA FetchAgrees ==
    ASSUME Inv, Base', NEW why, NEW i \in Item, Fetch(why, i), UNCHANGED <<row, gone>>
    PROVE  CopiesAgree'
<1>1. Ages
  BY StillAges
<1>2. \A j, v, f : Agrees(j, v, f) => Agrees(j, v, f)'
  BY <1>1, AgreesKept DEF Inv
<1>3. row[i].ver \in Nat
  BY DEF Inv, Base, TypeOK, Rows
<1>4. Agrees(i, row[i].ver, row[i].foreign)
  BY <1>3 DEF Agrees, Fetch
<1>5. ASSUME NEW g \in gets' PROVE Agrees(g.id, g.copy.ver, g.copy.foreign)'
  <2>1. CASE g \in gets
    BY <1>2, <2>1 DEF Inv, CopiesAgree
  <2>2. CASE g = [why |-> why, id |-> i, copy |-> row[i]]
    BY <1>2, <1>4, <2>2
  <2> QED
    BY <2>1, <2>2 DEF Fetch
<1> QED
  BY <1>5 DEF CopiesAgree

LEMMA FewerCopies ==
    ASSUME Inv, Base', Ages, gets' \subseteq gets
    PROVE  CopiesAgree'
BY AgreesKept DEF Inv, CopiesAgree

LEMMA OpeningKeeps ==
    ASSUME Inv, Opening, inputs' \in Nat
    PROVE  Inv'
<1>0. Base' /\ Base
  BY OpeningTypes DEF Inv
<1>1. ASSUME NEW i \in Item, OpenDetail(i) PROVE Inv'
  <2>1. Fetch("open", i) /\ UNCHANGED <<served, modal, form, expected, save, crossed>>
    BY <1>1 DEF OpenDetail
  <2> QED
    BY <1>0, <2>1, FetchAgrees, StillAges, AroundKeeps DEF served
<1>2. ASSUME NEW p \in Project, NEW k \in Kinds, NEW s \in Pick, OpenForm(p, k, s) PROVE Inv'
  <2> DEFINE m == [open |-> TRUE, id |-> None, copy |-> NoRow]
  <2>1. Show(m, SeedCreate(p, k, s)) /\ UNCHANGED <<served, gets, sprintOp>> /\ m.id = None
    BY <1>2 DEF OpenForm
  <2> HIDE DEF m
  <2> QED
    BY <1>0, <2>1, StillAges, ShowKeeps DEF served
<1>3. ASSUME CloseBugModal, Ages, UNCHANGED <<overwrote, gets, sprintOp>> PROVE Inv'
  <2>1. Show(Closed, form) /\ ~Seeds(Closed)
    BY <1>3 DEF CloseBugModal, Seeds, Closed
  <2> QED
    BY <1>0, <1>3, <2>1, ShowKeeps
<1>4. CASE Close
  BY <1>3, <1>4, StillAges DEF Close, served
<1>5. CASE DeleteBug
  <2>1. Remove(modal.id) /\ modal.id \in Item
    BY <1>0, <1>5 DEF DeleteBug, Base, TypeOK, Modals
  <2>2. Ages
    BY <2>1, RemoveAges
  <2> QED
    BY <1>3, <1>5, <2>2 DEF DeleteBug
<1> QED
  BY <1>1, <1>2, <1>4, <1>5 DEF Opening

\* Nothing is written, fetched or shown.
LEMMA TypingKeeps ==
    ASSUME Inv, Base', UNCHANGED <<unfilled, modal>>, form'.seen = form.seen
    PROVE  Inv'
<1>1. Ages /\ gets' \subseteq gets
  BY StillAges DEF unfilled
<1>2. CopiesAgree'
  BY <1>1, FewerCopies
<1> QED
  BY <1>1, <1>2, AroundKeeps DEF unfilled

LEMMA AskingKeeps ==
    ASSUME Inv, Poll \/ AddToSprint \/ RemoveFromSprint, inputs' \in Nat
    PROVE  Inv'
<1>0. Base' /\ Base
  BY AskingTypes DEF Inv
<1>1. CASE Poll
  <2>1. modal.id \in Item
    BY <1>0, <1>1 DEF Poll, Base, TypeOK, Modals
  <2>2. Fetch("reload", modal.id) /\ UNCHANGED <<served, modal, form, expected, save, crossed>>
    BY <1>1 DEF Poll
  <2> QED
    BY <1>0, <2>1, <2>2, FetchAgrees, StillAges, AroundKeeps DEF served
<1>2. CASE AddToSprint \/ RemoveFromSprint
  <2>1. UNCHANGED <<served, local, form, gets>>
    BY <1>2 DEF AddToSprint, RemoveFromSprint
  <2>2. Ages /\ CopiesAgree'
    BY <1>0, <2>1, StillAges, FewerCopies DEF served
  <2> QED
    BY <1>0, <2>1, <2>2, AroundKeeps DEF served, local
<1> QED
  BY <1>1, <1>2

\* A copy arrives: it seeds the form and the version together, or neither.
LEMMA CopyKeeps ==
    ASSUME Inv, inputs' \in Nat, NEW g \in gets,
           OpenAnswer(g) \/ ReloadAnswer(g) \/ GetFails(g)
    PROVE  Inv'
<1>0. Base' /\ Base
  BY CopyTypes DEF Inv
<1>1. gets' \subseteq gets /\ Ages
  BY StillAges DEF OpenAnswer, ReloadAnswer, GetFails, served
<1>2. Agrees(g.id, g.copy.ver, g.copy.foreign)
  BY DEF Inv, CopiesAgree
<1>3. ASSUME NEW m, m.id = g.id, m.copy = g.copy, Show(m, SeedEdit(g.copy)), overwrote' = overwrote
      PROVE  Inv'
  <2>1. SeedEdit(g.copy).seen = g.copy.foreign
    BY DEF SeedEdit
  <2> QED
    BY <1>0, <1>1, <1>2, <1>3, <2>1, ShowKeeps
<1>4. CASE OpenAnswer(g)
  BY <1>3, <1>4 DEF OpenAnswer, served
<1>5. CASE ReloadAnswer(g)
  <2>1. modal \in Modals
    BY <1>0 DEF Base, TypeOK
  <2> DEFINE m == [modal EXCEPT !.id = g.id, !.copy = g.copy]
  <2>2. m.id = g.id /\ m.copy = g.copy
    BY <2>1 DEF Modals
  <2>3. Show(m, SeedEdit(g.copy)) /\ overwrote' = overwrote
    BY <1>5 DEF ReloadAnswer, served
  <2> HIDE DEF m
  <2> QED
    BY <1>3, <2>2, <2>3
<1>6. CASE GetFails(g)
  <2>1. UNCHANGED <<served, modal, form, expected, save, crossed>>
    BY <1>6 DEF GetFails
  <2> QED
    BY <1>0, <1>1, <2>1, FewerCopies, AroundKeeps DEF served
<1> QED
  BY <1>4, <1>5, <1>6

\* Sprints come and go without a version.
LEMMA SprintOpKeeps ==
    ASSUME Inv, inputs' \in Nat, SprintOpDone \/ SprintOpFails
    PROVE  Inv'
<1> DEFINE to == IF sprintOp.op = "add" THEN sprintOp.sprint ELSE None
           r == [row[sprintOp.id] EXCEPT !.sprint = to]
<1>0. Base' /\ Base /\ form'.seen = form.seen
  BY SprintOpTypes DEF Inv
<1>1. UNCHANGED <<gone, overwrote, local>>
  BY DEF SprintOpDone, SprintOpFails
<1>2. sprintOp.id \in Item
  BY <1>0 DEF SprintOpDone, SprintOpFails, Base, Named
<1>3. /\ row[sprintOp.id] \in Rows
      /\ r.ver = row[sprintOp.id].ver /\ r.foreign = row[sprintOp.id].foreign
  BY <1>0, <1>2 DEF Base, TypeOK, Rows
<1>4. row' = row \/ (row' = [row EXCEPT ![sprintOp.id] = r] /\ Exists(sprintOp.id))
  BY DEF SprintOpDone, SprintOpFails, Plannable
<1>5. Ages
  <2>1. CASE row' = row
    BY <1>1, <2>1, StillAges
  <2>2. CASE row' = [row EXCEPT ![sprintOp.id] = r] /\ Exists(sprintOp.id)
    <3> HIDE DEF r
    <3>1. r.ver \in Nat
      BY <1>3 DEF Rows
    <3> QED
      BY <1>1, <1>2, <1>3, <2>2, <3>1, RowAges
  <2> QED
    BY <1>4, <2>1, <2>2
<1>6. CopiesAgree'
  <2>1. CASE gets' = gets
    BY <1>0, <1>5, <2>1, FewerCopies
  <2>2. CASE SprintOpDone
    <3>0. PICK i \in Item : i = sprintOp.id
      BY <1>2
    <3>1. gets' \subseteq gets \cup {[why |-> "reload", id |-> i, copy |-> row'[i]]}
          /\ (gets' # gets => Exists(i)')
      BY <2>2, <3>0 DEF SprintOpDone, Reload, Exists
    <3>2. row'[i].ver \in Nat
      BY <1>0 DEF Base, TypeOK, Rows
    <3>3. ASSUME NEW g \in gets', g \notin gets PROVE Agrees(g.id, g.copy.ver, g.copy.foreign)'
      BY <3>1, <3>2, <3>3 DEF Agrees, Exists
    <3>4. ASSUME NEW g \in gets PROVE Agrees(g.id, g.copy.ver, g.copy.foreign)'
      BY <1>0, <1>5, AgreesKept DEF Inv, CopiesAgree
    <3> QED
      BY <3>3, <3>4 DEF CopiesAgree
  <2> QED
    BY <2>1, <2>2 DEF SprintOpFails
<1> QED
  BY <1>0, <1>1, <1>5, <1>6, AroundKeeps DEF local

LEMMA OthersKeep ==
    ASSUME Inv, Others, inputs' \in Nat
    PROVE  Inv'
<1>0. Base' /\ Base
  BY OthersTypes DEF Inv
<1>1. ASSUME Ages, UNCHANGED elsewhere PROVE Inv'
  BY <1>0, <1>1, FewerCopies, AroundKeeps DEF elsewhere, dialog
<1>2. ASSUME NEW i \in Item, ForeignDelete(i) PROVE Inv'
  BY <1>1, <1>2, RemoveAges DEF ForeignDelete
<1>3. ASSUME NEW i \in Item, NEW u \in Pick, ForeignEdit(i, u) PROVE Inv'
  <2> DEFINE r == [row[i] EXCEPT !.ver = @ + 1, !.foreign = @ + 1, !.up = u]
  <2>1. row[i] \in Rows
    BY <1>0 DEF Base, TypeOK
  <2>2. r.ver \in Nat /\ r.ver > row[i].ver
    BY <2>1 DEF Rows
  <2>3. row' = [row EXCEPT ![i] = r] /\ gone' = gone /\ Exists(i) /\ UNCHANGED elsewhere
    BY <1>3 DEF ForeignEdit
  <2> HIDE DEF r
  <2>4. Ages
    BY <2>2, <2>3, RowAges
  <2> QED
    BY <1>1, <2>3, <2>4
<1> QED
  BY <1>2, <1>3 DEF Others
-----------------------------------------------------------------------------
(* Saves. *)

\* One save changes; the dialog stays as it is or closes.
LEMMA SaveKeeps ==
    ASSUME Inv, Base', Ages, NEW n \in Press, NEW s, save' = [save EXCEPT ![n] = s],
           modal' = modal \/ modal' = Closed, form'.seen = form.seen, gets' = gets,
           crossed => crossed', FormAgrees', ~overwrote',
           s # Idle => SaveAgrees(s)' /\ SaveLives(s)'
    PROVE  Inv'
<1>1. \A i, v, f : Agrees(i, v, f) => Agrees(i, v, f)'
  BY AgreesKept DEF Inv
<1>2. GoneForGood' /\ CopiesAgree'
  BY <1>1, FewerCopies DEF Ages, GoneForGood
<1>3. \A m \in Press : save'[m] = IF m = n THEN s ELSE save[m]
  BY DEF Inv, Base, TypeOK
<1>4. ASSUME NEW m \in Press, Running(m)' PROVE SaveAgrees(save[m])' /\ SaveLives(save[m])'
  <2>1. CASE m = n
    BY <1>3, <1>4, <2>1 DEF Running, SaveAgrees, SaveLives
  <2>2. CASE m # n
    <3>1. Running(m) /\ save'[m] = save[m]
      BY <1>3, <1>4, <2>2 DEF Running
    <3>2. SaveAgrees(save[m]) /\ SaveLives(save[m])
      BY <3>1 DEF Inv, SavesAgree, SavesLive
    <3>3. modal'.open => modal' = modal
      BY DEF Closed
    <3> QED
      BY <1>1, <3>1, <3>2, <3>3 DEF SaveAgrees, SaveLives
  <2> QED
    BY <2>1, <2>2
<1> QED
  BY <1>2, <1>4 DEF Inv, SavesAgree, SavesLive, NoLostUpdate

\* What the form and the ref agree on while neither of them changes.
LEMMA FormKept ==
    ASSUME Inv, Base', Ages, modal' = modal \/ modal' = Closed, form'.seen = form.seen,
           expected' = expected, crossed' = crossed
    PROVE  FormAgrees'
<1>1. \A i, v, f : Agrees(i, v, f) => Agrees(i, v, f)'
  BY AgreesKept DEF Inv
<1>2. modal'.open => modal' = modal
  BY DEF Closed
<1> QED
  BY <1>1, <1>2 DEF Inv, FormAgrees

\* A save begins with the version and the form of the dialog.
LEMMA SubmitKeeps ==
    ASSUME Inv, inputs' \in Nat, NEW n \in Press, Submit(n)
    PROVE  Inv'
<1>0. Base' /\ Base
  BY SubmitTypes DEF Inv
<1>1. /\ modal.open
      /\ UNCHANGED <<served, modal, form, expected, crossed, gets>>
  BY DEF Submit, Writable
<1>2. PICK s : /\ save' = [save EXCEPT ![n] = s]
               /\ s = [step |-> IF modal.id # None THEN "put" ELSE "post",
                       sent |-> TRUE, live |-> TRUE, tainted |-> crossed, id |-> modal.id,
                       ver |-> expected, form |-> form, pick |-> SprintChosen,
                       was |-> IF modal.id # None THEN modal.copy ELSE NoRow]
  BY DEF Submit
<1>3. Ages
  BY <1>1, StillAges DEF served
<1>4. FormAgrees'
  BY <1>0, <1>1, <1>3, FormKept
<1>5. /\ s.step = "put" \/ s.step = "post"
      /\ s.step = "post" => ~Editing(s)
      /\ s.step = "put" => modal.id # None
      /\ s.id = modal.id /\ s.ver = expected /\ s.tainted = crossed /\ s.form = form
  BY <1>2 DEF Editing, NoRow
<1>6. SaveAgrees(s)'
  BY <1>1, <1>4, <1>5 DEF SaveAgrees, Checked, FormAgrees, Editing
<1>7. SaveLives(s)'
  BY <1>1, <1>5 DEF SaveLives
<1>8. ~overwrote'
  BY <1>1 DEF Inv, NoLostUpdate, served
<1>9. save' = [save EXCEPT ![n] = s] /\ gets' = gets
  BY <1>1, <1>2
<1> QED
  BY <1>0, <1>1, <1>3, <1>4, <1>6, <1>7, <1>8, <1>9, SaveKeeps

\* The heart of it: a version that still is the row's comes with the count of
\* others' edits the form has seen.
LEMMA CurrentIsSeen ==
    ASSUME NEW s, SaveAgrees(s), Checked(s), Current(s), ~s.tainted
    PROVE  row[s.id].foreign = s.form.seen
BY DEF SaveAgrees, Current, Agrees

LEMMA ServerKeeps ==
    ASSUME Inv, inputs' \in Nat, NEW n \in Press, Server(n)
    PROVE  Inv'
<1>0. Base' /\ Base
  BY ServerTypes DEF Inv
<1>1. Running(n) /\ UNCHANGED <<gone, dialog, gets, sprintOp>>
  BY <1>0, ServeWrites
<1>2. PICK i \in Item, r \in Rows : Commit(n, save[n], i, r) /\ Writes(save[n], i, r)
  BY <1>0, ServeWrites
<1>3. PICK s : s = save[n]
  OBVIOUS
<1>4. PICK t : t = [s EXCEPT !.sent = FALSE, !.id = i, !.ver = r.ver]
  OBVIOUS
<1>5. row' = [row EXCEPT ![i] = r] /\ save' = [save EXCEPT ![n] = t]
  BY <1>2, <1>3, <1>4 DEF Commit
<1>6. s \in Saving /\ SaveAgrees(s) /\ SaveLives(s)
  BY <1>0, <1>1, <1>3, RunningType DEF Base, Inv, SavesAgree, SavesLive
<1>7. /\ t.step = s.step /\ t.live = s.live /\ t.tainted = s.tainted
      /\ t.form = s.form /\ t.was = s.was /\ t.id = i /\ t.ver = r.ver
  BY <1>4, <1>6 DEF Saving
<1>8. r.ver \in Nat /\ row[i] \in Rows /\ row[i].ver \in Nat /\ row'[i] = r
  BY <1>0, <1>5 DEF Base, TypeOK, Rows
<1>9. Writes(s, i, r)
  BY <1>2, <1>3
<1>10. Ages
  <2>1. \/ Exists(i) /\ (r.ver > row[i].ver \/ (r.ver = row[i].ver /\ r.foreign = row[i].foreign))
        \/ ~Exists(i) /\ i \notin gone
    BY <1>8, <1>9 DEF Writes, Later
  <2> QED
    BY <1>1, <1>5, <1>8, <2>1, RowAges
<1>11. FormAgrees'
  BY <1>0, <1>1, <1>10, FormKept DEF dialog
<1>12. ~overwrote'
  <2>1. Checked(s) /\ Current(s) /\ Overwrites(s) => ~overwrote'
    BY <1>6, CurrentIsSeen DEF Overwrites, Inv, NoLostUpdate
  <2> QED
    BY <1>9, <2>1 DEF Writes, Inv, NoLostUpdate
<1>13. SaveAgrees(t)'
  <2>1. CASE s.step = "post"
    BY <1>6, <1>7, <2>1 DEF SaveAgrees, Checked, Editing
  <2>2. CASE s.step # "post"
    <3>1. Exists(i) /\ i = s.id /\ Later(r, row[i]) /\ (Checked(s) => Current(s))
      BY <1>9, <2>2 DEF Writes
    <3>2. Checked(t) => Checked(s)
      BY <1>7 DEF Checked, Editing
    <3>3. Checked(s) /\ ~s.tainted => r.foreign = s.form.seen
      BY <1>6, <3>1, CurrentIsSeen DEF Later
    <3>4. r.ver > 0
      BY <1>8, <3>1 DEF Later, Exists
    <3>5. Checked(t) /\ ~t.tainted => Agrees(t.id, t.ver, t.form.seen)'
      BY <1>7, <1>8, <3>2, <3>3, <3>4 DEF Agrees, Exists
    <3> QED
      BY <1>7, <2>2, <3>5 DEF SaveAgrees, Checked, Editing
  <2> QED
    BY <2>1, <2>2
<1>14. SaveLives(t)'
  <2>1. Editing(s) => i = s.id
    BY <1>6, <1>9 DEF SaveAgrees, Writes
  <2> QED
    BY <1>1, <1>6, <1>7, <2>1 DEF SaveLives, Editing, dialog
<1> QED
  BY <1>0, <1>1, <1>5, <1>10, <1>11, <1>12, <1>13, <1>14, SaveKeeps DEF dialog

\* The next request of a save is checked only if the one before it was.
LEMMA ProceedKeeps ==
    ASSUME Inv, Base', Ages, NEW n \in Press, Running(n), Proceed(n, save[n]),
           form' = form, gets' = gets, overwrote' = overwrote, crossed => crossed',
           FormAgrees'
    PROVE  Inv'
<1>0. \A i, v, f : Agrees(i, v, f) => Agrees(i, v, f)'
  BY AgreesKept DEF Inv
<1>1. PICK s : s = save[n]
  OBVIOUS
<1>2. s \in Saving /\ SaveAgrees(s) /\ SaveLives(s)
  BY <1>1, RunningType DEF Inv, Base, SavesAgree, SavesLive
<1>3. form'.seen = form.seen /\ ~overwrote'
  BY DEF Inv, NoLostUpdate
<1>4. CASE Finish(n)
  <2>1. save' = [save EXCEPT ![n] = Idle] /\ modal' = Closed
    BY <1>4 DEF Finish
  <2> QED
    BY <1>3, <2>1, SaveKeeps
<1>5. ASSUME NEW u \in ToDo(s), save' = [save EXCEPT ![n] = [s EXCEPT !.step = u, !.sent = TRUE]],
             UNCHANGED modal
      PROVE  Inv'
  <2>1. PICK t : t = [s EXCEPT !.step = u, !.sent = TRUE]
    OBVIOUS
  <2>2. /\ t.step = u /\ t.live = s.live /\ t.tainted = s.tainted
        /\ t.form = s.form /\ t.was = s.was /\ t.id = s.id /\ t.ver = s.ver
    BY <1>2, <2>1 DEF Saving
  <2>3. u # "post" /\ u # "put" /\ (u = "link" => s.step \in {"put", "post"})
    BY DEF ToDo, After
  <2>4. Checked(t) => Checked(s)
    BY <1>2, <2>2, <2>3 DEF Checked, Editing, SaveAgrees
  <2>5. SaveAgrees(t)'
    BY <1>0, <1>2, <2>2, <2>3, <2>4 DEF SaveAgrees, Checked, Editing
  <2>6. SaveLives(t)'
    BY <1>2, <1>3, <1>5, <2>2 DEF SaveLives, Editing
  <2>7. save' = [save EXCEPT ![n] = t]
    BY <1>5, <2>1
  <2> QED
    BY <1>3, <1>5, <2>5, <2>6, <2>7, SaveKeeps
<1>6. Proceed(n, s)
  BY <1>1
<1> QED
  BY <1>4, <1>5, <1>6 DEF Proceed

LEMMA EndKeeps ==
    ASSUME Inv, inputs' \in Nat, NEW n \in Press,
           Answered(n) \/ StepFails(n) \/ AgileRefused(n)
    PROVE  Inv'
<1>0. Base' /\ Base
  BY EndTypes DEF Inv
<1>1. UNCHANGED <<served, gets>>
  BY DEF Answered, StepFails, AgileRefused
<1>2. Ages
  BY <1>1, StillAges DEF served
<1>3. \A i, v, f : Agrees(i, v, f) => Agrees(i, v, f)'
  BY <1>0, <1>2, AgreesKept
<1>4. ASSUME Running(n), Proceed(n, save[n]) PROVE modal' = modal \/ modal' = Closed
  BY <1>4 DEF Proceed, Finish
<1>5. CASE Answered(n)
  <2>1. PICK s : s = save[n]
    OBVIOUS
  <2>2. Running(n) /\ Proceed(n, save[n]) /\ form' = form
    BY <1>5 DEF Answered
  <2>3. SaveAgrees(s) /\ SaveLives(s)
    BY <2>1, <2>2 DEF Inv, SavesAgree, SavesLive
  <2>4. modal' = modal \/ modal' = Closed
    BY <1>4, <2>2
  <2>5. CASE Editing(s) /\ s.step \in {"put", "link"}
    <3>1. expected' = s.ver /\ crossed' = (crossed \/ ~s.live)
      BY <1>5, <2>1, <2>5 DEF Answered
    <3>2. ASSUME modal'.open, modal'.id # None, ~crossed'
          PROVE  Agrees(modal.id, s.ver, form.seen)'
      <4>0. ~(crossed \/ ~s.live)
        BY <3>1, <3>2
      <4>1. modal' = modal /\ modal.open /\ ~crossed /\ s.live
        BY <2>4, <3>2, <4>0 DEF Closed
      <4>2. ~s.tainted /\ s.id = modal.id /\ s.form.seen = form.seen
        BY <2>3, <2>5, <4>1 DEF SaveLives
      <4>3. Agrees(s.id, s.ver, s.form.seen)
        BY <2>3, <2>5, <4>2 DEF SaveAgrees, Checked
      <4> QED
        BY <1>3, <2>2, <4>1, <4>2, <4>3
    <3>3. FormAgrees'
      BY <3>1, <3>2 DEF FormAgrees
    <3> QED
      BY <1>0, <1>1, <1>2, <2>2, <3>1, <3>3, ProceedKeeps DEF served
  <2>6. CASE ~(Editing(s) /\ s.step \in {"put", "link"})
    <3>1. UNCHANGED <<expected, crossed>>
      BY <1>5, <2>1, <2>6 DEF Answered
    <3>2. FormAgrees'
      BY <1>0, <1>2, <2>2, <2>4, <3>1, FormKept
    <3> QED
      BY <1>0, <1>1, <1>2, <2>2, <3>1, <3>2, ProceedKeeps DEF served
  <2> QED
    BY <2>5, <2>6
<1>6. CASE StepFails(n)
  <2>1. Running(n) /\ UNCHANGED <<form, expected, crossed>>
    BY <1>6 DEF StepFails
  <2>2. CASE Optional(save[n])
    <3>1. Proceed(n, save[n])
      BY <1>6, <2>2 DEF StepFails
    <3>2. FormAgrees'
      BY <1>0, <1>2, <1>4, <2>1, <3>1, FormKept
    <3> QED
      BY <1>0, <1>1, <1>2, <2>1, <3>1, <3>2, ProceedKeeps DEF served
  <2>3. CASE ~Optional(save[n])
    <3>1. save' = [save EXCEPT ![n] = Idle] /\ UNCHANGED modal
      BY <1>6, <2>3 DEF StepFails
    <3>2. FormAgrees'
      BY <1>0, <1>2, <2>1, <3>1, FormKept
    <3>3. ~overwrote'
      BY <1>1 DEF Inv, NoLostUpdate, served
    <3> QED
      BY <1>0, <1>1, <1>2, <2>1, <3>1, <3>2, <3>3, SaveKeeps
  <2> QED
    BY <2>2, <2>3
<1>7. CASE AgileRefused(n)
  <2>1. save' = [save EXCEPT ![n] = Idle] /\ UNCHANGED <<modal, expected, crossed>>
    BY <1>7 DEF AgileRefused
  <2>2. form'.seen = form.seen
    BY <1>0, <1>7, OffType DEF AgileRefused, Base, TypeOK
  <2>3. FormAgrees'
    BY <1>0, <1>2, <2>1, <2>2, FormKept
  <2>4. ~overwrote'
    BY <1>1 DEF Inv, NoLostUpdate, served
  <2> QED
    BY <1>0, <1>1, <1>2, <2>1, <2>2, <2>3, <2>4, SaveKeeps
<1> QED
  BY <1>5, <1>6, <1>7

LEMMA InitInv == Init => Inv
<1> SUFFICES ASSUME Init PROVE Inv
  OBVIOUS
<1>1. Base
  BY InitTypes
<1>2. GoneForGood /\ CopiesAgree /\ FormAgrees /\ SavesAgree /\ SavesLive /\ NoLostUpdate
  BY DEF Init, GoneForGood, CopiesAgree, FormAgrees, SavesAgree, SavesLive, NoLostUpdate,
         Closed, Running
<1> QED
  BY <1>1, <1>2 DEF Inv

LEMMA NextInv == Inv /\ [Next]_vars => Inv'
<1> SUFFICES ASSUME Inv, [Next]_vars PROVE Inv'
  OBVIOUS
<1>0. Base /\ Base'
  BY NextTypes DEF Inv
<1>1. CASE UNCHANGED vars
  <2>1. /\ UNCHANGED <<row, gone, gets, save, modal, form, expected, crossed, overwrote>>
    BY <1>1 DEF vars
  <2>2. Ages /\ CopiesAgree'
    BY <1>0, <2>1, StillAges, FewerCopies
  <2> QED
    BY <1>0, <2>1, <2>2, AroundKeeps
<1>2. CASE Next
  <2>1. inputs' \in Nat
    BY <1>0, <1>2 DEF Next, Base, TypeOK
  <2>2. CASE User
    <3>1. CASE Typing
      BY <1>0, <2>1, <3>1, TypingTypes, TypingKeeps
    <3> QED
      BY <2>1, <2>2, <3>1, OpeningKeeps, AskingKeeps, SubmitKeeps DEF User
  <2>3. CASE Poll \/ Others
    BY <2>1, <2>3, AskingKeeps, OthersKeep
  <2>4. CASE Answers
    <3>1. ASSUME \/ \E agile \in {"on", "off"} : OffersAnswer(agile)
                 \/ \E agile \in {"unknown", "on"} : OffersFail(agile)
          PROVE  Inv'
      BY <1>0, <2>1, <3>1, OffersTypes, TypingKeeps
    <3> QED
      BY <2>1, <2>4, <3>1, CopyKeeps, SprintOpKeeps, ServerKeeps, EndKeeps
         DEF Answers, SaveStep
  <2> QED
    BY <1>2, <2>2, <2>3, <2>4 DEF Next
<1> QED
  BY <1>1, <1>2

\* A save never overwrites an edit its form never showed, unless the version it
\* sends was put there by a save of another seeding: for any number of items,
\* presses of Save, copies under way and edits by others.
THEOREM NoUpdateLost == Spec => []NoLostUpdate
<1>1. Inv => NoLostUpdate
  BY DEF Inv
<1> QED
  BY <1>1, InitInv, NextInv, PTL DEF Spec
-----------------------------------------------------------------------------
(* Pressing Save again. *)

\* An item that is there or has been.
KnownItem(i) == Exists(i) \/ i \in gone

CopiesKnown == \A g \in gets : g.copy.ver > 0 /\ KnownItem(g.id)
ShownKnown == modal.id # None => modal.copy.ver > 0 /\ KnownItem(modal.id)
PutsEdit == \A n \in Press : Running(n) /\ save[n].step = "put" => Editing(save[n])

\* An item is shown, and the form knows of every write of this dialog to it.
Kept == modal.open /\ modal.id # None /\ sure

\* The version of item i if nobody but this dialog had touched it since the form
\* was seeded.
Written(i) == Own(row[i]) + form.seen

\* A save that has written, or may have, what the ref will not be told of unless
\* its answer comes; at its end the dialog closes or is no longer sure.
Unsettled(s) ==
    \/ ~s.sent /\ s.step \in {"put", "link", "custom"}
    \/ Optional(s)

\* No other save is one of the item shown.
Alone(n) == \A k \in Press : Running(k) /\ save[k].id = modal.id => k = n

\* A live save of the item shown runs alone and has, or brings, the version of
\* the ref.
LiveRight(n, s) ==
    /\ ~s.tainted
    /\ s.id = modal.id => Alone(n)
    /\ Editing(s) /\ s.step \in {"put", "link"} =>
         IF s.sent THEN s.ver = expected
         ELSE Exists(modal.id) => s.ver = Written(modal.id)

Settled == \A n \in Press : Running(n) /\ save[n].id = modal.id => ~Unsettled(save[n])

Synced == Exists(modal.id) /\ Settled => expected = Written(modal.id)

KeptRight ==
    Kept => /\ ~crossed
            /\ \A n \in Press : Running(n) /\ save[n].live => LiveRight(n, save[n])
            /\ Synced

RetryInv == CopiesKnown /\ ShownKnown /\ PutsEdit /\ KeptRight

\* What stays of an item known: its writes by this dialog, or nothing.
OwnKept ==
    \A i \in Item : KnownItem(i) =>
        /\ KnownItem(i)'
        /\ Exists(i)' => Exists(i) /\ Own(row[i])' = Own(row[i])

LEMMA StillOwn == ASSUME UNCHANGED <<row, gone>> PROVE OwnKept
BY DEF OwnKept, KnownItem, Exists

LEMMA RemoveOwn == ASSUME Inv, NEW i \in Item, Remove(i) PROVE OwnKept
<1>1. row \in [Item -> Rows] /\ gone \subseteq Item
  BY DEF Inv, Base, TypeOK
<1>2. row' = [row EXCEPT ![i] = NoRow] /\ gone' = gone \cup {i} /\ ~(NoRow.ver > 0)
  BY DEF Remove, NoRow
<1>3. \A j \in Item : row'[j] = IF j = i THEN NoRow ELSE row[j]
  BY <1>1, <1>2
<1> HIDE DEF NoRow
<1> QED
  BY <1>2, <1>3 DEF OwnKept, KnownItem, Exists

\* One row is written.
LEMMA RowOwn ==
    ASSUME Inv, NEW i \in Item, NEW r, row' = [row EXCEPT ![i] = r], gone' = gone,
           KnownItem(i) => Exists(i) /\ r.ver > 0 /\ Own(r) = Own(row[i])
    PROVE  OwnKept
<1>1. row \in [Item -> Rows]
  BY DEF Inv, Base, TypeOK
<1>2. \A j \in Item : row'[j] = IF j = i THEN r ELSE row[j]
  BY <1>1
<1> QED
  BY <1>2 DEF OwnKept, KnownItem, Exists

LEMMA CopiesStillKnown ==
    ASSUME Inv, RetryInv, OwnKept, gets' \subseteq gets
    PROVE  CopiesKnown'
<1>1. ASSUME NEW g \in gets' PROVE g.copy.ver > 0 /\ KnownItem(g.id)'
  <2>1. g \in gets /\ g.id \in Item
    BY DEF Inv, Base, TypeOK, Gets
  <2> QED
    BY <2>1 DEF RetryInv, CopiesKnown, OwnKept
<1> QED
  BY <1>1 DEF CopiesKnown

\* The item shown is the same, or none.
LEMMA ShownStillKnown ==
    ASSUME Inv, RetryInv, OwnKept, modal' = modal \/ modal' = Closed
    PROVE  ShownKnown'
<1>1. CASE modal' = Closed
  BY <1>1 DEF ShownKnown, Closed
<1>2. CASE modal' = modal
  <2>1. modal.id # None => modal.id \in Item
    BY DEF Inv, Base, TypeOK, Modals
  <2> QED
    BY <1>2, <2>1 DEF RetryInv, ShownKnown, OwnKept
<1> QED
  BY <1>1, <1>2

\* The writes counted in the ref stay what they were while the rows only lose
\* items or get edits of others.
LEMMA WrittenKept ==
    ASSUME Inv, RetryInv, OwnKept, modal' = modal, modal.id # None, form'.seen = form.seen,
           Exists(modal.id)'
    PROVE  Exists(modal.id) /\ Written(modal.id)' = Written(modal.id)
<1>1. modal.id \in Item
  BY DEF Inv, Base, TypeOK, Modals
<1>2. KnownItem(modal.id)
  BY DEF RetryInv, ShownKnown
<1> QED
  BY <1>1, <1>2 DEF OwnKept, Written

\* A step that leaves the dialog and the saves alone.
LEMMA AroundRetry ==
    ASSUME Inv, RetryInv, OwnKept, CopiesKnown',
           UNCHANGED <<modal, expected, crossed, sure, save>>, form'.seen = form.seen
    PROVE  RetryInv'
<1>1. ShownKnown'
  BY ShownStillKnown
<1>2. PutsEdit'
  BY DEF RetryInv, PutsEdit, Running
<1>3. ASSUME Kept PROVE ~crossed /\ (\A n \in Press : Running(n) /\ save[n].live => LiveRight(n, save[n])) /\ Synced
  BY <1>3 DEF RetryInv, KeptRight
<1>4. ASSUME Kept' PROVE Kept /\ (Exists(modal.id)' => Exists(modal.id) /\ Written(modal.id)' = Written(modal.id))
  BY <1>4, WrittenKept DEF Kept
<1>5. ASSUME Kept' PROVE Synced'
  BY <1>3, <1>4, <1>5 DEF Synced, Settled, Running
<1>6. ASSUME Kept', NEW n \in Press, Running(n)', save'[n].live PROVE LiveRight(n, save[n])'
  <2>1. Running(n) /\ LiveRight(n, save[n])
    BY <1>3, <1>4, <1>6 DEF Running
  <2>2. Alone(n) => Alone(n)'
    BY DEF Alone, Running
  <2> QED
    BY <1>4, <1>6, <2>1, <2>2 DEF LiveRight
<1>7. KeptRight'
  BY <1>3, <1>4, <1>5, <1>6 DEF KeptRight
<1> QED
  BY <1>1, <1>2, <1>7 DEF RetryInv

\* The dialog shows m.  If that seeds the form it is with a copy of a known item,
\* and sure only if the row has the same writes of this dialog.
LEMMA ShowRetry ==
    ASSUME Inv, RetryInv, OwnKept, NEW m, NEW f, Show(m, f), gets' \subseteq gets,
           m = Closed \/ (m \in Modals /\ UNCHANGED row),
           m.id # None => m.copy.ver > 0 /\ KnownItem(m.id)',
           Seeds(m) /\ m.id # None => f.seen = m.copy.foreign
    PROVE  RetryInv'
<1>1. CopiesKnown'
  BY CopiesStillKnown
<1>2. ShownKnown' /\ modal' = m
  BY DEF Show, ShownKnown
<1>3. CASE Seeds(m)
  <2>1. /\ form' = f /\ crossed' = FALSE
        /\ expected' = IF m.id = None THEN None ELSE m.copy.ver
        /\ save' = [n \in Press |-> IF Running(n) THEN [save[n] EXCEPT !.live = FALSE] ELSE Idle]
        /\ sure' = (m.id # None => Own(m.copy) = Own(row[m.id]))
    BY <1>3 DEF Show, Seed
  <2>2. ASSUME NEW n \in Press, Running(n)'
        PROVE  ~save'[n].live /\ (save'[n].step = "put" => Editing(save'[n]))
    <3>1. Running(n) /\ save'[n] = [save[n] EXCEPT !.live = FALSE]
      BY <2>1, <2>2 DEF Running
    <3>2. save'[n].live = FALSE /\ save'[n].step = save[n].step /\ save'[n].was = save[n].was
      BY <3>1, RunningType DEF Inv, Base, Saving
    <3> QED
      BY <3>1, <3>2 DEF RetryInv, PutsEdit, Editing
  <2>3. Kept' => Synced'
    <3> SUFFICES ASSUME Kept' PROVE expected' = Written(modal.id)'
      BY DEF Synced
    <3>1. m.open /\ m.id # None /\ Own(m.copy) = Own(row[m.id])
      BY <1>2, <2>1 DEF Kept
    <3>2. m \in Modals /\ UNCHANGED row
      BY <3>1 DEF Closed
    <3>3. expected' = m.copy.ver /\ form'.seen = m.copy.foreign
      BY <1>3, <2>1, <3>1
    <3>4. m.copy.ver \in Nat /\ m.copy.foreign \in Nat
      BY <3>2 DEF Modals, Rows
    <3>5. Own(m.copy) + m.copy.foreign = m.copy.ver
      BY <3>4 DEF Own
    <3>6. Written(modal.id)' = Own(m.copy) + m.copy.foreign
      BY <1>2, <3>1, <3>2, <3>3 DEF Written
    <3> QED
      BY <3>3, <3>5, <3>6
  <2> QED
    BY <1>1, <1>2, <2>1, <2>2, <2>3 DEF RetryInv, PutsEdit, KeptRight
<1>4. CASE ~Seeds(m)
  <2>1. UNCHANGED <<form, expected, save, crossed, sure>>
    BY <1>4 DEF Show
  <2>2. m.open => modal.open /\ m.id = modal.id
    BY <1>4 DEF Seeds, Closed, Inv, Base, TypeOK, Modals
  <2>3. PutsEdit'
    BY <2>1 DEF RetryInv, PutsEdit, Running
  <2>4. ASSUME Kept' PROVE KeptRight'
    <3>1. /\ Kept /\ modal'.id = modal.id /\ UNCHANGED row /\ m.open
      BY <1>2, <2>1, <2>2, <2>4 DEF Kept, Closed
    <3>2. ~crossed /\ (\A n \in Press : Running(n) /\ save[n].live => LiveRight(n, save[n])) /\ Synced
      BY <3>1 DEF RetryInv, KeptRight
    <3>3. Synced'
      BY <2>1, <3>1, <3>2 DEF Synced, Settled, Running, Exists, Written
    <3>4. ASSUME NEW n \in Press, Running(n)', save'[n].live PROVE LiveRight(n, save[n])'
      <4>1. Running(n) /\ LiveRight(n, save[n])
        BY <2>1, <3>2, <3>4 DEF Running
      <4> QED
        BY <2>1, <3>1, <4>1 DEF LiveRight, Alone, Running, Exists, Written
    <3> QED
      BY <2>1, <3>2, <3>3, <3>4 DEF KeptRight
  <2> QED
    BY <1>1, <1>2, <2>3, <2>4 DEF RetryInv, KeptRight
<1> QED
  BY <1>3, <1>4

\* A copy asked for is of an item that is there.
LEMMA FetchKnown ==
    ASSUME Inv, RetryInv, NEW why, NEW i \in Item, Fetch(why, i), UNCHANGED <<row, gone>>
    PROVE  CopiesKnown'
BY DEF RetryInv, CopiesKnown, KnownItem, Fetch, Exists

LEMMA OpeningRetry ==
    ASSUME Inv, RetryInv, Opening, inputs' \in Nat
    PROVE  RetryInv'
<1>1. ASSUME NEW i \in Item, OpenDetail(i) PROVE RetryInv'
  <2>1. Fetch("open", i)
        /\ UNCHANGED <<served, modal, form, expected, offers, save, sprintOp, crossed, sure>>
    BY <1>1 DEF OpenDetail
  <2> QED
    BY <2>1, FetchKnown, StillOwn, AroundRetry DEF served
<1>2. ASSUME NEW p \in Project, NEW k \in Kinds, NEW s \in Pick, OpenForm(p, k, s) PROVE RetryInv'
  <2> DEFINE m == [open |-> TRUE, id |-> None, copy |-> NoRow]
  <2>1. /\ Show(m, SeedCreate(p, k, s)) /\ UNCHANGED <<served, gets, sprintOp>>
        /\ m.id = None /\ m \in Modals
    BY <1>2, NoRowType DEF OpenForm, Modals
  <2> HIDE DEF m
  <2> QED
    BY <2>1, StillOwn, ShowRetry DEF served
<1>3. ASSUME CloseBugModal, OwnKept, gets' = gets PROVE RetryInv'
  <2>1. Show(Closed, form) /\ ~Seeds(Closed) /\ Closed.id = None
    BY <1>3 DEF CloseBugModal, Seeds, Closed
  <2> QED
    BY <1>3, <2>1, ShowRetry
<1>4. CASE Close
  BY <1>3, <1>4, StillOwn DEF Close, served
<1>5. CASE DeleteBug
  <2>1. Remove(modal.id) /\ modal.id \in Item
    BY <1>5 DEF DeleteBug, Inv, Base, TypeOK, Modals
  <2>2. OwnKept
    BY <2>1, RemoveOwn
  <2> QED
    BY <1>3, <1>5, <2>2 DEF DeleteBug
<1> QED
  BY <1>1, <1>2, <1>4, <1>5 DEF Opening

LEMMA TypingRetry ==
    ASSUME Inv, RetryInv, UNCHANGED <<unfilled, modal>>, form'.seen = form.seen
    PROVE  RetryInv'
<1>1. OwnKept /\ CopiesKnown'
  BY StillOwn, CopiesStillKnown DEF unfilled
<1> QED
  BY <1>1, AroundRetry DEF unfilled

LEMMA AskingRetry ==
    ASSUME Inv, RetryInv, Poll \/ AddToSprint \/ RemoveFromSprint
    PROVE  RetryInv'
<1>1. CASE Poll
  <2>1. modal.id \in Item
    BY <1>1 DEF Poll, Inv, Base, TypeOK, Modals
  <2>2. Fetch("reload", modal.id)
        /\ UNCHANGED <<served, modal, form, expected, offers, save, sprintOp, crossed, sure>>
    BY <1>1 DEF Poll
  <2> QED
    BY <2>1, <2>2, FetchKnown, StillOwn, AroundRetry DEF served
<1>2. CASE AddToSprint \/ RemoveFromSprint
  <2>1. UNCHANGED <<served, local, form, gets>>
    BY <1>2 DEF AddToSprint, RemoveFromSprint
  <2>2. OwnKept /\ CopiesKnown'
    BY <2>1, StillOwn, CopiesStillKnown DEF served
  <2> QED
    BY <2>1, <2>2, AroundRetry DEF served, local
<1> QED
  BY <1>1, <1>2

\* A copy seeds the form with its own count of others' edits.
LEMMA CopyRetry ==
    ASSUME Inv, RetryInv, NEW g \in gets, OpenAnswer(g) \/ ReloadAnswer(g) \/ GetFails(g)
    PROVE  RetryInv'
<1>1. gets' \subseteq gets /\ OwnKept /\ UNCHANGED <<row, gone>>
  BY StillOwn DEF OpenAnswer, ReloadAnswer, GetFails, served
<1>2. g \in Gets /\ g.copy.ver > 0 /\ KnownItem(g.id) /\ modal \in Modals
  BY DEF Inv, Base, TypeOK, RetryInv, CopiesKnown
<1>3. ASSUME NEW m \in Modals, m.id = g.id, m.copy = g.copy, Show(m, SeedEdit(g.copy))
      PROVE  RetryInv'
  <2>1. SeedEdit(g.copy).seen = g.copy.foreign
    BY DEF SeedEdit
  <2>2. KnownItem(m.id)'
    BY <1>1, <1>2, <1>3 DEF KnownItem, Exists
  <2> QED
    BY <1>1, <1>2, <1>3, <2>1, <2>2, ShowRetry
<1>4. CASE OpenAnswer(g)
  <2> DEFINE m == [open |-> TRUE, id |-> g.id, copy |-> g.copy]
  <2>1. m \in Modals /\ m.id = g.id /\ m.copy = g.copy /\ Show(m, SeedEdit(g.copy))
    BY <1>2, <1>4 DEF OpenAnswer, Gets, Modals
  <2> HIDE DEF m
  <2> QED
    BY <1>3, <2>1
<1>5. CASE ReloadAnswer(g)
  <2> DEFINE m == [modal EXCEPT !.id = g.id, !.copy = g.copy]
  <2>1. m \in Modals /\ m.id = g.id /\ m.copy = g.copy /\ Show(m, SeedEdit(g.copy))
    BY <1>2, <1>5 DEF ReloadAnswer, Gets, Modals
  <2> HIDE DEF m
  <2> QED
    BY <1>3, <2>1
<1>6. CASE GetFails(g)
  <2>1. UNCHANGED <<served, modal, form, expected, offers, save, sprintOp, crossed, sure>>
    BY <1>6 DEF GetFails
  <2> QED
    BY <1>1, <2>1, CopiesStillKnown, AroundRetry DEF served
<1> QED
  BY <1>4, <1>5, <1>6

LEMMA SprintOpRetry ==
    ASSUME Inv, RetryInv, inputs' \in Nat, SprintOpDone \/ SprintOpFails
    PROVE  RetryInv'
<1> DEFINE to == IF sprintOp.op = "add" THEN sprintOp.sprint ELSE None
           r == [row[sprintOp.id] EXCEPT !.sprint = to]
<1>0. form'.seen = form.seen /\ Base'
  BY SprintOpTypes DEF Inv
<1>1. UNCHANGED <<gone, overwrote, local>>
  BY DEF SprintOpDone, SprintOpFails
<1>2. PICK i \in Item : i = sprintOp.id
  BY DEF SprintOpDone, SprintOpFails, Inv, Base, Named
<1>3. row[i] \in Rows /\ r.ver = row[i].ver /\ Own(r) = Own(row[i])
  BY <1>2 DEF Inv, Base, TypeOK, Rows, Own
<1>4. row' = row \/ (row' = [row EXCEPT ![i] = r] /\ Exists(i))
  BY <1>2 DEF SprintOpDone, SprintOpFails, Plannable
<1> HIDE DEF r
<1>5. OwnKept
  BY <1>1, <1>2, <1>3, <1>4, StillOwn, RowOwn DEF Exists
<1>6. CopiesKnown'
  <2>1. CASE gets' = gets
    BY <1>5, <2>1, CopiesStillKnown
  <2>2. CASE SprintOpDone
    <3>1. gets' \subseteq gets \cup {[why |-> "reload", id |-> i, copy |-> row'[i]]}
          /\ (gets' # gets => Exists(i)')
      BY <1>2, <2>2 DEF SprintOpDone, Reload, Exists
    <3>2. ASSUME NEW g \in gets', g \notin gets PROVE g.copy.ver > 0 /\ KnownItem(g.id)'
      BY <3>1, <3>2 DEF KnownItem, Exists
    <3>3. ASSUME NEW g \in gets PROVE g.copy.ver > 0 /\ KnownItem(g.id)'
      BY <1>5 DEF OwnKept, RetryInv, CopiesKnown, Inv, Base, TypeOK, Gets
    <3> QED
      BY <3>2, <3>3 DEF CopiesKnown
  <2> QED
    BY <2>1, <2>2 DEF SprintOpFails
<1> QED
  BY <1>0, <1>1, <1>5, <1>6, AroundRetry DEF local

\* An edit of somebody else counts as one of theirs; a deletion leaves nothing.
LEMMA OthersRetry ==
    ASSUME Inv, RetryInv, Others
    PROVE  RetryInv'
<1>1. ASSUME OwnKept, UNCHANGED elsewhere PROVE RetryInv'
  BY <1>1, CopiesStillKnown, AroundRetry DEF elsewhere, dialog
<1>2. ASSUME NEW i \in Item, ForeignDelete(i) PROVE RetryInv'
  BY <1>1, <1>2, RemoveOwn DEF ForeignDelete
<1>3. ASSUME NEW i \in Item, NEW u \in Pick, ForeignEdit(i, u) PROVE RetryInv'
  <2> DEFINE r == [row[i] EXCEPT !.ver = @ + 1, !.foreign = @ + 1, !.up = u]
  <2>1. row[i] \in Rows
    BY DEF Inv, Base, TypeOK
  <2>2. r.ver > 0 /\ Own(r) = Own(row[i])
    BY <2>1 DEF Rows, Own
  <2>3. row' = [row EXCEPT ![i] = r] /\ gone' = gone /\ Exists(i) /\ UNCHANGED elsewhere
    BY <1>3 DEF ForeignEdit
  <2> HIDE DEF r
  <2>4. OwnKept
    BY <2>2, <2>3, RowOwn
  <2> QED
    BY <1>1, <2>3, <2>4
<1> QED
  BY <1>2, <1>3 DEF Others

\* What is right of a live save stays so while another one, n, changes to s.
LEMMA OtherLive ==
    ASSUME Inv, RetryInv, Kept, modal' = modal, form'.seen = form.seen,
           NEW n \in Press, NEW s, save' = [save EXCEPT ![n] = s],
           s # Idle /\ s.id = modal.id => Running(n) /\ save[n].id = modal.id,
           \/ Running(n) /\ save[n].id = modal.id
           \/ /\ expected' = expected
              /\ Exists(modal.id)' => Exists(modal.id) /\ Written(modal.id)' = Written(modal.id),
           NEW k \in Press, k # n, Running(k)', save'[k].live
    PROVE  LiveRight(k, save[k])'
<1>1. \A j \in Press : save'[j] = IF j = n THEN s ELSE save[j]
  BY DEF Inv, Base, TypeOK
<1>2. save'[k] = save[k] /\ Running(k) /\ save[k].live
  BY <1>1 DEF Running
<1>3. LiveRight(k, save[k])
  BY <1>2 DEF RetryInv, KeptRight
<1>4. save[k].id = modal.id => Alone(k)'
  BY <1>1, <1>3 DEF LiveRight, Alone, Running
<1>5. Running(n) /\ save[n].id = modal.id => save[k].id # modal.id
  BY <1>3 DEF LiveRight, Alone
<1>6. Editing(save[k]) => save[k].id = modal.id
  BY <1>2 DEF Inv, SavesLive, SaveLives, Kept
<1> QED
  BY <1>2, <1>3, <1>4, <1>5, <1>6 DEF LiveRight, Editing

\* One save changes to s and the dialog stays: what there is to show of s.
LEMMA SaveRetry ==
    ASSUME Inv, RetryInv, CopiesKnown', modal' = modal, ShownKnown', form'.seen = form.seen,
           NEW n \in Press, NEW s, save' = [save EXCEPT ![n] = s],
           s # Idle /\ s.step = "put" => Editing(s),
           Kept' => /\ Kept /\ ~crossed'
                    /\ s # Idle /\ s.id = modal.id => Running(n) /\ save[n].id = modal.id
                    /\ \/ Running(n) /\ save[n].id = modal.id
                       \/ /\ expected' = expected
                          /\ Exists(modal.id)' => /\ Exists(modal.id)
                                                  /\ Written(modal.id)' = Written(modal.id)
                    /\ s # Idle /\ s.live => LiveRight(n, s)'
                    /\ Synced'
    PROVE  RetryInv'
<1>1. \A j \in Press : save'[j] = IF j = n THEN s ELSE save[j]
  BY DEF Inv, Base, TypeOK
<1>2. PutsEdit'
  BY <1>1 DEF RetryInv, PutsEdit, Running, Editing
<1>3. ASSUME Kept', NEW k \in Press, Running(k)', save'[k].live
      PROVE  LiveRight(k, save[k])'
  <2>1. CASE k = n
    BY <1>1, <1>3, <2>1 DEF Running, LiveRight
  <2>2. CASE k # n
    BY <1>3, <2>2, OtherLive
  <2> QED
    BY <2>1, <2>2
<1>4. KeptRight'
  BY <1>3 DEF KeptRight
<1> QED
  BY <1>2, <1>4 DEF RetryInv

\* What was in step with the rows still is, while save n changes to s and leaves
\* nothing unsettled behind that was not before.
LEMMA SyncedKept ==
    ASSUME Inv, RetryInv, Kept, modal' = modal, expected' = expected,
           NEW n \in Press, NEW s, save' = [save EXCEPT ![n] = s],
           Exists(modal.id)' => Exists(modal.id) /\ Written(modal.id)' = Written(modal.id),
           Running(n) /\ save[n].id = modal.id =>
               \/ ~Unsettled(save[n])
               \/ s # Idle /\ s.id = modal.id /\ Unsettled(s)
    PROVE  Synced'
<1> SUFFICES ASSUME Exists(modal.id)', Settled' PROVE expected = Written(modal.id)
  BY DEF Synced
<1>1. \A j \in Press : save'[j] = IF j = n THEN s ELSE save[j]
  BY DEF Inv, Base, TypeOK
<1>2. \A j \in Press : save'[j] # Idle /\ save'[j].id = modal.id => ~Unsettled(save'[j])
  BY DEF Settled, Running, Unsettled, Optional, Editing
<1>3. Settled
  BY <1>1, <1>2 DEF Settled, Running
<1> QED
  BY <1>3 DEF RetryInv, KeptRight, Synced

\* A save that begins takes the version of the ref, and leaves the form sure only
\* if it is alone.
LEMMA SubmitRetry ==
    ASSUME Inv, RetryInv, NEW n \in Press, Submit(n)
    PROVE  RetryInv'
<1>1. /\ modal.open /\ ~Running(n)
      /\ UNCHANGED <<served, modal, form, expected, crossed, gets>>
      /\ sure' = (sure /\ \A k \in Press : Running(k) => save[k].id # modal.id)
  BY DEF Submit, Writable
<1>2. PICK s : /\ save' = [save EXCEPT ![n] = s]
               /\ s = [step |-> IF modal.id # None THEN "put" ELSE "post",
                       sent |-> TRUE, live |-> TRUE, tainted |-> crossed, id |-> modal.id,
                       ver |-> expected, form |-> form, pick |-> SprintChosen,
                       was |-> IF modal.id # None THEN modal.copy ELSE NoRow]
  BY DEF Submit
<1>3. OwnKept /\ CopiesKnown' /\ ShownKnown'
  BY <1>1, StillOwn, CopiesStillKnown, ShownStillKnown DEF served
<1>4. /\ s.id = modal.id /\ s.ver = expected /\ s.tainted = crossed /\ s.sent
      /\ modal.id # None => s.was = modal.copy
      /\ s.step = "put" => modal.id # None
      /\ s.step \in {"put", "post"}
  BY <1>2
<1>5. s.step = "put" => Editing(s)
  BY <1>4 DEF Editing, RetryInv, ShownKnown
<1>6. \A k \in Press : k # n => save'[k] = save[k]
  BY <1>2 DEF Inv, Base, TypeOK
<1>7. ASSUME Kept'
      PROVE  /\ Kept /\ ~crossed
             /\ \A k \in Press : Running(k) => save[k].id # modal.id
             /\ Alone(n)'
    <2>1. Kept /\ \A k \in Press : Running(k) => save[k].id # modal.id
      BY <1>1, <1>7 DEF Kept
    <2> QED
      BY <1>1, <1>6, <2>1 DEF Alone, Running, RetryInv, KeptRight
<1>8. ASSUME Kept' PROVE LiveRight(n, s)'
  BY <1>1, <1>4, <1>7, <1>8 DEF LiveRight
<1>9. ASSUME Kept' PROVE expected' = Written(modal.id)' \/ ~Exists(modal.id)'
  <2>1. Settled
    BY <1>7, <1>9 DEF Settled
  <2>2. Exists(modal.id) => expected = Written(modal.id)
    BY <1>7, <1>9, <2>1 DEF RetryInv, KeptRight, Synced
  <2> QED
    BY <1>1, <2>2 DEF served, Exists, Written
<1>10. PutsEdit'
  <2>1. ASSUME NEW k \in Press, Running(k)', save'[k].step = "put" PROVE Editing(save'[k])
    <3>1. CASE k = n
      BY <1>2, <1>5, <2>1, <3>1 DEF Inv, Base, TypeOK
    <3>2. CASE k # n
      BY <1>6, <2>1, <3>2 DEF RetryInv, PutsEdit, Running
    <3> QED
      BY <3>1, <3>2
  <2> QED
    BY <2>1 DEF PutsEdit, Editing
<1>11. ASSUME Kept', NEW k \in Press, Running(k)', save'[k].live PROVE LiveRight(k, save[k])'
  <2>1. CASE k = n
    <3>1. save'[k] = s
      BY <1>2, <2>1 DEF Inv, Base, TypeOK
    <3> QED
      BY <1>8, <1>11, <2>1, <3>1 DEF LiveRight
  <2>2. CASE k # n
    <3>1. Running(k) /\ save'[k] = save[k] /\ save[k].id # modal.id
      BY <1>6, <1>7, <1>11, <2>2 DEF Running
    <3>2. LiveRight(k, save[k]) /\ (Editing(save[k]) => save[k].id = modal.id)
      BY <1>7, <1>11, <3>1 DEF RetryInv, KeptRight, Inv, SavesLive, SaveLives, Kept
    <3> QED
      BY <1>1, <3>1, <3>2 DEF LiveRight, Editing
  <2> QED
    BY <2>1, <2>2
<1>12. KeptRight'
  BY <1>1, <1>7, <1>9, <1>11 DEF KeptRight, Synced
<1> QED
  BY <1>3, <1>10, <1>12 DEF RetryInv

\* A request is served when it has been sent; and putting an item into a sprint
\* is no new version of it.
LEMMA ServedSent ==
    ASSUME NEW n \in Press, Base, Server(n)
    PROVE  /\ save[n].sent
           /\ save[n].step = "sprint" => Own(row'[save[n].id]) = Own(row[save[n].id])
<1>1. save[n].sent
  BY DEF Server, ServePut, ServeLink, ServePost, ServeSprint, ServeCustom
<1>2. ASSUME save[n].step = "sprint" PROVE Own(row'[save[n].id]) = Own(row[save[n].id])
  <2>1. ServeSprint(n)
    BY <1>2 DEF Server, ServePut, ServeLink, ServePost, ServeCustom
  <2>2. save[n].id \in Item
    BY <1>1, <1>2, RunningType DEF Base, Named, Running, Idle
  <2>3. row[save[n].id] \in Rows
    BY <2>2 DEF Base, TypeOK
  <2>4. row'[save[n].id] = [row[save[n].id] EXCEPT !.sprint = save[n].pick]
    BY <2>1, <2>2 DEF ServeSprint, Commit, Base, TypeOK
  <2>5. row'[save[n].id].ver = row[save[n].id].ver /\ row'[save[n].id].foreign = row[save[n].id].foreign
    BY <2>3, <2>4 DEF Rows
  <2> QED
    BY <2>5 DEF Own
<1> QED
  BY <1>1, <1>2

\* The server writes for a save: what it makes of the item shown is the live
\* save's, with the version its answer brings, or is unsettled.
LEMMA ServerRetry ==
    ASSUME Inv, RetryInv, inputs' \in Nat, NEW n \in Press, Server(n)
    PROVE  RetryInv'
<1>0. Base' /\ Base
  BY ServerTypes DEF Inv
<1>1. Running(n) /\ UNCHANGED <<gone, dialog, gets, sprintOp>>
  BY <1>0, ServeWrites
<1>2. PICK i \in Item, r \in Rows : Commit(n, save[n], i, r) /\ Writes(save[n], i, r)
  BY <1>0, ServeWrites
<1>3. PICK s : s = save[n]
  OBVIOUS
<1>4. PICK t : t = [s EXCEPT !.sent = FALSE, !.id = i, !.ver = r.ver]
  OBVIOUS
<1>5. row' = [row EXCEPT ![i] = r] /\ save' = [save EXCEPT ![n] = t] /\ row'[i] = r
  BY <1>0, <1>2, <1>3, <1>4 DEF Commit, Base, TypeOK
<1>6. /\ s \in Saving /\ SaveAgrees(s) /\ SaveLives(s)
      /\ s.sent /\ (s.step = "sprint" => Own(row'[s.id]) = Own(row[s.id]))
  BY <1>0, <1>1, <1>3, RunningType, ServedSent DEF Base, Inv, SavesAgree, SavesLive
<1>7. /\ t.step = s.step /\ t.live = s.live /\ t.tainted = s.tainted /\ t.sent = FALSE
      /\ t.form = s.form /\ t.was = s.was /\ t.id = i /\ t.ver = r.ver
  BY <1>4, <1>6 DEF Saving
<1>8. Writes(s, i, r) /\ r.ver \in Nat /\ row[i] \in Rows /\ row[i].ver \in Nat
  BY <1>0, <1>2, <1>3 DEF Base, TypeOK, Rows
<1>9. \A j \in Item : row'[j] = IF j = i THEN r ELSE row[j]
  BY <1>0, <1>5 DEF Base, TypeOK
<1>10. /\ \A j \in Item : KnownItem(j) => KnownItem(j)'
       /\ \A j \in Item : j # i => row'[j] = row[j]
  BY <1>1, <1>8, <1>9 DEF KnownItem, Exists, Writes, Later
<1>11. CopiesKnown'
  <2>1. ASSUME NEW g \in gets' PROVE g.copy.ver > 0 /\ KnownItem(g.id)'
    <3>1. g \in gets /\ g.id \in Item
      BY <1>0, <1>1 DEF Base, TypeOK, Gets
    <3> QED
      BY <1>10, <3>1 DEF RetryInv, CopiesKnown
  <2> QED
    BY <2>1 DEF CopiesKnown
<1>12. modal.id # None => modal.id \in Item /\ KnownItem(modal.id)
  BY <1>0 DEF RetryInv, ShownKnown, Base, TypeOK, Modals
<1>13. UNCHANGED <<modal, form, expected, sure, crossed>> /\ ShownKnown'
  BY <1>1, <1>10, <1>12 DEF dialog, RetryInv, ShownKnown
<1>14. t # Idle /\ t.step = "put" => Editing(t)
  BY <1>1, <1>3, <1>7 DEF RetryInv, PutsEdit, Editing
<1>15. ASSUME Kept, s.step = "post" PROVE i # modal.id
  BY <1>8, <1>12, <1>15 DEF Writes, KnownItem, Kept
<1>16. ASSUME Kept, s.step # "post" PROVE i = s.id /\ Exists(i)
  BY <1>8, <1>16 DEF Writes
<1>17. ASSUME i # modal.id, Kept, Exists(modal.id)'
       PROVE  Exists(modal.id) /\ Written(modal.id)' = Written(modal.id)
  BY <1>10, <1>12, <1>13, <1>17 DEF Exists, Written, Kept
<1>18. ASSUME Kept, i = modal.id, s.live PROVE LiveRight(n, s)
  BY <1>1, <1>3, <1>18 DEF RetryInv, KeptRight
<1>19. ASSUME Kept, t.live PROVE LiveRight(n, t)'
  <2>1. LiveRight(n, s)
    BY <1>1, <1>3, <1>7, <1>19 DEF RetryInv, KeptRight
  <2>2. i = modal.id => s.id = modal.id
    BY <1>15, <1>16, <1>19
  <2>3. i = modal.id => Alone(n)'
    BY <1>0, <1>5, <1>13, <2>1, <2>2 DEF LiveRight, Alone, Running, Base, TypeOK
  <2>4. ASSUME Editing(s), s.step \in {"put", "link"} PROVE t.ver = Written(modal.id)'
    <3>1. s.id = modal.id /\ s.form.seen = form.seen /\ i = s.id
      BY <1>6, <1>7, <1>16, <1>19, <2>4 DEF SaveLives, Kept
    <3>2. Checked(s) /\ Current(s) /\ Later(r, row[i])
      BY <1>8, <2>4 DEF Writes, Checked
    <3>3. r.foreign = form.seen
      BY <1>6, <2>1, <3>1, <3>2, CurrentIsSeen DEF LiveRight, Later
    <3>4. r.ver \in Nat /\ r.foreign \in Nat
      BY DEF Rows
    <3>5. Written(modal.id)' = Own(r) + form.seen
      BY <1>5, <1>13, <3>1 DEF Written
    <3> QED
      BY <1>7, <3>3, <3>4, <3>5 DEF Own
  <2>5. Editing(t) = Editing(s)
    BY <1>7 DEF Editing
  <2> QED
    BY <1>7, <1>13, <2>1, <2>3, <2>4, <2>5 DEF LiveRight, Editing
<1>20. ASSUME Kept PROVE Synced'
  <2>1. CASE i # modal.id
    <3>1. Running(n) /\ save[n].id = modal.id => ~Unsettled(save[n])
      <4>1. s.id = modal.id => s.step = "post"
        BY <1>16, <1>20, <2>1
      <4> QED
        BY <1>3, <4>1 DEF Unsettled, Optional
    <3> QED
      BY <1>5, <1>13, <1>17, <1>20, <2>1, <3>1, SyncedKept
  <2>2. CASE i = modal.id /\ s.step = "sprint" /\ Editing(s)
    <3>1. Exists(modal.id) /\ Written(modal.id)' = Written(modal.id)
      BY <1>6, <1>13, <1>16, <1>20, <2>2 DEF Written
    <3>2. ~Unsettled(s)
      BY <2>2 DEF Unsettled, Optional
    <3> QED
      BY <1>3, <1>5, <1>13, <1>20, <3>1, <3>2, SyncedKept
  <2>3. CASE i = modal.id /\ ~(s.step = "sprint" /\ Editing(s))
    <3>1. s.step # "post" /\ s.step \in Step
      BY <1>6, <1>15, <1>20, <2>3 DEF Saving
    <3>2. Unsettled(t)
      BY <1>7, <2>3, <3>1 DEF Unsettled, Optional, Editing, Step
    <3>3. save'[n] = t /\ t.id = modal'.id /\ t # Idle
      BY <1>0, <1>5, <1>7, <1>13, <2>3, <3>1 DEF Base, TypeOK, Idle, Step
    <3>4. ~Settled'
      BY <3>2, <3>3 DEF Settled, Running, Unsettled, Optional, Editing
    <3> QED
      BY <3>4 DEF Synced
  <2> QED
    BY <2>1, <2>2, <2>3
<1>21. ASSUME Kept, i = modal.id PROVE save[n].id = modal.id
  BY <1>3, <1>15, <1>16, <1>21
<1>22. ASSUME Kept'
       PROVE  /\ Kept /\ ~crossed'
              /\ t # Idle /\ t.id = modal.id => Running(n) /\ save[n].id = modal.id
              /\ \/ Running(n) /\ save[n].id = modal.id
                 \/ /\ expected' = expected
                    /\ Exists(modal.id)' => /\ Exists(modal.id)
                                            /\ Written(modal.id)' = Written(modal.id)
              /\ t # Idle /\ t.live => LiveRight(n, t)'
              /\ Synced'
  <2>1. Kept /\ ~crossed'
    BY <1>13, <1>22 DEF Kept, RetryInv, KeptRight
  <2> QED
    BY <1>1, <1>7, <1>13, <1>17, <1>19, <1>20, <1>21, <2>1
<1> QED
  BY <1>5, <1>11, <1>13, <1>14, <1>22, SaveRetry

\* The next request of a save, as a save.
LEMMA NextRequest ==
    ASSUME Inv, NEW n \in Press, Running(n), Proceed(n, save[n]), ~Finish(n)
    PROVE  /\ UNCHANGED <<modal, offers>>
           /\ \E t \in Saving :
                /\ save' = [save EXCEPT ![n] = t]
                /\ t.sent /\ t.live = save[n].live /\ t.tainted = save[n].tainted
                /\ t.id = save[n].id /\ t.ver = save[n].ver /\ t.was = save[n].was
                /\ t.step \in After(save[n].step)
<1>1. PICK u \in ToDo(save[n]) : /\ save' = [save EXCEPT ![n] = [save[n] EXCEPT !.step = u, !.sent = TRUE]]
                                 /\ UNCHANGED <<modal, offers>>
  BY DEF Proceed
<1>2. save[n] \in Saving /\ u \in Step /\ u \in After(save[n].step)
  BY RunningType DEF Inv, Base, ToDo, After, Step
<1>3. PICK t : t = [save[n] EXCEPT !.step = u, !.sent = TRUE]
  OBVIOUS
<1>4. /\ t \in Saving /\ t.step = u /\ t.sent /\ t.live = save[n].live
      /\ t.tainted = save[n].tainted /\ t.id = save[n].id /\ t.ver = save[n].ver
      /\ t.was = save[n].was
  BY <1>2, <1>3 DEF Saving
<1> QED
  BY <1>1, <1>2, <1>3, <1>4

\* A save is over and the dialog closed.
LEMMA FinishRetry ==
    ASSUME Inv, RetryInv, OwnKept, gets' = gets, NEW n \in Press, Finish(n)
    PROVE  RetryInv'
<1>1. modal' = Closed /\ save' = [save EXCEPT ![n] = Idle]
  BY DEF Finish
<1>2. CopiesKnown' /\ ShownKnown'
  BY <1>1, CopiesStillKnown, ShownStillKnown
<1>3. PutsEdit'
  BY <1>1 DEF RetryInv, PutsEdit, Running, Editing, Inv, Base, TypeOK
<1>4. ~Kept'
  BY <1>1 DEF Kept, Closed
<1> QED
  BY <1>2, <1>3, <1>4 DEF RetryInv, KeptRight

\* The answer of a change of a live save puts into the ref what was written; any
\* other answer leaves the ref, and what it leaves unsettled stays so.
LEMMA AnsweredRetry ==
    ASSUME Inv, RetryInv, NEW n \in Press, Answered(n)
    PROVE  RetryInv'
<1>1. Running(n) /\ Proceed(n, save[n]) /\ ~save[n].sent /\ UNCHANGED <<served, form, gets, sprintOp>>
  BY DEF Answered
<1>2. OwnKept /\ CopiesKnown'
  BY <1>1, StillOwn, CopiesStillKnown DEF served
<1>3. CASE Finish(n)
  BY <1>1, <1>2, <1>3, FinishRetry
<1>4. CASE ~Finish(n)
  <2>1. PICK t \in Saving :
            /\ save' = [save EXCEPT ![n] = t]
            /\ t.sent /\ t.live = save[n].live /\ t.tainted = save[n].tainted
            /\ t.id = save[n].id /\ t.ver = save[n].ver /\ t.was = save[n].was
            /\ t.step \in After(save[n].step)
    BY <1>1, <1>4, NextRequest
  <2>2. PICK s : s = save[n]
    OBVIOUS
  <2>3. modal' = modal /\ ShownKnown' /\ s \in Saving
    BY <1>1, <1>2, <1>4, <2>2, NextRequest, ShownStillKnown, RunningType DEF Inv, Base
  <2>4. t.step # "put" /\ (t.step = "link" => s.step \in {"put", "post"}) /\ s.step # "custom"
    BY <2>1, <2>2 DEF After
  <2>5. Editing(t) = Editing(s) /\ (s.step = "post" => ~Editing(s)) /\ (s.step = "put" => Editing(s))
    BY <1>1, <2>1, <2>2 DEF Editing, Inv, SavesAgree, SaveAgrees, RetryInv, PutsEdit
  <2>6. Kept /\ s.live => LiveRight(n, s) /\ (Editing(s) => s.id = modal.id)
    BY <1>1, <2>2 DEF RetryInv, KeptRight, Inv, SavesLive, SaveLives, Kept
  <2>7. Kept /\ t.live /\ t.id = modal.id => Alone(n)'
    BY <2>1, <2>2, <2>3, <2>6 DEF LiveRight, Alone, Running, Inv, Base, TypeOK
  <2>8. Exists(modal.id)' = Exists(modal.id) /\ Written(modal.id)' = Written(modal.id)
    BY <1>1, <2>3 DEF served, Exists, Written
  <2>9. CASE Editing(s) /\ s.step \in {"put", "link"}
    <3>1. expected' = s.ver /\ crossed' = (crossed \/ ~s.live) /\ sure' = (sure /\ s.live)
      BY <2>2, <2>9 DEF Answered
    <3>2. ASSUME Kept'
          PROVE  /\ Kept /\ s.live /\ ~crossed' /\ s.id = modal.id
                 /\ Exists(modal.id) => s.ver = Written(modal.id)
      <4>1. Kept /\ s.live
        BY <2>3, <3>1, <3>2 DEF Kept
      <4> QED
        BY <1>1, <2>2, <2>6, <2>9, <3>1, <4>1 DEF RetryInv, KeptRight, LiveRight
    <3>3. ASSUME Kept' PROVE LiveRight(n, t)' /\ Synced'
      <4>1. ~t.tainted
        BY <2>1, <2>2, <2>6, <3>2, <3>3 DEF LiveRight
      <4> QED
        BY <2>1, <2>2, <2>3, <2>7, <2>8, <3>1, <3>2, <3>3, <4>1 DEF LiveRight, Synced
    <3> QED
      BY <1>1, <1>2, <2>1, <2>2, <2>3, <2>4, <3>2, <3>3, SaveRetry
  <2>10. CASE ~(Editing(s) /\ s.step \in {"put", "link"})
    <3>1. UNCHANGED <<expected, crossed, sure>>
      BY <2>2, <2>10 DEF Answered
    <3>2. Kept' => Kept /\ ~crossed'
      BY <2>3, <3>1 DEF Kept, RetryInv, KeptRight
    <3>3. ~(Editing(t) /\ t.step \in {"put", "link"})
      BY <2>4, <2>5, <2>10
    <3>4. Kept /\ t.live => LiveRight(n, t)'
      BY <2>1, <2>2, <2>3, <2>6, <2>7, <3>3 DEF LiveRight, Editing
    <3>5. ~Unsettled(s) \/ Unsettled(t)
      <4>1. CASE s.step = "post" \/ (s.step = "sprint" /\ Editing(s))
        BY <4>1, <2>5 DEF Unsettled, Optional
      <4>2. CASE ~(s.step = "post" \/ (s.step = "sprint" /\ Editing(s)))
        <5>1. ~Editing(s) /\ t.step \in {"sprint", "custom"}
          BY <2>1, <2>2, <2>3, <2>4, <2>5, <2>10, <4>2 DEF Saving, Step, After
        <5> QED
          BY <2>5, <5>1 DEF Unsettled, Optional
      <4> QED
        BY <4>1, <4>2
    <3>6. Kept => Synced'
      <4>1. t # Idle
        BY DEF Saving, Idle, Step
      <4> QED
        BY <2>1, <2>2, <2>3, <2>8, <3>1, <3>5, <4>1, SyncedKept
    <3> QED
      BY <1>1, <1>2, <2>1, <2>2, <2>3, <2>4, <2>8, <3>1, <3>2, <3>4, <3>6, SaveRetry
  <2> QED
    BY <2>9, <2>10
<1> QED
  BY <1>3, <1>4

\* A failed step leaves the form sure only if nothing can have been written.
LEMMA FailsRetry ==
    ASSUME Inv, RetryInv, NEW n \in Press, StepFails(n)
    PROVE  RetryInv'
<1>1. /\ Running(n)
      /\ sure' = (sure /\ (save[n].sent \/ save[n].id # modal.id))
      /\ UNCHANGED <<served, form, expected, crossed, gets, sprintOp>>
  BY DEF StepFails
<1>2. OwnKept /\ CopiesKnown'
  BY <1>1, StillOwn, CopiesStillKnown DEF served
<1>3. PICK s : s = save[n] /\ s \in Saving
  BY <1>1, RunningType DEF Inv, Base
<1>4. CASE Optional(s)
  <2>1. Proceed(n, save[n])
    BY <1>3, <1>4 DEF StepFails
  <2>2. CASE Finish(n)
    BY <1>1, <1>2, <2>2, FinishRetry
  <2>3. CASE ~Finish(n)
    <3>1. PICK t \in Saving :
              /\ save' = [save EXCEPT ![n] = t]
              /\ t.sent /\ t.live = save[n].live /\ t.tainted = save[n].tainted
              /\ t.id = save[n].id /\ t.ver = save[n].ver /\ t.was = save[n].was
              /\ t.step \in After(save[n].step)
      BY <1>1, <2>1, <2>3, NextRequest
    <3>2. modal' = modal /\ ShownKnown'
      BY <1>1, <1>2, <2>1, <2>3, NextRequest, ShownStillKnown
    <3>3. Kept' => Kept /\ ~crossed'
      BY <1>1, <3>2 DEF Kept, RetryInv, KeptRight
    <3>4. t.step = "custom" /\ ~Editing(t)
      BY <1>3, <1>4, <3>1 DEF Optional, After, Editing
    <3>5. Kept /\ t.live => LiveRight(n, t)'
      <4>1. Kept /\ s.live => LiveRight(n, s)
        BY <1>1, <1>3 DEF RetryInv, KeptRight
      <4>2. Kept /\ t.live /\ t.id = modal.id => Alone(n)'
        BY <1>3, <3>1, <3>2, <4>1 DEF LiveRight, Alone, Running, Inv, Base, TypeOK
      <4> QED
        BY <1>3, <3>1, <3>2, <3>4, <4>1, <4>2 DEF LiveRight, Editing
    <3>6. Exists(modal.id)' = Exists(modal.id) /\ Written(modal.id)' = Written(modal.id)
      BY <1>1, <3>2 DEF served, Exists, Written
    <3>7. Unsettled(t) /\ t # Idle
      BY <3>4 DEF Unsettled, Optional, Idle
    <3>8. Kept => Synced'
      BY <1>1, <3>1, <3>2, <3>6, <3>7, SyncedKept
    <3> QED
      BY <1>1, <1>2, <3>1, <3>2, <3>3, <3>4, <3>5, <3>6, <3>8, SaveRetry
  <2> QED
    BY <2>2, <2>3
<1>5. CASE ~Optional(s)
  <2>1. save' = [save EXCEPT ![n] = Idle] /\ UNCHANGED modal
    BY <1>3, <1>5 DEF StepFails
  <2>2. ShownKnown'
    BY <1>2, <2>1, ShownStillKnown
  <2>3. Kept' => Kept /\ ~crossed' /\ (s.id = modal.id => s.sent)
    BY <1>1, <1>3, <2>1 DEF Kept, RetryInv, KeptRight
  <2>4. Exists(modal.id)' = Exists(modal.id) /\ Written(modal.id)' = Written(modal.id)
    BY <1>1, <2>1 DEF served, Exists, Written
  <2>5. Kept' => Synced'
    <3>1. s.sent => ~Unsettled(s)
      BY <1>5 DEF Unsettled
    <3> QED
      BY <1>1, <1>3, <2>1, <2>3, <2>4, <3>1, SyncedKept
  <2> QED
    BY <1>1, <1>2, <2>1, <2>2, <2>3, <2>4, <2>5, SaveRetry
<1> QED
  BY <1>4, <1>5

\* A refused creation has written nothing.
LEMMA RefusedRetry ==
    ASSUME Inv, RetryInv, NEW n \in Press, AgileRefused(n)
    PROVE  RetryInv'
<1>1. /\ save' = [save EXCEPT ![n] = Idle] /\ save[n].step = "post"
      /\ UNCHANGED <<served, modal, expected, crossed, sure, gets, sprintOp>>
  BY DEF AgileRefused
<1>2. form'.seen = form.seen
  BY OffType DEF AgileRefused, Inv, Base, TypeOK
<1>3. OwnKept /\ CopiesKnown' /\ ShownKnown'
  BY <1>1, StillOwn, CopiesStillKnown, ShownStillKnown DEF served
<1>4. Exists(modal.id)' = Exists(modal.id) /\ Written(modal.id)' = Written(modal.id)
  BY <1>1, <1>2 DEF served, Exists, Written
<1>5. ~Unsettled(save[n])
  BY <1>1 DEF Unsettled, Optional
<1>6. Kept' => Kept /\ ~crossed'
  BY <1>1 DEF Kept, RetryInv, KeptRight
<1>7. Kept' => Synced'
  BY <1>1, <1>4, <1>5, <1>6, SyncedKept
<1> QED
  BY <1>1, <1>2, <1>3, <1>4, <1>6, <1>7, SaveRetry

LEMMA InitRetry == Init => RetryInv
<1> SUFFICES ASSUME Init PROVE RetryInv
  OBVIOUS
<1>1. modal.id = None /\ gets = {} /\ \A n \in Press : save[n] = Idle
  BY DEF Init, Closed
<1> QED
  BY <1>1 DEF RetryInv, CopiesKnown, ShownKnown, PutsEdit, KeptRight, Kept, Running

LEMMA NextRetry == Inv /\ RetryInv /\ [Next]_vars => RetryInv'
<1> SUFFICES ASSUME Inv, RetryInv, [Next]_vars PROVE RetryInv'
  OBVIOUS
<1>0. Base
  BY DEF Inv
<1>1. CASE UNCHANGED vars
  <2>1. UNCHANGED <<row, gone, gets, save, modal, form, expected, crossed, sure>>
    BY <1>1 DEF vars
  <2> QED
    BY <2>1, StillOwn, CopiesStillKnown, AroundRetry
<1>2. CASE Next
  <2>1. inputs' \in Nat
    BY <1>0, <1>2 DEF Next, Base, TypeOK
  <2>2. CASE User
    <3>1. CASE Typing
      BY <1>0, <2>1, <3>1, TypingTypes, TypingRetry
    <3> QED
      BY <2>1, <2>2, <3>1, OpeningRetry, AskingRetry, SubmitRetry DEF User
  <2>3. CASE Poll \/ Others
    BY <2>3, AskingRetry, OthersRetry
  <2>4. CASE Answers
    <3>1. ASSUME \/ \E agile \in {"on", "off"} : OffersAnswer(agile)
                 \/ \E agile \in {"unknown", "on"} : OffersFail(agile)
          PROVE  RetryInv'
      BY <1>0, <2>1, <3>1, OffersTypes, TypingRetry
    <3> QED
      BY <2>1, <2>4, <3>1, CopyRetry, SprintOpRetry, ServerRetry, AnsweredRetry,
         FailsRetry, RefusedRetry
         DEF Answers, SaveStep
  <2> QED
    BY <1>2, <2>2, <2>3, <2>4 DEF Next
<1> QED
  BY <1>1, <1>2

\* With no save of the item under way there is nothing unsettled: the ref has the
\* writes of this dialog and the edits of others the form has seen.
LEMMA RetryInvSuffices == Base /\ RetryInv => RetryFindsNoConflict
<1> SUFFICES ASSUME Base, RetryInv, modal.open, modal.id # None, sure,
                    \A n \in Press : Running(n) => save[n].id # modal.id,
                    Exists(modal.id), row[modal.id].foreign = form.seen
             PROVE  expected = row[modal.id].ver
  BY DEF RetryFindsNoConflict
<1>1. expected = Own(row[modal.id]) + form.seen
  BY DEF RetryInv, KeptRight, Kept, Synced, Settled, Written
<1>2. row[modal.id].ver \in Nat /\ row[modal.id].foreign \in Nat
  BY DEF Base, TypeOK, Modals, Rows
<1> QED
  BY <1>1, <1>2 DEF Own

\* A save that failed half-way can be pressed again: the version it sends is the
\* row's, for any number of items, presses, copies under way and edits by others.
THEOREM RetryIsSafe == Spec => []RetryFindsNoConflict
<1>1. Inv => Base
  BY DEF Inv
<1> QED
  BY <1>1, InitInv, NextInv, InitRetry, NextRetry, RetryInvSuffices, PTL DEF Spec
=============================================================================
