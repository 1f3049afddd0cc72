----------------------------- MODULE ClientForms -----------------------------
(***************************************************************************)
(* Settings with a version: the board's general settings and columns,      *)
(* which share one row and one version (BoardSettingsPanel.jsx), its quick *)
(* filters, the epics' details (HierarchyPanel.jsx) and a project's Git    *)
(* integration (ProjectGitSettings.jsx).  A behaviour is about one which.   *)
(* What a setting says is the number of the change that wrote it.          *)
(***************************************************************************)
EXTENDS ClientParts

CONSTANT Section     \* the board's two sections; two filters or epics otherwise

\* A project's Git settings are one form; what is loaded is not None.
ASSUME FormsAssumption ==
    /\ 1 \in Section
    /\ None \notin [there : SUBSET Section, says : [Section -> Nat], ver : [Section -> Nat]]

VARIABLES
    which,         \* "board", "filters", "epics" or "git"
    row,          \* the server's: what there is, what each says, the versions
    changes,      \* how many changes were written or are to be
    page,         \* the row as last loaded, or None
    load,         \* the newest load: how far it has come, and what it read
    forms,        \* the form of each section
    saves,        \* the saves under way; mine: the panel that sent it is open
    question,        \* the section a confirmation is asked about, or None
    tests,        \* Git: a token is typed; the connection is being tested
    clobbered,    \* history: where a save wrote over a change its form never showed
    crossed,      \* history: where two requests wrote that had read the same version
    outdated        \* history: someone else wrote, or an answer was lost, since the
                  \* newest load was read

formsState == <<which, row, changes, page, load, forms, saves, question, tests, clobbered, crossed, outdated>>

Closed == [open |-> FALSE, touched |-> FALSE, seeded |-> 0, ver |-> 0]
NoLoad == [at |-> "no", copy |-> None]
Asking == [at |-> "asked", copy |-> None]
NoTest == [typed |-> FALSE, testing |-> FALSE]

SectionsOf == IF which = "git" THEN {1} ELSE Section

\* The board's sections are one row.
SameRow(s) == IF which = "board" THEN Section ELSE {s}

\* What a form holds when it takes a row over.
Seeded(copy, s) ==
    [open |-> TRUE, touched |-> FALSE, seeded |-> copy.says[s], ver |-> copy.ver[s]]

FormsTypeOK ==
    /\ which \in {"board", "filters", "epics", "git"}
    /\ row.there \subseteq Section
    /\ \A s \in Section : row.says[s] \in 0..changes /\ row.ver[s] \in 0..changes + 1
    /\ load.at \in {"no", "asked", "read"}
    /\ \A s \in Section : forms[s].touched => forms[s].open
    /\ \A v \in saves : v.s \in SectionsOf /\ v.at \in {"sent", "checked", "done", "refused"}
    /\ question \in Section \cup {None}
    /\ tests.typed \/ tests.testing => which = "git"

FormsInit ==
    /\ which \in IF part = "forms" THEN {"board", "filters", "epics", "git"} ELSE {"board"}
    /\ \E there \in IF which = "filters" THEN {Section, {1}} ELSE {Section},
          made \in IF which = "git" THEN {0, 1} ELSE {1} :
         row = [there |-> there, says |-> [s \in Section |-> 0],
                ver |-> [s \in Section |-> IF s \in there THEN made ELSE 0]]
    /\ changes = 0 /\ page = None /\ load = Asking
    /\ forms = [s \in Section |-> Closed] /\ saves = {} /\ question = None
    /\ tests = NoTest /\ clobbered = {} /\ crossed = {} /\ outdated = FALSE
-----------------------------------------------------------------------------
(* Loading, and what it does to the forms. *)

\* Slip: any newer version fills the form again.
Mut_Refill(copy, s) == copy # page

\* A section of the board is filled again only when what it says was changed.
Refill(copy, s) == page = None \/ copy.says[s] # page.says[s]

\* The Git settings are filled by every load; a filter's or an epic's form is a
\* copy from when it was opened.
Filled(copy, s) ==
    IF s \in SectionsOf /\ (which = "git" \/ (which = "board" /\ Refill(copy, s)))
    THEN Seeded(copy, s) ELSE forms[s]

RowRead ==
    /\ load.at = "asked"
    /\ load' = [at |-> "read", copy |-> row] /\ outdated' = FALSE
    /\ UNCHANGED <<which, row, changes, page, forms, saves, question, tests, clobbered, crossed>>
RowArrives ==
    /\ load.at = "read"
    /\ page' = load.copy /\ load' = NoLoad
    /\ forms' = [s \in Section |-> Filled(load.copy, s)]
    /\ UNCHANGED <<which, row, changes, saves, question, tests, clobbered, crossed, outdated>>
RowFails ==
    /\ load.at # "no"
    /\ load' = NoLoad /\ outdated' = TRUE
    /\ UNCHANGED <<which, row, changes, page, forms, saves, question, tests, clobbered, crossed>>

\* The panel is left and opened again; the board's row is kept by the page around it.
Reopen ==
    /\ question = None
    /\ saves' = {[v EXCEPT !.mine = FALSE] : v \in saves}
    /\ tests' = NoTest
    /\ IF which = "board"
       THEN /\ page # None
            /\ forms' = [s \in Section |-> Seeded(page, s)]
            /\ UNCHANGED <<page, load>>
       ELSE /\ forms' = [s \in Section |-> Closed]
            /\ page' = None /\ load' = Asking
    /\ UNCHANGED <<which, row, changes, question, clobbered, crossed, outdated>>

\* Something elsewhere in the client says that agile data changed.
ToldOfChange ==
    /\ which # "git"
    /\ load' = Asking
    /\ UNCHANGED <<which, row, changes, page, forms, saves, question, tests, clobbered, crossed, outdated>>
-----------------------------------------------------------------------------
(* The forms. *)

Saving(s) ==
    \/ \E v \in saves : v.mine /\ (which = "board" => v.s = s)
    \/ which = "git" /\ (tests.testing \/ load.at # "no")

\* Editing a filter puts its draft in the place of another's; the epic's dialog
\* covers the list.
OpenDraft(s) ==
    /\ which \in {"filters", "epics"} /\ page # None /\ question = None
    /\ which = "epics" => \A t \in Section : ~forms[t].open
    /\ ~forms[s].open
    /\ forms' = [t \in Section |->
                    IF t # s THEN Closed
                    ELSE IF s \in page.there THEN Seeded(page, s)
                    ELSE [Closed EXCEPT !.open = TRUE]]    \* a new filter
    /\ UNCHANGED <<which, row, changes, page, load, saves, question, tests, clobbered, crossed, outdated>>
CloseDraft(s) ==
    /\ which \in {"filters", "epics"} /\ forms[s].open
    /\ forms' = [forms EXCEPT ![s] = Closed]
    /\ UNCHANGED <<which, row, changes, page, load, saves, question, tests, clobbered, crossed, outdated>>

TypeInto(s) ==
    /\ forms[s].open /\ question = None /\ ~(which = "git" /\ Saving(s))
    /\ forms' = [forms EXCEPT ![s].touched = TRUE]
    /\ tests' \in IF which = "git" THEN {tests, [tests EXCEPT !.typed = TRUE]} ELSE {tests}
    /\ UNCHANGED <<which, row, changes, page, load, saves, question, clobbered, crossed, outdated>>

\* Slip: the version of the newest load, whatever the form was filled from.
Mut_VersionSent(s) == page.ver[s]

\* The board and the Git settings send the version of the row they hold, a filter
\* and an epic that of the copy; a new filter has none, nor have Git settings
\* never made.
VersionSent(s) ==
    CASE which = "board" -> page.ver[s]
      [] which = "git" -> IF page.ver[s] = 0 THEN None ELSE page.ver[s]
      [] OTHER -> IF forms[s].ver = 0 THEN None ELSE forms[s].ver

SendsForm(s) ==
    /\ saves' = saves \cup {[s |-> s, at |-> "sent", mine |-> TRUE, says |-> changes + 1,
                              ver |-> VersionSent(s), seen |-> forms[s].seeded,
                              base |-> 0, copy |-> None]}
    /\ changes' = changes + 1

SaveForm(s) ==
    /\ forms[s].open /\ question = None /\ page # None /\ ~Saving(s)
    /\ SendsForm(s)
    /\ UNCHANGED <<which, row, page, load, forms, question, tests, clobbered, crossed, outdated>>

\* Without a version nothing is compared.
Accepts(v) ==
    IF v.ver = None THEN which \in {"filters", "git"}
    ELSE v.s \in row.there /\ v.ver = row.ver[v.s]

\* A new filter made once more is one beyond these.
Another(v) == v.ver = None /\ which = "filters" /\ v.s \in row.there

\* The version is raised from the one that was read.
Written(s, says, base) ==
    [row EXCEPT !.there = @ \cup {s}, !.says[s] = says,
                !.ver = [t \in Section |-> IF t \in SameRow(s) THEN base + 1 ELSE @[t]]]

\* Where a write passes between the reading and the writing of one of these saves,
\* or was itself prepared from an older version.
Crossing(s, others, base) ==
    IF base # row.ver[s] \/ \E v \in others : v.at = "checked" /\ v.s \in SameRow(s)
    THEN SameRow(s) ELSE {}

\* The row is read without a lock and its version compared.
SaveChecked(v) ==
    /\ v.at = "sent"
    /\ saves' = (saves \ {v}) \cup
          {IF Accepts(v) THEN [v EXCEPT !.at = "checked", !.base = row.ver[v.s]]
           ELSE [v EXCEPT !.at = "refused"]}
    /\ UNCHANGED <<which, row, changes, page, load, forms, question, tests, clobbered, crossed, outdated>>

\* A new filter has no version to raise.
Base(v) == IF v.ver = None /\ which = "filters" THEN row.ver[v.s] ELSE v.base

\* It is written later; Git settings somebody else has made meanwhile are not made again.
SaveWritten(v) ==
    /\ v.at = "checked"
    /\ IF which = "git" /\ v.base = 0 /\ row.ver[v.s] # 0
       THEN /\ saves' = (saves \ {v}) \cup {[v EXCEPT !.at = "refused"]}
            /\ UNCHANGED <<row, clobbered, crossed>>
       ELSE /\ row' = IF Another(v) THEN row ELSE Written(v.s, v.says, Base(v))
            /\ saves' = (saves \ {v}) \cup {[v EXCEPT !.at = "done", !.copy = row']}
            /\ clobbered' = clobbered \cup (IF v.ver # None /\ row.says[v.s] # v.seen THEN {v.s} ELSE {})
            /\ crossed' = crossed \cup Crossing(v.s, saves \ {v}, Base(v))
    /\ UNCHANGED <<which, changes, page, load, forms, question, tests, outdated>>

\* Slip: the list is not read again.
Mut_AfterSave == load

\* After a save everything agile is read again.
AfterSave == Asking

\* Whichever filter or epic is open is closed.  The Git settings are filled from
\* the answer, and the token typed is forgotten.
SaveAnswered(v) ==
    /\ v.at = "done"
    /\ saves' = saves \ {v}
    /\ IF which = "git"
       THEN /\ load' = load
            /\ outdated' = (outdated \/ ~v.mine)
            /\ IF v.mine THEN /\ page' = v.copy /\ tests' = NoTest
                              /\ forms' = [forms EXCEPT ![1] = Seeded(v.copy, 1)]
               ELSE UNCHANGED <<page, tests, forms>>
       ELSE /\ load' = AfterSave
            /\ forms' = IF which = "board" \/ ~v.mine THEN forms
                        ELSE [s \in Section |-> Closed]
            /\ UNCHANGED <<page, tests, outdated>>
    /\ UNCHANGED <<which, row, changes, question, clobbered, crossed>>

\* Git settings changed meanwhile are loaded again.
SaveRefused(v) ==
    /\ v.at = "refused"
    /\ saves' = saves \ {v}
    /\ load' = IF which = "git" /\ v.mine THEN Asking ELSE load
    /\ UNCHANGED <<which, row, changes, page, forms, question, tests, clobbered, crossed, outdated>>
SaveLost(v) ==
    /\ v.at \in {"sent", "checked", "done"}
    /\ saves' = saves \ {v} /\ outdated' = TRUE
    /\ UNCHANGED <<which, row, changes, page, load, forms, question, tests, clobbered, crossed>>
-----------------------------------------------------------------------------
(* What is asked to be confirmed, and the rest. *)

Asks(s) ==
    /\ page # None /\ question = None /\ s \in page.there \cap SectionsOf
    /\ which = "board" => forms[s].open
    /\ which = "git" => ~Saving(s)
    /\ which = "epics" => \A t \in Section : ~forms[t].open
    /\ question' = s
    /\ UNCHANGED <<which, row, changes, page, load, forms, saves, tests, clobbered, crossed, outdated>>

\* A column leaves the form; Git settings are saved without their credential.
ConfirmsInForm ==
    /\ question # None /\ question' = None
    /\ \/ /\ which = "board" /\ forms' = [forms EXCEPT ![question].touched = TRUE]
          /\ UNCHANGED <<saves, changes>>
       \/ which = "git" /\ SendsForm(question) /\ UNCHANGED forms
    /\ UNCHANGED <<which, row, page, load, tests, clobbered, crossed, outdated>>

\* A filter is deleted, an epic archived: neither request names a version.  A save
\* of the filter that was checked finds nothing to write.
ConfirmsRemoval(base) ==
    /\ question # None /\ question' = None /\ which \in {"filters", "epics"}
    /\ question \in row.there /\ base <= row.ver[question]
    /\ changes' = changes + 1
    /\ IF which = "filters"
       THEN /\ row' = [row EXCEPT !.there = @ \ {question}]
            /\ saves' = {IF v.at = "checked" /\ v.s = question /\ v.ver # None
                         THEN [v EXCEPT !.at = "refused"] ELSE v : v \in saves}
            /\ UNCHANGED crossed
       ELSE /\ row' = [row EXCEPT !.ver[question] = base + 1]
            /\ crossed' = crossed \cup Crossing(question, saves, base)
            /\ UNCHANGED saves
    /\ load' = Asking
    /\ UNCHANGED <<which, page, forms, tests, clobbered, outdated>>
Cancels ==
    /\ question # None /\ question' = None
    /\ UNCHANGED <<which, row, changes, page, load, forms, saves, tests, clobbered, crossed, outdated>>

\* The connection is tested with what the form holds; the answer forgets the token.
TestConnection ==
    /\ which = "git" /\ forms[1].open /\ ~Saving(1) /\ question = None
    /\ tests' = [tests EXCEPT !.testing = TRUE]
    /\ UNCHANGED <<which, row, changes, page, load, forms, saves, question, clobbered, crossed, outdated>>
TestAnswered ==
    /\ tests.testing
    /\ tests' \in {NoTest, [tests EXCEPT !.testing = FALSE]}
    /\ UNCHANGED <<which, row, changes, page, load, forms, saves, question, clobbered, crossed, outdated>>

\* Someone else saves a section that was read at the version base.
OthersSave(s, base) ==
    /\ s \in row.there \cap SectionsOf /\ base <= row.ver[s]
    /\ changes' = changes + 1 /\ row' = Written(s, changes', base) /\ outdated' = TRUE
    /\ crossed' = crossed \cup Crossing(s, saves, base)
    /\ UNCHANGED <<which, page, load, forms, saves, question, tests, clobbered>>
-----------------------------------------------------------------------------
\* The versions a request may have read.
Bases == UNION {0..row.ver[s] : s \in Section}

FormsUser ==
    \/ \E s \in Section : OpenDraft(s) \/ CloseDraft(s) \/ TypeInto(s) \/ SaveForm(s) \/ Asks(s)
                         \/ \E base \in Bases : OthersSave(s, base)
    \/ Reopen \/ ToldOfChange \/ TestConnection

FormsAnswers ==
    \/ RowRead \/ RowArrives \/ RowFails \/ TestAnswered
    \/ ConfirmsInForm \/ Cancels \/ \E base \in Bases : ConfirmsRemoval(base)
    \/ \E v \in saves : SaveChecked(v) \/ SaveWritten(v) \/ SaveAnswered(v) \/ SaveRefused(v) \/ SaveLost(v)
-----------------------------------------------------------------------------
(* Properties. *)

\* A save that is accepted writes over a change its form was not filled from only
\* where two requests that had read the same version both wrote: the version a form
\* sends and what it was filled from stay together, though the board's sections are
\* saved and filled one by one, others save meanwhile and panels are left and opened
\* again.  (A save without a version is excepted.)
NothingClobbered == clobbered \subseteq crossed

\* Unless the panel is left, what is typed into a section of the board and not yet
\* saved is dropped only once that section was saved on the server; the other
\* section's saves and what is read again keep it.
UnsavedKept ==
    [][\A s \in Section :
         which = "board" /\ forms[s].touched /\ ~forms'[s].touched /\ inputs' = inputs =>
            row.says[s] # forms[s].seeded]_forms

\* At rest, what is loaded is what is stored, unless someone else wrote or an answer
\* was lost since.
OwnSavesShown ==
    saves = {} /\ load = NoLoad /\ ~outdated => page # None /\ page = row

\* The stored settings are what was last saved by someone who saw them, and the
\* page shows them.
SettingsRight == NothingClobbered /\ OwnSavesShown
=============================================================================
