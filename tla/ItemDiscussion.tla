--------------------------- MODULE ItemDiscussion ---------------------------
(***************************************************************************)
(* The comment composer, the attachments and the links of the work item    *)
(* dialog: modals/BugModal.jsx with useStagedFiles of                      *)
(* modals/bug/helpers.jsx.                                                 *)
(*                                                                         *)
(* Text is typed and files and items are picked into three trays.  A press *)
(* of Post, Upload or Link starts a run: a chain of requests, one per      *)
(* thing, over what the tray held at the press, after which the tray is    *)
(* emptied whatever it holds by then.  The loader's overlay catches clicks *)
(* only: typing, pasting and Ctrl+Enter go on during a run.                *)
(***************************************************************************)
EXTENDS DialogTarget

CONSTANTS
    Text,       \* pieces of comment text, each typed once
    File,       \* files, each staged once
    Run         \* numbers of runs that may overlap; a press takes the lowest free one

Thing == Text \cup File \cup Item

ASSUME DiscussionAssumption ==
    /\ Text \cap File = {}
    /\ (Text \cup File) \cap (Item \cup {None}) = {}
    /\ Run \subseteq Nat

VARIABLES
    draft,      \* the composer's text
    tray,       \* staged comment files, staged attachments, picked link targets
    run,        \* what each run is doing
    saving,     \* the item's Save is under way
    home,       \* history: the item shown when a text was typed or a file staged
    posted,     \* texts the server has, by item, and how often
    attached,   \* files the server has, with their item
    linked,     \* pairs of linked items
    told,       \* things whose upload or posting failed before the user's eyes
    late,       \* history: things added while a run that empties their tray ran
    given,      \* history: things the user took back, deleted or left behind
    doubted     \* history: texts posted again while an earlier run with them was
                \* under way or had lost its answer

store == <<posted, attached, linked>>
discussion == <<draft, tray, run, saving, home, store, told, late, given, doubted>>

Trays == {"comment", "attach", "link"}
NoRun == [tray |-> "none"]
Runs == [tray : Trays, item : Item, text : SUBSET Text, held : SUBSET (File \cup Item),
         todo : SUBSET (File \cup Item), posting : BOOLEAN]
Running(n) == run[n] # NoRun

DiscussionTypeOK ==
    /\ draft \subseteq Text
    /\ tray \in [Trays -> SUBSET (File \cup Item)]
    /\ run \in [Run -> Runs \cup {NoRun}]
    /\ saving \in BOOLEAN
    /\ home \in [Text \cup File -> Item \cup {None}]
    /\ posted \in [Text -> [Item -> Nat]]
    /\ attached \subseteq File \X Item
    /\ linked \subseteq Item \X Item
    /\ told \subseteq Thing
    /\ late \subseteq Thing
    /\ given \subseteq Thing
    /\ doubted \subseteq Text

NoTrays == [t \in Trays |-> {}]

DiscussionInit ==
    /\ draft = {}
    /\ tray = NoTrays
    /\ run = [n \in Run |-> NoRun]
    /\ saving = FALSE
    /\ home = [x \in Text \cup File |-> None]
    /\ posted = [t \in Text |-> [i \in Item |-> 0]]
    /\ attached = {}
    /\ linked = {}
    /\ told = {}
    /\ late = {}
    /\ given = {}
    /\ doubted = {}
-----------------------------------------------------------------------------
(* Filling the trays. *)

\* A run over t ends by emptying it, a save by closing the dialog.
Emptying(t) == saving \/ \E n \in Run : Running(n) /\ run[n].tray = t

\* Whatever is added while its tray is about to be emptied is remembered.
Late(t, X) == late' = IF Emptying(t) THEN late \cup X ELSE late

Type(x) ==
    /\ shown # None /\ home[x] = None
    /\ draft' = draft \cup {x}
    /\ home' = [home EXCEPT ![x] = shown]
    /\ Late("comment", {x})
    /\ UNCHANGED <<shown, tray, run, saving, store, told, given, doubted>>

\* Picked, dropped or pasted; too large and dangerous files are not staged.
Stage(t, f) ==
    /\ shown # None /\ home[f] = None
    /\ t \in {"comment", "attach"}
    /\ tray' = [tray EXCEPT ![t] = @ \cup {f}]
    /\ home' = [home EXCEPT ![f] = shown]
    /\ Late(t, {f})
    /\ UNCHANGED <<shown, draft, run, saving, store, told, given, doubted>>

\* Items that are linked already, and the item itself, are not offered.
PickTarget(i) ==
    /\ shown # None /\ i # shown
    /\ <<shown, i>> \notin linked
    /\ tray' = [tray EXCEPT !["link"] = @ \cup {i}]
    /\ Late("link", {i})
    /\ UNCHANGED <<shown, draft, run, saving, home, store, told, given, doubted>>

\* One tile's cross.
Unstage(t, x) ==
    /\ x \in tray[t]
    /\ tray' = [tray EXCEPT ![t] = @ \ {x}]
    /\ given' = given \cup {x}
    /\ UNCHANGED <<shown, draft, run, saving, home, store, told, late, doubted>>

\* The Cancel button of a tray.
ClearTray(t) ==
    /\ tray[t] # {}
    /\ tray' = [tray EXCEPT ![t] = {}]
    /\ given' = given \cup tray[t]
    /\ UNCHANGED <<shown, draft, run, saving, home, store, told, late, doubted>>
-----------------------------------------------------------------------------
(* Runs. *)

\* Post (onPostComment), Upload (flushBugAttach) and Link (onAddLink).  Files
\* without a text are not posted.
Press(n, t) ==
    /\ shown # None
    /\ ~Running(n) /\ \A m \in Run : m < n => Running(m)
    /\ IF t = "comment" THEN draft # {} ELSE tray[t] # {}
    /\ run' = [run EXCEPT ![n] = [tray |-> t, item |-> shown,
                                 text |-> IF t = "comment" THEN draft ELSE {},
                                 held |-> tray[t], todo |-> tray[t], posting |-> t = "comment"]]
    /\ doubted' = IF t = "comment" /\ \E m \in Run : Running(m) /\ run[m].tray = "comment"
                  THEN doubted \cup draft ELSE doubted
    /\ UNCHANGED <<shown, draft, tray, saving, home, store, told, late, given>>

Posted(n) ==
    [x \in Text |-> [i \in Item |-> IF x \in run[n].text /\ i = run[n].item
                                   THEN posted[x][i] + 1 ELSE posted[x][i]]]

\* The comment is there, and its files follow.
CommentPosted(n) ==
    /\ Running(n) /\ run[n].posting
    /\ posted' = Posted(n)
    /\ run' = [run EXCEPT ![n].posting = FALSE]
    /\ UNCHANGED <<shown, draft, tray, saving, home, attached, linked, told, late, given, doubted>>

\* The comment was refused, or posted and the answer lost: the composer stays.
CommentFails(n) ==
    /\ Running(n) /\ run[n].posting
    /\ run' = [run EXCEPT ![n] = NoRun]
    /\ \/ UNCHANGED <<posted, doubted>>
       \/ posted' = Posted(n) /\ doubted' = doubted \cup run[n].text
    /\ UNCHANGED <<shown, draft, tray, saving, home, attached, linked, told, late, given>>

Stores(n, x) ==
    IF x \in File THEN attached' = attached \cup {<<x, run[n].item>>} /\ UNCHANGED linked
    ELSE linked' = linked \cup {<<run[n].item, x>>, <<x, run[n].item>>} /\ UNCHANGED attached

\* One file or link went through.
ThingStored(n, x) ==
    /\ Running(n) /\ ~run[n].posting
    /\ x \in run[n].todo
    /\ Stores(n, x)
    /\ run' = [run EXCEPT ![n].todo = @ \ {x}]
    /\ UNCHANGED <<shown, draft, tray, saving, home, posted, told, late, given, doubted>>

\* One failed: a message names it and the others go on.
ThingFails(n, x) ==
    /\ Running(n) /\ ~run[n].posting
    /\ x \in run[n].todo
    /\ told' = told \cup {x}
    /\ run' = [run EXCEPT ![n].todo = @ \ {x}]
    /\ UNCHANGED <<shown, draft, tray, saving, home, store, late, given, doubted>>

\* Slip: a failed file keeps the others of the run from being tried.
Mut_RunDone(n) ==
    LET t == run[n].tray
    IN /\ Running(n) /\ ~run[n].posting
       /\ run[n].todo = {} \/ told # {}
       /\ draft' = IF t = "comment" THEN {} ELSE draft
       /\ tray' = [tray EXCEPT ![t] = {}]
       /\ run' = [run EXCEPT ![n] = NoRun]
       /\ UNCHANGED <<shown, saving, home, store, told, late, given, doubted>>

\* Slip: the composer keeps its text.
Mut_KeepText(n) ==
    LET t == run[n].tray
    IN /\ Running(n) /\ ~run[n].posting
       /\ run[n].todo = {}
       /\ tray' = [tray EXCEPT ![t] = {}]
       /\ run' = [run EXCEPT ![n] = NoRun]
       /\ UNCHANGED <<shown, draft, saving, home, store, told, late, given, doubted>>

\* The tray, and the composer after a comment, are emptied, and the dialog reloads.
RunDone(n) ==
    LET t == run[n].tray
    IN /\ Running(n) /\ ~run[n].posting
       /\ run[n].todo = {}
       /\ draft' = IF t = "comment" THEN {} ELSE draft
       /\ tray' = [tray EXCEPT ![t] = {}]
       /\ run' = [run EXCEPT ![n] = NoRun]
       /\ UNCHANGED <<shown, saving, home, store, told, late, given, doubted>>
-----------------------------------------------------------------------------
(* Saving, turning, deleting. *)

\* Files that are staged but not uploaded stop a save; a text or picked links
\* do not.
SavePressed ==
    /\ shown # None /\ ~saving
    /\ tray["attach"] = {} /\ tray["comment"] = {}
    /\ saving' = TRUE
    /\ UNCHANGED <<shown, draft, tray, run, home, store, told, late, given, doubted>>

\* The form is saved and the dialog closes, or the save fails and it stays.
SaveEnds ==
    /\ saving /\ saving' = FALSE
    /\ \/ UNCHANGED <<shown, draft, tray, given>>
       \/ /\ shown' = None
          /\ draft' = {} /\ tray' = NoTrays
          /\ given' = given \cup draft \cup tray["link"]
    /\ UNCHANGED <<run, home, store, told, late, doubted>>

\* Slip: the trays are not cleared when the dialog turns to another item.
Mut_LeaveTrays == UNCHANGED <<draft, tray, run, saving, home, store, told, late, given, doubted>>

\* The seeding effect: nothing that was staged or typed for one item is carried
\* over to another.
LeaveTrays ==
    /\ draft' = {} /\ tray' = NoTrays
    /\ given' = given \cup draft \cup UNION {tray[t] : t \in Trays}
    /\ UNCHANGED <<run, saving, home, store, told, late, doubted>>

DiscussionTurn(i) == Turn(i) /\ LeaveTrays

\* An admin deletes an attachment of the item shown.
DeleteAttachment(f) ==
    /\ shown # None /\ <<f, shown>> \in attached
    /\ attached' = attached \ {<<f, shown>>}
    /\ given' = given \cup {f}
    /\ UNCHANGED <<shown, draft, tray, run, saving, home, posted, linked, told, late, doubted>>

RemoveLink(i) ==
    /\ shown # None /\ <<shown, i>> \in linked
    /\ linked' = linked \ {<<shown, i>>, <<i, shown>>}
    /\ UNCHANGED <<shown, draft, tray, run, saving, home, posted, attached, told, late, given, doubted>>
-----------------------------------------------------------------------------
DiscussionUser ==
    \/ \E x \in Text : Type(x)
    \/ \E f \in File, t \in Trays : Stage(t, f)
    \/ \E i \in Item : PickTarget(i) \/ RemoveLink(i)
    \/ \E t \in Trays : ClearTray(t) \/ \E x \in tray[t] : Unstage(t, x)
    \/ \E n \in Run, t \in Trays : Press(n, t)
    \/ \E f \in File : DeleteAttachment(f)
    \/ SavePressed

RunStep(n) ==
    \/ CommentPosted(n) \/ CommentFails(n) \/ RunDone(n)
    \/ \E x \in File \cup Item : ThingStored(n, x) \/ ThingFails(n, x)

DiscussionAnswers == SaveEnds \/ \E n \in Run : RunStep(n)
-----------------------------------------------------------------------------
(* Properties. *)

\* What is typed or staged while one item is shown never ends up at another,
\* however the dialog turns while requests are under way.
OwnItem ==
    /\ \A a \in attached : a[2] = home[a[1]]
    /\ \A x \in Text, i \in Item : posted[x][i] > 0 => i = home[x]

\* No staged file disappears: it is staged, being uploaded, stored, reported as
\* failed, or the user took it back - unless it was added while a run or a save
\* that ends by emptying its tray was under way.
FilesAccounted ==
    \A f \in File : home[f] # None =>
        \/ \E t \in Trays : f \in tray[t]
        \/ \E n \in Run : Running(n) /\ f \in run[n].todo
        \/ \E i \in Item : <<f, i>> \in attached
        \/ f \in told \cup given \cup late

\* A comment is posted once, unless Post was pressed again (Ctrl+Enter) before
\* its files were up, or the answer was lost and the user tried again.
PostedOnce == \A x \in Text, i \in Item : posted[x][i] > 1 => x \in doubted

\* Nothing of a message is lost, and nothing of it is sent twice.
SentOnceInFull == FilesAccounted /\ PostedOnce
=============================================================================
