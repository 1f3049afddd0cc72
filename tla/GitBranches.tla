----------------------------- MODULE GitBranches -----------------------------
(***************************************************************************)
(* The Development section of the work item dialog:                        *)
(* components/GitBranchesPanel.jsx, with the rows and remote branches of   *)
(* the server (routes/git.py, git/branches.py).                            *)
(*                                                                         *)
(* The section keeps one busy flag for its operations and a generation     *)
(* that makes it ignore the lists asked for an earlier item.  Nothing else *)
(* that was under way when the dialog turned to another item is cancelled  *)
(* or recognised when it ends.  The removal's confirmation covers the      *)
(* section without trapping the keyboard, so that other operations can     *)
(* start while it is open.  Equal requests under way are one here.         *)
(***************************************************************************)
EXTENDS DialogTarget

CONSTANTS
    Repo,           \* repositories
    Base,           \* branches to start from
    ReposOf,        \* the repositories each item's project can use
    RepoBase,       \* each repository's own default branch
    ProjectBase,    \* the default branch of the project's Git settings
    AtFirst,        \* branches there are at first, as <<item, repository>>
    MaxRows         \* bound: rows an item has in one repository

ASSUME BranchesAssumption ==
    /\ ReposOf \in [Item -> SUBSET Repo]
    /\ RepoBase \in [Repo -> Base]
    /\ ProjectBase \in Base
    /\ None \notin Repo \cup Base
    /\ AtFirst \subseteq Item \X Repo
    /\ MaxRows \in Nat \ {0}

VARIABLES
    rows,       \* the server's rows by item and repository: how many there have
                \* been, whether the last is Active, the base it names
    remote,     \* branches the provider has, as <<item, repository>>
    panel,      \* what the section shows and has loaded
    asks,       \* what it is waiting for
    strayed,    \* history: the dialog has turned while an operation was under way
    beside,     \* history: a removal was started beside another operation
    unsure      \* history: an operation went through and its answer was lost

branches == <<rows, remote, panel, asks, strayed, beside, unsure>>

Row == [n : 0..MaxRows, active : BOOLEAN, base : Base \cup {None}]
List == [item : Item, rows : [Repo -> Row]]
Preview == [item : Item, repo : Repo, base : Base]
NoData == [item |-> None]
NoPreview == [item |-> None]

Operation == {"repos", "preview", "create", "confirm", "remove"}
Ask == [kind : {"load"}, item : Item, gen : Nat, then : BOOLEAN]
       \cup [kind : {"repos"}, item : Item]
       \cup [kind : {"preview"}, item : Item, repo : Repo, base : Base \cup {None}]
       \cup [kind : {"create"}, item : Item, repo : Repo, base : Base, confirmed : Preview]
       \cup [kind : {"confirm", "remove"}, item : Item, repo : Repo, n : 1..MaxRows]

BranchesTypeOK ==
    /\ rows \in [Item -> [Repo -> Row]]
    /\ remote \subseteq Item \X Repo
    /\ panel.data \in List \cup {NoData}
    /\ panel.repos \in (SUBSET Repo) \cup {{None}}
    /\ panel.repo \in Repo \cup {None}
    /\ panel.base \in Base \cup {None}
    /\ panel.preview \in Preview \cup {NoPreview}
    /\ <<panel.busy, panel.loading, panel.reposLoaded, panel.reposLoading>>
         \in BOOLEAN \X BOOLEAN \X BOOLEAN \X BOOLEAN
    /\ panel.gen \in Nat
    /\ asks \subseteq Ask
    /\ strayed \in BOOLEAN
    /\ beside \in BOOLEAN
    /\ unsure \in BOOLEAN

\* The repositories have not been loaded.
NotLoaded == {None}

\* What the reset effect leaves: nothing of the item before.
Fresh(gen) ==
    [data |-> NoData, repos |-> NotLoaded, repo |-> None, base |-> None, preview |-> NoPreview,
     busy |-> FALSE, loading |-> FALSE, reposLoaded |-> FALSE, reposLoading |-> FALSE, gen |-> gen]

BranchesInit ==
    /\ rows = [i \in Item |-> [r \in Repo |->
                IF <<i, r>> \in AtFirst THEN [n |-> 1, active |-> TRUE, base |-> ProjectBase]
                ELSE [n |-> 0, active |-> FALSE, base |-> None]]]
    /\ remote = AtFirst
    /\ panel = Fresh(0)
    /\ asks = {}
    /\ strayed = FALSE
    /\ beside = FALSE
    /\ unsure = FALSE

Shows == shown # None /\ panel.data # NoData
Working == {q \in asks : q.kind \in Operation}

LoadAsk(i, gen, then) == [kind |-> "load", item |-> i, gen |-> gen, then |-> then]
-----------------------------------------------------------------------------
(* The list. *)

\* Slip: the reset effect leaves the create form and its preview alone.
Mut_BranchesTurn(i) ==
    LET gen == panel.gen + 1
    IN /\ Turn(i)
       /\ panel' = [panel EXCEPT !.data = NoData, !.busy = FALSE, !.loading = TRUE,
                                 !.gen = IF i = None THEN gen ELSE gen + 1]
       /\ asks' = IF i = None THEN asks ELSE asks \cup {LoadAsk(i, gen + 1, FALSE)}
       /\ strayed' = (Working # {} \/ \E q \in asks : q.kind = "load" /\ q.then)
       /\ beside' = FALSE
       /\ UNCHANGED <<rows, remote, unsure>>

\* The reset effect, which loads the list of the item the dialog has turned to.
BranchesTurn(i) ==
    LET gen == panel.gen + 1
    IN /\ Turn(i)
       /\ panel' = [Fresh(IF i = None THEN gen ELSE gen + 1) EXCEPT
                      !.loading = i # None \/ panel.loading,
                      !.reposLoading = panel.reposLoading]
       /\ asks' = IF i = None THEN asks ELSE asks \cup {LoadAsk(i, gen + 1, FALSE)}
       /\ strayed' = (Working # {} \/ \E q \in asks : q.kind = "load" /\ q.then)
       /\ beside' = FALSE
       /\ UNCHANGED <<rows, remote, unsure>>

\* A load that an operation awaits keeps it busy to its end.
Released(q) == IF q.then THEN FALSE ELSE panel.busy

\* Slip: a list is shown whatever the dialog has turned to since.
Mut_ListAnswer(q) ==
    /\ q.kind = "load"
    /\ panel' = [panel EXCEPT !.busy = Released(q), !.loading = FALSE,
                              !.data = [item |-> q.item, rows |-> rows[q.item]]]
    /\ asks' = asks \ {q}
    /\ UNCHANGED <<shown, rows, remote, strayed, beside, unsure>>

\* A list arrives.  It is ignored if another has been asked for since.
ListAnswer(q) ==
    /\ q.kind = "load"
    /\ panel' = IF q.gen # panel.gen THEN [panel EXCEPT !.busy = Released(q)]
                ELSE [panel EXCEPT !.busy = Released(q), !.loading = FALSE,
                                   !.data = [item |-> q.item, rows |-> rows[q.item]]]
    /\ asks' = asks \ {q}
    /\ UNCHANGED <<shown, rows, remote, strayed, beside, unsure>>

ListFails(q) ==
    /\ q.kind = "load"
    /\ panel' = IF q.gen # panel.gen THEN [panel EXCEPT !.busy = Released(q)]
                ELSE [panel EXCEPT !.busy = Released(q), !.loading = FALSE, !.data = NoData]
    /\ asks' = asks \ {q}
    /\ UNCHANGED <<shown, rows, remote, strayed, beside, unsure>>
-----------------------------------------------------------------------------
(* Repositories and the preview. *)

\* The first press of Create Feature Branch: discovery at the provider.
LoadRepositories ==
    /\ Shows /\ panel.repos = NotLoaded
    /\ ~panel.busy /\ ~panel.reposLoading
    /\ ~panel.reposLoaded
    /\ panel' = [panel EXCEPT !.reposLoaded = TRUE, !.reposLoading = TRUE]
    /\ asks' = asks \cup {[kind |-> "repos", item |-> panel.data.item]}
    /\ UNCHANGED <<shown, rows, remote, strayed, beside, unsure>>

\* Whatever the section shows by now takes the repositories, and the first of them.
RepositoriesAnswer(q) ==
    /\ q.kind = "repos"
    /\ \E r \in IF ReposOf[q.item] = {} THEN {None} ELSE ReposOf[q.item] :
         panel' = [panel EXCEPT
                     !.repos = ReposOf[q.item],
                     !.repo = IF r = None THEN @ ELSE r,
                     !.base = IF r = None THEN @ ELSE RepoBase[r],
                     !.reposLoading = FALSE]
    /\ asks' = asks \ {q}
    /\ UNCHANGED <<shown, rows, remote, strayed, beside, unsure>>

RepositoriesFail(q) ==
    /\ q.kind = "repos"
    /\ panel' = [panel EXCEPT !.reposLoaded = FALSE, !.reposLoading = FALSE]
    /\ asks' = asks \ {q}
    /\ UNCHANGED <<shown, rows, remote, strayed, beside, unsure>>

CreateForm == Shows /\ panel.repos \notin {NotLoaded, {}}

ChooseRepository(r) ==
    /\ CreateForm /\ ~panel.busy
    /\ r \in panel.repos \ {panel.repo}
    /\ panel' = [panel EXCEPT !.repo = r, !.base = RepoBase[r], !.preview = NoPreview]
    /\ UNCHANGED <<shown, rows, remote, asks, strayed, beside, unsure>>

\* None: the field is emptied.
TypeBase(b) ==
    /\ CreateForm /\ ~panel.busy
    /\ b # panel.base
    /\ panel' = [panel EXCEPT !.base = b, !.preview = NoPreview]
    /\ UNCHANGED <<shown, rows, remote, asks, strayed, beside, unsure>>

AskPreview ==
    /\ CreateForm /\ ~panel.busy
    /\ panel.repo # None /\ panel.preview = NoPreview
    /\ panel' = [panel EXCEPT !.busy = TRUE]
    /\ asks' = asks \cup {[kind |-> "preview", item |-> shown, repo |-> panel.repo,
                           base |-> panel.base]}
    /\ UNCHANGED <<shown, rows, remote, strayed, beside, unsure>>

\* Slip: the preview of an empty field names no base.
Mut_PreviewAnswer(q) ==
    /\ q.kind = "preview"
    /\ q.repo \in ReposOf[q.item]
    /\ panel' = [panel EXCEPT
                   !.busy = FALSE,
                   !.preview = [item |-> q.item, repo |-> q.repo, base |-> q.base]]
    /\ asks' = asks \ {q}
    /\ UNCHANGED <<shown, rows, remote, strayed, beside, unsure>>

\* The server fills an empty base with the project's default.
PreviewAnswer(q) ==
    /\ q.kind = "preview"
    /\ q.repo \in ReposOf[q.item]
    /\ panel' = [panel EXCEPT
                   !.busy = FALSE,
                   !.preview = [item |-> q.item, repo |-> q.repo,
                                base |-> IF q.base = None THEN ProjectBase ELSE q.base]]
    /\ asks' = asks \ {q}
    /\ UNCHANGED <<shown, rows, remote, strayed, beside, unsure>>

\* Refused - always for a repository of another project - or lost.
PreviewFails(q) ==
    /\ q.kind = "preview"
    /\ panel' = [panel EXCEPT !.busy = FALSE]
    /\ asks' = asks \ {q}
    /\ UNCHANGED <<shown, rows, remote, strayed, beside, unsure>>

CancelPreview ==
    /\ CreateForm /\ ~panel.busy /\ panel.preview # NoPreview
    /\ panel' = [panel EXCEPT !.preview = NoPreview]
    /\ UNCHANGED <<shown, rows, remote, asks, strayed, beside, unsure>>
-----------------------------------------------------------------------------
(* Creating. *)

\* The preview resolved an empty field; what it showed is what is asked for.
BaseToSend == panel.preview.base

CreateBranch ==
    /\ CreateForm /\ ~panel.busy
    /\ panel.repo # None /\ panel.preview # NoPreview
    /\ panel' = [panel EXCEPT !.busy = TRUE]
    /\ asks' = asks \cup {[kind |-> "create", item |-> shown, repo |-> panel.repo,
                           base |-> BaseToSend, confirmed |-> panel.preview]}
    /\ UNCHANGED <<shown, rows, remote, strayed, beside, unsure>>

\* An active row is returned as it is; otherwise the remote branch is made, or
\* adopted if it is there, and a row added.
Created(q) ==
    IF rows[q.item][q.repo].active THEN UNCHANGED <<rows, remote>>
    ELSE /\ rows[q.item][q.repo].n < MaxRows
         /\ rows' = [rows EXCEPT ![q.item][q.repo] =
                       [n |-> @.n + 1, active |-> TRUE, base |-> q.base]]
         /\ remote' = remote \cup {<<q.item, q.repo>>}

\* Slip: the list is not loaded again after a branch was created.
Mut_CreateDone(q) ==
    /\ q.kind = "create" /\ q.repo \in ReposOf[q.item]
    /\ Created(q)
    /\ asks' = asks \ {q}
    /\ panel' = [panel EXCEPT !.preview = NoPreview, !.busy = FALSE]
    /\ UNCHANGED <<shown, strayed, beside, unsure>>

\* The preview goes and the list of the item the request was for is loaded.
CreateDone(q) ==
    /\ q.kind = "create" /\ q.repo \in ReposOf[q.item]
    /\ Created(q)
    /\ asks' = (asks \ {q}) \cup {LoadAsk(q.item, panel.gen + 1, TRUE)}
    /\ panel' = [panel EXCEPT !.preview = NoPreview, !.gen = @ + 1, !.loading = TRUE]
    /\ UNCHANGED <<shown, strayed, beside, unsure>>

\* Refused, or the provider failed before or after it made the branch (no row
\* is written), or all went through and the answer was lost.
OperationFails(q) ==
    /\ q.kind \in {"create", "remove"}
    /\ panel' = [panel EXCEPT !.busy = FALSE]
    /\ asks' = asks \ {q}
    /\ \/ UNCHANGED <<rows, remote, unsure>>
       \/ /\ q.kind = "create" /\ q.repo \in ReposOf[q.item]
          /\ \/ Created(q)
             \/ remote' = remote \cup {<<q.item, q.repo>>} /\ UNCHANGED rows
          /\ unsure' = TRUE
       \/ /\ q.kind = "remove"
          /\ rows[q.item][q.repo].active /\ rows[q.item][q.repo].n = q.n
          /\ rows' = [rows EXCEPT ![q.item][q.repo].active = FALSE]
          /\ remote' = remote \ {<<q.item, q.repo>>}
          /\ unsure' = TRUE
    /\ UNCHANGED <<shown, strayed, beside>>
-----------------------------------------------------------------------------
(* Removing. *)

\* The Remove button of an Active row opens the application's one confirmation,
\* cancelling another that is open.
AskRemoval(r) ==
    LET row == panel.data.rows[r]
    IN /\ Shows /\ ~panel.busy
       /\ row.active
       /\ asks' = {q \in asks : q.kind # "confirm"}
                  \cup {[kind |-> "confirm", item |-> panel.data.item, repo |-> r, n |-> row.n]}
       /\ UNCHANGED <<shown, rows, remote, panel, strayed, beside, unsure>>

\* Confirmed: the removal starts, whatever the section has begun since the
\* press: the busy flag it looks at is the one the press was rendered with.
ConfirmRemoval(q) ==
    /\ q.kind = "confirm"
    /\ panel' = [panel EXCEPT !.busy = TRUE]
    /\ asks' = (asks \ {q}) \cup {[q EXCEPT !.kind = "remove"]}
    /\ beside' = (beside \/ panel.busy)
    /\ UNCHANGED <<shown, rows, remote, strayed, unsure>>

CancelRemoval(q) ==
    /\ q.kind = "confirm"
    /\ asks' = asks \ {q}
    /\ UNCHANGED <<shown, rows, remote, panel, strayed, beside, unsure>>

\* Exactly the row that was shown, as long as it is still Active.
RemoveDone(q) ==
    /\ q.kind = "remove"
    /\ rows[q.item][q.repo].active /\ rows[q.item][q.repo].n = q.n
    /\ rows' = [rows EXCEPT ![q.item][q.repo].active = FALSE]
    /\ remote' = remote \ {<<q.item, q.repo>>}
    /\ asks' = (asks \ {q}) \cup {LoadAsk(q.item, panel.gen + 1, TRUE)}
    /\ panel' = [panel EXCEPT !.gen = @ + 1, !.loading = TRUE]
    /\ UNCHANGED <<shown, strayed, beside, unsure>>
-----------------------------------------------------------------------------
BranchesUser ==
    \/ LoadRepositories \/ AskPreview \/ CancelPreview \/ CreateBranch
    \/ \E r \in Repo : ChooseRepository(r) \/ AskRemoval(r)
    \/ \E b \in Base \cup {None} : TypeBase(b)

\* The confirmation is answered like a request is.
BranchesAnswers ==
    \E q \in asks :
      \/ ConfirmRemoval(q) \/ CancelRemoval(q)
      \/ ListAnswer(q) \/ ListFails(q)
      \/ RepositoriesAnswer(q) \/ RepositoriesFail(q)
      \/ PreviewAnswer(q) \/ PreviewFails(q)
      \/ CreateDone(q) \/ RemoveDone(q) \/ OperationFails(q)
-----------------------------------------------------------------------------
(* Properties. *)

\* The branches shown under an item are that item's, unless the dialog turned
\* to it while an operation on another item was under way: then that
\* operation's own reload puts the other item's branches here.
OwnBranches == Shows /\ ~strayed => panel.data.item = shown

\* A branch is created for the item, in the repository and from the base that
\* the confirmation showed: changing either field withdraws the confirmation,
\* and an empty field is not resolved a second time.  A removal that was
\* confirmed beside another operation frees the fields when it ends, and a
\* preview that arrives after they changed is no longer theirs.
CreatedAsConfirmed ==
    \A q \in asks : q.kind = "create" /\ ~strayed /\ ~beside =>
        [item |-> q.item, repo |-> q.repo, base |-> q.base] = q.confirmed

\* After every operation of the section, the list shows what the server has,
\* unless an answer was lost.
ListIsCurrent ==
    Shows /\ ~strayed /\ ~unsure /\ ~panel.busy /\ ~panel.loading =>
        panel.data.rows = rows[panel.data.item]
=============================================================================
