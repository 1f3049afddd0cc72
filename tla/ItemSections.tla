---------------------------- MODULE ItemSections ----------------------------
(***************************************************************************)
(* The sections of the work item dialog that talk to the server by         *)
(* themselves, side by side: the composer, the attachments and the links   *)
(* (ItemDiscussion) and the Git branches (GitBranches).  They share the    *)
(* item shown, and the dialog turns under all of them at once.             *)
(***************************************************************************)
EXTENDS ItemDiscussion, GitBranches

sections == <<shown, discussion, branches>>

SectionsTypeOK == DiscussionTypeOK /\ BranchesTypeOK

SectionsInit ==
    /\ shown = None
    /\ DiscussionInit
    /\ BranchesInit

\* The dialog is opened, turned by a link, a notification or a late answer, or
\* closed; every section follows.
TurnTo(i) == DiscussionTurn(i) /\ BranchesTurn(i)

SectionsUser ==
    \/ DiscussionUser /\ UNCHANGED branches
    \/ BranchesUser /\ UNCHANGED discussion
    \/ \E i \in Item \cup {None} : TurnTo(i)

\* The close of a save is a turn for the section of the branches.
SaveCloses ==
    /\ SaveEnds
    /\ IF shown' = shown THEN UNCHANGED branches ELSE BranchesTurn(None)

SectionsAnswers ==
    \/ (\E n \in Run : RunStep(n)) /\ UNCHANGED branches
    \/ SaveCloses
    \/ BranchesAnswers /\ UNCHANGED discussion

\* Whatever the dialog turns to while requests are under way, each item has and
\* shows what is its own.
EachItemItsOwn == OwnItem /\ OwnBranches
=============================================================================
