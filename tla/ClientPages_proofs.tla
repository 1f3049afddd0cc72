-------------------------- MODULE ClientPages_proofs --------------------------
(***************************************************************************)
(* Proofs about the pages of the client: the sections of the item dialog,  *)
(* the events, the planning of sprints, the audit trail.                   *)
(***************************************************************************)
EXTENDS ClientPages, FiniteSetTheorems, SequenceTheorems, WellFoundedInduction, TLAPS

(* What a step of the client is to the comments, files and links of an     *)
(* item, to its branches, and to the pages that stand alone.               *)
LEMMA DiscussionSteps ==
  ASSUME [Next]_vars
  PROVE  \/ \E x \in Text : Type(x)
         \/ \E f \in File, t \in Trays : Stage(t, f)
         \/ \E i \in Item : PickTarget(i) \/ RemoveLink(i)
         \/ \E t \in Trays : ClearTray(t) \/ \E x \in tray[t] : Unstage(t, x)
         \/ \E n \in Run, t \in Trays : Press(n, t)
         \/ \E f \in File : DeleteAttachment(f)
         \/ SavePressed \/ SaveEnds
         \/ \E i \in Item \cup {None} : DiscussionTurn(i)
         \/ \E n \in Run : CommentPosted(n) \/ CommentFails(n) \/ RunDone(n)
         \/ \E n \in Run, x \in File \cup Item : ThingStored(n, x) \/ ThingFails(n, x)
         \/ UNCHANGED <<shown, discussion>>
  <1>1. ASSUME BranchesUser PROVE UNCHANGED shown
    BY <1>1 DEF BranchesUser, LoadRepositories, AskPreview, CancelPreview, CreateBranch, ChooseRepository,
       AskRemoval, TypeBase
  <1>2. ASSUME BranchesAnswers PROVE UNCHANGED shown
    BY <1>2 DEF BranchesAnswers, ConfirmRemoval, CancelRemoval, ListAnswer, ListFails, RepositoriesAnswer, RepositoriesFail, PreviewAnswer,
       PreviewFails, CreateDone, RemoveDone, OperationFails
  <1>3. \/ SectionsUser \/ SectionsAnswers \/ UNCHANGED sections
    BY DEF Next, vars, Only, ByUser
  <1>4. CASE SectionsUser
    BY <1>1, <1>4 DEF SectionsUser, DiscussionUser, TurnTo
  <1>5. CASE SectionsAnswers
    BY <1>2, <1>5 DEF SectionsAnswers, RunStep, SaveCloses
  <1>6. CASE UNCHANGED sections
    BY <1>6 DEF sections
  <1> QED BY <1>3, <1>4, <1>5, <1>6

LEMMA BranchesSteps ==
  ASSUME [Next]_vars
  PROVE  BranchesUser \/ BranchesAnswers \/ (\E i \in Item \cup {None} : BranchesTurn(i))
         \/ UNCHANGED <<shown, branches>>
  <1>1. ASSUME DiscussionUser PROVE UNCHANGED shown
    BY <1>1 DEF DiscussionUser, Type, Stage, PickTarget, RemoveLink, ClearTray, Unstage, Press, DeleteAttachment,
       SavePressed
  <1>2. ASSUME NEW n \in Run, RunStep(n) PROVE UNCHANGED shown
    BY <1>2 DEF RunStep, CommentPosted, CommentFails, RunDone, ThingStored, ThingFails
  <1>3. \/ SectionsUser \/ SectionsAnswers \/ UNCHANGED sections
    BY DEF Next, vars, Only, ByUser
  <1>4. CASE SectionsUser
    BY <1>1, <1>4 DEF SectionsUser, TurnTo
  <1>5. CASE SectionsAnswers
    BY <1>2, <1>5 DEF SectionsAnswers, SaveCloses
  <1>6. CASE UNCHANGED sections
    BY <1>6 DEF sections
  <1> QED BY <1>3, <1>4, <1>5, <1>6

LEMMA PageSteps ==
  ASSUME [Next]_vars
  PROVE  /\ EventsUser \/ EventsAnswers \/ UNCHANGED eventsState
         /\ AuditUser \/ AuditAnswers \/ UNCHANGED audit
         /\ PlanningUser \/ PlanningAnswers \/ UNCHANGED planning
  BY DEF Next, vars, Only, ByUser

-----------------------------------------------------------------------------
(* Comments, files and links: what is where.                               *)
DiscussionTypes ==
    /\ shown \in Item \cup {None} /\ saving \in BOOLEAN
    /\ draft \subseteq Text
    /\ tray \in [Trays -> SUBSET (File \cup Item)]
    /\ run \in [Run -> Runs \cup {NoRun}]
    /\ home \in [Text \cup File -> Item \cup {None}]
    /\ posted \in [Text -> [Item -> Nat]]
    /\ attached \subseteq File \X Item

LEMMA RunTypes ==
  ASSUME DiscussionTypes, NEW n \in Run, Running(n)
  PROVE  /\ run[n] \in Runs
         /\ run[n].tray \in Trays /\ run[n].item \in Item /\ run[n].text \subseteq Text
         /\ run[n].held \subseteq File \cup Item /\ run[n].todo \subseteq File \cup Item
         /\ run[n].posting \in BOOLEAN
  <1>1. run[n] \in Runs
    BY DEF DiscussionTypes, Running
  <1> QED BY <1>1 DEF Runs

LEMMA RunsRun ==
  ASSUME NEW r \in Runs
  PROVE  r # NoRun
  BY DEF Runs, NoRun, Trays

(* What a press leaves, and what a step of a run leaves of it.             *)
LEMMA RunPressed ==
  ASSUME DiscussionTypes, NEW n \in Run, NEW t \in Trays, Press(n, t)
  PROVE  /\ run' \in [Run -> Runs \cup {NoRun}]
         /\ \A m \in Run : m # n => run'[m] = run[m]
         /\ run'[n] \in Runs
         /\ run'[n].tray = t /\ run'[n].item = shown /\ run'[n].held = tray[t] /\ run'[n].todo = tray[t]
         /\ run'[n].text = IF t = "comment" THEN draft ELSE {}
         /\ run'[n].posting = (t = "comment")
  <1> DEFINE R == [tray |-> t, item |-> shown, text |-> IF t = "comment" THEN draft ELSE {},
                   held |-> tray[t], todo |-> tray[t], posting |-> t = "comment"]
  <1>1. R \in Runs
    <2>1. shown \in Item /\ tray[t] \in SUBSET (File \cup Item) /\ draft \in SUBSET Text
      BY DEF DiscussionTypes, Press
    <2> QED BY <2>1 DEF Runs
  <1>2. run' = [run EXCEPT ![n] = R]
    BY DEF Press
  <1> HIDE DEF R
  <1>3. run'[n] = R /\ run' \in [Run -> Runs \cup {NoRun}] /\ \A m \in Run : m # n => run'[m] = run[m]
    BY <1>1, <1>2 DEF DiscussionTypes
  <1> QED BY <1>1, <1>3 DEF R

LEMMA RunPosts ==
  ASSUME DiscussionTypes, NEW n \in Run, CommentPosted(n)
  PROVE  /\ run' \in [Run -> Runs \cup {NoRun}]
         /\ \A m \in Run : m # n => run'[m] = run[m]
         /\ run'[n] \in Runs
         /\ run'[n].tray = run[n].tray /\ run'[n].item = run[n].item /\ run'[n].held = run[n].held
         /\ run'[n].todo = run[n].todo /\ run'[n].text = run[n].text
         /\ run'[n].posting = FALSE
  <1> DEFINE R == [run[n] EXCEPT !.posting = FALSE]
  <1>1. run' = [run EXCEPT ![n] = R] /\ run[n] \in Runs
    BY RunTypes DEF CommentPosted
  <1>2. R \in Runs /\ R.posting = FALSE
    BY <1>1 DEF Runs
  <1>3. R.tray = run[n].tray /\ R.item = run[n].item /\ R.held = run[n].held /\ R.todo = run[n].todo /\ R.text = run[n].text
    BY <1>1 DEF Runs
  <1> HIDE DEF R
  <1>4. run'[n] = R /\ run' \in [Run -> Runs \cup {NoRun}] /\ \A m \in Run : m # n => run'[m] = run[m]
    BY <1>1, <1>2 DEF DiscussionTypes
  <1> QED BY <1>2, <1>3, <1>4

LEMMA RunHandles ==
  ASSUME DiscussionTypes, NEW n \in Run, NEW x \in File \cup Item, ThingStored(n, x) \/ ThingFails(n, x)
  PROVE  /\ run' \in [Run -> Runs \cup {NoRun}]
         /\ \A m \in Run : m # n => run'[m] = run[m]
         /\ run'[n] \in Runs
         /\ run'[n].tray = run[n].tray /\ run'[n].item = run[n].item /\ run'[n].held = run[n].held
         /\ run'[n].todo = run[n].todo \ {x} /\ run'[n].text = run[n].text
         /\ run'[n].posting = run[n].posting
  <1> DEFINE R == [run[n] EXCEPT !.todo = @ \ {x}]
  <1>1. run' = [run EXCEPT ![n] = R] /\ run[n] \in Runs
    BY RunTypes DEF ThingStored, ThingFails
  <1>2. R \in Runs
    BY <1>1 DEF Runs
  <1>3. R.tray = run[n].tray /\ R.item = run[n].item /\ R.held = run[n].held /\ R.text = run[n].text
        /\ R.todo = run[n].todo \ {x}
    BY <1>1 DEF Runs
  <1>5. R.posting = run[n].posting
    BY <1>1 DEF Runs
  <1> HIDE DEF R
  <1>4. run'[n] = R /\ run' \in [Run -> Runs \cup {NoRun}] /\ \A m \in Run : m # n => run'[m] = run[m]
    BY <1>1, <1>2 DEF DiscussionTypes
  <1> QED BY <1>2, <1>3, <1>4, <1>5

LEMMA RunEnds ==
  ASSUME DiscussionTypes, NEW n \in Run, RunDone(n) \/ CommentFails(n)
  PROVE  /\ run' \in [Run -> Runs \cup {NoRun}]
         /\ \A m \in Run : m # n => run'[m] = run[m]
         /\ run'[n] = NoRun
  BY DEF DiscussionTypes, RunDone, CommentFails

LEMMA PostedTypes ==
  ASSUME DiscussionTypes, NEW n \in Run
  PROVE  /\ Posted(n) \in [Text -> [Item -> Nat]]
         /\ \A x \in Text, i \in Item :
              Posted(n)[x][i] = IF x \in run[n].text /\ i = run[n].item THEN posted[x][i] + 1 ELSE posted[x][i]
  BY DEF DiscussionTypes, Posted

LEMMA DiscussionTypesKept ==
  ASSUME DiscussionTypes, [Next]_vars
  PROVE  DiscussionTypes'
  <1> USE DEF Trays
  <1>1. CASE \E x \in Text : Type(x)
    BY <1>1 DEF Type, DiscussionTypes, store
  <1>2. CASE \E f \in File, t \in Trays : Stage(t, f)
    BY <1>2 DEF Stage, DiscussionTypes, store
  <1>3. CASE \E i \in Item : PickTarget(i) \/ RemoveLink(i)
    BY <1>3 DEF PickTarget, RemoveLink, DiscussionTypes, store
  <1>4. CASE \E t \in Trays : ClearTray(t) \/ \E x \in tray[t] : Unstage(t, x)
    BY <1>4 DEF ClearTray, Unstage, DiscussionTypes, store
  <1>5. CASE \E n \in Run, t \in Trays : Press(n, t)
    <2>1. PICK n \in Run, t \in Trays : Press(n, t)
      BY <1>5
    <2> QED BY <2>1, RunPressed DEF Press, DiscussionTypes, store
  <1>6. CASE \E f \in File : DeleteAttachment(f)
    BY <1>6 DEF DeleteAttachment, DiscussionTypes, store
  <1>7. CASE SavePressed \/ SaveEnds
    BY <1>7 DEF SavePressed, SaveEnds, DiscussionTypes, store, NoTrays
  <1>8. CASE \E i \in Item \cup {None} : DiscussionTurn(i)
    BY <1>8 DEF DiscussionTurn, Turn, LeaveTrays, DiscussionTypes, store, NoTrays
  <1>9. CASE \E n \in Run : CommentPosted(n) \/ CommentFails(n) \/ RunDone(n)
    <2>1. PICK n \in Run : CommentPosted(n) \/ CommentFails(n) \/ RunDone(n)
      BY <1>9
    <2>2. CASE CommentPosted(n)
      BY <2>2, RunPosts, PostedTypes DEF CommentPosted, DiscussionTypes
    <2>3. CASE CommentFails(n)
      BY <2>3, RunEnds, PostedTypes DEF CommentFails, DiscussionTypes
    <2>4. CASE RunDone(n)
      <3>1. run' \in [Run -> Runs \cup {NoRun}]
        BY <2>4, RunEnds
      <3>2. run[n].tray \in Trays
        BY <2>4, RunTypes DEF RunDone
      <3>3. tray' \in [Trays -> SUBSET (File \cup Item)] /\ draft' \subseteq Text
        BY <2>4, <3>2 DEF RunDone, DiscussionTypes
      <3> QED BY <2>4, <3>1, <3>3 DEF RunDone, DiscussionTypes, store
    <2> QED BY <2>1, <2>2, <2>3, <2>4
  <1>10. CASE \E n \in Run, x \in File \cup Item : ThingStored(n, x) \/ ThingFails(n, x)
    <2>1. PICK n \in Run, x \in File \cup Item : ThingStored(n, x) \/ ThingFails(n, x)
      BY <1>10
    <2>2. run[n].item \in Item /\ run' \in [Run -> Runs \cup {NoRun}]
      BY <2>1, RunTypes, RunHandles DEF ThingStored, ThingFails
    <2> QED BY <2>1, <2>2 DEF ThingStored, ThingFails, Stores, DiscussionTypes, store
  <1>11. CASE UNCHANGED <<shown, discussion>>
    BY <1>11 DEF discussion, store, DiscussionTypes
  <1> QED BY <1>1, <1>2, <1>3, <1>4, <1>5, <1>6, <1>7, <1>8, <1>9, <1>10, <1>11, DiscussionSteps

(* Whatever is typed, staged or under way is for the item it was for at    *)
(* first: the one shown, or the one of its run.                            *)
Homed ==
    /\ \A x \in draft : home[x] = shown
    /\ \A t \in Trays : \A f \in File \cap tray[t] : home[f] = shown
    /\ File \cap tray["link"] = {}
    /\ \A n \in Run : Running(n) =>
         /\ \A x \in run[n].text : home[x] = run[n].item
         /\ \A f \in File \cap run[n].held : home[f] = run[n].item
         /\ run[n].todo \subseteq run[n].held
         /\ run[n].text # {} \/ run[n].posting => run[n].tray = "comment"

LEMMA HomedKept ==
  ASSUME DiscussionTypes, Homed, OwnItem, [Next]_vars
  PROVE  Homed'
  <1> USE DEF Trays
  <1>0. /\ (Text \cup File) \cap (Item \cup {None}) = {} /\ Text \cap File = {} /\ None \notin Item
        /\ \A n \in Run : run[n] \in Runs \/ ~Running(n)
    BY DiscussionAssumption, TargetAssumption DEF DiscussionTypes, Running
  <1>1. CASE \E x \in Text : Type(x)
    <2>1. PICK x \in Text : Type(x)
      BY <1>1
    <2>2. /\ shown' = shown /\ run' = run /\ tray' = tray /\ draft' = draft \cup {x}
          /\ home[x] = None /\ shown # None
          /\ home'[x] = shown /\ \A y \in Text \cup File : y # x => home'[y] = home[y]
      BY <2>1 DEF Type, DiscussionTypes
    <2>3. \A n \in Run : Running(n) => x \notin run[n].text /\ x \notin run[n].held
      BY <1>0, <2>2, RunTypes DEF Homed
    <2>4. \A y \in draft' : home'[y] = shown'
      BY <2>2 DEF Homed, DiscussionTypes
    <2>5. \A t \in Trays : \A f \in File \cap tray'[t] : home'[f] = shown'
      BY <1>0, <2>2 DEF Homed
    <2>6. ASSUME NEW n \in Run, Running(n)
          PROVE  /\ \A y \in run[n].text : home'[y] = run[n].item
                 /\ \A f \in File \cap run[n].held : home'[f] = run[n].item
      BY <2>2, <2>3, <2>6, RunTypes DEF Homed
    <2> QED BY <2>2, <2>4, <2>5, <2>6 DEF Homed, Running
  <1>2. CASE \E f \in File, t \in Trays : Stage(t, f)
    <2>1. PICK f \in File, t \in Trays : Stage(t, f)
      BY <1>2
    <2>2. /\ shown' = shown /\ run' = run /\ draft' = draft
          /\ tray'[t] = tray[t] \cup {f} /\ \A u \in Trays : u # t => tray'[u] = tray[u]
          /\ home[f] = None /\ shown # None /\ t # "link"
          /\ home'[f] = shown /\ \A y \in Text \cup File : y # f => home'[y] = home[y]
      BY <2>1 DEF Stage, DiscussionTypes
    <2>3. \A n \in Run : Running(n) => f \notin run[n].text /\ f \notin run[n].held
      BY <1>0, <2>2, RunTypes DEF Homed
    <2>4. \A y \in draft' : home'[y] = shown'
      BY <1>0, <2>2 DEF Homed, DiscussionTypes
    <2>5. \A u \in Trays : \A g \in File \cap tray'[u] : home'[g] = shown'
      BY <1>0, <2>2 DEF Homed
    <2>6. ASSUME NEW n \in Run, Running(n)
          PROVE  /\ \A y \in run[n].text : home'[y] = run[n].item
                 /\ \A g \in File \cap run[n].held : home'[g] = run[n].item
      BY <2>2, <2>3, <2>6, RunTypes DEF Homed
    <2> QED BY <2>2, <2>4, <2>5, <2>6 DEF Homed, Running
  <1>3. CASE \E i \in Item : PickTarget(i) \/ RemoveLink(i)
    <2>1. PICK i \in Item : PickTarget(i) \/ RemoveLink(i)
      BY <1>3
    <2>2. /\ shown' = shown /\ run' = run /\ draft' = draft /\ home' = home
          /\ \A u \in Trays : File \cap tray'[u] = File \cap tray[u]
      BY <1>0, <2>1 DEF PickTarget, RemoveLink, DiscussionTypes
    <2> QED BY <2>2 DEF Homed, Running
  <1>4. CASE \E t \in Trays : ClearTray(t) \/ \E x \in tray[t] : Unstage(t, x)
    <2>2. /\ shown' = shown /\ run' = run /\ draft' = draft /\ home' = home
          /\ \A u \in Trays : tray'[u] \subseteq tray[u]
      BY <1>4 DEF ClearTray, Unstage, DiscussionTypes
    <2> QED BY <2>2 DEF Homed, Running
  <1>5. CASE \E n \in Run, t \in Trays : Press(n, t)
    <2>1. PICK n \in Run, t \in Trays : Press(n, t)
      BY <1>5
    <2>2. shown' = shown /\ draft' = draft /\ tray' = tray /\ home' = home
      BY <2>1 DEF Press
    <2>3. \A m \in Run : m # n => run'[m] = run[m]
      BY <2>1, RunPressed
    <2>4. /\ run'[n].item = shown /\ run'[n].held = tray[t] /\ run'[n].todo = tray[t]
          /\ run'[n].text = (IF t = "comment" THEN draft ELSE {}) /\ run'[n].posting = (t = "comment") /\ run'[n].tray = t
      BY <2>1, RunPressed
    <2>5. /\ \A x \in run'[n].text : home[x] = run'[n].item
          /\ \A f \in File \cap run'[n].held : home[f] = run'[n].item
          /\ run'[n].todo \subseteq run'[n].held
          /\ run'[n].text # {} \/ run'[n].posting => run'[n].tray = "comment"
      BY <2>4 DEF Homed
    <2>6. \A m \in Run : Running(m)' =>
             /\ \A x \in run'[m].text : home[x] = run'[m].item
             /\ \A f \in File \cap run'[m].held : home[f] = run'[m].item
             /\ run'[m].todo \subseteq run'[m].held
             /\ run'[m].text # {} \/ run'[m].posting => run'[m].tray = "comment"
      BY <2>3, <2>5 DEF Homed, Running
    <2> QED BY <2>2, <2>6 DEF Homed
  <1>6. CASE SavePressed \/ SaveEnds \/ \E f \in File : DeleteAttachment(f)
    <2>2. /\ run' = run /\ home' = home
          /\ \/ shown' = shown /\ draft' = draft /\ tray' = tray
             \/ draft' = {} /\ tray' = NoTrays
      BY <1>6 DEF SavePressed, SaveEnds, DeleteAttachment
    <2> QED BY <2>2 DEF Homed, Running, NoTrays
  <1>8. CASE \E i \in Item \cup {None} : DiscussionTurn(i)
    <2>2. run' = run /\ home' = home /\ draft' = {} /\ tray' = NoTrays
      BY <1>8 DEF DiscussionTurn, LeaveTrays
    <2> QED BY <2>2 DEF Homed, Running, NoTrays
  <1>9. CASE \E n \in Run : CommentPosted(n) \/ CommentFails(n) \/ RunDone(n)
    <2>1. PICK n \in Run : CommentPosted(n) \/ CommentFails(n) \/ RunDone(n)
      BY <1>9
    <2>2. /\ shown' = shown /\ home' = home /\ draft' \subseteq draft
          /\ \A u \in Trays : tray'[u] \subseteq tray[u]
      BY <2>1 DEF CommentPosted, CommentFails, RunDone, DiscussionTypes
    <2>3. \A m \in Run : m # n => run'[m] = run[m]
      BY <2>1, RunPosts, RunEnds
    <2>4. CASE CommentPosted(n)
      <3>1. /\ run'[n].tray = run[n].tray /\ run'[n].item = run[n].item /\ run'[n].held = run[n].held
            /\ run'[n].todo = run[n].todo /\ run'[n].text = run[n].text /\ run'[n].posting = FALSE
            /\ Running(n)
        BY <2>4, RunPosts DEF CommentPosted
      <3>2. /\ \A x \in run'[n].text : home[x] = run'[n].item
            /\ \A f \in File \cap run'[n].held : home[f] = run'[n].item
            /\ run'[n].todo \subseteq run'[n].held
            /\ run'[n].text # {} => run'[n].tray = "comment"
        BY <3>1 DEF Homed
      <3> QED BY <2>2, <2>3, <3>1, <3>2 DEF Homed, Running
    <2>5. CASE CommentFails(n) \/ RunDone(n)
      <3>1. run'[n] = NoRun
        BY <2>5, RunEnds
      <3> QED BY <2>2, <2>3, <3>1 DEF Homed, Running
    <2> QED BY <2>1, <2>4, <2>5
  <1>10. CASE \E n \in Run, x \in File \cup Item : ThingStored(n, x) \/ ThingFails(n, x)
    <2>1. PICK n \in Run, x \in File \cup Item : ThingStored(n, x) \/ ThingFails(n, x)
      BY <1>10
    <2>2. shown' = shown /\ home' = home /\ draft' = draft /\ tray' = tray /\ Running(n)
      BY <2>1 DEF ThingStored, ThingFails
    <2>3. \A m \in Run : m # n => run'[m] = run[m]
      BY <2>1, RunHandles
    <2>4. /\ run'[n].tray = run[n].tray /\ run'[n].item = run[n].item /\ run'[n].held = run[n].held
          /\ run'[n].todo = run[n].todo \ {x} /\ run'[n].text = run[n].text
      BY <2>1, RunHandles
    <2>5. run'[n].posting = run[n].posting
      BY <2>1, RunHandles
    <2>6. /\ \A y \in run'[n].text : home[y] = run'[n].item
          /\ \A f \in File \cap run'[n].held : home[f] = run'[n].item
          /\ run'[n].todo \subseteq run'[n].held
          /\ run'[n].text # {} \/ run'[n].posting => run'[n].tray = "comment"
      BY <2>2, <2>4, <2>5 DEF Homed
    <2> QED BY <2>2, <2>3, <2>6 DEF Homed, Running
  <1>11. CASE UNCHANGED <<shown, discussion>>
    BY <1>11 DEF discussion, store, Homed, Running
  <1> QED BY <1>1, <1>2, <1>3, <1>4, <1>5, <1>6, <1>8, <1>9, <1>10, <1>11, DiscussionSteps

(* What is stored is at its item, and stays there.                         *)
LEMMA OwnItemKept ==
  ASSUME DiscussionTypes, Homed, OwnItem, [Next]_vars
  PROVE  OwnItem'
  <1> USE DEF Trays
  <1>0. None \notin Item
    BY TargetAssumption
  <1>1. CASE \/ \E x \in Text : Type(x)
             \/ \E f \in File, t \in Trays : Stage(t, f)
    <2>1. PICK z \in Text \cup File :
             /\ home[z] = None /\ attached' = attached /\ posted' = posted
             /\ home' = [home EXCEPT ![z] = shown]
      BY <1>1 DEF Type, Stage, store
    <2>2. \A y \in Text \cup File : y # z => home'[y] = home[y]
      BY <2>1 DEF DiscussionTypes
    <2>3. \A a \in attached : a[1] \in File /\ a[1] # z
      BY <1>0, <2>1 DEF OwnItem, DiscussionTypes
    <2>4. \A x \in Text, i \in Item : posted[x][i] > 0 => x # z
      BY <1>0, <2>1 DEF OwnItem
    <2> QED BY <2>1, <2>2, <2>3, <2>4 DEF OwnItem
  <1>2. CASE \/ \E i \in Item : PickTarget(i) \/ RemoveLink(i)
             \/ \E t \in Trays : ClearTray(t) \/ \E x \in tray[t] : Unstage(t, x)
             \/ \E n \in Run, t \in Trays : Press(n, t)
             \/ \E f \in File : DeleteAttachment(f)
             \/ SavePressed \/ SaveEnds
             \/ \E i \in Item \cup {None} : DiscussionTurn(i)
             \/ \E n \in Run : RunDone(n)
             \/ UNCHANGED <<shown, discussion>>
    <2>1. home' = home /\ attached' \subseteq attached /\ posted' = posted
      BY <1>2 DEF PickTarget, RemoveLink, ClearTray, Unstage, Press, DeleteAttachment, SavePressed, SaveEnds,
         DiscussionTurn, LeaveTrays, RunDone, discussion, store
    <2> QED BY <2>1 DEF OwnItem
  <1>3. CASE \E n \in Run : CommentPosted(n) \/ CommentFails(n)
    <2>1. PICK n \in Run : CommentPosted(n) \/ CommentFails(n)
      BY <1>3
    <2>2. home' = home /\ attached' = attached /\ (posted' = posted \/ posted' = Posted(n)) /\ Running(n)
      BY <2>1 DEF CommentPosted, CommentFails
    <2>3. \A x \in Text, i \in Item : Posted(n)[x][i] > 0 => i = home[x]
      BY <2>2, PostedTypes DEF Homed, OwnItem
    <2> QED BY <2>2, <2>3 DEF OwnItem
  <1>4. CASE \E n \in Run, x \in File \cup Item : ThingStored(n, x) \/ ThingFails(n, x)
    <2>1. PICK n \in Run, x \in File \cup Item : ThingStored(n, x) \/ ThingFails(n, x)
      BY <1>4
    <2>2. home' = home /\ posted' = posted /\ Running(n) /\ x \in run[n].held
      BY <2>1 DEF ThingStored, ThingFails, Stores, store, Homed
    <2>3. attached' = attached \/ (x \in File /\ attached' = attached \cup {<<x, run[n].item>>})
      BY <2>1 DEF ThingStored, ThingFails, Stores, store
    <2>4. x \in File => home[x] = run[n].item
      BY <2>2 DEF Homed
    <2> QED BY <2>2, <2>3, <2>4 DEF OwnItem
  <1> QED BY <1>1, <1>2, <1>3, <1>4, DiscussionSteps

(* A file that nothing has to account for any more.                        *)
Kept(f) == (\E i \in Item : <<f, i>> \in attached) \/ f \in told \cup given \cup late
Staged(f) == \E t \in Trays : f \in tray[t]

(* Every file is where something still sends it: a run holds what was in   *)
(* its tray at the press, so what is emptied at its end was sent or late.  *)
FilesFollowed ==
    /\ \A f \in File : home[f] # None =>
         \/ Staged(f) \/ Kept(f)
         \/ \E n \in Run : Running(n) /\ ~run[n].posting /\ f \in run[n].todo
    /\ \A n \in Run : \A f \in File : Running(n) =>
         /\ run[n].posting /\ f \in run[n].todo => Staged(f) \/ Kept(f)
         /\ f \in run[n].held => f \in run[n].todo \/ Kept(f)
         /\ f \in tray[run[n].tray] => f \in run[n].held \/ f \in late
    /\ \A f \in File : \A t \in Trays : saving /\ f \in tray[t] => f \in late

LEMMA HistoriesGrow ==
  ASSUME [Next]_vars
  PROVE  given \subseteq given' /\ told \subseteq told' /\ late \subseteq late'
         /\ \A f : Kept(f) => Kept(f)'
  <1>1. given \subseteq given' /\ told \subseteq told' /\ late \subseteq late'
        /\ (attached \subseteq attached' \/ \E f \in File : attached' = attached \ {<<f, shown>>} /\ f \in given')
    <2> USE DEF store, Late
    <2>1. CASE \/ \E x \in Text : Type(x)
               \/ \E f \in File, t \in Trays : Stage(t, f)
               \/ \E i \in Item : PickTarget(i) \/ RemoveLink(i)
      BY <2>1 DEF Type, Stage, PickTarget, RemoveLink
    <2>2. CASE \/ \E t \in Trays : ClearTray(t) \/ \E x \in tray[t] : Unstage(t, x)
               \/ \E n \in Run, t \in Trays : Press(n, t)
               \/ SavePressed \/ SaveEnds
               \/ \E i \in Item \cup {None} : DiscussionTurn(i)
      BY <2>2 DEF ClearTray, Unstage, Press, SavePressed, SaveEnds, DiscussionTurn, LeaveTrays
    <2>3. CASE \E f \in File : DeleteAttachment(f)
      BY <2>3 DEF DeleteAttachment
    <2>4. CASE \/ \E n \in Run : CommentPosted(n) \/ CommentFails(n) \/ RunDone(n)
               \/ UNCHANGED <<shown, discussion>>
      BY <2>4 DEF CommentPosted, CommentFails, RunDone, discussion
    <2>5. CASE \E n \in Run, x \in File \cup Item : ThingStored(n, x) \/ ThingFails(n, x)
      BY <2>5 DEF ThingStored, ThingFails, Stores
    <2> QED BY <2>1, <2>2, <2>3, <2>4, <2>5, DiscussionSteps
  <1>2. ASSUME NEW f, Kept(f) PROVE Kept(f)'
    BY <1>1, <1>2 DEF Kept
  <1> QED BY <1>1, <1>2

LEMMA FilesFollowedKept ==
  ASSUME DiscussionTypes, Homed, FilesFollowed, [Next]_vars
  PROVE  FilesFollowed'
  <1> USE DEF Trays
  <1>0. /\ (Text \cup File) \cap (Item \cup {None}) = {} /\ Text \cap File = {} /\ None \notin Item
        /\ \A f : Kept(f) => Kept(f)'
        /\ late \subseteq late'
    BY DiscussionAssumption, TargetAssumption, HistoriesGrow
  <1>1. CASE \E x \in Text : Type(x)
    <2>1. run' = run /\ tray' = tray /\ saving' = saving /\ \A f \in File : home'[f] = home[f]
      BY <1>0, <1>1 DEF Type, DiscussionTypes
    <2>2. \A f \in File : Staged(f)' = Staged(f)
      BY <2>1 DEF Staged
    <2> QED BY <1>0, <2>1, <2>2 DEF FilesFollowed, Running
  <1>2. CASE \E f \in File, t \in Trays : Stage(t, f)
    <2>1. PICK f \in File, t \in Trays : Stage(t, f)
      BY <1>2
    <2>2. /\ run' = run /\ saving' = saving
          /\ tray'[t] = tray[t] \cup {f} /\ \A u \in Trays : u # t => tray'[u] = tray[u]
          /\ \A g \in File : g # f => home'[g] = home[g]
      BY <2>1 DEF Stage, DiscussionTypes
    <2>3. Emptying(t) => f \in late'
      BY <2>1 DEF Stage, Late
    <2>4. \A g \in File : Staged(g) => Staged(g)'
      BY <2>2 DEF Staged
    <2>5. Staged(f)'
      BY <2>2 DEF Staged
    <2>6. \A g \in File : home'[g] # None =>
            \/ Staged(g)' \/ Kept(g)'
            \/ \E n \in Run : Running(n) /\ ~run[n].posting /\ g \in run[n].todo
      BY <1>0, <2>2, <2>4, <2>5 DEF FilesFollowed
    <2>7. \A n \in Run : \A g \in File : Running(n) =>
            /\ run[n].posting /\ g \in run[n].todo => Staged(g)' \/ Kept(g)'
            /\ g \in run[n].held => g \in run[n].todo \/ Kept(g)'
      BY <1>0, <2>4 DEF FilesFollowed
    <2>8. ASSUME NEW n \in Run, NEW g \in File, Running(n), g \in tray'[run[n].tray]
          PROVE  g \in run[n].held \/ g \in late'
      <3>1. CASE g \in tray[run[n].tray]
        BY <1>0, <2>8, <3>1 DEF FilesFollowed
      <3>2. CASE g \notin tray[run[n].tray]
        <4>1. run[n].tray = t /\ g = f
          BY <2>2, <2>8, <3>2, RunTypes
        <4> QED BY <2>3, <2>8, <4>1 DEF Emptying
      <3> QED BY <3>1, <3>2
    <2>9. \A g \in File : \A u \in Trays : saving /\ g \in tray'[u] => g \in late'
      BY <1>0, <2>2, <2>3 DEF FilesFollowed, Emptying
    <2> QED BY <2>2, <2>6, <2>7, <2>8, <2>9 DEF FilesFollowed, Running
  <1>3. CASE \E i \in Item : PickTarget(i) \/ RemoveLink(i)
    <2>1. PICK i \in Item : PickTarget(i) \/ RemoveLink(i)
      BY <1>3
    <2>2. /\ run' = run /\ saving' = saving /\ home' = home
          /\ \A f \in File, u \in Trays : f \in tray'[u] <=> f \in tray[u]
      BY <1>0, <2>1 DEF PickTarget, RemoveLink, DiscussionTypes
    <2>3. \A f \in File : Staged(f)' = Staged(f)
      BY <2>2 DEF Staged
    <2>4. \A n \in Run : \A f \in File : Running(n) /\ f \in tray'[run[n].tray] => f \in tray[run[n].tray]
      BY <2>2, RunTypes
    <2> QED BY <1>0, <2>2, <2>3, <2>4 DEF FilesFollowed, Running
  <1>4. CASE \/ \E t \in Trays : ClearTray(t) \/ \E x \in tray[t] : Unstage(t, x)
             \/ \E i \in Item \cup {None} : DiscussionTurn(i)
    <2>1. run' = run /\ saving' = saving /\ home' = home
      BY <1>4 DEF ClearTray, Unstage, DiscussionTurn, LeaveTrays
    <2>2. \A u \in Trays : \A x \in tray[u] : x \in tray'[u] \/ x \in given'
      BY <1>4 DEF ClearTray, Unstage, DiscussionTurn, LeaveTrays, DiscussionTypes
    <2>3. \A u \in Trays : tray'[u] \subseteq tray[u]
      BY <1>4 DEF ClearTray, Unstage, DiscussionTurn, LeaveTrays, NoTrays, DiscussionTypes
    <2>4. \A f \in File : Staged(f) => Staged(f)' \/ Kept(f)'
      BY <2>2 DEF Staged, Kept
    <2>5. \A n \in Run : \A f \in File : Running(n) /\ f \in tray'[run[n].tray] => f \in tray[run[n].tray]
      BY <2>3, RunTypes
    <2> QED BY <1>0, <2>1, <2>3, <2>4, <2>5 DEF FilesFollowed, Running
  <1>5. CASE \E n \in Run, t \in Trays : Press(n, t)
    <2>1. PICK n \in Run, t \in Trays : Press(n, t)
      BY <1>5
    <2>2. tray' = tray /\ home' = home /\ saving' = saving /\ ~Running(n)
      BY <2>1 DEF Press
    <2>3. \A m \in Run : m # n => run'[m] = run[m]
      BY <2>1, RunPressed
    <2>4. run'[n].held = tray[t] /\ run'[n].todo = tray[t] /\ run'[n].tray = t
      BY <2>1, RunPressed
    <2>5. \A f \in File : Staged(f)' = Staged(f)
      BY <2>2 DEF Staged
    <2>6. \A f \in File : f \in tray[t] => Staged(f)'
      BY <2>2 DEF Staged
    <2>7. \A f \in File : home'[f] # None =>
            \/ Staged(f)' \/ Kept(f)'
            \/ \E m \in Run : Running(m)' /\ ~run'[m].posting /\ f \in run'[m].todo
      BY <1>0, <2>2, <2>3, <2>5 DEF FilesFollowed, Running
    <2>8. ASSUME NEW m \in Run, NEW f \in File, Running(m)'
          PROVE  /\ run'[m].posting /\ f \in run'[m].todo => Staged(f)' \/ Kept(f)'
                 /\ f \in run'[m].held => f \in run'[m].todo \/ Kept(f)'
                 /\ f \in tray'[run'[m].tray] => f \in run'[m].held \/ f \in late'
      <3>1. CASE m = n
        BY <2>2, <2>4, <2>6, <3>1
      <3>2. CASE m # n
        <4>1. run'[m] = run[m] /\ Running(m)
          BY <2>3, <2>8, <3>2 DEF Running
        <4> QED BY <1>0, <2>2, <2>5, <4>1 DEF FilesFollowed
      <3> QED BY <3>1, <3>2
    <2>9. \A f \in File : \A u \in Trays : saving' /\ f \in tray'[u] => f \in late'
      BY <1>0, <2>2 DEF FilesFollowed
    <2> QED BY <2>7, <2>8, <2>9 DEF FilesFollowed
  <1>6. CASE SavePressed
    <2>1. run' = run /\ home' = home /\ tray' = tray /\ tray["attach"] = {} /\ tray["comment"] = {}
      BY <1>6 DEF SavePressed
    <2>2. \A f \in File : Staged(f)' = Staged(f)
      BY <2>1 DEF Staged
    <2>3. \A f \in File : \A u \in Trays : f \in tray'[u] => f \in late'
      <3>1. SUFFICES ASSUME NEW f \in File, f \in tray["link"] PROVE FALSE
        BY <2>1
      <3> QED BY <3>1 DEF Homed
    <2> QED BY <1>0, <2>1, <2>2, <2>3 DEF FilesFollowed, Running
  <1>7. CASE SaveEnds
    <2>1. run' = run /\ home' = home /\ saving /\ ~saving'
      BY <1>7 DEF SaveEnds
    <2>2. \A u \in Trays : tray'[u] \subseteq tray[u]
      BY <1>7 DEF SaveEnds, NoTrays, DiscussionTypes
    <2>3. \A f \in File : Staged(f) => Kept(f)'
      BY <1>0, <2>1 DEF FilesFollowed, Staged, Kept
    <2>5. \A n \in Run : \A f \in File : Running(n) /\ f \in tray'[run[n].tray] => f \in tray[run[n].tray]
      BY <2>2, RunTypes
    <2> QED BY <1>0, <2>1, <2>3, <2>5 DEF FilesFollowed, Running
  <1>8. CASE (\E f \in File : DeleteAttachment(f)) \/ UNCHANGED <<shown, discussion>>
    <2>1. run' = run /\ home' = home /\ tray' = tray /\ saving' = saving
      BY <1>8 DEF DeleteAttachment, discussion, store
    <2>2. \A f \in File : Staged(f)' = Staged(f)
      BY <2>1 DEF Staged
    <2> QED BY <1>0, <2>1, <2>2 DEF FilesFollowed, Running
  <1>9. CASE \E n \in Run : CommentPosted(n) \/ CommentFails(n)
    <2>1. PICK n \in Run : CommentPosted(n) \/ CommentFails(n)
      BY <1>9
    <2>2. home' = home /\ tray' = tray /\ saving' = saving /\ Running(n) /\ run[n].posting
      BY <2>1 DEF CommentPosted, CommentFails
    <2>3. \A m \in Run : m # n => run'[m] = run[m]
      BY <2>1, RunPosts, RunEnds
    <2>4. \A f \in File : Staged(f)' = Staged(f)
      BY <2>2 DEF Staged
    <2>5. \/ run'[n] = NoRun
          \/ /\ run'[n].posting = FALSE /\ run'[n].todo = run[n].todo /\ run'[n].held = run[n].held
             /\ run'[n].tray = run[n].tray
      BY <2>1, RunPosts, RunEnds
    <2>6. \A f \in File : home'[f] # None =>
            \/ Staged(f)' \/ Kept(f)'
            \/ \E m \in Run : Running(m)' /\ ~run'[m].posting /\ f \in run'[m].todo
      <3>1. \A m \in Run : Running(m) /\ ~run[m].posting => m # n
        BY <2>2
      <3> QED BY <1>0, <2>2, <2>3, <2>4, <3>1 DEF FilesFollowed, Running
    <2>8. ASSUME NEW m \in Run, NEW f \in File, Running(m)'
          PROVE  /\ run'[m].posting /\ f \in run'[m].todo => Staged(f)' \/ Kept(f)'
                 /\ f \in run'[m].held => f \in run'[m].todo \/ Kept(f)'
                 /\ f \in tray'[run'[m].tray] => f \in run'[m].held \/ f \in late'
      <3>1. CASE m = n
        BY <1>0, <2>2, <2>5, <2>8, <3>1 DEF FilesFollowed, Running
      <3>2. CASE m # n
        <4>1. run'[m] = run[m] /\ Running(m)
          BY <2>3, <2>8, <3>2 DEF Running
        <4> QED BY <1>0, <2>2, <2>4, <4>1 DEF FilesFollowed
      <3> QED BY <3>1, <3>2
    <2>9. \A f \in File : \A u \in Trays : saving' /\ f \in tray'[u] => f \in late'
      BY <1>0, <2>2 DEF FilesFollowed
    <2> QED BY <2>6, <2>8, <2>9 DEF FilesFollowed
  <1>10. CASE \E n \in Run : RunDone(n)
    <2>1. PICK n \in Run : RunDone(n)
      BY <1>10
    <2>2. /\ home' = home /\ saving' = saving /\ Running(n) /\ ~run[n].posting /\ run[n].todo = {}
          /\ run[n].tray \in Trays
      BY <2>1, RunTypes DEF RunDone
    <2>3. run'[n] = NoRun /\ \A m \in Run : m # n => run'[m] = run[m]
      BY <2>1, RunEnds
    <2>4. tray'[run[n].tray] = {} /\ \A u \in Trays : u # run[n].tray => tray'[u] = tray[u]
      BY <2>1, <2>2 DEF RunDone, DiscussionTypes
    <2>5. \A f \in File : f \in tray[run[n].tray] => Kept(f)
      BY <2>2 DEF FilesFollowed, Kept
    <2>6. \A f \in File : Staged(f) => Staged(f)' \/ Kept(f)'
      BY <1>0, <2>4, <2>5 DEF Staged
    <2>7. \A f \in File : home'[f] # None =>
            \/ Staged(f)' \/ Kept(f)'
            \/ \E m \in Run : Running(m)' /\ ~run'[m].posting /\ f \in run'[m].todo
      <3>1. \A m \in Run : \A f \in File : f \in run[m].todo => m # n
        BY <2>2
      <3> QED BY <1>0, <2>2, <2>3, <2>6, <3>1 DEF FilesFollowed, Running
    <2>8. ASSUME NEW m \in Run, NEW f \in File, Running(m)'
          PROVE  /\ run'[m].posting /\ f \in run'[m].todo => Staged(f)' \/ Kept(f)'
                 /\ f \in run'[m].held => f \in run'[m].todo \/ Kept(f)'
                 /\ f \in tray'[run'[m].tray] => f \in run'[m].held \/ f \in late'
      <3>1. m # n /\ run'[m] = run[m] /\ Running(m)
        BY <2>3, <2>8 DEF Running
      <3>2. run[m].tray \in Trays
        BY <3>1, RunTypes
      <3>3. f \in tray'[run[m].tray] => f \in tray[run[m].tray]
        BY <2>4, <3>2
      <3> QED BY <1>0, <2>6, <3>1, <3>3 DEF FilesFollowed
    <2>9. \A f \in File : \A u \in Trays : saving' /\ f \in tray'[u] => f \in late'
      BY <1>0, <2>2, <2>4 DEF FilesFollowed
    <2> QED BY <2>7, <2>8, <2>9 DEF FilesFollowed
  <1>11. CASE \E n \in Run, x \in File \cup Item : ThingStored(n, x) \/ ThingFails(n, x)
    <2>1. PICK n \in Run, x \in File \cup Item : ThingStored(n, x) \/ ThingFails(n, x)
      BY <1>11
    <2>2. home' = home /\ tray' = tray /\ saving' = saving /\ Running(n) /\ ~run[n].posting
      BY <2>1 DEF ThingStored, ThingFails
    <2>3. \A m \in Run : m # n => run'[m] = run[m]
      BY <2>1, RunHandles
    <2>4. run'[n] \in Runs /\ run'[n].todo = run[n].todo \ {x} /\ run'[n].held = run[n].held /\ run'[n].tray = run[n].tray
      BY <2>1, RunHandles
    <2>5. run'[n].posting = run[n].posting
      BY <2>1, RunHandles
    <2>6. x \in File => Kept(x)'
      <3>1. run[n].item \in Item
        BY <2>2, RunTypes
      <3> QED BY <2>1, <3>1 DEF ThingStored, ThingFails, Stores, store, Kept
    <2>7. \A f \in File : Staged(f)' = Staged(f)
      BY <2>2 DEF Staged
    <2>8. \A f \in File : home'[f] # None =>
            \/ Staged(f)' \/ Kept(f)'
            \/ \E m \in Run : Running(m)' /\ ~run'[m].posting /\ f \in run'[m].todo
      <3>1. SUFFICES ASSUME NEW f \in File, home'[f] # None, ~Staged(f), ~Kept(f)'
                     PROVE  \E m \in Run : Running(m)' /\ ~run'[m].posting /\ f \in run'[m].todo
        BY <2>7
      <3>2. PICK m \in Run : Running(m) /\ ~run[m].posting /\ f \in run[m].todo
        BY <1>0, <2>2, <3>1 DEF FilesFollowed
      <3>3. f # x
        BY <2>6, <3>1
      <3>4. Running(m)' /\ ~run'[m].posting /\ f \in run'[m].todo
        BY <2>3, <2>4, <2>5, <3>2, <3>3, RunsRun DEF Running
      <3> QED BY <3>4
    <2>9. ASSUME NEW m \in Run, NEW f \in File, Running(m)'
          PROVE  /\ run'[m].posting /\ f \in run'[m].todo => Staged(f)' \/ Kept(f)'
                 /\ f \in run'[m].held => f \in run'[m].todo \/ Kept(f)'
                 /\ f \in tray'[run'[m].tray] => f \in run'[m].held \/ f \in late'
      <3>1. CASE m = n
        BY <1>0, <2>2, <2>4, <2>5, <2>6, <3>1 DEF FilesFollowed
      <3>2. CASE m # n
        <4>1. run'[m] = run[m] /\ Running(m)
          BY <2>3, <2>9, <3>2 DEF Running
        <4> QED BY <1>0, <2>2, <2>7, <4>1 DEF FilesFollowed
      <3> QED BY <3>1, <3>2
    <2>10. \A f \in File : \A u \in Trays : saving' /\ f \in tray'[u] => f \in late'
      BY <1>0, <2>2 DEF FilesFollowed
    <2> QED BY <2>8, <2>9, <2>10 DEF FilesFollowed
  <1> QED BY <1>1, <1>2, <1>3, <1>4, <1>5, <1>6, <1>7, <1>8, <1>9, <1>10, <1>11, DiscussionSteps

(* A text that can still be posted and is there already, or that two runs  *)
(* have, is known to have been posted again.                               *)
HadBy(x) == \E n \in Run : Running(n) /\ ~run[n].posting /\ run[n].tray = "comment" /\ x \in run[n].text
TextsFollowed ==
    /\ \A n \in Run : \A x \in Text : \A i \in Item :
         Running(n) /\ run[n].posting /\ x \in run[n].text /\ posted[x][i] > 0 => x \in doubted
    /\ \A n, m \in Run : \A x \in Text :
         Running(n) /\ Running(m) /\ n # m /\ x \in run[n].text /\ x \in run[m].text => x \in doubted
    /\ \A x \in draft : \A i \in Item : posted[x][i] > 0 => x \in doubted \/ HadBy(x)

LEMMA TextsFollowedKept ==
  ASSUME DiscussionTypes, Homed, OwnItem, TextsFollowed, PostedOnce, [Next]_vars
  PROVE  TextsFollowed' /\ PostedOnce'
  <1> USE DEF Trays
  <1>0. (Text \cup File) \cap (Item \cup {None}) = {} /\ Text \cap File = {} /\ None \notin Item
    BY DiscussionAssumption, TargetAssumption
  <1>1. CASE \E x \in Text : Type(x)
    <2>1. PICK x \in Text : Type(x)
      BY <1>1
    <2>2. run' = run /\ posted' = posted /\ doubted' = doubted /\ draft' = draft \cup {x} /\ home[x] = None
      BY <2>1 DEF Type, store
    <2>3. \A i \in Item : ~(posted[x][i] > 0)
      BY <1>0, <2>2 DEF OwnItem
    <2> QED BY <2>2, <2>3 DEF TextsFollowed, PostedOnce, HadBy, Running
  <1>2. CASE \/ \E f \in File, t \in Trays : Stage(t, f)
             \/ \E i \in Item : PickTarget(i) \/ RemoveLink(i)
             \/ \E t \in Trays : ClearTray(t) \/ \E x \in tray[t] : Unstage(t, x)
             \/ \E f \in File : DeleteAttachment(f)
             \/ SavePressed \/ SaveEnds
             \/ \E i \in Item \cup {None} : DiscussionTurn(i)
             \/ UNCHANGED <<shown, discussion>>
    <2>1. run' = run /\ posted' = posted /\ doubted' = doubted /\ draft' \subseteq draft
      BY <1>2 DEF Stage, PickTarget, RemoveLink, ClearTray, Unstage, DeleteAttachment, SavePressed, SaveEnds,
         DiscussionTurn, LeaveTrays, discussion, store
    <2> QED BY <2>1 DEF TextsFollowed, PostedOnce, HadBy, Running
  <1>3. CASE \E n \in Run, t \in Trays : Press(n, t)
    <2>1. PICK n \in Run, t \in Trays : Press(n, t)
      BY <1>3
    <2>2. draft' = draft /\ posted' = posted /\ doubted \subseteq doubted' /\ ~Running(n)
      BY <2>1 DEF Press, store
    <2>3. \A m \in Run : m # n => run'[m] = run[m]
      BY <2>1, RunPressed
    <2>4. /\ run'[n].text = (IF t = "comment" THEN draft ELSE {}) /\ run'[n].posting = (t = "comment")
          /\ run'[n].tray = t
      BY <2>1, RunPressed
    <2>5. \A m \in Run : Running(m) /\ run[m].tray = "comment" /\ t = "comment" => draft \subseteq doubted'
      BY <2>1 DEF Press
    <2>6. \A x \in Text : HadBy(x) => HadBy(x)'
      BY <2>2, <2>3 DEF HadBy, Running
    <2>7. \A x \in run'[n].text : \A i \in Item : posted[x][i] > 0 => x \in doubted'
      BY <2>2, <2>4, <2>5 DEF TextsFollowed, HadBy
    <2>8. \A m \in Run : m # n /\ Running(m) => \A x \in run'[n].text : x \in run[m].text => x \in doubted'
      BY <2>4, <2>5 DEF Homed
    <2>9. \A m \in Run : \A x \in Text : \A i \in Item :
            Running(m)' /\ run'[m].posting /\ x \in run'[m].text /\ posted'[x][i] > 0 => x \in doubted'
      BY <2>2, <2>3, <2>7 DEF TextsFollowed, Running
    <2>10. \A l, m \in Run : \A x \in Text :
            Running(l)' /\ Running(m)' /\ l # m /\ x \in run'[l].text /\ x \in run'[m].text => x \in doubted'
      BY <2>2, <2>3, <2>8 DEF TextsFollowed, Running
    <2>11. \A x \in draft' : \A i \in Item : posted'[x][i] > 0 => x \in doubted' \/ HadBy(x)'
      BY <2>2, <2>6 DEF TextsFollowed, DiscussionTypes
    <2>12. PostedOnce'
      BY <2>2 DEF PostedOnce
    <2> QED BY <2>9, <2>10, <2>11, <2>12 DEF TextsFollowed
  <1>4. CASE \E n \in Run : CommentPosted(n) \/ CommentFails(n)
    <2>1. PICK n \in Run : CommentPosted(n) \/ CommentFails(n)
      BY <1>4
    <2>2. Running(n) /\ run[n].posting /\ draft' = draft /\ doubted \subseteq doubted' /\ run[n].tray = "comment"
      BY <2>1 DEF CommentPosted, CommentFails, Homed
    <2>3. \A m \in Run : m # n => run'[m] = run[m]
      BY <2>1, RunPosts, RunEnds
    <2>4. \/ run'[n] = NoRun /\ (posted' = posted \/ (posted' = Posted(n) /\ run[n].text \subseteq doubted'))
          \/ /\ run'[n] \in Runs /\ run'[n].posting = FALSE /\ run'[n].text = run[n].text /\ run'[n].tray = "comment"
             /\ posted' = Posted(n)
      BY <2>1, <2>2, RunPosts, RunEnds DEF CommentPosted, CommentFails
    <2>5. \A x \in Text : \A i \in Item : posted'[x][i] > 0 => posted[x][i] > 0 \/ x \in run[n].text
      BY <2>4, PostedTypes
    <2>6. \A x \in Text : HadBy(x) => HadBy(x)'
      BY <2>2, <2>3 DEF HadBy, Running
    <2>7. \A x \in Text : x \in run[n].text => x \in doubted' \/ HadBy(x)' \/ posted' = posted
      <3>1. SUFFICES ASSUME NEW x \in Text, x \in run[n].text PROVE x \in doubted' \/ HadBy(x)' \/ posted' = posted
        OBVIOUS
      <3>2. CASE run'[n] = NoRun
        BY <2>4, <3>1, <3>2, RunsRun
      <3>3. CASE run'[n] # NoRun
        <4>1. Running(n)' /\ ~run'[n].posting /\ run'[n].tray = "comment" /\ x \in run'[n].text
          BY <2>4, <3>1, <3>3 DEF Running
        <4> QED BY <4>1 DEF HadBy
      <3> QED BY <3>2, <3>3
    <2>8. \A m \in Run : \A x \in Text : \A i \in Item :
            Running(m)' /\ run'[m].posting /\ x \in run'[m].text /\ posted'[x][i] > 0 => x \in doubted'
      <3>1. SUFFICES ASSUME NEW m \in Run, NEW x \in Text, NEW i \in Item,
                            Running(m)', run'[m].posting, x \in run'[m].text, posted'[x][i] > 0
                     PROVE  x \in doubted'
        OBVIOUS
      <3>2. m # n
        BY <2>4, <3>1 DEF Running
      <3>3. Running(m) /\ run[m].posting /\ x \in run[m].text
        BY <2>3, <3>1, <3>2 DEF Running
      <3> QED BY <2>2, <2>5, <3>1, <3>2, <3>3 DEF TextsFollowed
    <2>9. \A l, m \in Run : \A x \in Text :
            Running(l)' /\ Running(m)' /\ l # m /\ x \in run'[l].text /\ x \in run'[m].text => x \in doubted'
      <3>1. \A m \in Run : \A x \in Text : Running(m)' /\ x \in run'[m].text => Running(m) /\ x \in run[m].text
        BY <2>2, <2>3, <2>4 DEF Running
      <3> QED BY <2>2, <3>1 DEF TextsFollowed
    <2>10. \A x \in draft' : \A i \in Item : posted'[x][i] > 0 => x \in doubted' \/ HadBy(x)'
      <3>1. SUFFICES ASSUME NEW x \in Text, x \in draft, NEW i \in Item, posted'[x][i] > 0
                     PROVE  x \in doubted' \/ HadBy(x)'
        BY <2>2 DEF DiscussionTypes
      <3>2. CASE posted[x][i] > 0
        BY <2>2, <2>6, <3>1, <3>2 DEF TextsFollowed
      <3>3. CASE ~(posted[x][i] > 0)
        BY <2>5, <2>7, <3>1, <3>3
      <3> QED BY <3>2, <3>3
    <2>11. \A x \in Text : \A i \in Item : posted'[x][i] > 1 => x \in doubted'
      <3>1. SUFFICES ASSUME NEW x \in Text, NEW i \in Item, posted'[x][i] > 1 PROVE x \in doubted'
        OBVIOUS
      <3>2. posted[x][i] \in Nat
        BY DEF DiscussionTypes
      <3>3. posted[x][i] > 1 \/ (x \in run[n].text /\ posted[x][i] > 0)
        BY <2>4, <3>1, <3>2, PostedTypes
      <3> QED BY <2>2, <3>3 DEF TextsFollowed, PostedOnce
    <2> QED BY <2>8, <2>9, <2>10, <2>11 DEF TextsFollowed, PostedOnce
  <1>5. CASE \E n \in Run : RunDone(n)
    <2>1. PICK n \in Run : RunDone(n)
      BY <1>5
    <2>2. run'[n] = NoRun /\ \A m \in Run : m # n => run'[m] = run[m]
      BY <2>1, RunEnds
    <2>3. posted' = posted /\ doubted' = doubted /\ draft' = IF run[n].tray = "comment" THEN {} ELSE draft
      BY <2>1 DEF RunDone, store
    <2>4. \A x \in draft' : HadBy(x) => HadBy(x)'
      BY <2>2, <2>3 DEF HadBy, Running
    <2>5. \A m \in Run : Running(m)' => Running(m) /\ run'[m] = run[m]
      BY <2>2 DEF Running
    <2> QED BY <2>3, <2>4, <2>5 DEF TextsFollowed, PostedOnce
  <1>6. CASE \E n \in Run, x \in File \cup Item : ThingStored(n, x) \/ ThingFails(n, x)
    <2>1. PICK n \in Run, x \in File \cup Item : ThingStored(n, x) \/ ThingFails(n, x)
      BY <1>6
    <2>2. posted' = posted /\ doubted' = doubted /\ draft' = draft /\ Running(n)
      BY <2>1 DEF ThingStored, ThingFails, Stores, store
    <2>3. \A m \in Run : m # n => run'[m] = run[m]
      BY <2>1, RunHandles
    <2>4. run'[n] \in Runs /\ run'[n].tray = run[n].tray /\ run'[n].text = run[n].text
      BY <2>1, RunHandles
    <2>5. run'[n].posting = run[n].posting
      BY <2>1, RunHandles
    <2>6. \A y : HadBy(y) => HadBy(y)'
      <3>1. SUFFICES ASSUME NEW y, NEW m \in Run, Running(m), ~run[m].posting, run[m].tray = "comment", y \in run[m].text
                     PROVE  HadBy(y)'
        BY DEF HadBy
      <3>2. Running(m)' /\ ~run'[m].posting /\ run'[m].tray = "comment" /\ y \in run'[m].text
        BY <2>3, <2>4, <2>5, <3>1, RunsRun DEF Running
      <3> QED BY <3>2 DEF HadBy
    <2>7. \A m \in Run : Running(m)' => Running(m) /\ run'[m].text = run[m].text /\ run'[m].posting = run[m].posting
      BY <2>2, <2>3, <2>4, <2>5 DEF Running
    <2> QED BY <2>2, <2>6, <2>7 DEF TextsFollowed, PostedOnce
  <1> QED BY <1>1, <1>2, <1>3, <1>4, <1>5, <1>6, DiscussionSteps

DiscussionInv ==
    DiscussionTypes /\ Homed /\ OwnItem /\ FilesFollowed /\ TextsFollowed /\ PostedOnce

LEMMA DiscussionStart ==
  ASSUME Init
  PROVE  DiscussionInv
  <1> USE DEF Init, SectionsInit, DiscussionInit
  <1>1. DiscussionTypes
    BY DEF DiscussionTypes, NoTrays
  <1>2. \A n \in Run : ~Running(n)
    BY DEF Running
  <1>3. Homed /\ FilesFollowed
    BY <1>2 DEF Homed, FilesFollowed, NoTrays, Trays
  <1>4. OwnItem /\ TextsFollowed /\ PostedOnce
    BY <1>2 DEF OwnItem, TextsFollowed, PostedOnce
  <1> QED BY <1>1, <1>3, <1>4 DEF DiscussionInv

LEMMA DiscussionKept ==
  ASSUME DiscussionInv, [Next]_vars
  PROVE  DiscussionInv'
  BY DiscussionTypesKept, HomedKept, OwnItemKept, FilesFollowedKept, TextsFollowedKept DEF DiscussionInv

(* However requests, turns of the dialog and saves interleave (the runs of *)
(* the composer and the trays, modals/BugModal.jsx): no staged file is     *)
(* dropped without its failure being shown, unless it was added while its  *)
(* tray was about to be emptied, and no comment is posted twice unless it  *)
(* was sent again before an answer.                                        *)
THEOREM SentOnce == Spec => []SentOnceInFull
  <1>1. Init => DiscussionInv
    BY DiscussionStart
  <1>2. DiscussionInv /\ [Next]_vars => DiscussionInv'
    BY DiscussionKept
  <1>3. DiscussionInv => SentOnceInFull
    <2>1. ASSUME DiscussionInv PROVE FilesAccounted
      <3>1. SUFFICES ASSUME NEW f \in File, home[f] # None
                     PROVE  \/ \E t \in Trays : f \in tray[t]
                            \/ \E n \in Run : Running(n) /\ f \in run[n].todo
                            \/ \E i \in Item : <<f, i>> \in attached
                            \/ f \in told \cup given \cup late
        BY DEF FilesAccounted
      <3> QED BY <2>1, <3>1 DEF DiscussionInv, FilesFollowed, Staged, Kept
    <2> QED BY <2>1 DEF DiscussionInv, SentOnceInFull
  <1> QED BY <1>1, <1>2, <1>3, PTL DEF Spec
-----------------------------------------------------------------------------
(* The branches of an item: types.                                         *)
Panels == [data : List \cup {NoData}, repos : SUBSET (Repo \cup {None}), repo : Repo \cup {None},
           base : Base \cup {None}, preview : Preview \cup {NoPreview}, busy : BOOLEAN, loading : BOOLEAN,
           reposLoaded : BOOLEAN, reposLoading : BOOLEAN, gen : Nat]
Loads == [kind : {"load"}, item : Item, gen : Nat, then : BOOLEAN]
Discoveries == [kind : {"repos"}, item : Item]
Previews == [kind : {"preview"}, item : Item, repo : Repo, base : Base \cup {None}]
Creations == [kind : {"create"}, item : Item, repo : Repo, base : Base, confirmed : Preview]
Removals == [kind : {"confirm", "remove"}, item : Item, repo : Repo, n : 0..MaxRows]
Asks == Loads \cup Discoveries \cup Previews \cup Creations \cup Removals

BranchTypes ==
    /\ shown \in Item \cup {None} /\ strayed \in BOOLEAN /\ beside \in BOOLEAN /\ unsure \in BOOLEAN
    /\ rows \in [Item -> [Repo -> Row]]
    /\ panel \in Panels
    /\ asks \subseteq Asks

LEMMA AskTypes ==
  ASSUME NEW q \in Asks
  PROVE  /\ q.item \in Item
         /\ q.kind \in {"load", "repos", "preview", "create", "confirm", "remove"}
         /\ q.kind = "load" => q \in Loads /\ q.gen \in Nat /\ q.then \in BOOLEAN
         /\ q.kind = "repos" => q \in Discoveries
         /\ q.kind = "preview" => q \in Previews /\ q.repo \in Repo /\ q.base \in Base \cup {None}
         /\ q.kind = "create" => q \in Creations /\ q.repo \in Repo /\ q.base \in Base /\ q.confirmed \in Preview
         /\ q.kind \in {"confirm", "remove"} => q \in Removals /\ q.repo \in Repo /\ q.n \in 0..MaxRows
  <1>1. CASE q \in Loads
    BY <1>1 DEF Loads
  <1>2. CASE q \in Discoveries
    BY <1>2 DEF Discoveries
  <1>3. CASE q \in Previews
    BY <1>3 DEF Previews
  <1>4. CASE q \in Creations
    BY <1>4 DEF Creations
  <1>5. CASE q \in Removals
    BY <1>5 DEF Removals
  <1> QED BY <1>1, <1>2, <1>3, <1>4, <1>5 DEF Asks

LEMMA PanelTypes ==
  ASSUME BranchTypes
  PROVE  /\ panel.data = NoData \/ (panel.data \in List /\ panel.data # NoData /\ panel.data.item \in Item /\ panel.data.rows \in [Repo -> Row])
         /\ panel.preview = NoPreview \/ (panel.preview \in Preview /\ panel.preview # NoPreview /\ panel.preview.item \in Item /\ panel.preview.repo \in Repo
              /\ panel.preview.base \in Base)
         /\ panel.repos \subseteq Repo \cup {None} /\ panel.repo \in Repo \cup {None} /\ panel.base \in Base \cup {None}
         /\ panel.gen \in Nat
         /\ panel.busy \in BOOLEAN /\ panel.loading \in BOOLEAN /\ panel.reposLoaded \in BOOLEAN /\ panel.reposLoading \in BOOLEAN
  <1>0. None \notin Item
    BY TargetAssumption
  <1>1. /\ panel.data \in List \cup {NoData} /\ panel.preview \in Preview \cup {NoPreview}
        /\ panel.repos \subseteq Repo \cup {None} /\ panel.repo \in Repo \cup {None} /\ panel.base \in Base \cup {None}
        /\ panel.gen \in Nat
    BY DEF BranchTypes, Panels
  <1>2. panel.busy \in BOOLEAN /\ panel.loading \in BOOLEAN /\ panel.reposLoaded \in BOOLEAN /\ panel.reposLoading \in BOOLEAN
    BY DEF BranchTypes, Panels
  <1>3. ASSUME panel.data \in List PROVE panel.data.item \in Item /\ panel.data.rows \in [Repo -> Row] /\ panel.data # NoData
    BY <1>0, <1>3 DEF List, NoData
  <1>4. ASSUME panel.preview \in Preview
        PROVE  panel.preview.item \in Item /\ panel.preview.repo \in Repo /\ panel.preview.base \in Base /\ panel.preview # NoPreview
    BY <1>0, <1>4 DEF Preview, NoPreview
  <1> QED BY <1>1, <1>2, <1>3, <1>4

LEMMA CreatedTypes ==
  ASSUME BranchTypes, NEW q \in Creations, Created(q)
  PROVE  rows' \in [Item -> [Repo -> Row]]
  <1>1. q.item \in Item /\ q.repo \in Repo /\ q.base \in Base
    BY DEF Creations
  <1>2. CASE rows[q.item][q.repo].active
    BY <1>2 DEF Created, BranchTypes
  <1>3. CASE ~rows[q.item][q.repo].active
    <2> DEFINE R == [n |-> rows[q.item][q.repo].n + 1, active |-> TRUE, base |-> q.base]
    <2>1. rows[q.item][q.repo] \in Row /\ MaxRows \in Nat
      BY <1>1, BranchesAssumption DEF BranchTypes
    <2>2. R \in Row
      BY <1>1, <1>3, <2>1 DEF Created, Row
    <2>3. rows' = [rows EXCEPT ![q.item][q.repo] = R]
      BY <1>3 DEF Created
    <2> HIDE DEF R
    <2> QED BY <1>1, <2>2, <2>3 DEF BranchTypes
  <1> QED BY <1>2, <1>3

LEMMA RemovedTypes ==
  ASSUME BranchTypes, NEW q \in Removals
  PROVE  [rows EXCEPT ![q.item][q.repo].active = FALSE] \in [Item -> [Repo -> Row]]
  <1>1. q.item \in Item /\ q.repo \in Repo
    BY DEF Removals
  <1> DEFINE R == [rows[q.item][q.repo] EXCEPT !.active = FALSE]
  <1>2. R \in Row
    <2>1. rows[q.item][q.repo] \in Row
      BY <1>1 DEF BranchTypes
    <2> QED BY <2>1 DEF Row
  <1>3. [rows EXCEPT ![q.item][q.repo].active = FALSE] = [rows EXCEPT ![q.item][q.repo] = R]
    BY <1>1 DEF BranchTypes
  <1> HIDE DEF R
  <1> QED BY <1>1, <1>2, <1>3 DEF BranchTypes

LEMMA AsksMade ==
  ASSUME BranchTypes
  PROVE  /\ \A i \in Item, g \in Nat, b \in BOOLEAN : LoadAsk(i, g, b) \in Asks
         /\ \A q \in asks : q \in Asks
  BY DEF LoadAsk, Asks, Loads, BranchTypes

LEMMA BranchTypesKept ==
  ASSUME BranchTypes, [Next]_vars
  PROVE  BranchTypes'
  <1>0. /\ None \notin Item /\ ReposOf \in [Item -> SUBSET Repo] /\ RepoBase \in [Repo -> Base] /\ ProjectBase \in Base
        /\ None \notin Repo
    BY TargetAssumption, BranchesAssumption
  <1>1. CASE \E i \in Item \cup {None} : BranchesTurn(i)
    <2>1. PICK i \in Item \cup {None} : BranchesTurn(i)
      BY <1>1
    <2>2. shown' = i /\ rows' = rows /\ unsure' = unsure /\ strayed' \in BOOLEAN /\ beside' \in BOOLEAN
      BY <2>1 DEF BranchesTurn, Turn, BranchTypes
    <2>3. asks' \subseteq Asks
      <3>1. i # None => LoadAsk(i, panel.gen + 1 + 1, FALSE) \in Asks
        <4>1. panel.gen + 1 + 1 \in Nat
          BY PanelTypes
        <4> QED BY <4>1, AsksMade
      <3>2. \A q \in asks' : q \in asks \/ (i # None /\ q = LoadAsk(i, panel.gen + 1 + 1, FALSE))
        BY <2>1 DEF BranchesTurn
      <3> QED BY <3>1, <3>2, AsksMade
    <2>4. panel' \in Panels
      <3>1. /\ panel.gen \in Nat /\ panel.gen + 1 \in Nat /\ panel.gen + 1 + 1 \in Nat
            /\ (i # None \/ panel.loading) \in BOOLEAN /\ panel.reposLoading \in BOOLEAN
        BY PanelTypes
      <3> QED BY <2>1, <3>1 DEF BranchesTurn, Fresh, Panels, NotLoaded
    <2> QED BY <2>2, <2>3, <2>4 DEF BranchTypes
  <1>2. CASE BranchesUser
    <2>0. PICK i : i = shown /\ rows' = rows /\ shown' = i /\ unsure' = unsure /\ strayed' = strayed /\ beside' = beside
      BY <1>2 DEF BranchesUser, LoadRepositories, AskPreview, CancelPreview, CreateBranch, ChooseRepository,
        AskRemoval, TypeBase
    <2>1. CASE LoadRepositories
      <3>1. panel' \in Panels
        BY <2>1 DEF LoadRepositories, Panels, BranchTypes
      <3>2. [kind |-> "repos", item |-> panel.data.item] \in Asks
        BY <2>1, PanelTypes DEF LoadRepositories, Shows, Asks, Discoveries
      <3> QED BY <2>0, <2>1, <3>1, <3>2 DEF LoadRepositories, BranchTypes
    <2>2. CASE AskPreview
      <3>1. panel' \in Panels
        BY <2>2 DEF AskPreview, Panels, BranchTypes
      <3>2. [kind |-> "preview", item |-> shown, repo |-> panel.repo, base |-> panel.base] \in Asks
        BY <2>2, PanelTypes DEF AskPreview, CreateForm, Shows, Asks, Previews, BranchTypes
      <3> QED BY <2>0, <2>2, <3>1, <3>2 DEF AskPreview, BranchTypes
    <2>3. CASE CancelPreview
      BY <2>0, <2>3 DEF CancelPreview, Panels, BranchTypes
    <2>4. CASE CreateBranch
      <3>1. panel' \in Panels
        BY <2>4 DEF CreateBranch, Panels, BranchTypes
      <3>2. [kind |-> "create", item |-> shown, repo |-> panel.repo, base |-> BaseToSend, confirmed |-> panel.preview] \in Asks
        BY <2>4, PanelTypes DEF CreateBranch, CreateForm, Shows, Asks, Creations, BranchTypes, BaseToSend
      <3> QED BY <2>0, <2>4, <3>1, <3>2 DEF CreateBranch, BranchTypes
    <2>5. CASE \E r \in Repo : ChooseRepository(r)
      <3>1. PICK r \in Repo : ChooseRepository(r)
        BY <2>5
      <3>2. panel' = [panel EXCEPT !.repo = r, !.base = RepoBase[r], !.preview = NoPreview] /\ RepoBase[r] \in Base
        BY <1>0, <3>1 DEF ChooseRepository
      <3>3. panel' \in Panels
        BY <3>2 DEF Panels, BranchTypes
      <3> QED BY <2>0, <3>1, <3>3 DEF ChooseRepository, BranchTypes
    <2>6. CASE \E r \in Repo : AskRemoval(r)
      <3>1. PICK r \in Repo : AskRemoval(r)
        BY <2>6
      <3>2. [kind |-> "confirm", item |-> panel.data.item, repo |-> r, n |-> panel.data.rows[r].n] \in Asks
        <4>1. panel.data.item \in Item /\ panel.data.rows \in [Repo -> Row]
          BY <3>1, PanelTypes DEF AskRemoval, Shows
        <4>2. panel.data.rows[r] \in Row
          BY <4>1
        <4> QED BY <4>1, <4>2 DEF Row, Asks, Removals
      <3> QED BY <2>0, <3>1, <3>2 DEF AskRemoval, BranchTypes
    <2>7. CASE \E b \in Base \cup {None} : TypeBase(b)
      BY <2>0, <2>7 DEF TypeBase, Panels, BranchTypes
    <2> QED BY <1>2, <2>1, <2>2, <2>3, <2>4, <2>5, <2>6, <2>7 DEF BranchesUser
  <1>5. CASE \E q \in asks : ConfirmRemoval(q) \/ CancelRemoval(q)
    <2>1. PICK q \in asks : ConfirmRemoval(q) \/ CancelRemoval(q)
      BY <1>5
    <2>2. q \in Removals
      BY <2>1, AskTypes DEF ConfirmRemoval, CancelRemoval, BranchTypes
    <2>3. [q EXCEPT !.kind = "remove"] \in Asks
      BY <2>2 DEF Removals, Asks
    <2>4. panel' \in Panels
      BY <2>1 DEF ConfirmRemoval, CancelRemoval, Panels, BranchTypes
    <2>5. beside' \in BOOLEAN
      BY <2>1 DEF ConfirmRemoval, CancelRemoval, BranchTypes
    <2>6. UNCHANGED <<shown, strayed, unsure, rows>> /\ asks' \subseteq asks \cup {[q EXCEPT !.kind = "remove"]}
      BY <2>1 DEF ConfirmRemoval, CancelRemoval
    <2> QED BY <2>3, <2>4, <2>5, <2>6 DEF BranchTypes
  <1>3. CASE BranchesAnswers /\ ~\E q \in asks : ConfirmRemoval(q) \/ CancelRemoval(q)
    <2>1. PICK q \in asks :
              \/ ListAnswer(q) \/ ListFails(q)
              \/ RepositoriesAnswer(q) \/ RepositoriesFail(q)
              \/ PreviewAnswer(q) \/ PreviewFails(q)
              \/ CreateDone(q) \/ RemoveDone(q) \/ OperationFails(q)
      BY <1>3 DEF BranchesAnswers
    <2>2. shown' = shown /\ strayed' = strayed /\ beside' = beside /\ unsure' \in BOOLEAN
      BY <2>1 DEF ListAnswer, ListFails, RepositoriesAnswer, RepositoriesFail, PreviewAnswer, PreviewFails, CreateDone,
         RemoveDone, OperationFails, BranchTypes
    <2>3. asks' \subseteq Asks
      <3>1. q.item \in Item /\ panel.gen + 1 \in Nat
        BY AskTypes, PanelTypes DEF BranchTypes
      <3>2. LoadAsk(q.item, panel.gen + 1, TRUE) \in Asks
        BY <3>1, AsksMade
      <3> QED BY <2>1, <3>2 DEF ListAnswer, ListFails, RepositoriesAnswer, RepositoriesFail, PreviewAnswer, PreviewFails, CreateDone,
         RemoveDone, OperationFails, BranchTypes
    <2>4. rows' \in [Item -> [Repo -> Row]]
      <3>1. CASE ListAnswer(q) \/ ListFails(q) \/ RepositoriesAnswer(q) \/ RepositoriesFail(q) \/ PreviewAnswer(q) \/ PreviewFails(q)
        BY <3>1 DEF ListAnswer, ListFails, RepositoriesAnswer, RepositoriesFail, PreviewAnswer, PreviewFails, BranchTypes
      <3>2. q.kind = "create" => q \in Creations
        BY AskTypes DEF BranchTypes
      <3>3. q.kind = "remove" => q \in Removals
        BY AskTypes DEF BranchTypes
      <3>4. CASE CreateDone(q)
        BY <3>2, <3>4, CreatedTypes DEF CreateDone
      <3>5. CASE RemoveDone(q)
        BY <3>3, <3>5, RemovedTypes DEF RemoveDone
      <3>6. CASE OperationFails(q)
        BY <3>2, <3>3, <3>6, CreatedTypes, RemovedTypes DEF OperationFails, BranchTypes
      <3> QED BY <2>1, <3>1, <3>4, <3>5, <3>6
    <2>5. panel' \in Panels
      <3>1. CASE ListAnswer(q) \/ ListFails(q)
        <4>1. q.item \in Item /\ Released(q) \in BOOLEAN
          BY AskTypes, PanelTypes DEF Released, BranchTypes
        <4>2. [item |-> q.item, rows |-> rows[q.item]] \in List
          BY <4>1 DEF List, BranchTypes
        <4>3. PICK b \in BOOLEAN, d \in List \cup {NoData} :
                 panel' = [panel EXCEPT !.busy = b] \/ panel' = [panel EXCEPT !.busy = b, !.loading = FALSE, !.data = d]
          BY <3>1, <4>1, <4>2 DEF ListAnswer, ListFails
        <4> QED BY <4>3 DEF Panels, BranchTypes
      <3>2. CASE RepositoriesAnswer(q)
        <4>1. q.item \in Item
          BY AskTypes DEF BranchTypes
        <4>2. PICK r \in IF ReposOf[q.item] = {} THEN {None} ELSE ReposOf[q.item] :
                 panel' = [panel EXCEPT !.repos = ReposOf[q.item], !.repo = IF r = None THEN @ ELSE r,
                                        !.base = IF r = None THEN @ ELSE RepoBase[r], !.reposLoading = FALSE]
          BY <3>2 DEF RepositoriesAnswer
        <4>3. ReposOf[q.item] \in SUBSET (Repo \cup {None}) /\ (r = None \/ (r \in Repo /\ RepoBase[r] \in Base))
          BY <1>0, <4>1, <4>2
        <4> QED BY <4>2, <4>3 DEF Panels, BranchTypes
      <3>3. CASE RepositoriesFail(q) \/ PreviewFails(q) \/ OperationFails(q)
        BY <3>3 DEF RepositoriesFail, PreviewFails, OperationFails, Panels, BranchTypes
      <3>4. CASE PreviewAnswer(q)
        <4>1. [item |-> q.item, repo |-> q.repo, base |-> IF q.base = None THEN ProjectBase ELSE q.base] \in Preview
          BY <1>0, <3>4, AskTypes DEF PreviewAnswer, Preview, BranchTypes
        <4> QED BY <3>4, <4>1 DEF PreviewAnswer, Panels, BranchTypes
      <3>5. CASE CreateDone(q) \/ RemoveDone(q)
        <4>1. PICK p \in Preview \cup {NoPreview}, g \in Nat : panel' = [panel EXCEPT !.preview = p, !.gen = g, !.loading = TRUE]
          <5>1. panel.preview \in Preview \cup {NoPreview} /\ panel.gen + 1 \in Nat
            BY PanelTypes
          <5>2. CASE CreateDone(q)
            BY <5>1, <5>2 DEF CreateDone
          <5>3. CASE RemoveDone(q)
            BY <5>1, <5>3 DEF RemoveDone, BranchTypes, Panels
          <5> QED BY <3>5, <5>2, <5>3
        <4> QED BY <4>1 DEF Panels, BranchTypes
      <3> QED BY <2>1, <3>1, <3>2, <3>3, <3>4, <3>5
    <2> QED BY <2>2, <2>3, <2>4, <2>5 DEF BranchTypes
  <1>4. CASE UNCHANGED <<shown, branches>>
    BY <1>4 DEF branches, BranchTypes
  <1> QED BY <1>1, <1>2, <1>3, <1>4, <1>5, BranchesSteps

(* What a step does to the generation, the list and the flags: the turns,  *)
(* the loads and what is awaited.                                          *)
Awaited(q) == q.kind \in {"preview", "create", "remove"} \/ (q.kind = "load" /\ q.then)

Quiet == \* everything but a turn, an answer to a load, and an operation that went through
    \/ LoadRepositories \/ AskPreview \/ CancelPreview \/ CreateBranch
    \/ \E r \in Repo : ChooseRepository(r) \/ AskRemoval(r)
    \/ \E b \in Base \cup {None} : TypeBase(b)
    \/ \E q \in asks : ConfirmRemoval(q) \/ CancelRemoval(q)
    \/ \E q \in asks : RepositoriesAnswer(q) \/ RepositoriesFail(q) \/ PreviewAnswer(q) \/ PreviewFails(q) \/ OperationFails(q)
    \/ UNCHANGED <<shown, branches>>

LEMMA BranchCases ==
  ASSUME [Next]_vars
  PROVE  \/ \E i \in Item \cup {None} : BranchesTurn(i)
         \/ \E q \in asks : ListAnswer(q) \/ ListFails(q)
         \/ \E q \in asks : CreateDone(q) \/ RemoveDone(q)
         \/ Quiet
  BY BranchesSteps DEF BranchesUser, BranchesAnswers, Quiet

LEMMA DiscoveryLeaves ==
  ASSUME BranchTypes, NEW q \in asks, RepositoriesAnswer(q)
  PROVE  /\ panel'.gen = panel.gen /\ panel'.data = panel.data /\ panel'.preview = panel.preview
         /\ panel'.repos = ReposOf[q.item]
         /\ panel'.loading = panel.loading
         /\ panel'.busy = panel.busy
  <1>1. PICK r, b : panel' = [panel EXCEPT !.repos = ReposOf[q.item], !.repo = r, !.base = b, !.reposLoading = FALSE]
    BY DEF RepositoriesAnswer
  <1>2. /\ panel'.gen = panel.gen /\ panel'.data = panel.data /\ panel'.preview = panel.preview
        /\ panel'.repos = ReposOf[q.item]
    BY <1>1 DEF BranchTypes, Panels
  <1>3. panel'.loading = panel.loading
    BY <1>1 DEF BranchTypes, Panels
  <1>4. panel'.busy = panel.busy
    BY <1>1 DEF BranchTypes, Panels
  <1> QED BY <1>2, <1>3, <1>4

LEMMA QuietLeaves ==
  ASSUME BranchTypes, Quiet
  PROVE  /\ shown' = shown /\ strayed' = strayed /\ panel'.gen = panel.gen /\ panel'.data = panel.data
         /\ ~beside' => ~beside
         /\ panel'.loading = panel.loading
         /\ ~unsure' => ~unsure /\ rows' = rows
         /\ \A p \in asks' : p.kind = "load" => p \in asks
  <1>1. shown' = shown /\ strayed' = strayed /\ (~beside' => ~beside)
    <2>1. CASE \E q \in asks : ConfirmRemoval(q)
      BY <2>1 DEF ConfirmRemoval, BranchTypes
    <2>2. ASSUME ~\E q \in asks : ConfirmRemoval(q) PROVE UNCHANGED <<shown, strayed, beside>>
      BY <2>2 DEF Quiet, LoadRepositories, AskPreview, CancelPreview, CreateBranch, ChooseRepository, AskRemoval, TypeBase,
         CancelRemoval, RepositoriesAnswer, RepositoriesFail, PreviewAnswer, PreviewFails, OperationFails, branches
    <2> QED BY <2>1, <2>2
  <1>2. ~unsure' => ~unsure /\ rows' = rows
    BY DEF Quiet, LoadRepositories, AskPreview, CancelPreview, CreateBranch, ChooseRepository, AskRemoval, TypeBase,
       ConfirmRemoval, CancelRemoval, RepositoriesAnswer, RepositoriesFail, PreviewAnswer, PreviewFails, OperationFails, branches
  <1>3. panel'.gen = panel.gen /\ panel'.data = panel.data
    <2>1. CASE LoadRepositories \/ AskPreview \/ CancelPreview \/ CreateBranch
      BY <2>1 DEF LoadRepositories, AskPreview, CancelPreview, CreateBranch, BranchTypes, Panels
    <2>2. CASE \E r \in Repo : ChooseRepository(r) \/ AskRemoval(r)
      BY <2>2 DEF ChooseRepository, AskRemoval, BranchTypes, Panels
    <2>3. CASE (\E b \in Base \cup {None} : TypeBase(b)) \/ UNCHANGED <<shown, branches>>
      BY <2>3 DEF TypeBase, branches, BranchTypes, Panels
    <2>4. CASE \E q \in asks : ConfirmRemoval(q) \/ CancelRemoval(q)
      BY <2>4 DEF ConfirmRemoval, CancelRemoval, BranchTypes, Panels
    <2>5. CASE \E q \in asks : RepositoriesAnswer(q) \/ RepositoriesFail(q)
      BY <2>5, DiscoveryLeaves DEF RepositoriesFail, BranchTypes, Panels
    <2>6. CASE \E q \in asks : PreviewAnswer(q) \/ PreviewFails(q) \/ OperationFails(q)
      BY <2>6 DEF PreviewAnswer, PreviewFails, OperationFails, BranchTypes, Panels
    <2> QED BY <2>1, <2>2, <2>3, <2>4, <2>5, <2>6 DEF Quiet
  <1>4. panel'.loading = panel.loading
    <2>1. CASE LoadRepositories \/ AskPreview \/ CancelPreview \/ CreateBranch
      BY <2>1 DEF LoadRepositories, AskPreview, CancelPreview, CreateBranch, BranchTypes, Panels
    <2>2. CASE \E r \in Repo : ChooseRepository(r) \/ AskRemoval(r)
      BY <2>2 DEF ChooseRepository, AskRemoval, BranchTypes, Panels
    <2>3. CASE (\E b \in Base \cup {None} : TypeBase(b)) \/ UNCHANGED <<shown, branches>>
      BY <2>3 DEF TypeBase, branches, BranchTypes, Panels
    <2>4. CASE \E q \in asks : ConfirmRemoval(q) \/ CancelRemoval(q)
      BY <2>4 DEF ConfirmRemoval, CancelRemoval, BranchTypes, Panels
    <2>5. CASE \E q \in asks : RepositoriesAnswer(q) \/ RepositoriesFail(q)
      BY <2>5, DiscoveryLeaves DEF RepositoriesFail, BranchTypes, Panels
    <2>6. CASE \E q \in asks : PreviewAnswer(q) \/ PreviewFails(q) \/ OperationFails(q)
      BY <2>6 DEF PreviewAnswer, PreviewFails, OperationFails, BranchTypes, Panels
    <2> QED BY <2>1, <2>2, <2>3, <2>4, <2>5, <2>6 DEF Quiet
  <1>5. \A p \in asks' : p.kind = "load" => p \in asks
    <2>1. CASE \E q \in asks : ConfirmRemoval(q) \/ CancelRemoval(q)
      <3>1. PICK q \in asks : ConfirmRemoval(q) \/ CancelRemoval(q)
        BY <2>1
      <3>2. q \in Removals
        BY <3>1, AskTypes DEF ConfirmRemoval, CancelRemoval, BranchTypes
      <3>3. [q EXCEPT !.kind = "remove"].kind = "remove"
        BY <3>2 DEF Removals
      <3> QED BY <3>1, <3>3 DEF ConfirmRemoval, CancelRemoval
    <2>2. CASE \E q \in asks : RepositoriesAnswer(q) \/ RepositoriesFail(q) \/ PreviewAnswer(q) \/ PreviewFails(q) \/ OperationFails(q)
      BY <2>2 DEF RepositoriesAnswer, RepositoriesFail, PreviewAnswer, PreviewFails, OperationFails
    <2>3. CASE LoadRepositories \/ AskPreview \/ CancelPreview \/ CreateBranch
      BY <2>3 DEF LoadRepositories, AskPreview, CancelPreview, CreateBranch
    <2>4. CASE \E r \in Repo : AskRemoval(r)
      BY <2>4 DEF AskRemoval
    <2>5. CASE \/ \E r \in Repo : ChooseRepository(r)
               \/ \E b \in Base \cup {None} : TypeBase(b)
               \/ UNCHANGED <<shown, branches>>
      BY <2>5 DEF ChooseRepository, TypeBase, branches
    <2> QED BY <2>1, <2>2, <2>3, <2>4, <2>5 DEF Quiet
  <1> QED BY <1>1, <1>2, <1>3, <1>4, <1>5

LEMMA TurnLeaves ==
  ASSUME BranchTypes, NEW i \in Item \cup {None}, BranchesTurn(i)
  PROVE  /\ shown' = i /\ rows' = rows /\ unsure' = unsure
         /\ panel'.data = NoData /\ panel'.preview = NoPreview /\ panel'.repos = NotLoaded
         /\ panel'.gen = IF i = None THEN panel.gen + 1 ELSE panel.gen + 1 + 1
         /\ \A p \in asks' : p \in asks \/ (i # None /\ p = LoadAsk(i, panel.gen + 1 + 1, FALSE))
         /\ asks \subseteq asks'
         /\ ~strayed' => \A p \in asks : p.kind \notin Operation /\ ~Awaited(p)
  <1>1. /\ shown' = i /\ rows' = rows /\ unsure' = unsure
        /\ \A p \in asks' : p \in asks \/ (i # None /\ p = LoadAsk(i, panel.gen + 1 + 1, FALSE))
        /\ asks \subseteq asks'
    BY DEF BranchesTurn, Turn
  <1>2. panel'.data = NoData /\ panel'.preview = NoPreview /\ panel'.repos = NotLoaded
        /\ panel'.gen = IF i = None THEN panel.gen + 1 ELSE panel.gen + 1 + 1
    BY DEF BranchesTurn, Fresh
  <1>3. ~strayed' => \A p \in asks : p.kind \notin Operation /\ ~Awaited(p)
    BY DEF BranchesTurn, Working, Awaited, Operation
  <1> QED BY <1>1, <1>2, <1>3

LEMMA ListLeaves ==
  ASSUME BranchTypes, NEW q \in asks, ListAnswer(q) \/ ListFails(q)
  PROVE  /\ shown' = shown /\ rows' = rows /\ unsure' = unsure /\ strayed' = strayed /\ beside' = beside /\ asks' = asks \ {q} /\ q.kind = "load"
         /\ panel'.gen = panel.gen /\ panel'.preview = panel.preview /\ panel'.repos = panel.repos /\ panel'.repo = panel.repo
         /\ panel'.busy = Released(q)
         /\ \/ panel'.data = panel.data /\ panel'.loading = panel.loading
            \/ panel'.data = NoData
            \/ q.gen = panel.gen /\ panel'.data = [item |-> q.item, rows |-> rows[q.item]]
  <1>1. shown' = shown /\ rows' = rows /\ unsure' = unsure /\ strayed' = strayed /\ beside' = beside /\ asks' = asks \ {q} /\ q.kind = "load"
    BY DEF ListAnswer, ListFails
  <1>2. panel'.gen = panel.gen /\ panel'.preview = panel.preview /\ panel'.repos = panel.repos /\ panel'.repo = panel.repo
    BY DEF ListAnswer, ListFails, BranchTypes, Panels
  <1>3. panel'.busy = Released(q)
    BY DEF ListAnswer, ListFails, BranchTypes, Panels
  <1>4. CASE q.gen # panel.gen
    <2>1. panel' = [panel EXCEPT !.busy = Released(q)]
      BY <1>4 DEF ListAnswer, ListFails
    <2>2. panel'.data = panel.data
      BY <2>1 DEF BranchTypes, Panels
    <2>3. panel'.loading = panel.loading
      BY <2>1 DEF BranchTypes, Panels
    <2> QED BY <1>1, <1>2, <1>3, <2>2, <2>3
  <1>5. CASE q.gen = panel.gen
    <2>1. panel'.data = NoData \/ panel'.data = [item |-> q.item, rows |-> rows[q.item]]
      BY <1>5 DEF ListAnswer, ListFails, BranchTypes, Panels
    <2> QED BY <1>1, <1>2, <1>3, <1>5, <2>1
  <1> QED BY <1>4, <1>5

LEMMA DoneLeaves ==
  ASSUME BranchTypes, NEW q \in asks, CreateDone(q) \/ RemoveDone(q)
  PROVE  /\ shown' = shown /\ strayed' = strayed /\ beside' = beside /\ q.kind \in {"create", "remove"}
         /\ asks' = (asks \ {q}) \cup {LoadAsk(q.item, panel.gen + 1, TRUE)}
         /\ panel'.gen = panel.gen + 1 /\ panel'.data = panel.data /\ panel'.repos = panel.repos /\ panel'.repo = panel.repo
         /\ panel'.preview \in {panel.preview, NoPreview}
         /\ panel'.loading = TRUE
         /\ panel'.busy = panel.busy
  <1>1. /\ shown' = shown /\ strayed' = strayed /\ beside' = beside /\ q.kind \in {"create", "remove"}
        /\ asks' = (asks \ {q}) \cup {LoadAsk(q.item, panel.gen + 1, TRUE)}
    BY DEF CreateDone, RemoveDone
  <1>2. /\ panel'.gen = panel.gen + 1 /\ panel'.data = panel.data /\ panel'.repos = panel.repos /\ panel'.repo = panel.repo
        /\ panel'.preview \in {panel.preview, NoPreview}
    BY DEF CreateDone, RemoveDone, BranchTypes, Panels
  <1>3. panel'.loading = TRUE
    BY DEF CreateDone, RemoveDone, BranchTypes, Panels
  <1>4. panel'.busy = panel.busy
    BY DEF CreateDone, RemoveDone, BranchTypes, Panels
  <1> QED BY <1>1, <1>2, <1>3, <1>4

(* Loads are numbered as they are asked for.                               *)
GensKnown == \A q \in asks : q.kind = "load" => q.gen <= panel.gen

LEMMA GensKnownKept ==
  ASSUME BranchTypes, GensKnown, [Next]_vars
  PROVE  GensKnown'
  <1>0. panel.gen \in Nat /\ \A q \in asks : q.kind = "load" => q.gen \in Nat
    BY PanelTypes, AskTypes DEF BranchTypes
  <1>1. CASE \E i \in Item \cup {None} : BranchesTurn(i)
    <2>1. PICK i \in Item \cup {None} : BranchesTurn(i)
      BY <1>1
    <2>2. /\ panel'.gen = IF i = None THEN panel.gen + 1 ELSE panel.gen + 1 + 1
          /\ \A p \in asks' : p \in asks \/ (i # None /\ p = LoadAsk(i, panel.gen + 1 + 1, FALSE))
      BY <2>1, TurnLeaves
    <2> QED BY <1>0, <2>2 DEF GensKnown, LoadAsk
  <1>2. CASE \E q \in asks : ListAnswer(q) \/ ListFails(q)
    BY <1>0, <1>2, ListLeaves DEF GensKnown
  <1>3. CASE \E q \in asks : CreateDone(q) \/ RemoveDone(q)
    <2>1. PICK q \in asks : CreateDone(q) \/ RemoveDone(q)
      BY <1>3
    <2>2. asks' = (asks \ {q}) \cup {LoadAsk(q.item, panel.gen + 1, TRUE)} /\ panel'.gen = panel.gen + 1
      BY <2>1, DoneLeaves
    <2> QED BY <1>0, <2>2 DEF GensKnown, LoadAsk
  <1>4. CASE Quiet
    BY <1>0, <1>4, QuietLeaves DEF GensKnown
  <1> QED BY <1>1, <1>2, <1>3, <1>4, BranchCases

(* What is shown and under way is the shown item's, unless the dialog      *)
(* turned to it while an operation on another was under way.               *)
OwnAsks ==
    ~strayed => \A q \in asks : q.kind \in Operation \/ (q.kind = "load" /\ q.gen = panel.gen) => q.item = shown
OwnData == ~strayed /\ panel.data # NoData => panel.data.item = shown

LEMMA OwnKept ==
  ASSUME BranchTypes, GensKnown, OwnAsks, OwnData, [Next]_vars
  PROVE  OwnAsks' /\ OwnData'
  <1>0. panel.gen \in Nat /\ \A q \in asks : q.kind = "load" => q.gen \in Nat
    BY PanelTypes, AskTypes DEF BranchTypes
  <1>1. CASE \E i \in Item \cup {None} : BranchesTurn(i)
    <2>1. PICK i \in Item \cup {None} : BranchesTurn(i)
      BY <1>1
    <2>0. /\ panel'.gen = IF i = None THEN panel.gen + 1 ELSE panel.gen + 1 + 1
          /\ \A p \in asks' : p \in asks \/ (i # None /\ p = LoadAsk(i, panel.gen + 1 + 1, FALSE))
          /\ shown' = i
      BY <2>1, TurnLeaves
    <2>2. \A p \in asks : p.kind = "load" => p.gen # panel'.gen
      BY <1>0, <2>0 DEF GensKnown
    <2>3. \A p \in asks' : p \in asks \/ p.item = shown'
      BY <2>0 DEF LoadAsk
    <2> QED BY <2>1, <2>2, <2>3, TurnLeaves DEF OwnAsks, OwnData
  <1>2. CASE \E q \in asks : ListAnswer(q) \/ ListFails(q)
    <2>1. PICK q \in asks : ListAnswer(q) \/ ListFails(q)
      BY <1>2
    <2>2. shown' = shown /\ strayed' = strayed /\ asks' = asks \ {q} /\ q.kind = "load" /\ panel'.gen = panel.gen
      BY <2>1, ListLeaves
    <2>3. \/ panel'.data = panel.data \/ panel'.data = NoData
          \/ q.gen = panel.gen /\ panel'.data = [item |-> q.item, rows |-> rows[q.item]]
      BY <2>1, ListLeaves
    <2> QED BY <2>2, <2>3 DEF OwnAsks, OwnData
  <1>3. CASE \E q \in asks : CreateDone(q) \/ RemoveDone(q)
    <2>1. PICK q \in asks : CreateDone(q) \/ RemoveDone(q)
      BY <1>3
    <2>2. /\ shown' = shown /\ strayed' = strayed /\ q.kind \in {"create", "remove"}
          /\ asks' = (asks \ {q}) \cup {LoadAsk(q.item, panel.gen + 1, TRUE)}
          /\ panel'.gen = panel.gen + 1 /\ panel'.data = panel.data
      BY <2>1, DoneLeaves
    <2>3. ~strayed => q.item = shown
      BY <2>2 DEF OwnAsks, Operation
    <2>4. \A p \in asks : p.kind = "load" => p.gen # panel'.gen
      BY <1>0, <2>2 DEF GensKnown
    <2>5. \A p \in asks' : p \in asks \/ (p.item = q.item)
      BY <2>2 DEF LoadAsk
    <2> QED BY <2>2, <2>3, <2>4, <2>5 DEF OwnAsks, OwnData
  <1>4. CASE Quiet
    <2>1. shown' = shown /\ strayed' = strayed /\ panel'.gen = panel.gen /\ panel'.data = panel.data
      BY <1>4, QuietLeaves
    <2>2. ~strayed => \A p \in asks' : p.kind # "load" => p.item = shown
      <3>1. SUFFICES ASSUME ~strayed, NEW p \in asks', p.kind # "load" PROVE p.item = shown
        OBVIOUS
      <3>2. \A a \in asks : a.kind # "load" => a.item = shown
        BY <3>1, AskTypes DEF OwnAsks, Operation, BranchTypes
      <3>3. CASE p \in asks
        BY <3>1, <3>2, <3>3
      <3>4. CASE p \notin asks
        <4>1. CASE \E q \in asks : ConfirmRemoval(q)
          <5>1. PICK q \in asks : ConfirmRemoval(q)
            BY <4>1
          <5>2. q \in Removals /\ p = [q EXCEPT !.kind = "remove"]
            BY <3>1, <3>4, <5>1, AskTypes DEF ConfirmRemoval, BranchTypes
          <5>3. p.item = q.item
            BY <5>2 DEF Removals
          <5>4. q.kind # "load"
            BY <5>1 DEF ConfirmRemoval
          <5> QED BY <3>2, <5>3, <5>4
        <4>2. CASE LoadRepositories \/ \E r \in Repo : AskRemoval(r)
          <5>1. p.item = panel.data.item /\ panel.data # NoData
            BY <3>4, <4>2 DEF LoadRepositories, AskRemoval, Shows
          <5> QED BY <3>1, <5>1 DEF OwnData
        <4>3. CASE AskPreview \/ CreateBranch
          BY <3>4, <4>3 DEF AskPreview, CreateBranch
        <4>4. CASE \/ CancelPreview \/ \E r \in Repo : ChooseRepository(r)
                   \/ \E b \in Base \cup {None} : TypeBase(b)
                   \/ \E q \in asks : CancelRemoval(q)
                   \/ \E q \in asks : RepositoriesAnswer(q) \/ RepositoriesFail(q) \/ PreviewAnswer(q) \/ PreviewFails(q) \/ OperationFails(q)
                   \/ UNCHANGED <<shown, branches>>
          BY <3>4, <4>4 DEF CancelPreview, ChooseRepository, TypeBase, CancelRemoval, RepositoriesAnswer, RepositoriesFail,
             PreviewAnswer, PreviewFails, OperationFails, branches
        <4> QED BY <1>4, <4>1, <4>2, <4>3, <4>4 DEF Quiet
      <3> QED BY <3>3, <3>4
    <2>3. \A p \in asks' : p.kind = "load" => p \in asks
      BY <1>4, QuietLeaves
    <2> QED BY <2>1, <2>2, <2>3 DEF OwnAsks, OwnData, Operation
  <1> QED BY <1>1, <1>2, <1>3, <1>4, BranchCases

(* At most one thing keeps the section busy, unless a removal was started  *)
(* beside another operation.                                               *)
OneAwaited ==
    ~strayed /\ ~beside => \A q \in asks : Awaited(q) => panel.busy /\ \A p \in asks : Awaited(p) => p = q

LEMMA OneAwaitedKept ==
  ASSUME BranchTypes, OneAwaited, [Next]_vars
  PROVE  OneAwaited'
  <1>1. CASE \E i \in Item \cup {None} : BranchesTurn(i)
    <2>1. PICK i \in Item \cup {None} : BranchesTurn(i)
      BY <1>1
    <2>2. ~strayed' => \A p \in asks : ~Awaited(p)
      BY <2>1, TurnLeaves
    <2>3. \A p \in asks' : p \in asks \/ p = LoadAsk(i, panel.gen + 1 + 1, FALSE)
      BY <2>1, TurnLeaves
    <2>4. ~Awaited(LoadAsk(i, panel.gen + 1 + 1, FALSE))
      BY DEF Awaited, LoadAsk
    <2> QED BY <2>2, <2>3, <2>4 DEF OneAwaited
  <1>2. CASE \E q \in asks : ListAnswer(q) \/ ListFails(q)
    <2>1. PICK q \in asks : ListAnswer(q) \/ ListFails(q)
      BY <1>2
    <2>2. strayed' = strayed /\ beside' = beside /\ asks' = asks \ {q} /\ q.kind = "load"
      BY <2>1, ListLeaves
    <2>3. panel'.busy = Released(q)
      BY <2>1, ListLeaves
    <2>4. CASE q.then
      BY <2>2, <2>4 DEF OneAwaited, Awaited
    <2>5. CASE ~q.then
      BY <2>2, <2>3, <2>5 DEF OneAwaited, Released
    <2> QED BY <2>4, <2>5
  <1>3. CASE \E q \in asks : CreateDone(q) \/ RemoveDone(q)
    <2>1. PICK q \in asks : CreateDone(q) \/ RemoveDone(q)
      BY <1>3
    <2>2. strayed' = strayed /\ beside' = beside /\ asks' = (asks \ {q}) \cup {LoadAsk(q.item, panel.gen + 1, TRUE)} /\ Awaited(q)
      BY <2>1, DoneLeaves DEF Awaited
    <2>3. panel'.busy = panel.busy
      BY <2>1, DoneLeaves
    <2> QED BY <2>2, <2>3 DEF OneAwaited
  <1>4. CASE Quiet
    <2>0. strayed' = strayed /\ (~beside' => ~beside)
      BY <1>4, QuietLeaves
    <2>1. CASE AskPreview \/ CreateBranch
      <3>1. PICK a : asks' = asks \cup {a} /\ panel' = [panel EXCEPT !.busy = TRUE] /\ ~panel.busy
        BY <2>1 DEF AskPreview, CreateBranch, CreateForm
      <3>2. panel'.busy = TRUE
        BY <3>1 DEF BranchTypes, Panels
      <3> QED BY <2>0, <3>1, <3>2 DEF OneAwaited
    <2>2. CASE LoadRepositories \/ \E r \in Repo : AskRemoval(r)
      <3>1. panel'.busy = panel.busy
        BY <2>2 DEF LoadRepositories, AskRemoval, BranchTypes, Panels
      <3>2. \A a \in asks' : a \in asks \/ ~Awaited(a)
        BY <2>2 DEF LoadRepositories, AskRemoval, Awaited
      <3> QED BY <2>0, <3>1, <3>2 DEF OneAwaited
    <2>3. CASE \/ CancelPreview \/ \E r \in Repo : ChooseRepository(r)
               \/ \E b \in Base \cup {None} : TypeBase(b)
               \/ UNCHANGED <<shown, branches>>
      <3>1. panel'.busy = panel.busy
        <4>1. CASE CancelPreview \/ UNCHANGED <<shown, branches>>
          BY <4>1 DEF CancelPreview, branches, BranchTypes, Panels
        <4>2. CASE \E r \in Repo : ChooseRepository(r)
          BY <4>2 DEF ChooseRepository, BranchTypes, Panels
        <4>3. CASE \E b \in Base \cup {None} : TypeBase(b)
          BY <4>3 DEF TypeBase, BranchTypes, Panels
        <4> QED BY <2>3, <4>1, <4>2, <4>3
      <3>2. asks' = asks
        BY <2>3 DEF CancelPreview, ChooseRepository, TypeBase, branches
      <3> QED BY <2>0, <3>1, <3>2 DEF OneAwaited
    <2>4. CASE \E q \in asks : ConfirmRemoval(q) \/ CancelRemoval(q)
      <3>1. PICK q \in asks : ConfirmRemoval(q) \/ CancelRemoval(q)
        BY <2>4
      <3>2. CASE CancelRemoval(q)
        BY <2>0, <3>2 DEF CancelRemoval, OneAwaited
      <3>3. CASE ConfirmRemoval(q)
        <4>1. /\ panel' = [panel EXCEPT !.busy = TRUE] /\ asks' = (asks \ {q}) \cup {[q EXCEPT !.kind = "remove"]}
              /\ ~beside' => ~panel.busy
          BY <3>3 DEF ConfirmRemoval
        <4>2. panel'.busy = TRUE
          BY <4>1 DEF BranchTypes, Panels
        <4> QED BY <2>0, <4>1, <4>2 DEF OneAwaited
      <3> QED BY <3>1, <3>2, <3>3
    <2>5. CASE \E q \in asks : RepositoriesAnswer(q) \/ RepositoriesFail(q)
      <3>1. panel'.busy = panel.busy
        BY <2>5, DiscoveryLeaves DEF RepositoriesFail, BranchTypes, Panels
      <3>2. asks' \subseteq asks
        BY <2>5 DEF RepositoriesAnswer, RepositoriesFail
      <3> QED BY <2>0, <3>1, <3>2 DEF OneAwaited
    <2>6. CASE \E q \in asks : PreviewAnswer(q) \/ PreviewFails(q) \/ OperationFails(q)
      <3>1. PICK q \in asks : Awaited(q) /\ asks' = asks \ {q}
        BY <2>6 DEF PreviewAnswer, PreviewFails, OperationFails, Awaited
      <3> QED BY <2>0, <3>1 DEF OneAwaited
    <2> QED BY <1>4, <2>1, <2>2, <2>3, <2>4, <2>5, <2>6 DEF Quiet
  <1> QED BY <1>1, <1>2, <1>3, <1>4, BranchCases

(* The preview is of the item and the repository there are, and neither it *)
(* nor a request for it is there before the repositories are.              *)
Previewed ==
    ~strayed /\ ~beside =>
       /\ panel.preview # NoPreview => panel.preview.item = shown /\ panel.preview.repo = panel.repo
       /\ \A q \in asks : q.kind = "preview" => q.repo = panel.repo
       /\ panel.repos = NotLoaded => panel.preview = NoPreview /\ \A q \in asks : q.kind # "preview"
       /\ \A q \in asks : q.kind = "repos" => panel.repos = NotLoaded

LEMMA PreviewedKept ==
  ASSUME BranchTypes, OwnAsks, OneAwaited, Previewed, [Next]_vars
  PROVE  Previewed'
  <1>1. CASE \E i \in Item \cup {None} : BranchesTurn(i)
    <2>1. PICK i \in Item \cup {None} : BranchesTurn(i)
      BY <1>1
    <2>2. /\ panel'.preview = NoPreview /\ panel'.repos = NotLoaded
          /\ \A p \in asks' : p \in asks \/ p = LoadAsk(i, panel.gen + 1 + 1, FALSE)
          /\ ~strayed' => \A p \in asks : p.kind \notin Operation
      BY <2>1, TurnLeaves
    <2>3. ~strayed' => \A p \in asks' : p.kind \notin Operation
      BY <2>2 DEF LoadAsk, Operation
    <2> QED BY <2>2, <2>3 DEF Previewed, Operation
  <1>2. CASE \E q \in asks : ListAnswer(q) \/ ListFails(q)
    <2>1. PICK q \in asks : ListAnswer(q) \/ ListFails(q)
      BY <1>2
    <2>2. /\ shown' = shown /\ strayed' = strayed /\ beside' = beside /\ asks' = asks \ {q}
          /\ panel'.preview = panel.preview /\ panel'.repos = panel.repos /\ panel'.repo = panel.repo
      BY <2>1, ListLeaves
    <2> QED BY <2>2 DEF Previewed
  <1>3. CASE \E q \in asks : CreateDone(q) \/ RemoveDone(q)
    <2>1. PICK q \in asks : CreateDone(q) \/ RemoveDone(q)
      BY <1>3
    <2>2. /\ shown' = shown /\ strayed' = strayed /\ beside' = beside /\ asks' = (asks \ {q}) \cup {LoadAsk(q.item, panel.gen + 1, TRUE)}
          /\ panel'.repos = panel.repos /\ panel'.repo = panel.repo /\ panel'.preview \in {panel.preview, NoPreview}
      BY <2>1, DoneLeaves
    <2>3. \A p \in asks' : p \in asks \/ p.kind = "load"
      BY <2>2 DEF LoadAsk
    <2> QED BY <2>2, <2>3 DEF Previewed
  <1>4. CASE Quiet
    <2>0. strayed' = strayed /\ shown' = shown /\ (~beside' => ~beside)
      BY <1>4, QuietLeaves
    <2>1. CASE AskPreview \/ CreateBranch \/ LoadRepositories \/ \E r \in Repo : AskRemoval(r)
      <3>1. panel'.repos = panel.repos /\ panel'.repo = panel.repo /\ panel'.preview = panel.preview
        BY <2>1 DEF AskPreview, CreateBranch, LoadRepositories, AskRemoval, BranchTypes, Panels
      <3>2. \A a \in asks' : a \in asks \/ (a.kind \in {"create", "confirm"})
                                        \/ (a.kind = "repos" /\ panel.repos = NotLoaded)
                                        \/ (a.kind = "preview" /\ a.repo = panel.repo /\ panel.repos # NotLoaded)
        BY <2>1 DEF AskPreview, CreateBranch, LoadRepositories, AskRemoval, CreateForm
      <3> QED BY <2>0, <3>1, <3>2 DEF Previewed
    <2>2. CASE UNCHANGED <<shown, branches>>
      BY <2>2 DEF branches, Previewed
    <2>3. CASE CancelPreview \/ \E b \in Base \cup {None} : TypeBase(b)
      <3>1. panel'.repos = panel.repos /\ panel'.repo = panel.repo /\ panel'.preview = NoPreview /\ asks' = asks
        BY <2>3 DEF CancelPreview, TypeBase, BranchTypes, Panels
      <3> QED BY <2>0, <3>1 DEF Previewed
    <2>4. CASE \E r \in Repo : ChooseRepository(r)
      <3>1. PICK r \in Repo : ChooseRepository(r)
        BY <2>4
      <3>2. panel'.repos = panel.repos /\ panel'.preview = NoPreview /\ asks' = asks /\ ~panel.busy
        BY <3>1 DEF ChooseRepository, BranchTypes, Panels
      <3>3. ~strayed /\ ~beside => \A q \in asks : q.kind # "preview"
        BY <3>2 DEF OneAwaited, Awaited
      <3> QED BY <2>0, <3>2, <3>3 DEF Previewed
    <2>5. CASE \E q \in asks : ConfirmRemoval(q) \/ CancelRemoval(q)
      <3>1. PICK q \in asks : ConfirmRemoval(q) \/ CancelRemoval(q)
        BY <2>5
      <3>2. panel'.repos = panel.repos /\ panel'.repo = panel.repo /\ panel'.preview = panel.preview
        BY <3>1 DEF ConfirmRemoval, CancelRemoval, BranchTypes, Panels
      <3>3. q \in Removals
        BY <3>1, AskTypes DEF ConfirmRemoval, CancelRemoval, BranchTypes
      <3>4. [q EXCEPT !.kind = "remove"].kind = "remove"
        BY <3>3 DEF Removals
      <3>5. \A p \in asks' : p \in asks \/ p.kind = "remove"
        BY <3>1, <3>4 DEF ConfirmRemoval, CancelRemoval
      <3> QED BY <2>0, <3>2, <3>5 DEF Previewed
    <2>6. CASE \E q \in asks : RepositoriesAnswer(q)
      <3>1. PICK q \in asks : RepositoriesAnswer(q)
        BY <2>6
      <3>2. /\ panel'.preview = panel.preview /\ panel'.repos = ReposOf[q.item]
        BY <3>1, DiscoveryLeaves
      <3>3. q \in Discoveries /\ asks' = asks \ {q} /\ q.kind = "repos"
        BY <3>1, AskTypes DEF RepositoriesAnswer, BranchTypes
      <3>4. ReposOf[q.item] # NotLoaded
        BY <3>3, BranchesAssumption DEF Discoveries, NotLoaded
      <3>5. ASSUME ~strayed, NEW p \in asks, p.kind = "repos" PROVE p = q
        <4>1. p \in Discoveries
          BY <3>5, AskTypes DEF BranchTypes
        <4>2. p.item = shown /\ q.item = shown
          BY <3>3, <3>5 DEF OwnAsks, Operation
        <4> QED BY <3>3, <4>1, <4>2 DEF Discoveries
      <3>6. ~strayed /\ ~beside => panel.preview = NoPreview /\ \A p \in asks : p.kind # "preview"
        BY <3>3 DEF Previewed
      <3> QED BY <2>0, <3>2, <3>3, <3>4, <3>5, <3>6 DEF Previewed
    <2>7. CASE \E q \in asks : RepositoriesFail(q) \/ PreviewFails(q) \/ OperationFails(q)
      <3>1. panel'.repos = panel.repos /\ panel'.repo = panel.repo /\ panel'.preview = panel.preview
        BY <2>7 DEF RepositoriesFail, PreviewFails, OperationFails, BranchTypes, Panels
      <3>2. asks' \subseteq asks
        BY <2>7 DEF RepositoriesFail, PreviewFails, OperationFails
      <3> QED BY <2>0, <3>1, <3>2 DEF Previewed
    <2>8. CASE \E q \in asks : PreviewAnswer(q)
      <3>1. PICK q \in asks : PreviewAnswer(q)
        BY <2>8
      <3>2. /\ panel'.repos = panel.repos /\ panel'.repo = panel.repo
            /\ panel'.preview = [item |-> q.item, repo |-> q.repo, base |-> IF q.base = None THEN ProjectBase ELSE q.base]
        BY <3>1 DEF PreviewAnswer, BranchTypes, Panels
      <3>3. q.kind = "preview" /\ asks' = asks \ {q}
        BY <3>1 DEF PreviewAnswer
      <3>4. ~strayed => q.item = shown
        BY <3>3 DEF OwnAsks, Operation
      <3> QED BY <2>0, <3>2, <3>3, <3>4 DEF Previewed
    <2> QED BY <1>4, <2>1, <2>2, <2>3, <2>4, <2>5, <2>6, <2>7, <2>8 DEF Quiet
  <1> QED BY <1>1, <1>2, <1>3, <1>4, BranchCases

(* What is asked for was confirmed.                                        *)
LEMMA ConfirmedKept ==
  ASSUME BranchTypes, Previewed, CreatedAsConfirmed, [Next]_vars
  PROVE  CreatedAsConfirmed'
  <1>1. CASE \E i \in Item \cup {None} : BranchesTurn(i)
    <2>1. PICK i \in Item \cup {None} : BranchesTurn(i)
      BY <1>1
    <2>2. /\ \A p \in asks' : p \in asks \/ p = LoadAsk(i, panel.gen + 1 + 1, FALSE)
          /\ ~strayed' => \A p \in asks : p.kind \notin Operation
      BY <2>1, TurnLeaves
    <2> QED BY <2>2 DEF LoadAsk, Operation, CreatedAsConfirmed
  <1>2. CASE \E q \in asks : ListAnswer(q) \/ ListFails(q)
    <2>1. PICK q \in asks : strayed' = strayed /\ beside' = beside /\ asks' = asks \ {q}
      BY <1>2, ListLeaves
    <2> QED BY <2>1 DEF CreatedAsConfirmed
  <1>3. CASE \E q \in asks : CreateDone(q) \/ RemoveDone(q)
    <2>1. PICK q \in asks : strayed' = strayed /\ beside' = beside /\ asks' = (asks \ {q}) \cup {LoadAsk(q.item, panel.gen + 1, TRUE)}
      BY <1>3, DoneLeaves
    <2> QED BY <2>1 DEF LoadAsk, CreatedAsConfirmed
  <1>4. CASE Quiet
    <2>0. strayed' = strayed /\ (~beside' => ~beside)
      BY <1>4, QuietLeaves
    <2>1. CASE CreateBranch
      <3>1. /\ asks' = asks \cup {[kind |-> "create", item |-> shown, repo |-> panel.repo, base |-> panel.preview.base,
                                   confirmed |-> panel.preview]}
            /\ panel.preview # NoPreview
        BY <2>1 DEF CreateBranch, BaseToSend
      <3>2. ~strayed /\ ~beside => panel.preview.item = shown /\ panel.preview.repo = panel.repo
        BY <3>1 DEF Previewed
      <3>3. ~strayed /\ ~beside => [item |-> shown, repo |-> panel.repo, base |-> panel.preview.base] = panel.preview
        BY <3>1, <3>2, PanelTypes DEF Preview
      <3> QED BY <2>0, <3>1, <3>3 DEF CreatedAsConfirmed
    <2>2. CASE ~CreateBranch
      <3>1. \A p \in asks' : p \in asks \/ p.kind # "create"
        <4>1. CASE LoadRepositories \/ AskPreview
          BY <4>1 DEF LoadRepositories, AskPreview
        <4>6. CASE CancelPreview \/ \E r \in Repo : ChooseRepository(r)
          BY <4>6 DEF CancelPreview, ChooseRepository
        <4>5. CASE \E r \in Repo : AskRemoval(r)
          BY <4>5 DEF AskRemoval
        <4>2. CASE (\E b \in Base \cup {None} : TypeBase(b)) \/ UNCHANGED <<shown, branches>>
          BY <4>2 DEF TypeBase, branches
        <4>3. CASE \E q \in asks : ConfirmRemoval(q) \/ CancelRemoval(q)
          <5>1. PICK q \in asks : ConfirmRemoval(q) \/ CancelRemoval(q)
            BY <4>3
          <5>2. q \in Removals
            BY <5>1, AskTypes DEF ConfirmRemoval, CancelRemoval, BranchTypes
          <5>3. [q EXCEPT !.kind = "remove"].kind = "remove"
            BY <5>2 DEF Removals
          <5> QED BY <5>1, <5>3 DEF ConfirmRemoval, CancelRemoval
        <4>4. CASE \E q \in asks : \/ RepositoriesAnswer(q) \/ RepositoriesFail(q) \/ PreviewAnswer(q) \/ PreviewFails(q)
                                   \/ OperationFails(q)
          BY <4>4 DEF RepositoriesAnswer, RepositoriesFail, PreviewAnswer, PreviewFails, OperationFails
        <4> QED BY <1>4, <2>2, <4>1, <4>2, <4>3, <4>4, <4>5, <4>6 DEF Quiet
      <3> QED BY <2>0, <3>1 DEF CreatedAsConfirmed
    <2> QED BY <2>1, <2>2
  <1> QED BY <1>1, <1>2, <1>3, <1>4, BranchCases

(* The rows shown are the server's once the list that was asked for last   *)
(* is there, unless an operation went through without the section knowing. *)
RowsShown == ~unsure /\ ~panel.loading /\ panel.data # NoData => panel.data.rows = rows[panel.data.item]

LEMMA RowsShownKept ==
  ASSUME BranchTypes, RowsShown, [Next]_vars
  PROVE  RowsShown'
  <1>1. CASE \E i \in Item \cup {None} : BranchesTurn(i)
    BY <1>1, TurnLeaves DEF RowsShown
  <1>2. CASE \E q \in asks : ListAnswer(q) \/ ListFails(q)
    <2>1. PICK q \in asks : ListAnswer(q) \/ ListFails(q)
      BY <1>2
    <2>2. /\ rows' = rows /\ unsure' = unsure
          /\ \/ panel'.data = panel.data /\ panel'.loading = panel.loading
             \/ panel'.data = NoData
             \/ q.gen = panel.gen /\ panel'.data = [item |-> q.item, rows |-> rows[q.item]]
      BY <2>1, ListLeaves
    <2> QED BY <2>2 DEF RowsShown
  <1>3. CASE \E q \in asks : CreateDone(q) \/ RemoveDone(q)
    BY <1>3, DoneLeaves DEF RowsShown
  <1>4. CASE Quiet
    <2>1. panel'.data = panel.data /\ (~unsure' => ~unsure /\ rows' = rows)
      BY <1>4, QuietLeaves
    <2>2. panel'.loading = panel.loading
      BY <1>4, QuietLeaves
    <2> QED BY <2>1, <2>2 DEF RowsShown
  <1> QED BY <1>1, <1>2, <1>3, <1>4, BranchCases

BranchesInv ==
    /\ BranchTypes /\ GensKnown /\ OwnAsks /\ OwnData /\ OneAwaited /\ Previewed /\ CreatedAsConfirmed /\ RowsShown

LEMMA BranchesStart ==
  ASSUME Init
  PROVE  BranchesInv
  <1> USE DEF Init, SectionsInit, BranchesInit
  <1>1. asks = {} /\ panel = Fresh(0)
    OBVIOUS
  <1>2. BranchTypes
    <2>1. panel \in Panels
      BY <1>1 DEF Fresh, Panels, NotLoaded
    <2>2. rows \in [Item -> [Repo -> Row]]
      BY BranchesAssumption DEF Row
    <2> QED BY <1>1, <2>1, <2>2 DEF BranchTypes
  <1>3. GensKnown /\ OwnAsks /\ OwnData /\ OneAwaited /\ Previewed /\ CreatedAsConfirmed /\ RowsShown
    BY <1>1 DEF GensKnown, OwnAsks, OwnData, OneAwaited, Previewed, CreatedAsConfirmed, RowsShown, Fresh
  <1> QED BY <1>2, <1>3 DEF BranchesInv

LEMMA BranchesKept ==
  ASSUME BranchesInv, [Next]_vars
  PROVE  BranchesInv'
  BY BranchTypesKept, GensKnownKept, OwnKept, OneAwaitedKept, PreviewedKept, ConfirmedKept, RowsShownKept DEF BranchesInv

LEMMA BranchesHold == Spec => []BranchesInv
  <1>1. Init => BranchesInv
    BY BranchesStart
  <1>2. BranchesInv /\ [Next]_vars => BranchesInv'
    BY BranchesKept
  <1> QED BY <1>1, <1>2, PTL DEF Spec

(* However the dialog turns while comments, files, links and operations on *)
(* branches are under way: nothing reaches another item than the one it    *)
(* was typed, staged or picked at (modals/BugModal.jsx), and the branches  *)
(* shown under an item are its own, unless the dialog turned to it under   *)
(* an operation on another (components/GitBranchesPanel.jsx).              *)
THEOREM OwnThings == Spec => []EachItemItsOwn
  <1>1. Init => DiscussionInv /\ BranchesInv
    BY DiscussionStart, BranchesStart
  <1>2. DiscussionInv /\ BranchesInv /\ [Next]_vars => (DiscussionInv /\ BranchesInv)'
    BY DiscussionKept, BranchesKept
  <1>3. DiscussionInv /\ BranchesInv => EachItemItsOwn
    BY DEF DiscussionInv, BranchesInv, EachItemItsOwn, OwnBranches, OwnData, Shows
  <1> QED BY <1>1, <1>2, <1>3, PTL DEF Spec

(* Whatever is pressed while answers are in flight, a branch is created    *)
(* for the item, in the repository and from the base that were confirmed   *)
(* (createFeatureBranch of components/GitBranchesPanel.jsx), unless the    *)
(* dialog turned under an operation, or a removal confirmed from an older  *)
(* render ran beside another operation of the panel.                       *)
THEOREM Confirmed == Spec => []CreatedAsConfirmed
  <1>1. BranchesInv => CreatedAsConfirmed
    BY DEF BranchesInv
  <1> QED BY <1>1, BranchesHold, PTL

(* After every operation of the section, in whatever order the lists asked *)
(* for arrive, the rows shown are the server's, unless an answer was lost. *)
THEOREM ListFollows == Spec => []ListIsCurrent
  <1>1. BranchesInv => ListIsCurrent
    BY DEF BranchesInv, RowsShown, ListIsCurrent, Shows
  <1> QED BY <1>1, BranchesHold, PTL
-----------------------------------------------------------------------------
(* The events: types.                                                      *)
EventRows == [id : Event, ver : Nat, tasks : SUBSET Task]
Grids == {None} \cup UNION {[S -> EventRows] : S \in SUBSET Event}
Calendars == [mount : Nat, mode : {"away", "list", "detail"}, grid : Grids, detail : EventRows \cup {None},
              opened : Event \cup {None}, filter : Event \cup {None}, typed : Event \cup {None},
              picked : SUBSET [task : Task, under : Event], adding : BOOLEAN, asking : Event \cup {None},
              late : BOOLEAN, turned : BOOLEAN]

\* A load under way that was asked for by the view of mount m or one before it.
\* Its number tells it from the others, and nothing is said of it.
IsEventRead(q, m) ==
    /\ q \in [n : {q.n}, of : Kinds, id : Event \cup {None}, how : {"open", "poll"}, then : Event \cup {None},
              mount : Nat, served : BOOLEAN, got : Grids \cup EventRows]
    /\ q.mount <= m
    /\ q.of = "detail" => /\ q.id \in Event /\ q.then = None
                          /\ q.got # None => q.got \in EventRows /\ q.got.id = q.id
    /\ q.of = "grid" => q.got \in Grids

EventWritings == [kind : {"add", "save", "delete"}, id : Event \cup {None}, left : SUBSET Task, reopens : BOOLEAN,
                  answer : {"none", "failed", "ok", "lost"}, mount : Nat]
IsEventWrite(w) ==
    /\ w \in EventWritings
    /\ w.kind = "add" => w.id \in Event /\ w.answer \in {"none", "failed"}
    /\ w.kind = "delete" => w.id \in Event
    /\ w.kind = "save" /\ w.answer = "ok" => w.id \in Event

EventServerTypes ==
    /\ events \in UNION {[S -> Nat] : S \in SUBSET Event}
    /\ eventOf \in [Task -> Event \cup {None}]
EventViewTypes ==
    /\ calendar \in Calendars
    /\ eventForm \in [open : BOOLEAN, id : Event \cup {None}]
    /\ vague \subseteq Kinds
EventReadTypes == \A q \in eventReads : IsEventRead(q, calendar.mount)
EventWriteTypes == \A w \in eventWrites : IsEventWrite(w)
EventTypes == EventServerTypes /\ EventViewTypes /\ EventReadTypes /\ EventWriteTypes

LEMMA EventsPlanned ==
  ASSUME EventServerTypes
  PROVE  /\ DOMAIN events \subseteq Event /\ events \in [DOMAIN events -> Nat]
         /\ \A e \in DOMAIN events : events[e] \in Nat
  <1>1. PICK S \in SUBSET Event : events \in [S -> Nat]
    BY DEF EventServerTypes
  <1> QED BY <1>1

LEMMA EventRowTypes ==
  ASSUME EventServerTypes
  PROVE  /\ \A e \in DOMAIN events : EventRow(e) \in EventRows /\ EventRow(e).id = e
         /\ [e \in DOMAIN events |-> EventRow(e)] \in Grids
  <1>1. \A e \in DOMAIN events : EventRow(e) \in EventRows /\ EventRow(e).id = e
    BY EventsPlanned DEF EventRow, EventRows
  <1>2. [e \in DOMAIN events |-> EventRow(e)] \in [DOMAIN events -> EventRows]
    BY <1>1
  <1> QED BY <1>1, <1>2, EventsPlanned DEF Grids

LEMMA CalendarTypes ==
  ASSUME NEW c \in Calendars
  PROVE  /\ c.mount \in Nat /\ c.mode \in {"away", "list", "detail"} /\ c.grid \in Grids
         /\ c.detail \in EventRows \cup {None} /\ c.opened \in Event \cup {None} /\ c.filter \in Event \cup {None}
         /\ c.typed \in Event \cup {None} /\ c.picked \subseteq [task : Task, under : Event]
         /\ c.asking \in Event \cup {None}
         /\ c.adding \in BOOLEAN /\ c.late \in BOOLEAN /\ c.turned \in BOOLEAN
  <1>1. c.adding \in BOOLEAN /\ c.late \in BOOLEAN /\ c.turned \in BOOLEAN
    BY DEF Calendars
  <1>2. /\ c.mount \in Nat /\ c.mode \in {"away", "list", "detail"} /\ c.grid \in Grids
        /\ c.detail \in EventRows \cup {None} /\ c.opened \in Event \cup {None} /\ c.filter \in Event \cup {None}
        /\ c.typed \in Event \cup {None} /\ c.picked \subseteq [task : Task, under : Event]
        /\ c.asking \in Event \cup {None}
    BY DEF Calendars
  <1> QED BY <1>1, <1>2

LEMMA DetailTypes ==
  ASSUME NEW c \in Calendars, c.detail # None
  PROVE  c.detail \in EventRows /\ c.detail.id \in Event /\ c.detail.tasks \subseteq Task
  BY CalendarTypes DEF EventRows

\* What one page of the calendar becomes another by.
LEMMA Openings ==
  ASSUME NEW c \in Calendars, NEW e \in Event
  PROVE  /\ Opening(c, e) \in Calendars
         /\ Opening(c, e).mount = c.mount /\ Opening(c, e).mode = "detail" /\ Opening(c, e).grid = c.grid
         /\ Opening(c, e).detail = None /\ Opening(c, e).opened = e
         /\ Opening(c, e).filter = IF c.opened = e THEN c.filter ELSE None
         /\ Opening(c, e).typed = c.typed /\ Opening(c, e).picked = c.picked
         /\ (Opening(c, e).late <=> c.late /\ c.opened = e) /\ Opening(c, e).turned = c.turned
  <1>1. PICK f \in Event \cup {None}, l \in BOOLEAN :
            /\ f = (IF c.opened = e THEN c.filter ELSE None) /\ l = (c.late /\ c.opened = e)
    <2> DEFINE f == IF c.opened = e THEN c.filter ELSE None
               l == c.late /\ c.opened = e
    <2>1. f \in Event \cup {None}
      BY CalendarTypes
    <2>2. l \in BOOLEAN
      OBVIOUS
    <2> QED BY <2>1, <2>2
  <1>2. Opening(c, e) = [c EXCEPT !.filter = f, !.late = l, !.opened = e, !.mode = "detail", !.detail = None]
    BY <1>1 DEF Opening, Calendars
  <1> DEFINE d == [c EXCEPT !.filter = f, !.late = l, !.opened = e, !.mode = "detail", !.detail = None]
  <1>3. /\ d \in Calendars /\ d.mount = c.mount /\ d.mode = "detail" /\ d.grid = c.grid /\ d.detail = None /\ d.opened = e
        /\ d.filter = f /\ d.typed = c.typed /\ d.picked = c.picked
    BY DEF Calendars
  <1>4. d.late = l /\ d.turned = c.turned
    BY DEF Calendars
  <1> HIDE DEF d
  <1> QED BY <1>1, <1>2, <1>3, <1>4 DEF d

LEMMA Turnings ==
  ASSUME NEW c \in Calendars, NEW e \in Event
  PROVE  /\ Turning(c, e) \in Calendars
         /\ Turning(c, e).mount = c.mount /\ Turning(c, e).mode = "detail" /\ Turning(c, e).grid = c.grid
         /\ Turning(c, e).detail = None /\ Turning(c, e).opened = e
         /\ Turning(c, e).filter = IF c.opened = e THEN c.filter ELSE None
         /\ Turning(c, e).typed = c.typed /\ Turning(c, e).picked = c.picked
         /\ (Turning(c, e).late <=> c.late /\ c.opened = e)
         /\ (Turning(c, e).turned <=> c.turned \/ c.picked # {})
  <1> DEFINE o == Opening(c, e)
  <1>1. PICK d \in Calendars : d = o
    BY Openings
  <1>2. PICK u \in BOOLEAN : u = (c.turned \/ c.picked # {})
    OBVIOUS
  <1>3. d.turned = c.turned
    BY <1>1, Openings
  <1>4. Turning(c, e) = [d EXCEPT !.turned = u]
    BY <1>1, <1>2, <1>3 DEF Turning, Calendars
  <1> DEFINE v == [d EXCEPT !.turned = u]
  <1>5. /\ v \in Calendars /\ v.mount = d.mount /\ v.mode = d.mode /\ v.grid = d.grid /\ v.detail = d.detail
        /\ v.opened = d.opened /\ v.filter = d.filter /\ v.typed = d.typed /\ v.picked = d.picked
    BY DEF Calendars
  <1>6. v.late = d.late /\ v.turned = u
    BY DEF Calendars
  <1> HIDE DEF v, o
  <1>7. Turning(c, e) = v
    BY <1>4 DEF v
  <1>8. /\ d.mount = c.mount /\ d.mode = "detail" /\ d.grid = c.grid /\ d.detail = None /\ d.opened = e
        /\ d.filter = (IF c.opened = e THEN c.filter ELSE None) /\ d.typed = c.typed /\ d.picked = c.picked
    BY <1>1, Openings DEF o
  <1>9. (d.late <=> c.late /\ c.opened = e)
    BY <1>1, Openings DEF o
  <1>10. (Turning(c, e).late <=> c.late /\ c.opened = e)
    BY <1>6, <1>7, <1>9
  <1>11. (Turning(c, e).turned <=> c.turned \/ c.picked # {})
    BY <1>2, <1>6, <1>7
  <1>12. /\ Turning(c, e) \in Calendars
         /\ Turning(c, e).mount = c.mount /\ Turning(c, e).mode = "detail" /\ Turning(c, e).grid = c.grid
         /\ Turning(c, e).detail = None /\ Turning(c, e).opened = e
         /\ Turning(c, e).filter = (IF c.opened = e THEN c.filter ELSE None)
         /\ Turning(c, e).typed = c.typed /\ Turning(c, e).picked = c.picked
    BY <1>5, <1>7, <1>8
  <1> QED BY <1>10, <1>11, <1>12

LEMMA ListModes ==
  ASSUME NEW c \in Calendars
  PROVE  /\ ListMode(c) \in Calendars
         /\ ListMode(c).mount = c.mount /\ ListMode(c).mode = "list" /\ ListMode(c).grid = c.grid
         /\ ListMode(c).detail = None /\ ListMode(c).opened = None /\ ListMode(c).filter = c.filter
         /\ ListMode(c).picked = {}
         /\ ListMode(c).late = FALSE /\ ListMode(c).turned = FALSE
  <1>1. ListMode(c) = [c EXCEPT !.mode = "list", !.detail = None, !.opened = None, !.picked = {},
                                !.late = FALSE, !.turned = FALSE]
    BY DEF ListMode
  <1>2. /\ ListMode(c) \in Calendars /\ ListMode(c).mount = c.mount /\ ListMode(c).mode = "list"
        /\ ListMode(c).grid = c.grid /\ ListMode(c).detail = None /\ ListMode(c).opened = None
        /\ ListMode(c).filter = c.filter /\ ListMode(c).picked = {}
    BY <1>1 DEF Calendars
  <1>3. ListMode(c).late = FALSE /\ ListMode(c).turned = FALSE
    BY <1>1 DEF Calendars
  <1> QED BY <1>2, <1>3

LEMMA AwayTypes ==
  ASSUME NEW m \in Nat
  PROVE  /\ [Away EXCEPT !.mount = m] \in Calendars
         /\ [Away EXCEPT !.mount = m].mount = m /\ [Away EXCEPT !.mount = m].mode = "away"
         /\ [Away EXCEPT !.mount = m].picked = {} /\ [Away EXCEPT !.mount = m].detail = None
         /\ [Away EXCEPT !.mount = m].opened = None
         /\ [Away EXCEPT !.mount = m].grid = None
  BY DEF Away, Calendars, Grids
-----------------------------------------------------------------------------
(* What narrows the tasks and what is picked at the details.               *)

\* The event a page shows or waits for.
SeenAt(c) == IF c.detail = None THEN c.opened ELSE c.detail.id

\* Nothing that was chosen at one event is left at another, but by what the
\* history names.
FiltersFollow(c) ==
    /\ c.late \/ c.opened = None \/ c.filter \in {None, c.opened}
    /\ c.late \/ c.detail = None \/ c.detail.id = c.opened
    /\ c.mode = "detail" => c.opened # None
PicksFollow(c) == c.turned \/ c.picked = {} \/ (c.mode = "detail" /\ \A x \in c.picked : x.under = SeenAt(c))

CalendarOK(c) == c \in Calendars /\ FiltersFollow(c) /\ PicksFollow(c)

LEMMA SameCalendarOK ==
  ASSUME NEW c, NEW d \in Calendars, CalendarOK(c),
         d.mode = c.mode, d.detail = c.detail, d.opened = c.opened, d.filter = c.filter, d.picked = c.picked,
         d.late = c.late, d.turned = c.turned
  PROVE  CalendarOK(d)
  BY DEF CalendarOK, FiltersFollow, PicksFollow, SeenAt

LEMMA OpeningOK ==
  ASSUME NEW c, NEW e \in Event, CalendarOK(c),
         c.turned \/ c.picked = {} \/ (\A x \in c.picked : x.under = e)
  PROVE  CalendarOK(Opening(c, e))
  <1>0. c \in Calendars /\ e # None
    BY EventsAssumption DEF CalendarOK
  <1>1. FiltersFollow(Opening(c, e))
    BY <1>0, Openings DEF FiltersFollow, CalendarOK
  <1>2. PicksFollow(Opening(c, e))
    BY <1>0, Openings DEF PicksFollow, SeenAt
  <1> QED BY <1>0, <1>1, <1>2, Openings DEF CalendarOK

LEMMA TurningOK ==
  ASSUME NEW c, NEW e \in Event, CalendarOK(c)
  PROVE  CalendarOK(Turning(c, e))
  <1>0. c \in Calendars /\ e # None
    BY EventsAssumption DEF CalendarOK
  <1>1. FiltersFollow(Turning(c, e))
    BY <1>0, Turnings DEF FiltersFollow, CalendarOK
  <1>2. PicksFollow(Turning(c, e))
    BY <1>0, Turnings DEF PicksFollow, SeenAt
  <1> QED BY <1>0, <1>1, <1>2, Turnings DEF CalendarOK

LEMMA ListModeOK ==
  ASSUME NEW c \in Calendars
  PROVE  CalendarOK(ListMode(c))
  <1>1. FiltersFollow(ListMode(c))
    BY ListModes DEF FiltersFollow
  <1>2. PicksFollow(ListMode(c))
    BY ListModes DEF PicksFollow
  <1> QED BY <1>1, <1>2, ListModes DEF CalendarOK

LEMMA AwayOK ==
  ASSUME NEW m \in Nat
  PROVE  CalendarOK([Away EXCEPT !.mount = m])
  BY AwayTypes DEF CalendarOK, FiltersFollow, PicksFollow

\* Fields nothing here depends on.
LEMMA GridSet ==
  ASSUME NEW c \in Calendars, NEW g \in Grids
  PROVE  /\ [c EXCEPT !.grid = g] \in Calendars /\ [c EXCEPT !.grid = g].mount = c.mount
         /\ [c EXCEPT !.grid = g].mode = c.mode /\ [c EXCEPT !.grid = g].detail = c.detail
         /\ [c EXCEPT !.grid = g].opened = c.opened /\ [c EXCEPT !.grid = g].filter = c.filter
         /\ [c EXCEPT !.grid = g].picked = c.picked /\ [c EXCEPT !.grid = g].late = c.late
         /\ [c EXCEPT !.grid = g].turned = c.turned /\ [c EXCEPT !.grid = g].grid = g
  <1>1. /\ [c EXCEPT !.grid = g].late = c.late /\ [c EXCEPT !.grid = g].turned = c.turned
    BY DEF Calendars
  <1>2. /\ [c EXCEPT !.grid = g] \in Calendars /\ [c EXCEPT !.grid = g].mount = c.mount
        /\ [c EXCEPT !.grid = g].mode = c.mode /\ [c EXCEPT !.grid = g].detail = c.detail
        /\ [c EXCEPT !.grid = g].opened = c.opened /\ [c EXCEPT !.grid = g].filter = c.filter
        /\ [c EXCEPT !.grid = g].picked = c.picked /\ [c EXCEPT !.grid = g].grid = g
    BY DEF Calendars
  <1> QED BY <1>1, <1>2

LEMMA GridOK ==
  ASSUME NEW c, NEW g \in Grids, CalendarOK(c)
  PROVE  CalendarOK([c EXCEPT !.grid = g])
  <1>1. c \in Calendars
    BY DEF CalendarOK
  <1> DEFINE d == [c EXCEPT !.grid = g]
  <1>2. /\ d \in Calendars /\ d.mode = c.mode /\ d.detail = c.detail /\ d.opened = c.opened /\ d.filter = c.filter
        /\ d.picked = c.picked /\ d.late = c.late /\ d.turned = c.turned
    BY <1>1, GridSet
  <1> HIDE DEF d
  <1>3. CalendarOK(d)
    BY <1>2, SameCalendarOK
  <1> QED BY <1>3 DEF d

LEMMA AddingOK ==
  ASSUME NEW c, NEW b \in BOOLEAN, CalendarOK(c)
  PROVE  CalendarOK([c EXCEPT !.adding = b])
  <1>1. c \in Calendars
    BY DEF CalendarOK
  <1> DEFINE d == [c EXCEPT !.adding = b]
  <1>2. d \in Calendars /\ d.mode = c.mode /\ d.detail = c.detail /\ d.opened = c.opened /\ d.filter = c.filter
        /\ d.picked = c.picked
    BY <1>1 DEF Calendars
  <1>3. d.late = c.late /\ d.turned = c.turned
    BY <1>1 DEF Calendars
  <1> HIDE DEF d
  <1>4. CalendarOK(d)
    BY <1>2, <1>3, SameCalendarOK
  <1> QED BY <1>4 DEF d

LEMMA AskingOK ==
  ASSUME NEW c, NEW a \in Event \cup {None}, CalendarOK(c)
  PROVE  CalendarOK([c EXCEPT !.asking = a])
  <1>1. c \in Calendars
    BY DEF CalendarOK
  <1> DEFINE d == [c EXCEPT !.asking = a]
  <1>2. d \in Calendars /\ d.mode = c.mode /\ d.detail = c.detail /\ d.opened = c.opened /\ d.filter = c.filter
        /\ d.picked = c.picked
    BY <1>1 DEF Calendars
  <1>3. d.late = c.late /\ d.turned = c.turned
    BY <1>1 DEF Calendars
  <1> HIDE DEF d
  <1>4. CalendarOK(d)
    BY <1>2, <1>3, SameCalendarOK
  <1> QED BY <1>4 DEF d

LEMMA TypedOK ==
  ASSUME NEW c, NEW x \in Event \cup {None}, CalendarOK(c)
  PROVE  CalendarOK([c EXCEPT !.typed = x])
  <1>1. c \in Calendars
    BY DEF CalendarOK
  <1> DEFINE d == [c EXCEPT !.typed = x]
  <1>2. d \in Calendars /\ d.mode = c.mode /\ d.detail = c.detail /\ d.opened = c.opened /\ d.filter = c.filter
        /\ d.picked = c.picked
    BY <1>1 DEF Calendars
  <1>3. d.late = c.late /\ d.turned = c.turned
    BY <1>1 DEF Calendars
  <1> HIDE DEF d
  <1>4. CalendarOK(d)
    BY <1>2, <1>3, SameCalendarOK
  <1> QED BY <1>4 DEF d

\* A choice at the event seen.
LEMMA FilterOK ==
  ASSUME NEW c, NEW f \in {None, SeenAt(c)}, CalendarOK(c)
  PROVE  CalendarOK([c EXCEPT !.filter = f])
  <1>1. c \in Calendars /\ f \in Event \cup {None}
    BY CalendarTypes, DetailTypes DEF CalendarOK, SeenAt
  <1> DEFINE d == [c EXCEPT !.filter = f]
  <1>2. d \in Calendars /\ d.mode = c.mode /\ d.detail = c.detail /\ d.opened = c.opened /\ d.filter = f
        /\ d.picked = c.picked
    BY <1>1 DEF Calendars
  <1>3. d.late = c.late /\ d.turned = c.turned
    BY <1>1 DEF Calendars
  <1> HIDE DEF d
  <1>4. FiltersFollow(d) /\ PicksFollow(d)
    BY <1>2, <1>3 DEF CalendarOK, FiltersFollow, PicksFollow, SeenAt
  <1> QED BY <1>2, <1>4 DEF d, CalendarOK

\* A search that was typed is applied.
LEMMA AppliedOK ==
  ASSUME NEW c, CalendarOK(c)
  PROVE  CalendarOK([c EXCEPT !.filter = c.typed, !.typed = None, !.late = @ \/ c.typed # c.opened])
  <1>1. c \in Calendars
    BY DEF CalendarOK
  <1>2. PICK l \in BOOLEAN : l = (c.late \/ c.typed # c.opened)
    BY <1>1, CalendarTypes
  <1> DEFINE d == [c EXCEPT !.filter = c.typed, !.typed = None, !.late = l]
  <1>3. [c EXCEPT !.filter = c.typed, !.typed = None, !.late = @ \/ c.typed # c.opened] = d
    BY <1>1, <1>2 DEF Calendars
  <1>4. d \in Calendars /\ d.mode = c.mode /\ d.detail = c.detail /\ d.opened = c.opened /\ d.filter = c.typed
        /\ d.picked = c.picked
    BY <1>1 DEF Calendars
  <1>5. d.late = l /\ d.turned = c.turned
    BY <1>1 DEF Calendars
  <1> HIDE DEF d
  <1>6. FiltersFollow(d) /\ PicksFollow(d)
    BY <1>2, <1>4, <1>5 DEF CalendarOK, FiltersFollow, PicksFollow, SeenAt
  <1> QED BY <1>3, <1>4, <1>6 DEF CalendarOK

\* Details are shown, whatever was opened.
LEMMA DetailOK ==
  ASSUME NEW c, NEW r \in EventRows, CalendarOK(c), r # None
  PROVE  CalendarOK([c EXCEPT !.detail = r, !.late = @ \/ c.opened # r.id,
                              !.turned = @ \/ ((c.opened # r.id \/ (c.detail # None /\ c.detail.id # r.id))
                                               /\ c.picked # {})])
  <1>1. c \in Calendars
    BY DEF CalendarOK
  <1>2. PICK l \in BOOLEAN : l = (c.late \/ c.opened # r.id)
    BY <1>1, CalendarTypes
  <1>3. PICK u \in BOOLEAN : u = (c.turned \/ ((c.opened # r.id \/ (c.detail # None /\ c.detail.id # r.id))
                                               /\ c.picked # {}))
    BY <1>1, CalendarTypes
  <1> DEFINE d == [c EXCEPT !.detail = r, !.late = l, !.turned = u]
  <1>4. [c EXCEPT !.detail = r, !.late = @ \/ c.opened # r.id,
                  !.turned = @ \/ ((c.opened # r.id \/ (c.detail # None /\ c.detail.id # r.id)) /\ c.picked # {})] = d
    BY <1>1, <1>2, <1>3 DEF Calendars
  <1>5. d \in Calendars /\ d.mode = c.mode /\ d.detail = r /\ d.opened = c.opened /\ d.filter = c.filter
        /\ d.picked = c.picked
    BY <1>1 DEF Calendars
  <1>6. d.late = l /\ d.turned = u
    BY <1>1 DEF Calendars
  <1> HIDE DEF d
  <1>7. FiltersFollow(d)
    BY <1>2, <1>5, <1>6 DEF CalendarOK, FiltersFollow
  <1>8. PicksFollow(d)
    BY <1>3, <1>5, <1>6 DEF CalendarOK, PicksFollow, SeenAt
  <1> QED BY <1>4, <1>5, <1>7, <1>8 DEF CalendarOK

\* Details that cannot be shown bring the list back.
LEMMA BroughtBackOK ==
  ASSUME NEW c, CalendarOK(c)
  PROVE  CalendarOK([c EXCEPT !.mode = "list", !.turned = @ \/ c.picked # {}])
  <1>1. c \in Calendars
    BY DEF CalendarOK
  <1>2. PICK u \in BOOLEAN : u = (c.turned \/ c.picked # {})
    BY <1>1, CalendarTypes
  <1> DEFINE d == [c EXCEPT !.mode = "list", !.turned = u]
  <1>3. [c EXCEPT !.mode = "list", !.turned = @ \/ c.picked # {}] = d
    BY <1>1, <1>2 DEF Calendars
  <1>4. d \in Calendars /\ d.mode = "list" /\ d.detail = c.detail /\ d.opened = c.opened /\ d.filter = c.filter
        /\ d.picked = c.picked
    BY <1>1 DEF Calendars
  <1>5. d.late = c.late /\ d.turned = u
    BY <1>1 DEF Calendars
  <1> HIDE DEF d
  <1>6. FiltersFollow(d) /\ PicksFollow(d)
    BY <1>2, <1>4, <1>5 DEF CalendarOK, FiltersFollow, PicksFollow
  <1> QED BY <1>3, <1>4, <1>6 DEF CalendarOK

LEMMA PickOK ==
  ASSUME NEW c, NEW t \in Task, CalendarOK(c), c.mode = "detail", c.detail # None
  PROVE  CalendarOK([c EXCEPT !.picked = @ \cup {[task |-> t, under |-> c.detail.id]}])
  <1>1. c \in Calendars /\ c.detail.id \in Event
    BY DetailTypes DEF CalendarOK
  <1>2. PICK p \in SUBSET [task : Task, under : Event] : p = c.picked \cup {[task |-> t, under |-> c.detail.id]}
    <2>1. [task |-> t, under |-> c.detail.id] \in [task : Task, under : Event]
      BY <1>1
    <2>2. c.picked \subseteq [task : Task, under : Event]
      BY <1>1, CalendarTypes
    <2> QED BY <2>1, <2>2
  <1> DEFINE d == [c EXCEPT !.picked = p]
  <1>3. [c EXCEPT !.picked = @ \cup {[task |-> t, under |-> c.detail.id]}] = d
    BY <1>1, <1>2 DEF Calendars
  <1>4. d \in Calendars /\ d.mode = c.mode /\ d.detail = c.detail /\ d.opened = c.opened /\ d.filter = c.filter
        /\ d.picked = p
    BY <1>1 DEF Calendars
  <1>5. d.late = c.late /\ d.turned = c.turned
    BY <1>1 DEF Calendars
  <1> HIDE DEF d
  <1>6. FiltersFollow(d)
    BY <1>4, <1>5 DEF CalendarOK, FiltersFollow
  <1>7. ASSUME ~c.turned, NEW x \in p PROVE x.under = c.detail.id
    <2>1. CASE x = [task |-> t, under |-> c.detail.id]
      BY <2>1
    <2>2. CASE x \in c.picked
      BY <1>7, <2>2 DEF CalendarOK, PicksFollow, SeenAt
    <2> QED BY <1>2, <2>1, <2>2
  <1>8. PicksFollow(d)
    BY <1>4, <1>5, <1>7 DEF PicksFollow, SeenAt
  <1> QED BY <1>3, <1>4, <1>6, <1>8 DEF CalendarOK

LEMMA AddedOK ==
  ASSUME NEW c, NEW e \in Event, CalendarOK(c)
  PROVE  /\ CalendarOK(Opening([c EXCEPT !.adding = FALSE, !.picked = {}, !.turned = FALSE], e))
         /\ Opening([c EXCEPT !.adding = FALSE, !.picked = {}, !.turned = FALSE], e).mount = c.mount
         /\ Opening([c EXCEPT !.adding = FALSE, !.picked = {}, !.turned = FALSE], e).mode = "detail"
  <1>1. c \in Calendars
    BY DEF CalendarOK
  <1> DEFINE d == [c EXCEPT !.adding = FALSE, !.picked = {}, !.turned = FALSE]
  <1>2. d \in Calendars /\ d.mode = c.mode /\ d.detail = c.detail /\ d.opened = c.opened /\ d.filter = c.filter
        /\ d.picked = {} /\ d.mount = c.mount
    BY <1>1 DEF Calendars
  <1>3. d.late = c.late
    BY <1>1 DEF Calendars
  <1> HIDE DEF d
  <1>4. CalendarOK(d)
    BY <1>2, <1>3 DEF CalendarOK, FiltersFollow, PicksFollow
  <1>5. CalendarOK(Opening(d, e)) /\ Opening(d, e).mount = c.mount /\ Opening(d, e).mode = "detail"
    BY <1>2, <1>4, OpeningOK, Openings
  <1> QED BY <1>5 DEF d
-----------------------------------------------------------------------------
(* Loads and writes of the events.                                         *)
LEMMA Readings ==
  ASSUME EventViewTypes, NEW of \in Kinds, NEW id \in Event \cup {None}, NEW how \in {"open", "poll"},
         NEW then \in Event \cup {None}, of = "detail" => id \in Event /\ then = None
  PROVE  /\ IsEventRead(Reading(of, id, how, then), calendar.mount)
         /\ Reading(of, id, how, then).of = of /\ Reading(of, id, how, then).id = id
         /\ Reading(of, id, how, then).then = then /\ Reading(of, id, how, then).mount = calendar.mount
         /\ ~Reading(of, id, how, then).served
  <1>1. PICK r : r = Reading(of, id, how, then)
    OBVIOUS
  <1>2. calendar.mount \in Nat
    BY CalendarTypes DEF EventViewTypes
  <1>3. r = [n |-> Unused, of |-> of, id |-> id, how |-> how, then |-> then, mount |-> calendar.mount,
             served |-> FALSE, got |-> None]
    BY <1>1 DEF Reading
  <1>4. None \in Grids
    BY DEF Grids
  <1>5. r.served = FALSE
    BY <1>3
  <1>6. r.of = of /\ r.id = id /\ r.then = then /\ r.mount = calendar.mount /\ r.got = None /\ r.n = Unused
    BY <1>3
  <1>7. r \in [n : {r.n}, of : Kinds, id : Event \cup {None}, how : {"open", "poll"}, then : Event \cup {None},
               mount : Nat, served : BOOLEAN, got : Grids \cup EventRows]
    BY <1>2, <1>3, <1>4
  <1>8. IsEventRead(r, calendar.mount)
    BY <1>2, <1>4, <1>6, <1>7 DEF IsEventRead
  <1> QED BY <1>1, <1>5, <1>6, <1>8

LEMMA GridReads ==
  ASSUME EventViewTypes
  PROVE  /\ IsEventRead(GridRead, calendar.mount) /\ GridRead.of = "grid" /\ GridRead.then = None
         /\ GridRead.mount = calendar.mount /\ ~GridRead.served
  <1>1. "grid" \in Kinds /\ "grid" # "detail" /\ None \in Event \cup {None} /\ "open" \in {"open", "poll"}
    BY DEF Kinds
  <1>2. ~Reading("grid", None, "open", None).served
    BY DEF Reading
  <1>3. PICK of \in Kinds, id \in Event \cup {None}, how \in {"open", "poll"} :
            of = "grid" /\ id = None /\ how = "open" /\ (of = "detail" => id \in Event /\ id = None)
    BY <1>1
  <1>4. LET r == Reading(of, id, how, id)
        IN IsEventRead(r, calendar.mount) /\ r.of = of /\ r.then = id /\ r.mount = calendar.mount
    BY <1>3, Readings
  <1> QED BY <1>2, <1>3, <1>4 DEF GridRead

LEMMA DetailReads ==
  ASSUME EventViewTypes, NEW e \in Event
  PROVE  /\ IsEventRead(DetailRead(e), calendar.mount) /\ DetailRead(e).of = "detail" /\ DetailRead(e).id = e
         /\ DetailRead(e).mount = calendar.mount /\ ~DetailRead(e).served
  <1>1. "detail" \in Kinds /\ e \in Event \cup {None} /\ None \in Event \cup {None} /\ "open" \in {"open", "poll"}
    BY DEF Kinds
  <1>2. ~Reading("detail", e, "open", None).served
    BY DEF Reading
  <1>3. LET r == Reading("detail", e, "open", None)
        IN IsEventRead(r, calendar.mount) /\ r.of = "detail" /\ r.id = e /\ r.mount = calendar.mount
    BY <1>1, Readings
  <1> QED BY <1>2, <1>3 DEF DetailRead

LEMMA ReadTypes ==
  ASSUME NEW q, NEW m \in Nat, IsEventRead(q, m)
  PROVE  /\ q.of \in Kinds /\ q.id \in Event \cup {None} /\ q.then \in Event \cup {None}
         /\ q.mount \in Nat /\ q.mount <= m /\ q.served \in BOOLEAN
         /\ q.of = "detail" => /\ q.id \in Event /\ q.then = None
                               /\ q.got # None => q.got \in EventRows /\ q.got.id = q.id
         /\ q.of = "grid" => q.got \in Grids
  <1>1. q.served \in BOOLEAN
    BY DEF IsEventRead
  <1>2. q.of \in Kinds /\ q.id \in Event \cup {None} /\ q.then \in Event \cup {None} /\ q.mount \in Nat
    BY DEF IsEventRead
  <1> QED BY <1>1, <1>2 DEF IsEventRead

LEMMA OlderReads ==
  ASSUME NEW q, NEW m \in Nat, NEW n \in Nat, m <= n, IsEventRead(q, m)
  PROVE  IsEventRead(q, n)
  <1>1. q.mount \in Nat /\ q.mount <= m
    BY ReadTypes
  <1>2. q.mount <= n
    BY <1>1
  <1> QED BY <1>2 DEF IsEventRead

LEMMA ServedReads ==
  ASSUME EventServerTypes, NEW m \in Nat, NEW q, IsEventRead(q, m), NEW g,
         g = IF q.of = "grid" THEN [e \in DOMAIN events |-> EventRow(e)]
             ELSE IF q.id \in DOMAIN events THEN EventRow(q.id) ELSE None
  PROVE  /\ IsEventRead([q EXCEPT !.served = TRUE, !.got = g], m)
         /\ [q EXCEPT !.served = TRUE, !.got = g].of = q.of /\ [q EXCEPT !.served = TRUE, !.got = g].id = q.id
         /\ [q EXCEPT !.served = TRUE, !.got = g].then = q.then /\ [q EXCEPT !.served = TRUE, !.got = g].mount = q.mount
         /\ [q EXCEPT !.served = TRUE, !.got = g].got = g
  <1> DEFINE r == [q EXCEPT !.served = TRUE, !.got = g]
  <1>0. q.of \in {"grid", "detail"}
    BY ReadTypes DEF Kinds
  <1>1. q.of = "grid" => g \in Grids
    BY EventRowTypes
  <1>2. q.of = "detail" => g = None \/ (g \in EventRows /\ g.id = q.id)
    BY EventRowTypes
  <1>3. g \in Grids \cup EventRows
    BY <1>0, <1>1, <1>2 DEF Grids
  <1>4. /\ r.n = q.n /\ r.of = q.of /\ r.id = q.id /\ r.then = q.then /\ r.mount = q.mount /\ r.got = g
        /\ r \in [n : {q.n}, of : Kinds, id : Event \cup {None}, how : {"open", "poll"}, then : Event \cup {None},
                  mount : Nat, served : BOOLEAN, got : Grids \cup EventRows]
    BY <1>3 DEF IsEventRead
  <1> HIDE DEF r
  <1>5. IsEventRead(r, m)
    BY <1>1, <1>2, <1>4, ReadTypes DEF IsEventRead
  <1> QED BY <1>4, <1>5 DEF r

LEMMA BeginsOne ==
  ASSUME NEW others, NEW r, r.of \in Kinds, Begins(others, {r})
  PROVE  /\ eventReads' = others \cup {r} /\ vague' \subseteq Kinds
         /\ r.of \notin vague' => \A o \in others : o.of # r.of
         /\ \A k \in Kinds : k # r.of => (k \in vague' <=> k \in vague)
  BY DEF Begins

LEMMA BeginsNone ==
  ASSUME NEW others, Begins(others, {}), vague \subseteq Kinds
  PROVE  eventReads' = others /\ vague' = vague
  BY DEF Begins

LEMMA WriteTypes ==
  ASSUME NEW w, IsEventWrite(w)
  PROVE  /\ w.kind \in {"add", "save", "delete"} /\ w.id \in Event \cup {None} /\ w.left \subseteq Task
         /\ w.answer \in {"none", "failed", "ok", "lost"} /\ w.mount \in Nat
         /\ w.kind = "add" => w.id \in Event /\ w.answer \in {"none", "failed"}
         /\ w.kind = "delete" => w.id \in Event
         /\ w.kind = "save" /\ w.answer = "ok" => w.id \in Event
  BY DEF IsEventWrite, EventWritings

LEMMA Writings ==
  ASSUME EventViewTypes, NEW kind \in {"add", "save", "delete"}, NEW id \in Event \cup {None}, NEW S \in SUBSET Task,
         NEW reopens \in BOOLEAN, kind \in {"add", "delete"} => id \in Event
  PROVE  IsEventWrite(Writing(kind, id, S, reopens))
  <1>1. calendar.mount \in Nat
    BY CalendarTypes DEF EventViewTypes
  <1>2. PICK w : w = Writing(kind, id, S, reopens)
    OBVIOUS
  <1>3. w.kind = kind /\ w.id = id /\ w.answer = "none" /\ w \in EventWritings
    BY <1>1, <1>2 DEF Writing, EventWritings
  <1>4. IsEventWrite(w)
    BY <1>3 DEF IsEventWrite
  <1> QED BY <1>2, <1>4

LEMMA WriteChanged ==
  ASSUME NEW w, IsEventWrite(w)
  PROVE  /\ \A S \in SUBSET Task :
              /\ w.kind = "add" => IsEventWrite([w EXCEPT !.left = S]) /\ IsEventWrite([w EXCEPT !.left = S, !.answer = "failed"])
              /\ [w EXCEPT !.left = S].kind = w.kind /\ [w EXCEPT !.left = S].answer = w.answer
              /\ [w EXCEPT !.left = S].mount = w.mount
         /\ \A how \in {"ok", "lost"} :
              /\ w.kind # "add" /\ w.id \in Event => IsEventWrite([w EXCEPT !.answer = how])
              /\ [w EXCEPT !.answer = how].kind = w.kind /\ [w EXCEPT !.answer = how].answer = how
              /\ [w EXCEPT !.answer = how].mount = w.mount
         /\ \A how \in {"ok", "lost"}, e \in Event :
              /\ w.kind # "add" => IsEventWrite([w EXCEPT !.answer = how, !.id = e])
              /\ [w EXCEPT !.answer = how, !.id = e].kind = w.kind /\ [w EXCEPT !.answer = how, !.id = e].answer = how
              /\ [w EXCEPT !.answer = how, !.id = e].mount = w.mount
  <1>1. w \in EventWritings /\ w.kind \in {"add", "save", "delete"}
    BY WriteTypes DEF IsEventWrite
  <1>2. ASSUME NEW S \in SUBSET Task
        PROVE  /\ w.kind = "add" => IsEventWrite([w EXCEPT !.left = S]) /\ IsEventWrite([w EXCEPT !.left = S, !.answer = "failed"])
               /\ [w EXCEPT !.left = S].kind = w.kind /\ [w EXCEPT !.left = S].answer = w.answer
               /\ [w EXCEPT !.left = S].mount = w.mount
    <2> DEFINE v == [w EXCEPT !.left = S]
               u == [w EXCEPT !.left = S, !.answer = "failed"]
    <2>1. v \in EventWritings /\ v.kind = w.kind /\ v.answer = w.answer /\ v.mount = w.mount /\ v.id = w.id
      BY <1>1 DEF EventWritings
    <2>2. u \in EventWritings /\ u.kind = w.kind /\ u.answer = "failed" /\ u.mount = w.mount /\ u.id = w.id
      BY <1>1 DEF EventWritings
    <2> HIDE DEF u, v
    <2>3. w.kind = "add" => IsEventWrite(v) /\ IsEventWrite(u)
      BY <2>1, <2>2 DEF IsEventWrite
    <2> QED BY <2>1, <2>3 DEF u, v
  <1>3. ASSUME NEW how \in {"ok", "lost"}
        PROVE  /\ w.kind # "add" /\ w.id \in Event => IsEventWrite([w EXCEPT !.answer = how])
               /\ [w EXCEPT !.answer = how].kind = w.kind /\ [w EXCEPT !.answer = how].answer = how
               /\ [w EXCEPT !.answer = how].mount = w.mount
    <2> DEFINE v == [w EXCEPT !.answer = how]
    <2>1. v \in EventWritings /\ v.kind = w.kind /\ v.answer = how /\ v.mount = w.mount /\ v.id = w.id
      BY <1>1 DEF EventWritings
    <2> HIDE DEF v
    <2>2. w.kind # "add" /\ w.id \in Event => IsEventWrite(v)
      BY <2>1 DEF IsEventWrite
    <2> QED BY <2>1, <2>2 DEF v
  <1>4. ASSUME NEW how \in {"ok", "lost"}, NEW e \in Event
        PROVE  /\ w.kind # "add" => IsEventWrite([w EXCEPT !.answer = how, !.id = e])
               /\ [w EXCEPT !.answer = how, !.id = e].kind = w.kind /\ [w EXCEPT !.answer = how, !.id = e].answer = how
               /\ [w EXCEPT !.answer = how, !.id = e].mount = w.mount
    <2> DEFINE v == [w EXCEPT !.answer = how, !.id = e]
    <2>1. v \in EventWritings /\ v.kind = w.kind /\ v.answer = how /\ v.mount = w.mount /\ v.id = e
      BY <1>1 DEF EventWritings
    <2> HIDE DEF v
    <2>2. w.kind # "add" => IsEventWrite(v)
      BY <2>1 DEF IsEventWrite
    <2> QED BY <2>1, <2>2 DEF v
  <1> QED BY <1>2, <1>3, <1>4
-----------------------------------------------------------------------------
(* The steps of the events, in groups.                                     *)

\* What leaves the calendar as it is.
CalendarStays ==
    \/ EventsPoll \/ Drafts \/ SubmitEvent \/ OthersDelete
    \/ \E q \in eventReads : EventServed(q)
    \/ \E w \in eventWrites : \/ EventWritten(w) \/ EventNotWritten(w) \/ EventSaved(w)

CalendarUser ==
    \/ \E e \in Event \cup {None} : EnterView(e)
    \/ \E e \in Event : OpenEvent(e) \/ FollowLink(e)
    \/ \E t \in Task : PickTask(t) \/ \E e \in Event \cup {None} : ItemCloses(t, e)
    \/ \E yes \in BOOLEAN : AnswerDelete(yes)
    \/ LeaveView \/ Back \/ Narrows \/ AddExistingTasks \/ AskDelete

CalendarAnswers ==
    \/ \E q \in eventReads : EventArrives(q) \/ EventFails(q)
    \/ \E w \in eventWrites : \/ EventDeleted(w) \/ TasksAdded(w)
                              \/ \E t \in Task : TaskRefused(w, t) \/ \E lost \in BOOLEAN : TaskAdded(w, t, lost)
    \/ SearchApplies

LEMMA CalendarSteps ==
  ASSUME EventsUser \/ EventsAnswers
  PROVE  CalendarStays \/ CalendarUser \/ CalendarAnswers
  BY DEF EventsUser, EventsAnswers, CalendarStays, CalendarUser, CalendarAnswers

LEMMA StaysLeaves ==
  ASSUME CalendarStays
  PROVE  calendar' = calendar
  BY DEF CalendarStays, EventsPoll, Drafts, SubmitEvent, OthersDelete, EventServed, EventWritten, EventNotWritten, EventSaved

LEMMA Entered ==
  ASSUME calendar \in Calendars, NEW e \in Event \cup {None}, EnterView(e)
  PROVE  CalendarOK(calendar') /\ calendar'.mount = calendar.mount + 1 /\ calendar'.mode = "list"
  <1>1. PICK m \in Nat : m = calendar.mount + 1
    BY CalendarTypes
  <1>2. PICK c \in Calendars : c = [Away EXCEPT !.mount = m] /\ c.mount = m
    BY <1>1, AwayTypes
  <1>3. PICK d \in Calendars : d = (IF e = None THEN c ELSE Opening(c, e)) /\ d.mount = m
    <2>1. CASE e # None
      <3>1. e \in Event
        BY <2>1
      <3>2. Opening(c, e) \in Calendars /\ Opening(c, e).mount = m
        BY <1>2, <3>1, Openings
      <3> QED BY <2>1, <3>2
    <2> QED BY <1>2, <2>1
  <1>4. calendar' = ListMode(d)
    BY <1>1, <1>2, <1>3 DEF EnterView
  <1> QED BY <1>1, <1>3, <1>4, ListModes, ListModeOK

LEMMA UserKeepsCalendar ==
  ASSUME EventTypes, CalendarOK(calendar), CalendarUser
  PROVE  CalendarOK(calendar') /\ calendar'.mount \in Nat /\ calendar.mount <= calendar'.mount
  <1>0. calendar \in Calendars /\ calendar.mount \in Nat
    BY CalendarTypes DEF CalendarOK
  <1>00. ASSUME CalendarOK(calendar'), calendar'.mount = calendar.mount
         PROVE  CalendarOK(calendar') /\ calendar'.mount \in Nat /\ calendar.mount <= calendar'.mount
    BY <1>0, <1>00
  <1>1. ASSUME NEW e \in Event \cup {None}, EnterView(e)
        PROVE  CalendarOK(calendar') /\ calendar'.mount \in Nat /\ calendar.mount <= calendar'.mount
    BY <1>0, <1>1, Entered
  <1>2. ASSUME NEW e \in Event, OpenEvent(e)
        PROVE  CalendarOK(calendar') /\ calendar'.mount = calendar.mount
    <2>1. calendar' = Opening(calendar, e) /\ calendar.mode = "list"
      BY <1>2 DEF OpenEvent
    <2>2. calendar.turned \/ calendar.picked = {}
      BY <2>1 DEF CalendarOK, PicksFollow
    <2> QED BY <1>0, <2>1, <2>2, OpeningOK, Openings
  <1>3. ASSUME NEW e \in Event, FollowLink(e)
        PROVE  CalendarOK(calendar') /\ calendar'.mount = calendar.mount
    BY <1>0, <1>3, TurningOK, Turnings DEF FollowLink
  <1>4. ASSUME NEW t \in Task, PickTask(t)
        PROVE  CalendarOK(calendar') /\ calendar'.mount = calendar.mount
    <2>1. calendar.mode = "detail" /\ calendar.detail # None
          /\ calendar' = [calendar EXCEPT !.picked = @ \cup {[task |-> t, under |-> calendar.detail.id]}]
      BY <1>4 DEF PickTask, AtDetail
    <2>2. calendar'.mount = calendar.mount
      BY <1>0, <2>1 DEF Calendars
    <2> QED BY <2>1, <2>2, PickOK
  <1>5. ASSUME NEW t \in Task, NEW e \in Event \cup {None}, ItemCloses(t, e)
        PROVE  CalendarOK(calendar') /\ calendar'.mount = calendar.mount
    <2>1. calendar' = Opening(calendar, calendar.detail.id) /\ calendar.detail # None /\ calendar.mode = "detail"
      BY <1>5 DEF ItemCloses, AtDetail
    <2>2. calendar.detail.id \in Event
      BY <1>0, <2>1, DetailTypes
    <2>3. calendar.turned \/ calendar.picked = {} \/ (\A x \in calendar.picked : x.under = calendar.detail.id)
      BY <2>1 DEF CalendarOK, PicksFollow, SeenAt
    <2> QED BY <1>0, <2>1, <2>2, <2>3, OpeningOK, Openings
  <1>6. ASSUME NEW yes \in BOOLEAN, AnswerDelete(yes)
        PROVE  CalendarOK(calendar') /\ calendar'.mount = calendar.mount
    <2>1. calendar' = [calendar EXCEPT !.asking = None]
      BY <1>6 DEF AnswerDelete
    <2>2. calendar'.mount = calendar.mount
      BY <1>0, <2>1 DEF Calendars
    <2> QED BY <2>1, <2>2, AskingOK
  <1>7. CASE LeaveView
    <2>1. calendar' = [Away EXCEPT !.mount = calendar.mount]
      BY <1>7 DEF LeaveView
    <2> QED BY <1>0, <2>1, AwayOK, AwayTypes
  <1>8. ASSUME Back
        PROVE  CalendarOK(calendar') /\ calendar'.mount = calendar.mount
    BY <1>0, <1>8, ListModeOK, ListModes DEF Back
  <1>9. ASSUME Narrows
        PROVE  CalendarOK(calendar') /\ calendar'.mount = calendar.mount
    <2>1. Seen = SeenAt(calendar)
      BY DEF Seen, SeenAt
    <2>2. SeenAt(calendar) \in Event \cup {None}
      BY <1>0, CalendarTypes, DetailTypes DEF SeenAt
    <2>3. CASE Chooses
      <3>1. calendar' = [calendar EXCEPT !.filter = SeenAt(calendar)]
        BY <2>1, <2>3 DEF Chooses
      <3>2. calendar'.mount = calendar.mount
        BY <1>0, <3>1 DEF Calendars
      <3> QED BY <3>1, <3>2, FilterOK
    <2>4. CASE Searches
      <3>1. calendar' = [calendar EXCEPT !.typed = SeenAt(calendar)]
        BY <2>1, <2>4 DEF Searches
      <3>2. calendar'.mount = calendar.mount
        BY <1>0, <3>1 DEF Calendars
      <3> QED BY <2>2, <3>1, <3>2, TypedOK
    <2>5. CASE ClearsFilters
      <3>1. calendar' = [calendar EXCEPT !.filter = None]
        BY <2>5 DEF ClearsFilters
      <3>2. calendar'.mount = calendar.mount
        BY <1>0, <3>1 DEF Calendars
      <3> QED BY <3>1, <3>2, FilterOK
    <2> QED BY <1>9, <2>3, <2>4, <2>5 DEF Narrows
  <1>10. ASSUME AddExistingTasks
         PROVE  CalendarOK(calendar') /\ calendar'.mount = calendar.mount
    <2>1. calendar' = [calendar EXCEPT !.adding = TRUE]
      BY <1>10 DEF AddExistingTasks
    <2>2. calendar'.mount = calendar.mount
      BY <1>0, <2>1 DEF Calendars
    <2>3. PICK b \in BOOLEAN : b = TRUE
      OBVIOUS
    <2> QED BY <2>1, <2>2, <2>3, AddingOK
  <1>11. ASSUME AskDelete
         PROVE  CalendarOK(calendar') /\ calendar'.mount = calendar.mount
    <2>1. calendar' = [calendar EXCEPT !.asking = calendar.detail.id] /\ calendar.detail # None
      BY <1>11 DEF AskDelete, AtDetail
    <2>2. calendar'.mount = calendar.mount
      BY <1>0, <2>1 DEF Calendars
    <2> QED BY <1>0, <2>1, <2>2, AskingOK, DetailTypes
  <1> QED
    <2>1. ASSUME NEW e \in Event, OpenEvent(e) \/ FollowLink(e)
          PROVE  CalendarOK(calendar') /\ calendar'.mount = calendar.mount
      BY <1>2, <1>3, <2>1
    <2>2. ASSUME NEW t \in Task, PickTask(t) \/ \E e \in Event \cup {None} : ItemCloses(t, e)
          PROVE  CalendarOK(calendar') /\ calendar'.mount = calendar.mount
      BY <1>4, <1>5, <2>2
    <2> QED BY <1>00, <1>1, <1>6, <1>7, <1>8, <1>9, <1>10, <1>11, <2>1, <2>2 DEF CalendarUser

LEMMA AnswersKeepCalendar ==
  ASSUME EventTypes, CalendarOK(calendar), CalendarAnswers
  PROVE  CalendarOK(calendar') /\ calendar'.mount = calendar.mount
  <1>0. calendar \in Calendars /\ calendar.mount \in Nat
    BY CalendarTypes DEF CalendarOK
  <1>1. ASSUME NEW q, IsEventRead(q, calendar.mount), NEW g \in Grids, GridEnds(q, g)
        PROVE  CalendarOK(calendar') /\ calendar'.mount = calendar.mount
    <2>1. PICK c \in Calendars : c = [calendar EXCEPT !.grid = g] /\ c.mount = calendar.mount /\ CalendarOK(c)
      BY <1>0, GridOK, GridSet
    <2>2. CASE q.then = None
      BY <1>1, <2>1, <2>2 DEF GridEnds
    <2>3. CASE q.then # None
      <3>1. calendar' = Turning(c, q.then) /\ q.then \in Event
        BY <1>0, <1>1, <2>1, <2>3, ReadTypes DEF GridEnds
      <3> QED BY <2>1, <3>1, TurningOK, Turnings
    <2> QED BY <2>2, <2>3
  <1>2. ASSUME NEW q, IsEventRead(q, calendar.mount), q.of = "detail", q.got # None, DetailEnds(q)
        PROVE  CalendarOK(calendar') /\ calendar'.mount = calendar.mount
    <2>1. PICK r \in EventRows : r = q.got /\ r.id = q.id /\ r # None
      BY <1>0, <1>2, ReadTypes
    <2>2. calendar' = [calendar EXCEPT !.detail = r, !.late = @ \/ calendar.opened # r.id,
                              !.turned = @ \/ ((calendar.opened # r.id \/ (calendar.detail # None /\ calendar.detail.id # r.id))
                                               /\ calendar.picked # {})]
      BY <1>2, <2>1 DEF DetailEnds
    <2>3. calendar'.mount = calendar.mount
      BY <1>0, <2>2 DEF Calendars
    <2> QED BY <2>1, <2>2, <2>3, DetailOK
  <1>3. ASSUME NEW q \in eventReads, EventArrives(q)
        PROVE  CalendarOK(calendar') /\ calendar'.mount = calendar.mount
    <2>1. IsEventRead(q, calendar.mount)
      BY DEF EventTypes, EventReadTypes
    <2>2. q.of \in {"grid", "detail"} /\ (q.of = "grid" => q.got \in Grids)
      BY <1>0, <2>1, ReadTypes DEF Kinds
    <2>3. CASE calendar' = calendar
      BY <2>3
    <2>4. CASE calendar' # calendar
      <3>1. (q.of = "detail" => q.got # None) /\ (IF q.of = "grid" THEN GridEnds(q, q.got) ELSE DetailEnds(q))
        BY <1>3, <2>4 DEF EventArrives
      <3> QED BY <1>1, <1>2, <2>1, <2>2, <3>1
    <2> QED BY <2>3, <2>4
  <1>4. ASSUME NEW q \in eventReads, EventFails(q)
        PROVE  CalendarOK(calendar') /\ calendar'.mount = calendar.mount
    <2>1. IsEventRead(q, calendar.mount)
      BY DEF EventTypes, EventReadTypes
    <2>2. None \in Grids
      BY DEF Grids
    <2>3. CASE calendar' = calendar
      BY <2>3
    <2>4. CASE calendar' = [calendar EXCEPT !.mode = "list", !.turned = @ \/ calendar.picked # {}]
      <3>1. calendar'.mount = calendar.mount
        BY <1>0, <2>4 DEF Calendars
      <3> QED BY <2>4, <3>1, BroughtBackOK
    <2>5. CASE GridEnds(q, None)
      BY <1>1, <2>1, <2>2, <2>5
    <2> QED BY <1>4, <2>3, <2>4, <2>5 DEF EventFails
  <1>5. ASSUME NEW w, EventDeleted(w)
        PROVE  CalendarOK(calendar') /\ calendar'.mount = calendar.mount
    <2>1. calendar' = calendar \/ calendar' = ListMode(calendar)
      BY <1>5 DEF EventDeleted
    <2> QED BY <1>0, <2>1, ListModeOK, ListModes
  <1>6. ASSUME NEW w \in eventWrites, TasksAdded(w)
        PROVE  CalendarOK(calendar') /\ calendar'.mount = calendar.mount
    <2>1. w.id \in Event
      BY <1>6, WriteTypes DEF TasksAdded, EventTypes, EventWriteTypes
    <2>2. \/ calendar' = calendar
          \/ calendar' = Opening([calendar EXCEPT !.adding = FALSE, !.picked = {}, !.turned = FALSE], w.id)
      BY <1>6 DEF TasksAdded
    <2> QED BY <2>1, <2>2, AddedOK
  <1>7. ASSUME NEW w, NEW rest, AddFailed(w, rest)
        PROVE  CalendarOK(calendar') /\ calendar'.mount = calendar.mount
    <2>1. calendar' = calendar \/ calendar' = [calendar EXCEPT !.adding = FALSE]
      BY <1>7 DEF AddFailed
    <2>2. PICK b \in BOOLEAN : b = FALSE
      OBVIOUS
    <2>3. calendar'.mount = calendar.mount
      BY <1>0, <2>1 DEF Calendars
    <2> QED BY <2>1, <2>2, <2>3, AddingOK
  <1>8. CASE SearchApplies
    <2>1. calendar' = [calendar EXCEPT !.filter = calendar.typed, !.typed = None, !.late = @ \/ calendar.typed # calendar.opened]
      BY <1>8 DEF SearchApplies
    <2>2. calendar'.mount = calendar.mount
      BY <1>0, <2>1 DEF Calendars
    <2> QED BY <2>1, <2>2, AppliedOK
  <1>9. ASSUME NEW w, NEW t, NEW lost, TaskRefused(w, t) \/ TaskAdded(w, t, lost)
        PROVE  CalendarOK(calendar') /\ calendar'.mount = calendar.mount
    BY <1>7, <1>9 DEF TaskRefused, TaskAdded
  <1>10. ASSUME NEW q \in eventReads, EventArrives(q) \/ EventFails(q)
         PROVE  CalendarOK(calendar') /\ calendar'.mount = calendar.mount
    BY <1>3, <1>4, <1>10
  <1>11. ASSUME NEW w \in eventWrites, \/ EventDeleted(w) \/ TasksAdded(w)
                                      \/ \E t \in Task : TaskRefused(w, t) \/ \E lost \in BOOLEAN : TaskAdded(w, t, lost)
         PROVE  CalendarOK(calendar') /\ calendar'.mount = calendar.mount
    BY <1>5, <1>6, <1>9, <1>11
  <1> QED BY <1>8, <1>10, <1>11 DEF CalendarAnswers

LEMMA CalendarKept ==
  ASSUME EventTypes, CalendarOK(calendar), EventsUser \/ EventsAnswers
  PROVE  CalendarOK(calendar') /\ calendar'.mount \in Nat /\ calendar.mount <= calendar'.mount
  <1>1. calendar.mount \in Nat
    BY CalendarTypes DEF CalendarOK
  <1> QED BY <1>1, CalendarSteps, StaysLeaves, UserKeepsCalendar, AnswersKeepCalendar
-----------------------------------------------------------------------------
(* The types are kept.                                                     *)
LEMMA WithoutTypes ==
  ASSUME EventServerTypes, NEW e, Without(e)
  PROVE  EventServerTypes'
  <1>1. events' = [x \in DOMAIN events \ {e} |-> events[x]]
    BY DEF Without, Restrict
  <1>2. events' \in [DOMAIN events \ {e} -> Nat] /\ DOMAIN events \ {e} \in SUBSET Event
    BY <1>1, EventsPlanned
  <1>3. eventOf' \in [Task -> Event \cup {None}]
    BY DEF Without, EventServerTypes
  <1> QED BY <1>2, <1>3 DEF EventServerTypes

LEMMA WrittenTypes ==
  ASSUME EventServerTypes, NEW w, IsEventWrite(w), EventWritten(w)
  PROVE  EventServerTypes' /\ \A v \in eventWrites' : v \in eventWrites \/ IsEventWrite(v)
  <1>1. w.kind # "add" /\ w.kind \in {"save", "delete"}
    BY WriteTypes DEF EventWritten
  <1>2. PICK how \in {"ok", "lost"} :
          \/ /\ w.kind = "save" /\ w.id = None
             /\ \E e \in Event \ everPlanned :
                  /\ events' = Put(events, e, 0) /\ everPlanned' = everPlanned \cup {e} /\ UNCHANGED eventOf
                  /\ eventWrites' = (eventWrites \ {w}) \cup {[w EXCEPT !.answer = how, !.id = e]}
          \/ /\ w.id \in DOMAIN events
             /\ \/ /\ w.kind = "save" /\ events[w.id] < MaxEdits
                   /\ events' = [events EXCEPT ![w.id] = @ + 1] /\ UNCHANGED <<everPlanned, eventOf>>
                \/ w.kind = "delete" /\ Without(w.id)
             /\ eventWrites' = (eventWrites \ {w}) \cup {[w EXCEPT !.answer = how]}
    BY DEF EventWritten
  <1>3. ASSUME NEW e \in Event, events' = Put(events, e, 0), UNCHANGED eventOf,
               eventWrites' = (eventWrites \ {w}) \cup {[w EXCEPT !.answer = how, !.id = e]}
        PROVE  EventServerTypes' /\ \A v \in eventWrites' : v \in eventWrites \/ IsEventWrite(v)
    <2>1. events' \in [DOMAIN events \cup {e} -> Nat] /\ DOMAIN events \cup {e} \in SUBSET Event
      BY <1>3, EventsPlanned DEF Put
    <2>2. EventServerTypes'
      BY <1>3, <2>1 DEF EventServerTypes
    <2>3. IsEventWrite([w EXCEPT !.answer = how, !.id = e])
      BY <1>1, WriteChanged
    <2> QED BY <1>3, <2>2, <2>3
  <1>4. ASSUME w.id \in DOMAIN events, eventWrites' = (eventWrites \ {w}) \cup {[w EXCEPT !.answer = how]}
        PROVE  \A v \in eventWrites' : v \in eventWrites \/ IsEventWrite(v)
    <2>1. w.id \in Event
      BY <1>4, EventsPlanned
    <2>2. IsEventWrite([w EXCEPT !.answer = how])
      BY <1>1, <2>1, WriteChanged
    <2> QED BY <1>4, <2>2
  <1>5. ASSUME w.id \in DOMAIN events, events' = [events EXCEPT ![w.id] = @ + 1], UNCHANGED eventOf
        PROVE  EventServerTypes'
    <2>1. events' \in [DOMAIN events -> Nat] /\ DOMAIN events \in SUBSET Event
      BY <1>5, EventsPlanned
    <2> QED BY <1>5, <2>1 DEF EventServerTypes
  <1> QED BY <1>2, <1>3, <1>4, <1>5, WithoutTypes

LEMMA AddFailedTypes ==
  ASSUME NEW w, IsEventWrite(w), w.kind = "add", NEW rest \in SUBSET Task, AddFailed(w, rest)
  PROVE  \A v \in eventWrites' : v \in eventWrites \/ IsEventWrite(v)
  <1>1. IsEventWrite([w EXCEPT !.left = rest, !.answer = "failed"])
    BY WriteChanged
  <1>2. eventWrites' = (eventWrites \ {w}) \cup (IF rest = {} THEN {} ELSE {[w EXCEPT !.left = rest, !.answer = "failed"]})
    BY DEF AddFailed
  <1> QED BY <1>1, <1>2

LEMMA TaskAddedTypes ==
  ASSUME EventServerTypes, NEW w, IsEventWrite(w), NEW t \in Task, NEW lost, TaskAdded(w, t, lost)
  PROVE  EventServerTypes' /\ \A v \in eventWrites' : v \in eventWrites \/ IsEventWrite(v)
  <1>1. w.kind = "add" /\ w.id \in Event /\ w.left \subseteq Task
    BY WriteTypes DEF TaskAdded
  <1>2. EventServerTypes'
    BY <1>1 DEF TaskAdded, EventServerTypes
  <1>3. PICK S \in SUBSET Task : S = w.left \ {t}
    BY <1>1
  <1>4. CASE AddFailed(w, S)
    BY <1>1, <1>2, <1>4, AddFailedTypes
  <1>5. CASE eventWrites' = (eventWrites \ {w}) \cup (IF w.left = {t} /\ w.answer = "failed" THEN {} ELSE {[w EXCEPT !.left = @ \ {t}]})
    <2>1. [w EXCEPT !.left = @ \ {t}] = [w EXCEPT !.left = S]
      BY <1>3 DEF IsEventWrite, EventWritings
    <2>2. IsEventWrite([w EXCEPT !.left = @ \ {t}])
      BY <1>1, <2>1, WriteChanged
    <2> QED BY <1>2, <1>5, <2>2
  <1> QED BY <1>3, <1>4, <1>5 DEF TaskAdded

LEMMA EventServerKept ==
  ASSUME EventTypes, EventsUser \/ EventsAnswers
  PROVE  EventServerTypes'
  <1>0. EventServerTypes /\ \A w \in eventWrites : IsEventWrite(w)
    BY DEF EventTypes, EventWriteTypes
  <1>1. ASSUME UNCHANGED server PROVE EventServerTypes'
    BY <1>0, <1>1 DEF EventServerTypes, server
  <1>2. CASE EventsUser
    <2>1. ASSUME NEW t \in Task, NEW e \in Event \cup {None}, ItemCloses(t, e) PROVE EventServerTypes'
      BY <1>0, <2>1 DEF ItemCloses, EventServerTypes
    <2>2. CASE OthersDelete
      BY <1>0, <2>2, WithoutTypes DEF OthersDelete
    <2>3. ASSUME \/ \E e \in Event \cup {None} : EnterView(e)
                 \/ \E e \in Event : OpenEvent(e) \/ FollowLink(e)
                 \/ \E t \in Task : PickTask(t)
                 \/ \E yes \in BOOLEAN : AnswerDelete(yes)
                 \/ LeaveView \/ Back \/ EventsPoll \/ Narrows \/ Drafts \/ AddExistingTasks \/ SubmitEvent \/ AskDelete
          PROVE  UNCHANGED server
      BY <2>3 DEF EnterView, OpenEvent, FollowLink, PickTask, AnswerDelete, LeaveView, Back, EventsPoll, Narrows, Drafts,
         AddExistingTasks, SubmitEvent, AskDelete, Stays
    <2> QED BY <1>1, <1>2, <2>1, <2>2, <2>3 DEF EventsUser
  <1>3. CASE EventsAnswers
    <2>1. ASSUME NEW q, EventServed(q) \/ EventArrives(q) \/ EventFails(q) PROVE UNCHANGED server
      BY <2>1 DEF EventServed, EventArrives, EventFails
    <2>2. ASSUME NEW w, NEW t, \/ EventNotWritten(w) \/ EventSaved(w) \/ EventDeleted(w) \/ TasksAdded(w) \/ TaskRefused(w, t)
          PROVE  UNCHANGED server
      BY <2>2 DEF EventNotWritten, EventSaved, EventDeleted, TasksAdded, TaskRefused
    <2>3. CASE SearchApplies
      BY <1>1, <2>3 DEF SearchApplies, Stays
    <2>4. ASSUME NEW w \in eventWrites, EventWritten(w) PROVE EventServerTypes'
      BY <1>0, <2>4, WrittenTypes
    <2>5. ASSUME NEW w \in eventWrites, NEW t \in Task, NEW lost \in BOOLEAN, TaskAdded(w, t, lost) PROVE EventServerTypes'
      BY <1>0, <2>5, TaskAddedTypes
    <2> QED BY <1>1, <1>3, <2>1, <2>2, <2>3, <2>4, <2>5 DEF EventsAnswers
  <1> QED BY <1>2, <1>3

LEMMA EventWritesKept ==
  ASSUME EventTypes, EventsUser \/ EventsAnswers
  PROVE  EventWriteTypes'
  <1>0. /\ EventServerTypes /\ EventViewTypes /\ calendar \in Calendars /\ \A w \in eventWrites : IsEventWrite(w)
        /\ eventForm.id \in Event \cup {None}
    BY DEF EventTypes, EventWriteTypes, EventViewTypes
  <1>1. SUFFICES \A v \in eventWrites' : v \in eventWrites \/ IsEventWrite(v)
    BY <1>0 DEF EventWriteTypes
  <1>2. CASE EventsUser
    <2>1. CASE AddExistingTasks
      <3>1. eventWrites' = eventWrites \cup {Writing("add", calendar.detail.id, {x.task : x \in calendar.picked}, TRUE)}
            /\ calendar.detail # None
        BY <2>1 DEF AddExistingTasks, AtDetail
      <3>2. calendar.detail.id \in Event /\ {x.task : x \in calendar.picked} \in SUBSET Task
        BY <1>0, <3>1, DetailTypes, CalendarTypes
      <3>3. PICK b \in BOOLEAN : b = TRUE
        OBVIOUS
      <3>4. IsEventWrite(Writing("add", calendar.detail.id, {x.task : x \in calendar.picked}, TRUE))
        BY <1>0, <3>2, <3>3, Writings
      <3> QED BY <3>1, <3>4
    <2>2. CASE SubmitEvent
      <3>1. PICK b \in BOOLEAN : b = (calendar.detail = None \/ (AtDetail /\ calendar.detail.id = eventForm.id))
        OBVIOUS
      <3>2. eventWrites' = eventWrites \cup {Writing("save", eventForm.id, {}, b)}
        BY <2>2, <3>1 DEF SubmitEvent
      <3>3. PICK i \in Event \cup {None} : i = eventForm.id
        BY <1>0
      <3>4. {} \in SUBSET Task
        OBVIOUS
      <3>5. IsEventWrite(Writing("save", i, {}, b))
        BY <1>0, <3>4, Writings
      <3> QED BY <3>2, <3>3, <3>5
    <2>3. ASSUME NEW yes \in BOOLEAN, AnswerDelete(yes)
          PROVE  \A v \in eventWrites' : v \in eventWrites \/ IsEventWrite(v)
      <3>1. calendar.asking # None /\ eventWrites' = eventWrites \cup (IF yes THEN {Writing("delete", calendar.asking, {}, FALSE)} ELSE {})
        BY <2>3 DEF AnswerDelete
      <3>2. PICK i \in Event : i = calendar.asking
        BY <1>0, <3>1, CalendarTypes
      <3>3. PICK b \in BOOLEAN : b = FALSE
        OBVIOUS
      <3>4. {} \in SUBSET Task /\ i \in Event \cup {None}
        OBVIOUS
      <3>5. IsEventWrite(Writing("delete", i, {}, b))
        BY <1>0, <3>4, Writings
      <3> QED BY <3>1, <3>2, <3>3, <3>5
    <2>4. ASSUME \/ \E e \in Event \cup {None} : EnterView(e)
                 \/ \E e \in Event : OpenEvent(e) \/ FollowLink(e)
                 \/ \E t \in Task : PickTask(t) \/ \E e \in Event \cup {None} : ItemCloses(t, e)
                 \/ LeaveView \/ Back \/ EventsPoll \/ Narrows \/ Drafts \/ AskDelete \/ OthersDelete
          PROVE  eventWrites' = eventWrites
      BY <2>4 DEF EnterView, OpenEvent, FollowLink, PickTask, LeaveView, Back, EventsPoll, Narrows, Drafts,
         AskDelete, ItemCloses, OthersDelete, Stays
    <2> QED BY <1>2, <2>1, <2>2, <2>3, <2>4 DEF EventsUser
  <1>3. CASE EventsAnswers
    <2>1. ASSUME NEW q, EventServed(q) \/ EventArrives(q) \/ EventFails(q) PROVE eventWrites' = eventWrites
      BY <2>1 DEF EventServed, EventArrives, EventFails
    <2>2. ASSUME NEW w, \/ EventNotWritten(w) \/ EventSaved(w) \/ EventDeleted(w) \/ TasksAdded(w)
          PROVE  eventWrites' = eventWrites \ {w}
      BY <2>2 DEF EventNotWritten, EventSaved, EventDeleted, TasksAdded
    <2>3. CASE SearchApplies
      BY <2>3 DEF SearchApplies, Stays
    <2>4. ASSUME NEW w \in eventWrites, EventWritten(w) PROVE \A v \in eventWrites' : v \in eventWrites \/ IsEventWrite(v)
      BY <1>0, <2>4, WrittenTypes
    <2>5. ASSUME NEW w \in eventWrites, NEW t \in Task, NEW lost \in BOOLEAN, TaskAdded(w, t, lost)
          PROVE  \A v \in eventWrites' : v \in eventWrites \/ IsEventWrite(v)
      BY <1>0, <2>5, TaskAddedTypes
    <2>6. ASSUME NEW w \in eventWrites, NEW t \in Task, TaskRefused(w, t)
          PROVE  \A v \in eventWrites' : v \in eventWrites \/ IsEventWrite(v)
      <3>1. w.kind = "add" /\ AddFailed(w, w.left \ {t}) /\ IsEventWrite(w)
        BY <1>0, <2>6 DEF TaskRefused
      <3>2. PICK S \in SUBSET Task : S = w.left \ {t}
        BY <3>1, WriteTypes
      <3> QED BY <3>1, <3>2, AddFailedTypes
    <2> QED BY <1>3, <2>1, <2>2, <2>3, <2>4, <2>5, <2>6 DEF EventsAnswers
  <1> QED BY <1>2, <1>3

\* Every load is an earlier one, or as a load of the view is.
LEMMA ReadsAdded ==
  ASSUME EventTypes, EventsUser \/ EventsAnswers, \A e \in Event \cup {None} : ~EnterView(e)
  PROVE  \A q \in eventReads' : q \in eventReads \/ IsEventRead(q, calendar.mount)
  <1>0. /\ EventServerTypes /\ EventViewTypes /\ calendar \in Calendars /\ calendar.mount \in Nat
        /\ \A q \in eventReads : IsEventRead(q, calendar.mount)
    BY CalendarTypes DEF EventTypes, EventReadTypes, EventViewTypes
  <1>1. ASSUME NEW others \in SUBSET eventReads, NEW r, IsEventRead(r, calendar.mount), Begins(others, {r})
        PROVE  \A q \in eventReads' : q \in eventReads \/ IsEventRead(q, calendar.mount)
    BY <1>1 DEF Begins
  <1>2. ASSUME NEW others \in SUBSET eventReads, Begins(others, {})
        PROVE  \A q \in eventReads' : q \in eventReads \/ IsEventRead(q, calendar.mount)
    BY <1>2 DEF Begins
  <1>3. ASSUME NEW others \in SUBSET eventReads, NEW e \in Event, Begins(others, {DetailRead(e)})
        PROVE  \A q \in eventReads' : q \in eventReads \/ IsEventRead(q, calendar.mount)
    BY <1>0, <1>1, <1>3, DetailReads
  <1>4. eventReads \in SUBSET eventReads
    OBVIOUS
  <1>5. CASE EventsUser
    <2>1. ASSUME NEW e \in Event, OpenEvent(e) \/ FollowLink(e)
          PROVE  \A q \in eventReads' : q \in eventReads \/ IsEventRead(q, calendar.mount)
      BY <1>3, <1>4, <2>1 DEF OpenEvent, FollowLink
    <2>2. ASSUME NEW t \in Task, NEW e \in Event \cup {None}, ItemCloses(t, e)
          PROVE  \A q \in eventReads' : q \in eventReads \/ IsEventRead(q, calendar.mount)
      <3>1. calendar.detail # None /\ Begins(eventReads, {DetailRead(calendar.detail.id)})
        BY <2>2 DEF ItemCloses, AtDetail
      <3> QED BY <1>0, <1>3, <1>4, <3>1, DetailTypes
    <2>3. CASE Back
      BY <1>0, <1>1, <1>4, <2>3, GridReads DEF Back
    <2>4. CASE EventsPoll
      <3>1. CASE AtDetail
        <4>1. Begins(eventReads, {Reading("detail", calendar.detail.id, "poll", None)}) /\ calendar.detail # None
          BY <2>4, <3>1 DEF EventsPoll, AtDetail
        <4>2. PICK of \in Kinds, i \in Event \cup {None}, how \in {"open", "poll"}, x \in Event \cup {None} :
                of = "detail" /\ i = calendar.detail.id /\ i \in Event /\ how = "poll" /\ x = None
          BY <1>0, <4>1, DetailTypes DEF Kinds
        <4>3. IsEventRead(Reading(of, i, how, x), calendar.mount)
          BY <1>0, <4>2, Readings
        <4> QED BY <1>1, <1>4, <4>1, <4>2, <4>3
      <3>2. CASE ~AtDetail
        <4>1. Begins(eventReads, {GridRead})
          BY <2>4, <3>2 DEF EventsPoll
        <4> QED BY <1>0, <1>1, <1>4, <4>1, GridReads
      <3> QED BY <3>1, <3>2
    <2>5. ASSUME \/ \E t \in Task : PickTask(t)
                 \/ \E yes \in BOOLEAN : AnswerDelete(yes)
                 \/ LeaveView \/ Narrows \/ Drafts \/ AddExistingTasks \/ SubmitEvent \/ AskDelete \/ OthersDelete
          PROVE  eventReads' = eventReads
      BY <2>5 DEF PickTask, AnswerDelete, LeaveView, Narrows, Drafts, AddExistingTasks, SubmitEvent, AskDelete, OthersDelete
    <2> QED BY <1>5, <2>1, <2>2, <2>3, <2>4, <2>5 DEF EventsUser
  <1>6. CASE EventsAnswers
    <2>1. ASSUME NEW q \in eventReads, EventServed(q)
          PROVE  \A r \in eventReads' : r \in eventReads \/ IsEventRead(r, calendar.mount)
      <3>1. PICK g : g = IF q.of = "grid" THEN [e \in DOMAIN events |-> EventRow(e)]
                         ELSE IF q.id \in DOMAIN events THEN EventRow(q.id) ELSE None
        OBVIOUS
      <3>2. eventReads' = (eventReads \ {q}) \cup {[q EXCEPT !.served = TRUE, !.got = g]}
        BY <2>1, <3>1 DEF EventServed
      <3>3. IsEventRead([q EXCEPT !.served = TRUE, !.got = g], calendar.mount)
        BY <1>0, <3>1, ServedReads
      <3> QED BY <3>2, <3>3
    <2>2. ASSUME NEW q \in eventReads, NEW g, GridEnds(q, g)
          PROVE  \A r \in eventReads' : r \in eventReads \/ IsEventRead(r, calendar.mount)
      <3>1. q.then \in Event \cup {None} /\ eventReads \ {q} \in SUBSET eventReads
        BY <1>0, ReadTypes
      <3> QED BY <1>2, <1>3, <2>2, <3>1 DEF GridEnds
    <2>3. ASSUME NEW q \in eventReads, EventArrives(q) \/ EventFails(q)
          PROVE  \A r \in eventReads' : r \in eventReads \/ IsEventRead(r, calendar.mount)
      <3>1. eventReads \ {q} \in SUBSET eventReads
        OBVIOUS
      <3>2. CASE EventArrives(q)
        <4>1. eventReads' = eventReads \ {q} \/ GridEnds(q, q.got) \/ Begins(eventReads \ {q}, {})
          BY <3>2 DEF EventArrives, DetailEnds
        <4> QED BY <1>2, <2>2, <3>1, <4>1
      <3>3. CASE EventFails(q)
        <4>1. eventReads' = eventReads \ {q} \/ GridEnds(q, None)
          BY <3>3 DEF EventFails
        <4> QED BY <2>2, <4>1
      <3> QED BY <2>3, <3>2, <3>3
    <2>4. ASSUME NEW w \in eventWrites, EventSaved(w)
          PROVE  \A r \in eventReads' : r \in eventReads \/ IsEventRead(r, calendar.mount)
      <3>1. w.id \in Event
        BY <2>4, WriteTypes DEF EventSaved, EventTypes, EventWriteTypes
      <3>2. \/ eventReads' = eventReads \/ eventReads' = eventReads \cup {GridRead}
            \/ Begins(eventReads, {Reading("grid", None, "open", w.id)})
        BY <2>4 DEF EventSaved
      <3>3. PICK of \in Kinds, i \in Event \cup {None}, how \in {"open", "poll"}, x \in Event \cup {None} :
                of = "grid" /\ of # "detail" /\ i = None /\ how = "open" /\ x = w.id
        BY <3>1 DEF Kinds
      <3>4. IsEventRead(Reading(of, i, how, x), calendar.mount)
        BY <1>0, <3>3, Readings
      <3>5. IsEventRead(Reading("grid", None, "open", w.id), calendar.mount)
        BY <3>3, <3>4
      <3> QED BY <1>0, <1>1, <1>4, <3>2, <3>5, GridReads
    <2>5. ASSUME NEW w \in eventWrites, EventDeleted(w)
          PROVE  \A r \in eventReads' : r \in eventReads \/ IsEventRead(r, calendar.mount)
      <3>1. eventReads' = eventReads \/ Begins(eventReads, {GridRead})
        BY <2>5 DEF EventDeleted
      <3> QED BY <1>0, <1>1, <1>4, <3>1, GridReads
    <2>6. ASSUME NEW w \in eventWrites, TasksAdded(w)
          PROVE  \A r \in eventReads' : r \in eventReads \/ IsEventRead(r, calendar.mount)
      <3>1. w.id \in Event
        BY <2>6, WriteTypes DEF TasksAdded, EventTypes, EventWriteTypes
      <3>2. eventReads' = eventReads \/ Begins(eventReads, {DetailRead(w.id)})
        BY <2>6 DEF TasksAdded
      <3> QED BY <1>3, <1>4, <3>1, <3>2
    <2>7. ASSUME NEW w, NEW t, NEW lost, \/ EventWritten(w) \/ EventNotWritten(w) \/ TaskRefused(w, t) \/ TaskAdded(w, t, lost)
          PROVE  eventReads' = eventReads
      BY <2>7 DEF EventWritten, EventNotWritten, TaskRefused, TaskAdded
    <2>8. CASE SearchApplies
      BY <2>8 DEF SearchApplies
    <2> QED BY <1>6, <2>1, <2>3, <2>4, <2>5, <2>6, <2>7, <2>8 DEF EventsAnswers
  <1> QED BY <1>5, <1>6

LEMMA EventReadsKept ==
  ASSUME EventTypes, CalendarOK(calendar), EventsUser \/ EventsAnswers
  PROVE  EventReadTypes'
  <1>0. /\ EventViewTypes /\ calendar.mount \in Nat /\ calendar'.mount \in Nat /\ calendar.mount <= calendar'.mount
        /\ \A q \in eventReads : IsEventRead(q, calendar.mount)
    BY CalendarTypes, CalendarKept DEF EventTypes, EventReadTypes, EventViewTypes
  <1>1. CASE \A e \in Event \cup {None} : ~EnterView(e)
    <2>1. \A q \in eventReads' : IsEventRead(q, calendar.mount)
      BY <1>0, <1>1, ReadsAdded
    <2> QED BY <1>0, <2>1, OlderReads DEF EventReadTypes
  <1>2. ASSUME NEW e \in Event \cup {None}, EnterView(e) PROVE EventReadTypes'
    <2> DEFINE of(q) == [q EXCEPT !.mount = calendar.mount + 1]
    <2>1. calendar'.mount = calendar.mount + 1
      BY <1>2, Entered DEF EventTypes, EventViewTypes
    <2>2. ASSUME NEW r, IsEventRead(r, calendar.mount) PROVE IsEventRead(of(r), calendar'.mount)
      <3> DEFINE s == of(r)
      <3>1. /\ s.of = r.of /\ s.id = r.id /\ s.then = r.then /\ s.got = r.got /\ s.mount = calendar.mount + 1
            /\ s \in [n : {s.n}, of : Kinds, id : Event \cup {None}, how : {"open", "poll"}, then : Event \cup {None},
                      mount : Nat, served : BOOLEAN, got : Grids \cup EventRows]
        BY <1>0, <2>2 DEF IsEventRead
      <3> HIDE DEF s
      <3>2. IsEventRead(s, calendar'.mount)
        BY <1>0, <2>1, <2>2, <3>1 DEF IsEventRead
      <3> QED BY <3>2 DEF s
    <2>3. eventReads' = eventReads \cup {of(GridRead)} \cup (IF e = None THEN {} ELSE {of(DetailRead(e))})
      BY <1>2 DEF EnterView
    <2> HIDE DEF of
    <2>4. IsEventRead(of(GridRead), calendar'.mount) /\ (e # None => IsEventRead(of(DetailRead(e)), calendar'.mount))
      BY <1>0, <2>2, GridReads, DetailReads
    <2> QED BY <1>0, <2>3, <2>4, OlderReads DEF EventReadTypes
  <1> QED BY <1>1, <1>2
-----------------------------------------------------------------------------
(* What is shown follows the server.                                       *)
RowIn(es, eo, e) == [id |-> e, ver |-> es[e], tasks |-> {t \in Task : eo[t] = e}]
RowsIn(es, eo) == [e \in DOMAIN es |-> RowIn(es, eo, e)]

\* A write of the view has been carried out, or will be, and the page will ask again.
PageReloads(c, writes) ==
    \E w \in writes : /\ w.mount = c.mount /\ c.mode # "away"
                      /\ IF w.kind = "add" THEN w.answer = "none" ELSE w.answer = "ok"

Live(c, q, k) == q.mount = c.mount /\ q.of = k

DetailIsNow(c, es, eo) ==
    c.detail # None /\ c.detail.id \in DOMAIN es /\ c.detail = RowIn(es, eo, c.detail.id)

\* Every answer on its way is the server's present one, and if there is none
\* on its way, so is what the page shows.
DetailFollows(c, es, eo, reads, writes, v) ==
    c.mode = "detail" /\ "detail" \notin v =>
       \/ PageReloads(c, writes)
       \/ \E q \in reads : Live(c, q, "grid") /\ q.then # None
       \/ /\ \A q \in reads : Live(c, q, "detail") /\ q.served =>
                 q.got = IF q.id \in DOMAIN es THEN RowIn(es, eo, q.id) ELSE None
          /\ (\A q \in reads : ~Live(c, q, "detail")) => DetailIsNow(c, es, eo)

GridFollows(c, es, eo, reads, writes, v) ==
    c.mode = "list" /\ "grid" \notin v =>
       \/ PageReloads(c, writes)
       \/ /\ \A q \in reads : Live(c, q, "grid") /\ q.served => q.got = RowsIn(es, eo)
          /\ (\A q \in reads : ~Live(c, q, "grid")) => c.grid \in {None, RowsIn(es, eo)}

Follows(c, es, eo, reads, writes, v) ==
    DetailFollows(c, es, eo, reads, writes, v) /\ GridFollows(c, es, eo, reads, writes, v)

EventFollows == Follows(calendar, events, eventOf, eventReads, eventWrites, vague)
EventFollowsNext == Follows(calendar', events', eventOf', eventReads', eventWrites', vague')

LEMMA VagueFollows ==
  ASSUME NEW c, NEW es, NEW eo, NEW reads, NEW writes
  PROVE  Follows(c, es, eo, reads, writes, Kinds)
  BY DEF Follows, DetailFollows, GridFollows, Kinds

LEMMA AwayFollows ==
  ASSUME NEW c, NEW es, NEW eo, NEW reads, NEW writes, NEW v, c.mode \notin {"detail", "list"}
  PROVE  Follows(c, es, eo, reads, writes, v)
  BY DEF Follows, DetailFollows, GridFollows

\* A page of details, or of the list, that has just asked for what it shows.
LEMMA DetailAskedFollows ==
  ASSUME NEW c, NEW es, NEW eo, NEW others, NEW writes, NEW v, NEW r,
         c.mode = "detail", r.of = "detail", r.mount = c.mount, ~r.served,
         "detail" \notin v => \A o \in others : o.of # "detail"
  PROVE  Follows(c, es, eo, others \cup {r}, writes, v)
  <1>1. DetailFollows(c, es, eo, others \cup {r}, writes, v)
    <2>1. SUFFICES ASSUME "detail" \notin v
                   PROVE  /\ \A q \in others \cup {r} : Live(c, q, "detail") /\ q.served =>
                                q.got = IF q.id \in DOMAIN es THEN RowIn(es, eo, q.id) ELSE None
                          /\ (\A q \in others \cup {r} : ~Live(c, q, "detail")) => DetailIsNow(c, es, eo)
      BY DEF DetailFollows
    <2>2. Live(c, r, "detail") /\ \A q \in others : ~Live(c, q, "detail")
      BY <2>1 DEF Live
    <2> QED BY <2>2
  <1>2. GridFollows(c, es, eo, others \cup {r}, writes, v)
    BY DEF GridFollows
  <1> QED BY <1>1, <1>2 DEF Follows

LEMMA GridAskedFollows ==
  ASSUME NEW c, NEW es, NEW eo, NEW others, NEW writes, NEW v, NEW r,
         c.mode = "list", r.of = "grid", r.mount = c.mount, ~r.served,
         "grid" \notin v => \A o \in others : ~Live(c, o, "grid")
  PROVE  Follows(c, es, eo, others \cup {r}, writes, v)
  <1>1. GridFollows(c, es, eo, others \cup {r}, writes, v)
    <2>1. SUFFICES ASSUME "grid" \notin v
                   PROVE  /\ \A q \in others \cup {r} : Live(c, q, "grid") /\ q.served => q.got = RowsIn(es, eo)
                          /\ (\A q \in others \cup {r} : ~Live(c, q, "grid")) => c.grid \in {None, RowsIn(es, eo)}
      BY DEF GridFollows
    <2>2. Live(c, r, "grid") /\ \A q \in others : ~Live(c, q, "grid")
      BY <2>1 DEF Live
    <2> QED BY <2>2
  <1>2. DetailFollows(c, es, eo, others \cup {r}, writes, v)
    BY DEF DetailFollows
  <1> QED BY <1>1, <1>2 DEF Follows

\* What is neither mode nor mount nor rows does not matter, nor do writes the page waits for.
LEMMA SameFollows ==
  ASSUME NEW c, NEW d, NEW es, NEW eo, NEW reads, NEW writes, NEW others, NEW v, Follows(c, es, eo, reads, writes, v),
         d.mode = c.mode, d.mount = c.mount, d.detail = c.detail, d.grid = c.grid,
         PageReloads(c, writes) => PageReloads(c, others)
  PROVE  Follows(d, es, eo, reads, others, v)
  <1>1. PageReloads(c, others) = PageReloads(d, others)
    BY DEF PageReloads
  <1>2. \A q, k : Live(c, q, k) = Live(d, q, k)
    BY DEF Live
  <1>3. DetailIsNow(c, es, eo) = DetailIsNow(d, es, eo)
    BY DEF DetailIsNow
  <1>4. DetailFollows(d, es, eo, reads, others, v)
    BY <1>1, <1>2, <1>3 DEF Follows, DetailFollows
  <1>5. GridFollows(d, es, eo, reads, others, v)
    BY <1>1, <1>2 DEF Follows, GridFollows
  <1> QED BY <1>4, <1>5 DEF Follows

\* A write the page waits for excuses whatever it shows.
LEMMA PendingFollows ==
  ASSUME NEW c, NEW es, NEW eo, NEW reads, NEW writes, NEW v, PageReloads(c, writes)
  PROVE  Follows(c, es, eo, reads, writes, v)
  BY DEF Follows, DetailFollows, GridFollows

\* An answer that is not for the page is dropped.
LEMMA DroppedFollows ==
  ASSUME NEW c, NEW es, NEW eo, NEW reads, NEW writes, NEW v, NEW q, Follows(c, es, eo, reads, writes, v),
         q.mount # c.mount \/ c.mode = "away"
  PROVE  Follows(c, es, eo, reads \ {q}, writes, v)
  <1>1. CASE c.mode = "away"
    BY <1>1, AwayFollows
  <1>2. CASE q.mount # c.mount
    <2>1. \A k : ~Live(c, q, k)
      BY <1>2 DEF Live
    <2>2. DetailFollows(c, es, eo, reads \ {q}, writes, v)
      BY <2>1 DEF Follows, DetailFollows
    <2>3. GridFollows(c, es, eo, reads \ {q}, writes, v)
      BY <2>1 DEF Follows, GridFollows
    <2> QED BY <2>2, <2>3 DEF Follows
  <1> QED BY <1>1, <1>2

\* An answer is on its way.
LEMMA ServedFollows ==
  ASSUME NEW c, NEW es, NEW eo, NEW reads, NEW writes, NEW v, NEW q \in reads, NEW r, Follows(c, es, eo, reads, writes, v),
         r.mount = q.mount, r.of = q.of, r.id = q.id, r.then = q.then,
         q.of = "grid" => r.got = RowsIn(es, eo),
         q.of = "detail" => r.got = IF q.id \in DOMAIN es THEN RowIn(es, eo, q.id) ELSE None
  PROVE  Follows(c, es, eo, (reads \ {q}) \cup {r}, writes, v)
  <1>1. \A k : Live(c, r, k) = Live(c, q, k)
    BY DEF Live
  <1>2. DetailFollows(c, es, eo, (reads \ {q}) \cup {r}, writes, v)
    <2>1. SUFFICES ASSUME c.mode = "detail", "detail" \notin v, ~PageReloads(c, writes),
                          \A x \in (reads \ {q}) \cup {r} : ~(Live(c, x, "grid") /\ x.then # None)
                   PROVE  /\ \A x \in (reads \ {q}) \cup {r} : Live(c, x, "detail") /\ x.served =>
                                x.got = IF x.id \in DOMAIN es THEN RowIn(es, eo, x.id) ELSE None
                          /\ (\A x \in (reads \ {q}) \cup {r} : ~Live(c, x, "detail")) => DetailIsNow(c, es, eo)
      BY DEF DetailFollows
    <2>2. \A x \in reads : ~(Live(c, x, "grid") /\ x.then # None)
      BY <1>1, <2>1
    <2>3. /\ \A x \in reads : Live(c, x, "detail") /\ x.served =>
                 x.got = IF x.id \in DOMAIN es THEN RowIn(es, eo, x.id) ELSE None
          /\ (\A x \in reads : ~Live(c, x, "detail")) => DetailIsNow(c, es, eo)
      BY <2>1, <2>2 DEF Follows, DetailFollows
    <2>4. Live(c, r, "detail") => r.got = IF r.id \in DOMAIN es THEN RowIn(es, eo, r.id) ELSE None
      BY DEF Live
    <2>5. (\A x \in (reads \ {q}) \cup {r} : ~Live(c, x, "detail")) => (\A x \in reads : ~Live(c, x, "detail"))
      BY <1>1
    <2> QED BY <2>3, <2>4, <2>5
  <1>3. GridFollows(c, es, eo, (reads \ {q}) \cup {r}, writes, v)
    <2>1. SUFFICES ASSUME c.mode = "list", "grid" \notin v, ~PageReloads(c, writes)
                   PROVE  /\ \A x \in (reads \ {q}) \cup {r} : Live(c, x, "grid") /\ x.served => x.got = RowsIn(es, eo)
                          /\ (\A x \in (reads \ {q}) \cup {r} : ~Live(c, x, "grid")) => c.grid \in {None, RowsIn(es, eo)}
      BY DEF GridFollows
    <2>3. /\ \A x \in reads : Live(c, x, "grid") /\ x.served => x.got = RowsIn(es, eo)
          /\ (\A x \in reads : ~Live(c, x, "grid")) => c.grid \in {None, RowsIn(es, eo)}
      BY <2>1 DEF Follows, GridFollows
    <2>4. Live(c, r, "grid") => r.got = RowsIn(es, eo)
      BY DEF Live
    <2>5. (\A x \in (reads \ {q}) \cup {r} : ~Live(c, x, "grid")) => (\A x \in reads : ~Live(c, x, "grid"))
      BY <1>1
    <2> QED BY <2>3, <2>4, <2>5
  <1> QED BY <1>2, <1>3 DEF Follows

\* The list comes, as it was answered, or is blanked.
LEMMA GridShownFollows ==
  ASSUME NEW c, NEW d, NEW es, NEW eo, NEW reads, NEW writes, NEW v, NEW q \in reads, NEW g,
         Follows(c, es, eo, reads, writes, v), q.of = "grid", q.then = None, q.mount = c.mount,
         g = None \/ (q.served /\ g = q.got),
         d.mode = c.mode, d.mount = c.mount, d.detail = c.detail, d.grid = g
  PROVE  Follows(d, es, eo, reads \ {q}, writes, v)
  <1>1. \A x, k : Live(c, x, k) = Live(d, x, k)
    BY DEF Live
  <1>2. PageReloads(c, writes) = PageReloads(d, writes)
    BY DEF PageReloads
  <1>3. DetailIsNow(c, es, eo) = DetailIsNow(d, es, eo)
    BY DEF DetailIsNow
  <1>4. ~Live(c, q, "detail") /\ Live(c, q, "grid")
    BY DEF Live
  <1>5. DetailFollows(d, es, eo, reads \ {q}, writes, v)
    <2>1. SUFFICES ASSUME c.mode = "detail", "detail" \notin v, ~PageReloads(c, writes),
                          \A x \in reads \ {q} : ~(Live(c, x, "grid") /\ x.then # None)
                   PROVE  /\ \A x \in reads \ {q} : Live(c, x, "detail") /\ x.served =>
                                x.got = IF x.id \in DOMAIN es THEN RowIn(es, eo, x.id) ELSE None
                          /\ (\A x \in reads \ {q} : ~Live(c, x, "detail")) => DetailIsNow(c, es, eo)
      BY <1>1, <1>2, <1>3 DEF DetailFollows
    <2>2. \A x \in reads : ~(Live(c, x, "grid") /\ x.then # None)
      BY <2>1
    <2>3. /\ \A x \in reads : Live(c, x, "detail") /\ x.served =>
                 x.got = IF x.id \in DOMAIN es THEN RowIn(es, eo, x.id) ELSE None
          /\ (\A x \in reads : ~Live(c, x, "detail")) => DetailIsNow(c, es, eo)
      BY <2>1, <2>2 DEF Follows, DetailFollows
    <2> QED BY <1>4, <2>3
  <1>6. GridFollows(d, es, eo, reads \ {q}, writes, v)
    BY <1>1, <1>2, <1>4 DEF Follows, GridFollows
  <1> QED BY <1>5, <1>6 DEF Follows

\* Details come.
LEMMA DetailShownFollows ==
  ASSUME NEW c, NEW d, NEW es, NEW eo, NEW reads, NEW writes, NEW v, NEW q \in reads,
         Follows(c, es, eo, reads, writes, v), q.of = "detail", q.mount = c.mount, q.served, q.got # None,
         d.mode = c.mode, d.mount = c.mount, d.detail = q.got, d.grid = c.grid
  PROVE  Follows(d, es, eo, reads \ {q}, writes, v)
  <1>1. \A x, k : Live(c, x, k) = Live(d, x, k)
    BY DEF Live
  <1>2. PageReloads(c, writes) = PageReloads(d, writes)
    BY DEF PageReloads
  <1>3. Live(c, q, "detail") /\ ~Live(c, q, "grid")
    BY DEF Live
  <1>4. DetailFollows(d, es, eo, reads \ {q}, writes, v)
    <2>1. SUFFICES ASSUME c.mode = "detail", "detail" \notin v, ~PageReloads(c, writes),
                          \A x \in reads \ {q} : ~(Live(c, x, "grid") /\ x.then # None)
                   PROVE  /\ \A x \in reads \ {q} : Live(c, x, "detail") /\ x.served =>
                                x.got = IF x.id \in DOMAIN es THEN RowIn(es, eo, x.id) ELSE None
                          /\ DetailIsNow(d, es, eo)
      BY <1>1, <1>2 DEF DetailFollows
    <2>2. \A x \in reads : ~(Live(c, x, "grid") /\ x.then # None)
      BY <1>3, <2>1
    <2>3. \A x \in reads : Live(c, x, "detail") /\ x.served =>
                 x.got = IF x.id \in DOMAIN es THEN RowIn(es, eo, x.id) ELSE None
      BY <2>1, <2>2 DEF Follows, DetailFollows
    <2>4. q.id \in DOMAIN es /\ q.got = RowIn(es, eo, q.id)
      BY <1>3, <2>3
    <2>5. q.got.id = q.id
      BY <2>4 DEF RowIn
    <2>6. DetailIsNow(d, es, eo)
      BY <2>4, <2>5 DEF DetailIsNow
    <2> QED BY <2>3, <2>6
  <1>5. GridFollows(d, es, eo, reads \ {q}, writes, v)
    BY <1>1, <1>2, <1>3 DEF Follows, GridFollows
  <1> QED BY <1>4, <1>5 DEF Follows
-----------------------------------------------------------------------------
LEMMA RowsAre ==
  /\ \A e : RowIn(events, eventOf, e) = EventRow(e)
  /\ RowsIn(events, eventOf) = [e \in DOMAIN events |-> EventRow(e)]
  BY DEF RowIn, RowsIn, EventRow

LEMMA FollowsVaguely ==
  ASSUME vague' = Kinds
  PROVE  EventFollowsNext
  BY VagueFollows DEF EventFollowsNext

\* Details are asked for beside what is under way.
LEMMA FollowsDetail ==
  ASSUME EventViewTypes, NEW others, NEW e \in Event, Begins(others, {DetailRead(e)}),
         calendar'.mode = "detail", calendar'.mount = calendar.mount
  PROVE  EventFollowsNext
  <1>1. PICK r : r = DetailRead(e) /\ r.of = "detail" /\ r.mount = calendar.mount /\ ~r.served
    BY DetailReads
  <1>2. eventReads' = others \cup {r} /\ ("detail" \notin vague' => \A o \in others : o.of # "detail")
    BY <1>1, BeginsOne DEF Kinds
  <1> QED BY <1>1, <1>2, DetailAskedFollows DEF EventFollowsNext

LEMMA FollowsList ==
  ASSUME EventViewTypes, NEW others, Begins(others, {GridRead}),
         calendar'.mode = "list", calendar'.mount = calendar.mount
  PROVE  EventFollowsNext
  <1>1. PICK r : r = GridRead /\ r.of = "grid" /\ r.mount = calendar.mount /\ ~r.served
    BY GridReads
  <1>2. eventReads' = others \cup {r} /\ ("grid" \notin vague' => \A o \in others : o.of # "grid")
    BY <1>1, BeginsOne DEF Kinds
  <1>3. "grid" \notin vague' => \A o \in others : ~Live(calendar', o, "grid")
    BY <1>2 DEF Live
  <1> QED BY <1>1, <1>2, <1>3, GridAskedFollows DEF EventFollowsNext

\* What is not about the rows, the loads or the mode; a write may begin.
LEMMA FollowsQuietly ==
  ASSUME EventFollows, UNCHANGED <<events, eventOf, eventReads, vague>>, eventWrites \subseteq eventWrites',
         calendar'.mode = calendar.mode, calendar'.mount = calendar.mount, calendar'.detail = calendar.detail,
         calendar'.grid = calendar.grid
  PROVE  EventFollowsNext
  <1>1. PageReloads(calendar, eventWrites) => PageReloads(calendar, eventWrites')
    BY DEF PageReloads
  <1>2. Follows(calendar', events, eventOf, eventReads, eventWrites', vague)
    BY <1>1, SameFollows DEF EventFollows
  <1> QED BY <1>2 DEF EventFollowsNext

LEMMA PollFollows ==
  ASSUME EventTypes, EventFollows, EventsPoll
  PROVE  EventFollowsNext
  <1>0. calendar \in Calendars /\ calendar' = calendar /\ EventViewTypes /\ vague \subseteq Kinds
        /\ UNCHANGED <<events, eventOf, eventWrites>>
    BY DEF EventTypes, EventViewTypes, EventsPoll, Stays, server
  <1>1. CASE AtDetail
    <2>1. Begins(eventReads, {Reading("detail", calendar.detail.id, "poll", None)}) /\ calendar.detail # None /\ calendar.mode = "detail"
      BY <1>1 DEF EventsPoll, AtDetail
    <2>2. PICK of \in Kinds, i \in Event \cup {None}, how \in {"open", "poll"}, x \in Event \cup {None} :
            of = "detail" /\ i = calendar.detail.id /\ i \in Event /\ how = "poll" /\ x = None
      BY <1>0, <2>1, DetailTypes DEF Kinds
    <2>3. PICK r : r = Reading(of, i, how, x)
      OBVIOUS
    <2>4. r.of = "detail" /\ r.mount = calendar.mount /\ ~r.served /\ r = Reading("detail", calendar.detail.id, "poll", None)
      BY <1>0, <2>2, <2>3, Readings
    <2>5. eventReads' = eventReads \cup {r} /\ ("detail" \notin vague' => \A o \in eventReads : o.of # "detail")
      BY <2>1, <2>4, BeginsOne DEF Kinds
    <2> QED BY <1>0, <2>1, <2>4, <2>5, DetailAskedFollows DEF EventFollowsNext
  <1>2. ASSUME ~AtDetail, calendar.mode = "list" PROVE EventFollowsNext
    <2>1. Begins(eventReads, {GridRead})
      BY <1>2 DEF EventsPoll
    <2> QED BY <1>0, <1>2, <2>1, FollowsList
  <1>3. ASSUME ~AtDetail, calendar.mode = "detail" PROVE EventFollowsNext
    <2>1. PICK r : r = GridRead /\ r.of = "grid" /\ r.then = None
      BY <1>0, GridReads
    <2>2. eventReads' = eventReads \cup {r} /\ ("detail" \in vague' <=> "detail" \in vague)
      BY <1>3, <2>1, BeginsOne DEF EventsPoll, Kinds
    <2>3. DetailFollows(calendar, events, eventOf, eventReads, eventWrites, vague)
      BY DEF EventFollows, Follows
    <2>4. ~Live(calendar, r, "detail") /\ ~(Live(calendar, r, "grid") /\ r.then # None)
      BY <2>1 DEF Live
    <2>5. DetailFollows(calendar, events, eventOf, eventReads', eventWrites, vague')
      BY <2>2, <2>3, <2>4 DEF DetailFollows
    <2>6. GridFollows(calendar, events, eventOf, eventReads', eventWrites, vague')
      BY <1>3 DEF GridFollows
    <2> QED BY <1>0, <2>5, <2>6 DEF EventFollowsNext, Follows
  <1>4. calendar.mode \in {"list", "detail"}
    BY <1>0, CalendarTypes DEF EventsPoll, Mounted
  <1> QED BY <1>1, <1>2, <1>3, <1>4

LEMMA UserFollows ==
  ASSUME EventTypes, CalendarOK(calendar), EventFollows, EventsUser
  PROVE  EventFollowsNext
  <1>0. calendar \in Calendars /\ calendar.mount \in Nat /\ EventViewTypes
    BY CalendarTypes DEF EventTypes, EventViewTypes
  <1>1. ASSUME NEW e \in Event \cup {None}, EnterView(e)
        PROVE  EventFollowsNext
    <2> DEFINE of(q) == [q EXCEPT !.mount = calendar.mount + 1]
               others == eventReads \cup (IF e = None THEN {} ELSE {of(DetailRead(e))})
               r == of(GridRead)
    <2>1. calendar'.mount = calendar.mount + 1 /\ calendar'.mode = "list"
      BY <1>0, <1>1, Entered
    <2>2. eventReads' = others \cup {r}
      BY <1>1 DEF EnterView
    <2>3. r.of = "grid" /\ r.mount = calendar'.mount /\ ~r.served
      <3>1. r.of = "grid" /\ r.mount = calendar'.mount
        BY <2>1 DEF GridRead, Reading
      <3>2. ~r.served
        BY DEF GridRead, Reading
      <3> QED BY <3>1, <3>2
    <2>4. \A o \in others : ~Live(calendar', o, "grid")
      <3>1. ASSUME NEW o \in eventReads PROVE ~Live(calendar', o, "grid")
        <4>1. IsEventRead(o, calendar.mount)
          BY DEF EventTypes, EventReadTypes
        <4>2. o.mount \in Nat /\ o.mount <= calendar.mount
          BY <1>0, <4>1, ReadTypes
        <4> QED BY <1>0, <2>1, <4>2 DEF Live
      <3>2. of(DetailRead(e)).of = "detail"
        BY DEF DetailRead, Reading
      <3>3. ~Live(calendar', of(DetailRead(e)), "grid")
        BY <3>2 DEF Live
      <3> QED BY <3>1, <3>3
    <2> HIDE DEF others, r
    <2> QED BY <2>1, <2>2, <2>3, <2>4, GridAskedFollows DEF EventFollowsNext
  <1>2. ASSUME NEW e \in Event, OpenEvent(e) PROVE EventFollowsNext
    <2>1. calendar' = Opening(calendar, e) /\ Begins(eventReads, {DetailRead(e)})
      BY <1>2 DEF OpenEvent
    <2>2. calendar'.mode = "detail" /\ calendar'.mount = calendar.mount
      BY <1>0, <2>1, Openings
    <2> QED BY <1>0, <2>1, <2>2, FollowsDetail
  <1>3. ASSUME NEW e \in Event, FollowLink(e) PROVE EventFollowsNext
    <2>1. calendar' = Turning(calendar, e) /\ Begins(eventReads, {DetailRead(e)})
      BY <1>3 DEF FollowLink
    <2>2. calendar'.mode = "detail" /\ calendar'.mount = calendar.mount
      BY <1>0, <2>1, Turnings
    <2> QED BY <1>0, <2>1, <2>2, FollowsDetail
  <1>4. ASSUME NEW t \in Task, NEW e, ItemCloses(t, e) PROVE EventFollowsNext
    <2>1. calendar' = Opening(calendar, calendar.detail.id) /\ calendar.detail # None
          /\ Begins(eventReads, {DetailRead(calendar.detail.id)})
      BY <1>4 DEF ItemCloses, AtDetail
    <2>2. PICK x \in Event : x = calendar.detail.id
      BY <1>0, <2>1, DetailTypes
    <2>3. calendar'.mode = "detail" /\ calendar'.mount = calendar.mount
      BY <1>0, <2>1, <2>2, Openings
    <2> QED BY <1>0, <2>1, <2>2, <2>3, FollowsDetail
  <1>5. CASE LeaveView
    <2>1. calendar'.mode = "away"
      BY <1>0, <1>5, AwayTypes DEF LeaveView
    <2> QED BY <2>1, AwayFollows DEF EventFollowsNext
  <1>6. CASE Back
    <2>1. calendar' = ListMode(calendar) /\ Begins(eventReads, {GridRead})
      BY <1>6 DEF Back
    <2>2. calendar'.mode = "list" /\ calendar'.mount = calendar.mount
      BY <1>0, <2>1, ListModes
    <2> QED BY <1>0, <2>1, <2>2, FollowsList
  <1>7. CASE OthersDelete
    BY <1>7, FollowsVaguely DEF OthersDelete
  <1>8. ASSUME \/ \E t \in Task : PickTask(t)
               \/ \E yes \in BOOLEAN : AnswerDelete(yes)
               \/ Narrows \/ Drafts \/ AddExistingTasks \/ SubmitEvent \/ AskDelete
        PROVE  EventFollowsNext
    <2>1. UNCHANGED <<events, eventOf, eventReads, vague>> /\ eventWrites \subseteq eventWrites'
      BY <1>8 DEF PickTask, AnswerDelete, Narrows, Drafts, AddExistingTasks, SubmitEvent, AskDelete, Stays, server
    <2>2. calendar'.mode = calendar.mode /\ calendar'.mount = calendar.mount /\ calendar'.detail = calendar.detail
          /\ calendar'.grid = calendar.grid
      <3>1. \/ \E x : calendar' = [calendar EXCEPT !.picked = x]
            \/ \E x : calendar' = [calendar EXCEPT !.asking = x]
            \/ \E x : calendar' = [calendar EXCEPT !.filter = x]
            \/ \E x : calendar' = [calendar EXCEPT !.typed = x]
            \/ \E x : calendar' = [calendar EXCEPT !.adding = x]
            \/ calendar' = calendar
        <4>1. ASSUME NEW t \in Task, PickTask(t) PROVE \E x : calendar' = [calendar EXCEPT !.picked = x]
          BY <1>0, <4>1 DEF PickTask, Calendars
        <4>2. ASSUME NEW yes \in BOOLEAN, AnswerDelete(yes) PROVE \E x : calendar' = [calendar EXCEPT !.asking = x]
          BY <4>2 DEF AnswerDelete
        <4>3. ASSUME Narrows PROVE \/ \E x : calendar' = [calendar EXCEPT !.filter = x]
                                   \/ \E x : calendar' = [calendar EXCEPT !.typed = x]
          BY <4>3 DEF Narrows, Chooses, Searches, ClearsFilters
        <4>4. ASSUME AddExistingTasks PROVE \E x : calendar' = [calendar EXCEPT !.adding = x]
          BY <4>4 DEF AddExistingTasks
        <4>5. ASSUME AskDelete PROVE \E x : calendar' = [calendar EXCEPT !.asking = x]
          BY <4>5 DEF AskDelete
        <4>6. ASSUME Drafts \/ SubmitEvent PROVE calendar' = calendar
          BY <4>6 DEF Drafts, SubmitEvent
        <4> QED BY <1>8, <4>1, <4>2, <4>3, <4>4, <4>5, <4>6
      <3> QED BY <1>0, <3>1 DEF Calendars
    <2> QED BY <2>1, <2>2, FollowsQuietly
  <1>9. CASE EventsPoll
    BY <1>9, PollFollows
  <1>10. ASSUME NEW e \in Event, OpenEvent(e) \/ FollowLink(e) PROVE EventFollowsNext
    BY <1>2, <1>3, <1>10
  <1>11. ASSUME NEW t \in Task, \E e \in Event \cup {None} : ItemCloses(t, e) PROVE EventFollowsNext
    BY <1>4, <1>11
  <1> QED BY <1>1, <1>5, <1>6, <1>7, <1>8, <1>9, <1>10, <1>11 DEF EventsUser

LEMMA ServedStepFollows ==
  ASSUME EventTypes, EventFollows, NEW q \in eventReads, EventServed(q)
  PROVE  EventFollowsNext
  <1>1. PICK g : g = IF q.of = "grid" THEN [e \in DOMAIN events |-> EventRow(e)]
                     ELSE IF q.id \in DOMAIN events THEN EventRow(q.id) ELSE None
    OBVIOUS
  <1>2. IsEventRead(q, calendar.mount) /\ calendar.mount \in Nat /\ EventServerTypes
    BY CalendarTypes DEF EventTypes, EventReadTypes, EventViewTypes
  <1>3. PICK r : r = [q EXCEPT !.served = TRUE, !.got = g]
    OBVIOUS
  <1>4. /\ eventReads' = (eventReads \ {q}) \cup {r}
        /\ UNCHANGED <<events, eventOf, calendar, eventWrites, vague>>
    BY <1>1, <1>3 DEF EventServed, server
  <1>5. r.of = q.of /\ r.id = q.id /\ r.then = q.then /\ r.mount = q.mount /\ r.got = g
    BY <1>2, <1>3 DEF IsEventRead
  <1>6. q.of = "grid" => r.got = RowsIn(events, eventOf)
    BY <1>1, <1>5, RowsAre
  <1>7. q.of = "detail" => r.got = IF q.id \in DOMAIN events THEN RowIn(events, eventOf, q.id) ELSE None
    BY <1>1, <1>5, RowsAre
  <1>8. Follows(calendar, events, eventOf, (eventReads \ {q}) \cup {r}, eventWrites, vague)
    BY <1>5, <1>6, <1>7, ServedFollows DEF EventFollows
  <1> QED BY <1>4, <1>8 DEF EventFollowsNext

\* The list has come, or could not, and an event is opened if a save asked for that.
LEMMA GridEndsFollows ==
  ASSUME EventTypes, EventFollows, NEW q \in eventReads, NEW g \in Grids, GridEnds(q, g), q.of = "grid",
         q.mount = calendar.mount, g = None \/ (q.served /\ g = q.got),
         UNCHANGED <<events, eventOf, eventWrites>>
  PROVE  EventFollowsNext
  <1>0. calendar \in Calendars /\ calendar.mount \in Nat /\ EventViewTypes /\ vague \subseteq Kinds
        /\ IsEventRead(q, calendar.mount)
    BY CalendarTypes DEF EventTypes, EventViewTypes, EventReadTypes
  <1>1. PICK c \in Calendars : c = [calendar EXCEPT !.grid = g] /\ c.mount = calendar.mount /\ c.mode = calendar.mode
                               /\ c.detail = calendar.detail /\ c.grid = g
    BY <1>0, GridSet
  <1>2. CASE q.then = None
    <2>1. calendar' = c /\ eventReads' = eventReads \ {q} /\ vague' = vague
      BY <1>0, <1>1, <1>2, BeginsNone DEF GridEnds
    <2>2. Follows(c, events, eventOf, eventReads \ {q}, eventWrites, vague)
      BY <1>1, <1>2, GridShownFollows DEF EventFollows
    <2> QED BY <2>1, <2>2 DEF EventFollowsNext
  <1>3. CASE q.then # None
    <2>1. PICK e \in Event : e = q.then
      BY <1>0, <1>3, ReadTypes
    <2>2. calendar' = Turning(c, e) /\ Begins(eventReads \ {q}, {DetailRead(e)})
      BY <1>1, <1>3, <2>1 DEF GridEnds
    <2>3. calendar'.mode = "detail" /\ calendar'.mount = calendar.mount
      BY <1>1, <2>2, Turnings
    <2> QED BY <1>0, <2>2, <2>3, FollowsDetail
  <1> QED BY <1>2, <1>3

LEMMA ReadDropped ==
  ASSUME EventFollows, NEW q, q.mount # calendar.mount \/ calendar.mode = "away",
         eventReads' = eventReads \ {q}, UNCHANGED <<events, eventOf, calendar, eventWrites, vague>>
  PROVE  EventFollowsNext
  <1>1. Follows(calendar, events, eventOf, eventReads \ {q}, eventWrites, vague)
    BY DroppedFollows DEF EventFollows
  <1> QED BY <1>1 DEF EventFollowsNext

LEMMA ArrivalFollows ==
  ASSUME EventTypes, EventFollows, NEW q \in eventReads, EventArrives(q)
  PROVE  EventFollowsNext
  <1>0. calendar \in Calendars /\ calendar.mount \in Nat /\ EventViewTypes /\ vague \subseteq Kinds
        /\ IsEventRead(q, calendar.mount)
    BY CalendarTypes DEF EventTypes, EventViewTypes, EventReadTypes
  <1>1. q.served /\ (q.of = "detail" => q.got # None) /\ UNCHANGED <<events, eventOf, eventWrites>>
    BY DEF EventArrives, server
  <1>2. q.of \in {"grid", "detail"} /\ (q.of = "grid" => q.got \in Grids)
    BY <1>0, ReadTypes DEF Kinds
  <1>3. CASE q.mount # calendar.mount \/ calendar.mode = "away"
    <2>1. eventReads' = eventReads \ {q} /\ UNCHANGED <<calendar, vague>>
      BY <1>3 DEF EventArrives
    <2> QED BY <1>1, <1>3, <2>1, ReadDropped
  <1>4. ASSUME q.mount = calendar.mount, calendar.mode # "away", q.of = "grid"
        PROVE  EventFollowsNext
    <2>1. GridEnds(q, q.got)
      BY <1>4 DEF EventArrives
    <2> QED BY <1>1, <1>2, <1>4, <2>1, GridEndsFollows
  <1>5. ASSUME q.mount = calendar.mount, calendar.mode # "away", q.of = "detail"
        PROVE  EventFollowsNext
    <2>1. DetailEnds(q)
      BY <1>5 DEF EventArrives
    <2>2. eventReads' = eventReads \ {q} /\ vague' = vague
      BY <1>0, <2>1, BeginsNone DEF DetailEnds
    <2>3. PICK r, x, y : r = q.got /\ calendar' = [calendar EXCEPT !.detail = r, !.late = x, !.turned = y]
      BY <2>1 DEF DetailEnds
    <2>4. calendar'.mode = calendar.mode /\ calendar'.mount = calendar.mount /\ calendar'.detail = q.got /\ calendar'.grid = calendar.grid
      BY <1>0, <2>3 DEF Calendars
    <2>5. Follows(calendar', events, eventOf, eventReads \ {q}, eventWrites, vague)
      BY <1>1, <1>5, <2>4, DetailShownFollows DEF EventFollows
    <2> QED BY <1>1, <2>2, <2>5 DEF EventFollowsNext
  <1> QED BY <1>2, <1>3, <1>4, <1>5

LEMMA FailureFollows ==
  ASSUME EventTypes, EventFollows, NEW q \in eventReads, EventFails(q)
  PROVE  EventFollowsNext
  <1>0. IsEventRead(q, calendar.mount) /\ calendar.mount \in Nat /\ None \in Grids
    BY CalendarTypes DEF EventTypes, EventViewTypes, EventReadTypes, Grids
  <1>1. UNCHANGED <<events, eventOf, eventWrites>> /\ q.of \in {"grid", "detail"}
    BY <1>0, ReadTypes DEF EventFails, server, Kinds
  <1>2. CASE q.mount # calendar.mount \/ calendar.mode = "away"
    <2>1. eventReads' = eventReads \ {q} /\ UNCHANGED <<calendar, vague>>
      BY <1>2 DEF EventFails
    <2> QED BY <1>1, <1>2, <2>1, ReadDropped
  <1>3. ASSUME q.mount = calendar.mount, calendar.mode # "away", q.of = "grid"
        PROVE  EventFollowsNext
    <2>1. GridEnds(q, None)
      BY <1>3 DEF EventFails
    <2> QED BY <1>0, <1>1, <1>3, <2>1, GridEndsFollows
  <1>4. ASSUME q.mount = calendar.mount, calendar.mode # "away", q.of = "detail"
        PROVE  EventFollowsNext
    BY <1>4, FollowsVaguely DEF EventFails
  <1> QED BY <1>1, <1>2, <1>3, <1>4

\* The answer to a write the page does not wait for, or no answer.
LEMMA WriteLeaves ==
  ASSUME EventFollows, NEW w, eventWrites' = eventWrites \ {w},
         UNCHANGED <<events, eventOf, calendar, eventReads, vague>>,
         w.mount # calendar.mount \/ calendar.mode = "away" \/ (w.kind # "add" /\ w.answer # "ok")
  PROVE  EventFollowsNext
  <1>1. PageReloads(calendar, eventWrites) => PageReloads(calendar, eventWrites \ {w})
    BY DEF PageReloads
  <1>2. Follows(calendar, events, eventOf, eventReads, eventWrites \ {w}, vague)
    BY <1>1, SameFollows DEF EventFollows
  <1> QED BY <1>2 DEF EventFollowsNext

LEMMA WrittenFollows ==
  ASSUME EventTypes, EventFollows, NEW w \in eventWrites, EventWritten(w)
  PROVE  EventFollowsNext
  <1>1. PICK how \in {"ok", "lost"} :
          /\ vague' = IF how = "lost" \/ ~OfView(w) THEN Kinds ELSE vague
          /\ \/ \E e \in Event : eventWrites' = (eventWrites \ {w}) \cup {[w EXCEPT !.answer = how, !.id = e]}
             \/ eventWrites' = (eventWrites \ {w}) \cup {[w EXCEPT !.answer = how]}
    BY DEF EventWritten
  <1>2. IsEventWrite(w) /\ w.kind # "add" /\ UNCHANGED calendar
    BY DEF EventWritten, EventTypes, EventWriteTypes
  <1>3. CASE how = "lost" \/ ~OfView(w)
    BY <1>1, <1>3, FollowsVaguely
  <1>4. ASSUME how = "ok", OfView(w) PROVE EventFollowsNext
    <2>1. PICK v : v \in eventWrites' /\ v.kind = w.kind /\ v.answer = "ok" /\ v.mount = w.mount
      <3>1. ASSUME NEW e \in Event
            PROVE  LET v == [w EXCEPT !.answer = how, !.id = e]
                   IN v.kind = w.kind /\ v.answer = "ok" /\ v.mount = w.mount
        BY <1>2, <1>4 DEF IsEventWrite, EventWritings
      <3>2. LET v == [w EXCEPT !.answer = how] IN v.kind = w.kind /\ v.answer = "ok" /\ v.mount = w.mount
        BY <1>2, <1>4 DEF IsEventWrite, EventWritings
      <3>3. CASE eventWrites' = (eventWrites \ {w}) \cup {[w EXCEPT !.answer = how]}
        BY <3>2, <3>3
      <3>4. ASSUME NEW e \in Event, eventWrites' = (eventWrites \ {w}) \cup {[w EXCEPT !.answer = how, !.id = e]}
            PROVE  \E v : v \in eventWrites' /\ v.kind = w.kind /\ v.answer = "ok" /\ v.mount = w.mount
        BY <3>1, <3>4
      <3> QED BY <1>1, <3>3, <3>4
    <2>2. PageReloads(calendar', eventWrites')
      BY <1>2, <1>4, <2>1 DEF PageReloads, OfView, Mounted
    <2> QED BY <2>2, PendingFollows DEF EventFollowsNext
  <1> QED BY <1>3, <1>4

LEMMA TaskAddedFollows ==
  ASSUME EventTypes, NEW w \in eventWrites, NEW t \in Task, NEW lost \in BOOLEAN, TaskAdded(w, t, lost)
  PROVE  EventFollowsNext
  <1>1. CASE vague' = Kinds
    BY <1>1, FollowsVaguely
  <1>2. CASE vague' # Kinds
    <2>1. /\ OfView(w) /\ w.answer = "none" /\ UNCHANGED calendar /\ w.kind = "add"
          /\ eventWrites' = (eventWrites \ {w}) \cup {[w EXCEPT !.left = @ \ {t}]}
      BY <1>2 DEF TaskAdded, AddFailed
    <2>2. IsEventWrite(w)
      BY DEF EventTypes, EventWriteTypes
    <2>3. PICK v : v = [w EXCEPT !.left = @ \ {t}]
      OBVIOUS
    <2>4. v.kind = "add" /\ v.answer = "none" /\ v.mount = w.mount
      BY <2>1, <2>2, <2>3 DEF IsEventWrite, EventWritings
    <2>5. PageReloads(calendar', eventWrites')
      BY <2>1, <2>3, <2>4 DEF PageReloads, OfView, Mounted
    <2> QED BY <2>5, PendingFollows DEF EventFollowsNext
  <1> QED BY <1>1, <1>2

LEMMA SavedFollows ==
  ASSUME EventTypes, EventFollows, NEW w \in eventWrites, EventSaved(w)
  PROVE  EventFollowsNext
  <1>0. /\ calendar \in Calendars /\ EventViewTypes /\ UNCHANGED <<events, eventOf, calendar>>
        /\ eventWrites' = eventWrites \ {w} /\ w.id \in Event
    BY WriteTypes DEF EventTypes, EventViewTypes, EventWriteTypes, EventSaved, server
  <1>1. CASE ~OfView(w)
    <2>1. UNCHANGED <<eventReads, vague>>
      BY <1>1 DEF EventSaved
    <2> QED BY <1>0, <1>1, <2>1, WriteLeaves DEF OfView, Mounted
  <1>2. ASSUME OfView(w), ~w.reopens PROVE EventFollowsNext
    BY <1>2, FollowsVaguely DEF EventSaved
  <1>3. ASSUME OfView(w), w.reopens PROVE EventFollowsNext
    <2>1. Begins(eventReads, {Reading("grid", None, "open", w.id)})
      BY <1>3 DEF EventSaved
    <2>2. PICK of \in Kinds, i \in Event \cup {None}, how \in {"open", "poll"}, x \in Event \cup {None} :
                of = "grid" /\ of # "detail" /\ i = None /\ how = "open" /\ x = w.id
      BY <1>0 DEF Kinds
    <2>3. PICK r : r = Reading(of, i, how, x)
      OBVIOUS
    <2>4. r.of = "grid" /\ r.mount = calendar.mount /\ ~r.served /\ r.then = w.id /\ r = Reading("grid", None, "open", w.id)
      BY <1>0, <2>2, <2>3, Readings
    <2>5. eventReads' = eventReads \cup {r} /\ ("grid" \notin vague' => \A o \in eventReads : o.of # "grid")
      BY <2>1, <2>4, BeginsOne DEF Kinds
    <2>6. CASE calendar.mode = "list"
      <3>1. "grid" \notin vague' => \A o \in eventReads : ~Live(calendar, o, "grid")
        BY <2>5 DEF Live
      <3>2. Follows(calendar, events, eventOf, eventReads \cup {r}, eventWrites', vague')
        BY <2>4, <2>6, <3>1, GridAskedFollows
      <3> QED BY <1>0, <2>5, <3>2 DEF EventFollowsNext
    <2>7. CASE calendar.mode = "detail"
      <3>1. Live(calendar, r, "grid") /\ r.then # None /\ r \in eventReads'
        BY <1>0, <2>4, <2>5, EventsAssumption DEF Live
      <3>2. DetailFollows(calendar, events, eventOf, eventReads', eventWrites', vague')
        BY <3>1 DEF DetailFollows
      <3>3. GridFollows(calendar, events, eventOf, eventReads', eventWrites', vague')
        BY <2>7 DEF GridFollows
      <3> QED BY <1>0, <3>2, <3>3 DEF EventFollowsNext, Follows
    <2>8. calendar.mode \in {"list", "detail"}
      BY <1>0, <1>3, CalendarTypes DEF OfView, Mounted
    <2> QED BY <2>6, <2>7, <2>8
  <1> QED BY <1>1, <1>2, <1>3

LEMMA AnswersFollow ==
  ASSUME EventTypes, CalendarOK(calendar), EventFollows, EventsAnswers
  PROVE  EventFollowsNext
  <1>0. calendar \in Calendars /\ calendar.mount \in Nat /\ EventViewTypes
    BY CalendarTypes DEF EventTypes, EventViewTypes
  <1>1. ASSUME NEW w \in eventWrites, EventNotWritten(w) PROVE EventFollowsNext
    BY <1>1, WriteLeaves DEF EventNotWritten, server
  <1>2. ASSUME NEW w \in eventWrites, EventDeleted(w) PROVE EventFollowsNext
    <2>1. eventWrites' = eventWrites \ {w} /\ UNCHANGED <<events, eventOf>>
      BY <1>2 DEF EventDeleted, server
    <2>2. CASE OfView(w)
      <3>1. calendar' = ListMode(calendar) /\ Begins(eventReads, {GridRead})
        BY <1>2, <2>2 DEF EventDeleted
      <3>2. calendar'.mode = "list" /\ calendar'.mount = calendar.mount
        BY <1>0, <3>1, ListModes
      <3> QED BY <1>0, <3>1, <3>2, FollowsList
    <2>3. CASE ~OfView(w)
      <3>1. UNCHANGED <<calendar, eventReads, vague>>
        BY <1>2, <2>3 DEF EventDeleted
      <3> QED BY <2>1, <2>3, <3>1, WriteLeaves DEF OfView, Mounted
    <2> QED BY <2>2, <2>3
  <1>3. ASSUME NEW w \in eventWrites, TasksAdded(w) PROVE EventFollowsNext
    <2>1. eventWrites' = eventWrites \ {w} /\ UNCHANGED <<events, eventOf>> /\ w.id \in Event
      BY <1>3, WriteTypes DEF TasksAdded, server, EventTypes, EventWriteTypes
    <2>2. CASE OfView(w)
      <3>1. calendar' = Opening([calendar EXCEPT !.adding = FALSE, !.picked = {}, !.turned = FALSE], w.id)
            /\ Begins(eventReads, {DetailRead(w.id)})
        BY <1>3, <2>2 DEF TasksAdded
      <3>2. calendar'.mode = "detail" /\ calendar'.mount = calendar.mount
        BY <2>1, <3>1, AddedOK
      <3> QED BY <1>0, <2>1, <3>1, <3>2, FollowsDetail
    <2>3. CASE ~OfView(w)
      <3>1. UNCHANGED <<calendar, eventReads, vague>>
        BY <1>3, <2>3 DEF TasksAdded
      <3> QED BY <2>1, <2>3, <3>1, WriteLeaves DEF OfView, Mounted
    <2> QED BY <2>2, <2>3
  <1>4. ASSUME NEW w, NEW t, TaskRefused(w, t) PROVE EventFollowsNext
    BY <1>4, FollowsVaguely DEF TaskRefused, AddFailed
  <1>5. CASE SearchApplies
    <2>1. PICK x, y : calendar' = [calendar EXCEPT !.filter = x, !.typed = None, !.late = y]
      BY <1>5 DEF SearchApplies
    <2>2. calendar'.mode = calendar.mode /\ calendar'.mount = calendar.mount /\ calendar'.detail = calendar.detail
          /\ calendar'.grid = calendar.grid
      BY <1>0, <2>1 DEF Calendars
    <2> QED BY <1>5, <2>2, FollowsQuietly DEF SearchApplies, Stays, server
  <1>6. ASSUME NEW q \in eventReads, EventServed(q) \/ EventArrives(q) \/ EventFails(q) PROVE EventFollowsNext
    BY <1>6, ServedStepFollows, ArrivalFollows, FailureFollows
  <1>7. ASSUME NEW w \in eventWrites, EventWritten(w) \/ EventSaved(w) PROVE EventFollowsNext
    BY <1>7, WrittenFollows, SavedFollows
  <1>8. ASSUME NEW w \in eventWrites, NEW t \in Task, \E lost \in BOOLEAN : TaskAdded(w, t, lost) PROVE EventFollowsNext
    BY <1>8, TaskAddedFollows
  <1> QED BY <1>1, <1>2, <1>3, <1>4, <1>5, <1>6, <1>7, <1>8 DEF EventsAnswers
-----------------------------------------------------------------------------
EventsInv ==
    /\ EventTypes /\ CalendarOK(calendar) /\ EventFollows
    /\ TasksWherePicked

LEMMA EventsStart ==
  ASSUME Init
  PROVE  EventsInv
  <1> DEFINE first == CHOOSE e \in Event : TRUE
             q0 == [n |-> 0, of |-> "detail", id |-> first, how |-> "open", then |-> None,
                    mount |-> 0, served |-> FALSE, got |-> None]
             g0 == [e \in everPlanned |-> [id |-> e, ver |-> 0, tasks |-> {}]]
  <1>1. /\ first \in everPlanned /\ everPlanned \in SUBSET Event /\ events = [e \in everPlanned |-> 0]
        /\ eventOf = [t \in Task |-> None]
        /\ calendar = [Away EXCEPT !.mode = "detail", !.opened = first, !.grid = g0]
        /\ eventForm = NoDraft /\ eventReads = {q0} /\ eventWrites = {} /\ vague = {} /\ misfiled = FALSE
    BY DEF Init, EventsInit
  <1> HIDE DEF first, g0
  <1>2. first \in Event /\ first # None
    BY <1>1, EventsAssumption
  <1>3. g0 \in Grids /\ None \in Grids
    BY <1>1 DEF Grids, EventRows, g0
  <1>4. EventServerTypes
    BY <1>1 DEF EventServerTypes
  <1>5. calendar \in Calendars /\ calendar.mount = 0 /\ calendar.mode = "detail" /\ calendar.detail = None
        /\ calendar.opened = first /\ calendar.filter = None /\ calendar.picked = {}
    BY <1>1, <1>2, <1>3 DEF Away, Calendars
  <1>6. CalendarOK(calendar)
    BY <1>2, <1>5 DEF CalendarOK, FiltersFollow, PicksFollow
  <1>7. EventViewTypes
    BY <1>1, <1>5 DEF EventViewTypes, NoDraft
  <1>8. IsEventRead(q0, 0)
    BY <1>2, <1>3 DEF IsEventRead, Kinds
  <1>9. EventReadTypes /\ EventWriteTypes
    BY <1>1, <1>5, <1>8 DEF EventReadTypes, EventWriteTypes
  <1>10. EventFollows
    <2>1. q0.of = "detail" /\ q0.mount = calendar.mount /\ ~q0.served
      BY <1>5
    <2> HIDE DEF q0
    <2>2. Follows(calendar, events, eventOf, {} \cup {q0}, eventWrites, vague)
      BY <1>5, <2>1, DetailAskedFollows
    <2> QED BY <1>1, <2>2 DEF EventFollows
  <1> QED BY <1>1, <1>4, <1>6, <1>7, <1>9, <1>10 DEF EventsInv, EventTypes, TasksWherePicked

LEMMA EventViewKept ==
  ASSUME EventTypes, CalendarOK(calendar), EventsUser \/ EventsAnswers
  PROVE  EventViewTypes'
  <1>0. /\ eventForm \in [open : BOOLEAN, id : Event \cup {None}] /\ vague \subseteq Kinds
        /\ NoDraft \in [open : BOOLEAN, id : Event \cup {None}] /\ Kinds \subseteq Kinds
    BY DEF EventTypes, EventViewTypes, NoDraft
  <1>1. calendar' \in Calendars
    BY CalendarKept DEF CalendarOK
  <1>2. ASSUME NEW others, NEW new, Begins(others, new) PROVE vague' \subseteq Kinds
    BY <1>2 DEF Begins
  <1>3. CASE EventsUser
    <2>1. eventForm' \in [open : BOOLEAN, id : Event \cup {None}]
      <3>1. CASE Drafts
        <4>1. ASSUME NEW i \in Event \cup {None}, OpensDraft(i)
              PROVE  eventForm' \in [open : BOOLEAN, id : Event \cup {None}]
          <5>1. eventForm' = [open |-> TRUE, id |-> i]
            BY <4>1 DEF OpensDraft
          <5> QED BY <5>1
        <4>2. ASSUME ClosesDraft PROVE eventForm' = NoDraft
          BY <4>2 DEF ClosesDraft
        <4> QED BY <1>0, <3>1, <4>1, <4>2 DEF Drafts
      <3>2. ASSUME \/ \E e \in Event \cup {None} : EnterView(e)
                   \/ \E e \in Event : OpenEvent(e) \/ FollowLink(e)
                   \/ \E t \in Task : PickTask(t) \/ \E e \in Event \cup {None} : ItemCloses(t, e)
                   \/ \E yes \in BOOLEAN : AnswerDelete(yes)
                   \/ LeaveView \/ Back \/ EventsPoll \/ Narrows \/ AddExistingTasks \/ SubmitEvent \/ AskDelete \/ OthersDelete
            PROVE  eventForm' = eventForm \/ eventForm' = NoDraft
        BY <3>2 DEF EnterView, OpenEvent, FollowLink, PickTask, ItemCloses, AnswerDelete, LeaveView, Back, EventsPoll,
           Narrows, AddExistingTasks, SubmitEvent, AskDelete, OthersDelete
      <3> QED BY <1>0, <1>3, <3>1, <3>2 DEF EventsUser
    <2>2. vague' \subseteq Kinds
      <3>1. ASSUME \/ \E e \in Event : OpenEvent(e) \/ FollowLink(e)
                   \/ \E t \in Task : \E e \in Event \cup {None} : ItemCloses(t, e)
                   \/ Back \/ EventsPoll
            PROVE  \E others, new : Begins(others, new)
        BY <3>1 DEF OpenEvent, FollowLink, ItemCloses, Back, EventsPoll
      <3>2. ASSUME \/ \E e \in Event \cup {None} : EnterView(e)
                   \/ \E t \in Task : PickTask(t)
                   \/ \E yes \in BOOLEAN : AnswerDelete(yes)
                   \/ LeaveView \/ Narrows \/ AddExistingTasks \/ SubmitEvent \/ AskDelete \/ OthersDelete \/ Drafts
            PROVE  vague' = vague \/ vague' = {} \/ vague' = Kinds
        BY <3>2 DEF EnterView, PickTask, AnswerDelete, LeaveView, Narrows, AddExistingTasks, SubmitEvent, AskDelete,
           OthersDelete, Drafts
      <3> QED BY <1>0, <1>2, <1>3, <3>1, <3>2 DEF EventsUser
    <2> QED BY <1>1, <2>1, <2>2 DEF EventViewTypes
  <1>4. CASE EventsAnswers
    <2>1. ASSUME NEW q, EventServed(q) \/ EventArrives(q) \/ EventFails(q)
          PROVE  eventForm' = eventForm /\ (vague' \in {vague, Kinds} \/ \E others, new : Begins(others, new))
      BY <2>1 DEF EventServed, EventArrives, EventFails, GridEnds, DetailEnds
    <2>2. ASSUME NEW w, \/ EventNotWritten(w) \/ EventSaved(w) \/ EventDeleted(w) \/ TasksAdded(w) \/ EventWritten(w)
          PROVE  eventForm' \in {eventForm, NoDraft} /\ (vague' \in {vague, Kinds} \/ \E others, new : Begins(others, new))
      BY <2>2 DEF EventNotWritten, EventSaved, EventDeleted, TasksAdded, EventWritten
    <2>3. ASSUME NEW w, NEW t, NEW lost, TaskRefused(w, t) \/ TaskAdded(w, t, lost)
          PROVE  eventForm' = eventForm /\ vague' \in {vague, Kinds}
      BY <2>3 DEF TaskRefused, TaskAdded, AddFailed
    <2>4. CASE SearchApplies
      BY <1>0, <1>1, <2>4 DEF SearchApplies, EventViewTypes
    <2>5. \/ eventForm' \in {eventForm, NoDraft} /\ (vague' \in {vague, Kinds} \/ \E others, new : Begins(others, new))
          \/ SearchApplies
      BY <1>4, <2>1, <2>2, <2>3 DEF EventsAnswers
    <2> QED BY <1>0, <1>1, <1>2, <2>4, <2>5 DEF EventViewTypes
  <1> QED BY <1>3, <1>4

LEMMA PicksKept ==
  ASSUME EventTypes, CalendarOK(calendar), TasksWherePicked, EventsUser \/ EventsAnswers
  PROVE  TasksWherePicked'
  <1>1. CASE AddExistingTasks
    <2>1. calendar.mode = "detail" /\ calendar.detail # None
          /\ misfiled' = (misfiled \/ (~calendar.turned /\ \E x \in calendar.picked : x.under # calendar.detail.id))
      BY <1>1 DEF AddExistingTasks, AtDetail
    <2>2. calendar.turned \/ \A x \in calendar.picked : x.under = calendar.detail.id
      BY <2>1 DEF CalendarOK, PicksFollow, SeenAt
    <2> QED BY <2>1, <2>2 DEF TasksWherePicked
  <1>2. CASE EventsUser /\ ~AddExistingTasks
    <2>1. misfiled' = misfiled
      BY <1>2 DEF EventsUser, EnterView, OpenEvent, FollowLink, PickTask, ItemCloses, AnswerDelete, LeaveView, Back, EventsPoll,
           Narrows, Drafts, SubmitEvent, AskDelete, OthersDelete, Stays
    <2> QED BY <2>1 DEF TasksWherePicked
  <1>3. CASE EventsAnswers
    <2>1. misfiled' = misfiled
      <3>1. ASSUME NEW q, EventServed(q) \/ EventArrives(q) \/ EventFails(q) PROVE misfiled' = misfiled
        BY <3>1 DEF EventServed, EventArrives, EventFails
      <3>2. ASSUME NEW w, \/ EventNotWritten(w) \/ EventSaved(w) \/ EventDeleted(w) \/ TasksAdded(w) \/ EventWritten(w)
            PROVE  misfiled' = misfiled
        BY <3>2 DEF EventNotWritten, EventSaved, EventDeleted, TasksAdded, EventWritten
      <3>3. ASSUME NEW w, NEW t, NEW lost, TaskRefused(w, t) \/ TaskAdded(w, t, lost) PROVE misfiled' = misfiled
        BY <3>3 DEF TaskRefused, TaskAdded
      <3>4. ASSUME SearchApplies PROVE misfiled' = misfiled
        BY <3>4 DEF SearchApplies, Stays
      <3> QED BY <1>3, <3>1, <3>2, <3>3, <3>4 DEF EventsAnswers
    <2> QED BY <2>1 DEF TasksWherePicked
  <1> QED BY <1>1, <1>2, <1>3

LEMMA EventsKept ==
  ASSUME EventsInv, [Next]_vars
  PROVE  EventsInv'
  <1>0. EventTypes /\ CalendarOK(calendar) /\ EventFollows /\ TasksWherePicked
    BY DEF EventsInv
  <1>1. CASE EventsUser \/ EventsAnswers
    <2>1. EventTypes'
      BY <1>0, <1>1, EventServerKept, EventViewKept, EventReadsKept, EventWritesKept DEF EventTypes
    <2>2. CalendarOK(calendar')
      BY <1>0, <1>1, CalendarKept
    <2>3. EventFollowsNext
      BY <1>0, <1>1, UserFollows, AnswersFollow
    <2>4. EventFollows'
      BY <2>3 DEF EventFollows, EventFollowsNext
    <2>5. TasksWherePicked'
      BY <1>0, <1>1, PicksKept
    <2> QED BY <2>1, <2>2, <2>4, <2>5 DEF EventsInv
  <1>2. CASE UNCHANGED eventsState
    <2>1. UNCHANGED <<events, eventOf, calendar, eventForm, eventReads, eventWrites, vague, misfiled>>
      BY <1>2 DEF eventsState
    <2>2. EventTypes'
      BY <1>0, <2>1 DEF EventTypes, EventServerTypes, EventViewTypes, EventReadTypes, EventWriteTypes
    <2>3. CalendarOK(calendar') /\ TasksWherePicked'
      BY <1>0, <2>1 DEF TasksWherePicked
    <2>4. EventFollows'
      BY <1>0, <2>1 DEF EventFollows
    <2> QED BY <2>2, <2>3, <2>4 DEF EventsInv
  <1> QED BY <1>1, <1>2, PageSteps

(* However loads, links, picks, writes and their answers interleave on the *)
(* page of events (views/EventsView.jsx): a task is added to the event it  *)
(* was picked for, what narrows the tasks was chosen at their event, and   *)
(* with nothing under way the page shows what the server keeps; each but   *)
(* for the cases its definition names.                                     *)
THEOREM EventsHold == Spec => []EventsRight
  <1>1. Init => EventsInv
    BY EventsStart
  <1>2. EventsInv /\ [Next]_vars => EventsInv'
    BY EventsKept
  <1>3. ASSUME EventsInv PROVE EventsRight
    <2>0. TasksWherePicked /\ EventFollows /\ FiltersFollow(calendar)
      BY <1>3 DEF EventsInv, CalendarOK
    <2>1. FiltersOwn
      BY <2>0 DEF FiltersOwn, FiltersFollow, AtDetail
    <2>2. EventsSettle
      <3>1. SUFFICES ASSUME eventReads = {}, eventWrites = {}
                     PROVE  /\ calendar.mode = "detail" /\ "detail" \notin vague =>
                                 /\ calendar.detail # None
                                 /\ calendar.detail.id \in DOMAIN events /\ calendar.detail = EventRow(calendar.detail.id)
                                 /\ calendar.late \/ calendar.detail.id = calendar.opened
                            /\ calendar.mode = "list" /\ "grid" \notin vague =>
                                 calendar.grid \in {None, [e \in DOMAIN events |-> EventRow(e)]}
        BY DEF EventsSettle
      <3>2. ~PageReloads(calendar, eventWrites)
        BY <3>1 DEF PageReloads
      <3>3. calendar.mode = "detail" /\ "detail" \notin vague => DetailIsNow(calendar, events, eventOf)
        BY <2>0, <3>1, <3>2 DEF EventFollows, Follows, DetailFollows
      <3>4. calendar.mode = "list" /\ "grid" \notin vague => calendar.grid \in {None, RowsIn(events, eventOf)}
        BY <2>0, <3>1, <3>2 DEF EventFollows, Follows, GridFollows
      <3> QED BY <2>0, <3>3, <3>4, RowsAre DEF DetailIsNow, FiltersFollow
    <2> QED BY <2>0, <2>1, <2>2 DEF EventsRight
  <1> QED BY <1>1, <1>2, <1>3, PTL DEF Spec
-----------------------------------------------------------------------------
(* The planning of sprints: types.                                         *)
Plans == [sprint : Sprint \cup {0}, cap : Nat]
Planners == [mount : Nat, base : {"loading", "shown", "missing"}, sprints : SUBSET Sprint, picked : Sprint \cup {0},
             seq : Nat, plan : Plans, draft : Plans]

\* Capacity k, if any, was typed for sprint s.
TypedAt(tf, s, k) == k = 0 \/ (k \in 1..Len(tf) /\ tf[k] = s)

IsPlanRead(q) ==
    q \in [n : {q.n}, mount : Nat, seq : Nat, sprint : Sprint, got : {"nothing", "plan"}, cap : Nat]
IsPlanSave(w) ==
    w \in [n : {w.n}, mount : Nat, into : Sprint, cap : Nat, picked : Sprint, answer : {"none", "ok", "lost"}]

PlannerTypes ==
    /\ open \subseteq Sprint /\ typedFor \in Seq(Sprint) /\ capacity \in [Sprint -> Nat]
    /\ planner \in Planners /\ dated \in BOOLEAN
PlanReadTypes == \A q \in planReads : IsPlanRead(q)
PlanSaveTypes == \A w \in planSaves : IsPlanSave(w)

\* What is kept, on its way or in the field was typed for its sprint.
KeptTyped == \A s \in Sprint : TypedAt(typedFor, s, capacity[s])
ReadTyped == \A q \in planReads : TypedAt(typedFor, q.sprint, q.cap)
SaveTyped == \A w \in planSaves : TypedAt(typedFor, w.into, w.cap)
DraftTyped(p, tf) == p.draft.sprint = p.picked => TypedAt(tf, p.picked, p.draft.cap)

\* Before a sprint is picked nothing was asked for or typed.
UnpickedIdle(p, reads, saves) ==
    p.picked = 0 => /\ p.plan = NoPlan /\ p.draft = NoPlan
                    /\ \A q \in reads : q.mount # p.mount
                    /\ \A w \in saves : w.mount # p.mount
LoadingUnpicked(p) == p.base # "shown" => p.picked = 0

\* Loads and saves are of this view of the page or of one before it.
PlanAges(p, reads, saves) ==
    /\ \A q \in reads : q.mount <= p.mount /\ (q.mount = p.mount => q.seq <= p.seq)
    /\ \A w \in saves : w.mount <= p.mount

LatestOf(p, q) == q.mount = p.mount /\ q.seq = p.seq

\* The plan asked for last is of the sprint picked, and its answer, or if it is
\* here what is shown, is the server's present one.
PlanFollows(p, cap, reads, saves, d) ==
    p.base = "shown" /\ ~d =>
      \/ \E w \in saves : w.mount = p.mount /\ w.answer = "ok"
      \/ /\ \A q \in reads : LatestOf(p, q) => q.sprint = p.picked /\ (q.got = "plan" => q.cap = cap[q.sprint])
         /\ (\A q \in reads : ~LatestOf(p, q)) =>
                p.plan = IF p.picked = 0 THEN NoPlan ELSE [sprint |-> p.picked, cap |-> cap[p.picked]]

PlanningInv ==
    /\ PlannerTypes /\ PlanReadTypes /\ PlanSaveTypes
    /\ KeptTyped /\ ReadTyped /\ SaveTyped /\ DraftTyped(planner, typedFor)
    /\ UnpickedIdle(planner, planReads, planSaves) /\ LoadingUnpicked(planner)
    /\ PlanAges(planner, planReads, planSaves)
    /\ PlanFollows(planner, capacity, planReads, planSaves, dated)

PlanningInvNext ==
    /\ PlannerTypes' /\ PlanReadTypes' /\ PlanSaveTypes'
    /\ KeptTyped' /\ ReadTyped' /\ SaveTyped' /\ DraftTyped(planner', typedFor')
    /\ UnpickedIdle(planner', planReads', planSaves') /\ LoadingUnpicked(planner')
    /\ PlanAges(planner', planReads', planSaves')
    /\ PlanFollows(planner', capacity', planReads', planSaves', dated')

LEMMA PlannerFields ==
  ASSUME NEW p \in Planners
  PROVE  /\ p.mount \in Nat /\ p.base \in {"loading", "shown", "missing"} /\ p.sprints \subseteq Sprint
         /\ p.picked \in Sprint \cup {0} /\ p.seq \in Nat
         /\ p.plan.sprint \in Sprint \cup {0} /\ p.plan.cap \in Nat
         /\ p.draft.sprint \in Sprint \cup {0} /\ p.draft.cap \in Nat
         /\ p.plan \in Plans /\ p.draft \in Plans
  BY DEF Planners, Plans

LEMMA SprintsAre == 0 \notin Sprint /\ Sprint \subseteq Nat /\ NoPlan \in Plans
  BY PlanningAssumption DEF NoPlan, Plans

LEMMA TypedGrows ==
  ASSUME NEW tf \in Seq(Sprint), NEW x \in Sprint
  PROVE  /\ Append(tf, x) \in Seq(Sprint) /\ Len(tf) + 1 \in Nat \ {0}
         /\ TypedAt(Append(tf, x), x, Len(tf) + 1)
         /\ \A s, k : TypedAt(tf, s, k) => TypedAt(Append(tf, x), s, k)
  BY DEF TypedAt

LEMMA FirstIs ==
  ASSUME NEW S \in SUBSET Sprint
  PROVE  IF S = {} THEN First(S) = 0 ELSE First(S) \in S
  <1>1. CASE S = {}
    BY <1>1 DEF First
  <1>2. CASE S # {}
    <2>1. S \subseteq Nat
      BY SprintsAre
    <2>2. PICK R : R = OpToRel(<, Nat)
      OBVIOUS
    <2>3. IsWellFoundedOn(R, Nat)
      BY <2>2, NatLessThanWellFounded
    <2>4. \A x, y \in Nat : y < x => <<y, x>> \in R
      BY <2>2 DEF OpToRel
    <2>5. PICK x \in S : \A y \in S : ~(<<y, x>> \in R)
      BY <1>2, <2>1, <2>3, WFMin
    <2>6. \A y \in S : x \in Nat /\ y \in Nat /\ ~(y < x)
      BY <2>1, <2>4, <2>5
    <2>7. \A y \in S : x <= y
      BY <2>6
    <2> QED BY <1>2, <2>7 DEF First
  <1> QED BY <1>1, <1>2

LEMMA Refreshed ==
  ASSUME NEW v \in Planners, NEW s \in Sprint \cup {0}, RefreshPlanning(v, s)
  PROVE  /\ planner' \in Planners
         /\ planner'.mount = v.mount /\ planner'.base = v.base /\ planner'.sprints = v.sprints
         /\ planner'.picked = v.picked /\ planner'.seq = v.seq + 1 /\ planner'.plan = NoPlan /\ planner'.draft = NoPlan
         /\ s = 0 => planReads' = planReads
         /\ s # 0 => \E r : /\ planReads' = planReads \cup {r} /\ IsPlanRead(r)
                            /\ r.mount = v.mount /\ r.seq = v.seq + 1 /\ r.sprint = s /\ r.got = "nothing" /\ r.cap = 0
         /\ dated' \in BOOLEAN /\ (dated' <=> s # v.picked)
  <1>1. planner' = [v EXCEPT !.seq = @ + 1, !.plan = NoPlan, !.draft = NoPlan]
    BY DEF RefreshPlanning
  <1>2. PICK k \in Nat : k = v.seq + 1
    BY PlannerFields
  <1>3. planner' = [v EXCEPT !.seq = k, !.plan = NoPlan, !.draft = NoPlan]
    BY <1>1, <1>2 DEF Planners
  <1>4. /\ planner' \in Planners
        /\ planner'.mount = v.mount /\ planner'.base = v.base /\ planner'.sprints = v.sprints
        /\ planner'.picked = v.picked /\ planner'.seq = k /\ planner'.plan = NoPlan /\ planner'.draft = NoPlan
    BY <1>3, SprintsAre DEF Planners
  <1>5. s = 0 => planReads' = planReads
    BY DEF RefreshPlanning
  <1>6. ASSUME s # 0
        PROVE  \E r : /\ planReads' = planReads \cup {r} /\ IsPlanRead(r)
                      /\ r.mount = v.mount /\ r.seq = v.seq + 1 /\ r.sprint = s /\ r.got = "nothing" /\ r.cap = 0
    <2>1. PICK r : r = [n |-> UnusedBy(planReads), mount |-> v.mount, seq |-> v.seq + 1, sprint |-> s,
                        got |-> "nothing", cap |-> 0]
      OBVIOUS
    <2>2. planReads' = planReads \cup {r}
      BY <1>6, <2>1 DEF RefreshPlanning
    <2>3. IsPlanRead(r)
      <3>1. r.n = UnusedBy(planReads)
        BY <2>1
      <3>2. v.mount \in Nat /\ v.seq + 1 \in Nat
        BY PlannerFields
      <3> QED BY <1>6, <2>1, <3>1, <3>2 DEF IsPlanRead
    <2>4. r.mount = v.mount /\ r.seq = v.seq + 1 /\ r.sprint = s /\ r.got = "nothing" /\ r.cap = 0
      BY <2>1
    <2> QED BY <2>2, <2>3, <2>4
  <1>7. dated' \in BOOLEAN /\ (dated' <=> s # v.picked)
    BY DEF RefreshPlanning
  <1> QED BY <1>2, <1>4, <1>5, <1>6, <1>7

\* A plan is asked for: by a pick, by the base when it comes, or after a save.
LEMMA RefreshKeeps ==
  ASSUME PlanningInv, NEW v \in Planners, NEW s \in Sprint \cup {0}, RefreshPlanning(v, s),
         v.mount = planner.mount, v.seq = planner.seq, v.base = "shown", v.picked \in Sprint,
         s \in Sprint, UNCHANGED <<open, capacity, typedFor>>, planSaves' \subseteq planSaves
  PROVE  PlanningInvNext
  <1>0. /\ open \subseteq Sprint /\ typedFor \in Seq(Sprint) /\ capacity \in [Sprint -> Nat]
        /\ planner \in Planners /\ (\A q \in planReads : IsPlanRead(q)) /\ (\A w \in planSaves : IsPlanSave(w))
    BY DEF PlanningInv, PlannerTypes, PlanReadTypes, PlanSaveTypes
  <1>1. /\ planner' \in Planners
        /\ planner'.mount = v.mount /\ planner'.base = v.base /\ planner'.picked = v.picked
        /\ planner'.seq = v.seq + 1 /\ planner'.plan = NoPlan /\ planner'.draft = NoPlan
    BY Refreshed
  <1>2. dated' \in BOOLEAN /\ (dated' <=> s # v.picked)
    BY Refreshed
  <1>3. PICK r : /\ planReads' = planReads \cup {r} /\ IsPlanRead(r)
                 /\ r.mount = v.mount /\ r.seq = v.seq + 1 /\ r.sprint = s /\ r.got = "nothing" /\ r.cap = 0
    BY Refreshed, SprintsAre
  <1>4. PlannerTypes' /\ PlanReadTypes' /\ PlanSaveTypes'
    BY <1>0, <1>1, <1>2, <1>3 DEF PlannerTypes, PlanReadTypes, PlanSaveTypes
  <1>5. KeptTyped' /\ ReadTyped' /\ SaveTyped'
    BY <1>3 DEF PlanningInv, KeptTyped, ReadTyped, SaveTyped, TypedAt
  <1>6. DraftTyped(planner', typedFor')
    BY <1>1 DEF DraftTyped, TypedAt, NoPlan
  <1>7. UnpickedIdle(planner', planReads', planSaves') /\ LoadingUnpicked(planner')
    BY <1>1, SprintsAre DEF UnpickedIdle, LoadingUnpicked
  <1>8. v.mount \in Nat /\ v.seq \in Nat /\ \A q \in planReads : q.seq \in Nat
    BY <1>0, PlannerFields DEF IsPlanRead
  <1>9. PlanAges(planner', planReads', planSaves')
    <2>1. \A q \in planReads : q.mount <= v.mount /\ (q.mount = v.mount => q.seq <= v.seq)
      BY DEF PlanningInv, PlanAges
    <2>2. \A w \in planSaves' : w.mount <= v.mount
      BY DEF PlanningInv, PlanAges
    <2> QED BY <1>1, <1>3, <1>8, <2>1, <2>2 DEF PlanAges
  <1>10. PlanFollows(planner', capacity', planReads', planSaves', dated')
    <2>1. \A q \in planReads : ~LatestOf(planner', q)
      <3>1. \A q \in planReads : q.mount = v.mount => q.seq <= v.seq
        BY DEF PlanningInv, PlanAges
      <3> QED BY <1>1, <1>8, <3>1 DEF LatestOf
    <2>2. LatestOf(planner', r)
      BY <1>1, <1>3 DEF LatestOf
    <2>3. ~dated' => \A q \in planReads' : LatestOf(planner', q) =>
                        q.sprint = planner'.picked /\ (q.got = "plan" => q.cap = capacity'[q.sprint])
      BY <1>1, <1>2, <1>3, <2>1
    <2> QED BY <1>3, <2>2, <2>3 DEF PlanFollows
  <1> QED BY <1>4, <1>5, <1>6, <1>7, <1>9, <1>10 DEF PlanningInvNext

LEMMA BaseKeeps ==
  ASSUME PlanningInv, BaseArrives(open)
  PROVE  PlanningInvNext
  <1> DEFINE pick == IF planner.picked \in open THEN planner.picked ELSE First(open)
             v == [planner EXCEPT !.base = "shown", !.sprints = open, !.picked = pick]
  <1>0. /\ open \in SUBSET Sprint /\ planner \in Planners /\ planner.base = "loading" /\ planner.picked = 0
        /\ UNCHANGED <<open, capacity, typedFor, planSaves>>
    BY DEF BaseArrives, PlanningInv, PlannerTypes, LoadingUnpicked
  <1>1. pick \in Sprint \cup {0} /\ (pick = 0 \/ pick \in Sprint)
    BY <1>0, FirstIs
  <1>2. IF pick = planner.picked THEN planner' = v /\ UNCHANGED <<planReads, dated>>
        ELSE RefreshPlanning(v, pick)
    BY DEF BaseArrives
  <1> HIDE DEF pick
  <1>3. /\ v \in Planners /\ v.mount = planner.mount /\ v.seq = planner.seq /\ v.base = "shown" /\ v.picked = pick
        /\ v.plan = planner.plan /\ v.draft = planner.draft
    BY <1>0, <1>1 DEF Planners
  <1> HIDE DEF v
  <1>4. CASE pick # planner.picked
    <2>1. pick \in Sprint /\ RefreshPlanning(v, pick)
      BY <1>0, <1>1, <1>2, <1>4
    <2> QED BY <1>0, <1>1, <1>3, <2>1, RefreshKeeps
  <1>5. CASE pick = planner.picked
    <2>1. planner' = v /\ UNCHANGED <<planReads, dated>> /\ v.picked = 0
      BY <1>0, <1>2, <1>3, <1>5
    <2>2. /\ v.plan = NoPlan /\ v.draft = NoPlan
          /\ (\A q \in planReads : q.mount # v.mount) /\ (\A w \in planSaves : w.mount # v.mount)
      BY <1>0, <1>3 DEF PlanningInv, UnpickedIdle
    <2>3. PlannerTypes' /\ PlanReadTypes' /\ PlanSaveTypes'
      BY <1>0, <1>3, <2>1 DEF PlanningInv, PlannerTypes, PlanReadTypes, PlanSaveTypes
    <2>4. KeptTyped' /\ ReadTyped' /\ SaveTyped'
      BY <1>0, <2>1 DEF PlanningInv, KeptTyped, ReadTyped, SaveTyped
    <2>5. DraftTyped(v, typedFor)
      BY <2>2 DEF DraftTyped, TypedAt, NoPlan
    <2>6. UnpickedIdle(v, planReads, planSaves) /\ LoadingUnpicked(v)
      BY <1>3, <2>2 DEF UnpickedIdle, LoadingUnpicked
    <2>7. PlanAges(v, planReads, planSaves)
      BY <1>3 DEF PlanningInv, PlanAges
    <2>8. PlanFollows(v, capacity, planReads, planSaves, dated)
      BY <2>1, <2>2 DEF PlanFollows, LatestOf
    <2> QED BY <1>0, <2>1, <2>3, <2>4, <2>5, <2>6, <2>7, <2>8 DEF PlanningInvNext
  <1> QED BY <1>4, <1>5

LEMMA BaseFailsKeeps ==
  ASSUME PlanningInv, BaseFails
  PROVE  PlanningInvNext
  <1>0. /\ planner \in Planners /\ planner.base = "loading" /\ UNCHANGED <<open, capacity, typedFor, planReads, planSaves, dated>>
        /\ planner' = [planner EXCEPT !.base = "missing"]
    BY DEF BaseFails, PlanningInv, PlannerTypes
  <1>1. /\ planner' \in Planners /\ planner'.mount = planner.mount /\ planner'.seq = planner.seq /\ planner'.base = "missing"
        /\ planner'.picked = planner.picked /\ planner'.plan = planner.plan /\ planner'.draft = planner.draft
    BY <1>0 DEF Planners
  <1>2. PlannerTypes' /\ PlanReadTypes' /\ PlanSaveTypes'
    BY <1>0, <1>1 DEF PlanningInv, PlannerTypes, PlanReadTypes, PlanSaveTypes
  <1>3. KeptTyped' /\ ReadTyped' /\ SaveTyped'
    BY <1>0 DEF PlanningInv, KeptTyped, ReadTyped, SaveTyped
  <1>4. DraftTyped(planner', typedFor') /\ LoadingUnpicked(planner')
    BY <1>0, <1>1 DEF PlanningInv, DraftTyped, LoadingUnpicked
  <1>5. UnpickedIdle(planner', planReads', planSaves') /\ PlanAges(planner', planReads', planSaves')
    BY <1>0, <1>1 DEF PlanningInv, UnpickedIdle, PlanAges
  <1>6. PlanFollows(planner', capacity', planReads', planSaves', dated')
    BY <1>1 DEF PlanFollows
  <1> QED BY <1>2, <1>3, <1>4, <1>5, <1>6 DEF PlanningInvNext

\* A load is served, or ends.
LEMMA PlanReadKeeps ==
  ASSUME PlanningInv, NEW q \in planReads, PlanServed(q) \/ PlanArrives(q) \/ PlanFails(q)
  PROVE  PlanningInvNext
  <1>0. /\ planner \in Planners /\ IsPlanRead(q) /\ UNCHANGED <<open, capacity, typedFor, planSaves>>
        /\ capacity \in [Sprint -> Nat] /\ TypedAt(typedFor, q.sprint, q.cap)
    BY DEF PlanningInv, PlannerTypes, PlanReadTypes, ReadTyped, PlanServed, PlanArrives, PlanFails
  <1>1. LatestPlan(q) = LatestOf(planner, q)
    BY DEF LatestPlan, LatestOf
  <1>2. PlanSaveTypes' /\ KeptTyped' /\ SaveTyped'
    BY <1>0 DEF PlanningInv, PlanSaveTypes, KeptTyped, SaveTyped
  <1>3. CASE PlanServed(q)
    <2>1. PICK r : r = [q EXCEPT !.got = "plan", !.cap = capacity[q.sprint]]
      OBVIOUS
    <2>2. planReads' = (planReads \ {q}) \cup {r} /\ UNCHANGED <<planner, dated>>
      BY <1>3, <2>1 DEF PlanServed
    <2>3. /\ r.mount = q.mount /\ r.seq = q.seq /\ r.sprint = q.sprint /\ r.got = "plan" /\ r.cap = capacity[q.sprint]
          /\ q.sprint \in Sprint /\ IsPlanRead(r)
      BY <1>0, <2>1 DEF IsPlanRead
    <2>4. TypedAt(typedFor, r.sprint, r.cap)
      BY <2>3 DEF PlanningInv, KeptTyped
    <2>5. PlannerTypes' /\ PlanReadTypes' /\ ReadTyped'
      BY <1>0, <2>2, <2>3, <2>4 DEF PlanningInv, PlannerTypes, PlanReadTypes, ReadTyped
    <2>6. DraftTyped(planner', typedFor') /\ LoadingUnpicked(planner')
      BY <1>0, <2>2 DEF PlanningInv, DraftTyped, LoadingUnpicked
    <2>7. UnpickedIdle(planner', planReads', planSaves') /\ PlanAges(planner', planReads', planSaves')
      BY <1>0, <2>2, <2>3 DEF PlanningInv, UnpickedIdle, PlanAges
    <2>8. LatestOf(planner, r) = LatestOf(planner, q)
      BY <2>3 DEF LatestOf
    <2>9. PlanFollows(planner, capacity, (planReads \ {q}) \cup {r}, planSaves, dated)
      <3>1. SUFFICES ASSUME planner.base = "shown", ~dated, ~\E w \in planSaves : w.mount = planner.mount /\ w.answer = "ok"
                     PROVE  /\ \A x \in (planReads \ {q}) \cup {r} : LatestOf(planner, x) =>
                                  x.sprint = planner.picked /\ (x.got = "plan" => x.cap = capacity[x.sprint])
                            /\ (\A x \in (planReads \ {q}) \cup {r} : ~LatestOf(planner, x)) =>
                                  planner.plan = IF planner.picked = 0 THEN NoPlan
                                                 ELSE [sprint |-> planner.picked, cap |-> capacity[planner.picked]]
        BY DEF PlanFollows
      <3>2. /\ \A x \in planReads : LatestOf(planner, x) =>
                   x.sprint = planner.picked /\ (x.got = "plan" => x.cap = capacity[x.sprint])
            /\ (\A x \in planReads : ~LatestOf(planner, x)) =>
                   planner.plan = IF planner.picked = 0 THEN NoPlan
                                  ELSE [sprint |-> planner.picked, cap |-> capacity[planner.picked]]
        BY <3>1 DEF PlanningInv, PlanFollows
      <3>3. LatestOf(planner, r) => r.sprint = planner.picked /\ (r.got = "plan" => r.cap = capacity[r.sprint])
        BY <2>3, <2>8, <3>2
      <3>4. (\A x \in (planReads \ {q}) \cup {r} : ~LatestOf(planner, x)) => \A x \in planReads : ~LatestOf(planner, x)
        BY <2>8
      <3> QED BY <3>2, <3>3, <3>4
    <2> QED BY <1>0, <1>2, <2>2, <2>5, <2>6, <2>7, <2>9 DEF PlanningInvNext
  <1>4. ASSUME planReads' = planReads \ {q} PROVE PlanReadTypes' /\ ReadTyped'
    BY <1>0, <1>4 DEF PlanningInv, PlanReadTypes, ReadTyped
  <1>5. ASSUME planReads' = planReads \ {q}, planner' = planner
        PROVE  /\ DraftTyped(planner', typedFor') /\ LoadingUnpicked(planner')
               /\ UnpickedIdle(planner', planReads', planSaves') /\ PlanAges(planner', planReads', planSaves')
    BY <1>0, <1>5 DEF PlanningInv, DraftTyped, LoadingUnpicked, UnpickedIdle, PlanAges
  <1>6. ASSUME planReads' = planReads \ {q}, planner' = planner, dated' = dated, ~LatestOf(planner, q)
        PROVE  PlanFollows(planner', capacity', planReads', planSaves', dated')
    <2>1. PlanFollows(planner, capacity, planReads \ {q}, planSaves, dated)
      BY <1>6 DEF PlanningInv, PlanFollows
    <2> QED BY <1>0, <1>6, <2>1
  <1>7. CASE PlanFails(q)
    <2>1. planReads' = planReads \ {q} /\ planner' = planner /\ dated' = (dated \/ LatestPlan(q))
      BY <1>7 DEF PlanFails
    <2>2. PlannerTypes'
      BY <1>0, <2>1 DEF PlanningInv, PlannerTypes
    <2>3. CASE LatestOf(planner, q)
      <3>1. dated' = TRUE
        BY <1>1, <2>1, <2>3
      <3>2. PlanFollows(planner', capacity', planReads', planSaves', dated')
        BY <3>1 DEF PlanFollows
      <3> QED BY <1>2, <1>4, <1>5, <2>1, <2>2, <3>2 DEF PlanningInvNext
    <2>4. CASE ~LatestOf(planner, q)
      <3>1. dated' = dated
        BY <1>1, <2>1, <2>4 DEF PlanningInv, PlannerTypes
      <3> QED BY <1>2, <1>4, <1>5, <1>6, <2>1, <2>2, <2>4, <3>1 DEF PlanningInvNext
    <2> QED BY <2>3, <2>4
  <1>8. CASE PlanArrives(q)
    <2>1. planReads' = planReads \ {q} /\ dated' = dated /\ q.got = "plan"
      BY <1>8 DEF PlanArrives
    <2>2. CASE ~LatestOf(planner, q)
      <3>1. planner' = planner
        BY <1>1, <1>8, <2>2 DEF PlanArrives
      <3>2. PlannerTypes'
        BY <1>0, <2>1, <3>1 DEF PlanningInv, PlannerTypes
      <3> QED BY <1>2, <1>4, <1>5, <1>6, <2>1, <2>2, <3>1, <3>2 DEF PlanningInvNext
    <2>3. CASE LatestOf(planner, q)
      <3>1. PICK x : x = [sprint |-> q.sprint, cap |-> q.cap]
        OBVIOUS
      <3>2. x \in Plans /\ x.sprint = q.sprint /\ x.cap = q.cap /\ q.sprint \in Sprint
        BY <1>0, <3>1 DEF IsPlanRead, Plans
      <3>3. planner' = [planner EXCEPT !.plan = x, !.draft = x]
        BY <1>1, <1>8, <2>3, <3>1 DEF PlanArrives
      <3>4. /\ planner' \in Planners /\ planner'.mount = planner.mount /\ planner'.seq = planner.seq
            /\ planner'.base = planner.base /\ planner'.picked = planner.picked /\ planner'.plan = x /\ planner'.draft = x
        BY <1>0, <3>2, <3>3 DEF Planners
      <3>5. PlannerTypes'
        BY <1>0, <2>1, <3>4 DEF PlanningInv, PlannerTypes
      <3>6. planner.picked # 0
        BY <2>3 DEF PlanningInv, UnpickedIdle, LatestOf
      <3>7. DraftTyped(planner', typedFor')
        BY <1>0, <3>2, <3>4 DEF DraftTyped
      <3>8. LoadingUnpicked(planner') /\ UnpickedIdle(planner', planReads', planSaves')
        BY <3>4, <3>6 DEF PlanningInv, LoadingUnpicked, UnpickedIdle
      <3>9. PlanAges(planner', planReads', planSaves')
        BY <1>0, <2>1, <3>4 DEF PlanningInv, PlanAges
      <3>10. PlanFollows(planner', capacity, planReads \ {q}, planSaves, dated)
        <4>1. \A y : LatestOf(planner', y) = LatestOf(planner, y)
          BY <3>4 DEF LatestOf
        <4>2. SUFFICES ASSUME planner.base = "shown", ~dated, ~\E w \in planSaves : w.mount = planner.mount /\ w.answer = "ok"
                       PROVE  /\ \A y \in planReads \ {q} : LatestOf(planner, y) =>
                                    y.sprint = planner.picked /\ (y.got = "plan" => y.cap = capacity[y.sprint])
                              /\ x = [sprint |-> planner.picked, cap |-> capacity[planner.picked]]
          BY <3>4, <3>6, <4>1 DEF PlanFollows
        <4>3. \A y \in planReads : LatestOf(planner, y) =>
                  y.sprint = planner.picked /\ (y.got = "plan" => y.cap = capacity[y.sprint])
          BY <4>2 DEF PlanningInv, PlanFollows
        <4> QED BY <2>1, <2>3, <3>1, <4>3
      <3> QED BY <1>0, <1>2, <1>4, <2>1, <3>5, <3>7, <3>8, <3>9, <3>10 DEF PlanningInvNext
    <2> QED BY <2>2, <2>3
  <1> QED BY <1>3, <1>7, <1>8

LEMMA RemountKeeps ==
  ASSUME PlanningInv, Remount
  PROVE  PlanningInvNext
  <1>0. /\ planner \in Planners /\ planner.mount \in Nat
        /\ planner' = Empty(planner.mount + 1) /\ dated' = FALSE /\ UNCHANGED <<open, capacity, typedFor, planReads, planSaves>>
    BY PlannerFields DEF Remount, PlanningInv, PlannerTypes
  <1>1. /\ planner' \in Planners /\ planner'.mount = planner.mount + 1 /\ planner'.base = "loading" /\ planner'.picked = 0
        /\ planner'.plan = NoPlan /\ planner'.draft = NoPlan
    BY <1>0, SprintsAre DEF Empty, Planners
  <1>2. /\ \A q \in planReads : q.mount \in Nat /\ q.mount <= planner.mount
        /\ \A w \in planSaves : w.mount \in Nat /\ w.mount <= planner.mount
    BY DEF PlanningInv, PlanReadTypes, PlanSaveTypes, PlanAges, IsPlanRead, IsPlanSave
  <1>3. /\ \A q \in planReads : q.mount # planner'.mount /\ q.mount <= planner'.mount
        /\ \A w \in planSaves : w.mount # planner'.mount /\ w.mount <= planner'.mount
    BY <1>0, <1>1, <1>2
  <1>4. PlannerTypes' /\ PlanReadTypes' /\ PlanSaveTypes'
    BY <1>0, <1>1 DEF PlanningInv, PlannerTypes, PlanReadTypes, PlanSaveTypes
  <1>5. KeptTyped' /\ ReadTyped' /\ SaveTyped'
    BY <1>0 DEF PlanningInv, KeptTyped, ReadTyped, SaveTyped
  <1>6. DraftTyped(planner', typedFor') /\ LoadingUnpicked(planner')
    BY <1>1 DEF DraftTyped, LoadingUnpicked, TypedAt, NoPlan
  <1>7. UnpickedIdle(planner', planReads', planSaves') /\ PlanAges(planner', planReads', planSaves')
    BY <1>0, <1>1, <1>3 DEF UnpickedIdle, PlanAges
  <1>8. PlanFollows(planner', capacity', planReads', planSaves', dated')
    BY <1>1 DEF PlanFollows
  <1> QED BY <1>4, <1>5, <1>6, <1>7, <1>8 DEF PlanningInvNext

LEMMA PickKeeps ==
  ASSUME PlanningInv, NEW s \in Sprint, PickSprint(s)
  PROVE  PlanningInvNext
  <1>1. PICK v : v = [planner EXCEPT !.picked = s]
    OBVIOUS
  <1>2. planner \in Planners /\ planner.base = "shown" /\ RefreshPlanning(v, s) /\ UNCHANGED <<open, capacity, typedFor, planSaves>>
    BY <1>1 DEF PickSprint, PlanningInv, PlannerTypes
  <1>3. v \in Planners /\ v.mount = planner.mount /\ v.seq = planner.seq /\ v.base = "shown" /\ v.picked = s
    BY <1>1, <1>2 DEF Planners
  <1> QED BY <1>2, <1>3, RefreshKeeps

\* What is typed into the field changes nothing else.
LEMMA DraftKeeps ==
  ASSUME PlanningInv, NEW k \in Nat, planner' = [planner EXCEPT !.draft.cap = k], typedFor' \in Seq(Sprint),
         \A s, n : TypedAt(typedFor, s, n) => TypedAt(typedFor', s, n), TypedAt(typedFor', planner.picked, k),
         planner.picked # 0, UNCHANGED <<open, capacity, planReads, planSaves, dated>>
  PROVE  PlanningInvNext
  <1>0. planner \in Planners
    BY DEF PlanningInv, PlannerTypes
  <1>1. /\ planner' \in Planners /\ planner'.mount = planner.mount /\ planner'.seq = planner.seq /\ planner'.base = planner.base
        /\ planner'.picked = planner.picked /\ planner'.plan = planner.plan /\ planner'.draft.cap = k
    BY <1>0 DEF Planners, Plans
  <1>2. PlannerTypes' /\ PlanReadTypes' /\ PlanSaveTypes'
    BY <1>1 DEF PlanningInv, PlannerTypes, PlanReadTypes, PlanSaveTypes
  <1>3. KeptTyped' /\ ReadTyped' /\ SaveTyped'
    BY DEF PlanningInv, KeptTyped, ReadTyped, SaveTyped
  <1>4. DraftTyped(planner', typedFor') /\ LoadingUnpicked(planner')
    BY <1>1 DEF PlanningInv, DraftTyped, LoadingUnpicked
  <1>5. UnpickedIdle(planner', planReads', planSaves') /\ PlanAges(planner', planReads', planSaves')
    BY <1>1 DEF PlanningInv, UnpickedIdle, PlanAges
  <1>6. PlanFollows(planner', capacity', planReads', planSaves', dated')
    BY <1>1 DEF PlanningInv, PlanFollows, LatestOf
  <1> QED BY <1>2, <1>3, <1>4, <1>5, <1>6 DEF PlanningInvNext

LEMMA TypingKeeps ==
  ASSUME PlanningInv, TypeCapacity \/ EmptyCapacity
  PROVE  PlanningInvNext
  <1>0. planner \in Planners /\ typedFor \in Seq(Sprint) /\ HasPlan
    BY DEF PlanningInv, PlannerTypes, TypeCapacity, EmptyCapacity
  <1>1. planner.picked # 0 /\ planner.picked \in Sprint
    BY <1>0, PlannerFields DEF PlanningInv, UnpickedIdle, HasPlan
  <1>2. CASE TypeCapacity
    <2>1. /\ typedFor' = Append(typedFor, planner.picked) /\ planner' = [planner EXCEPT !.draft.cap = Len(typedFor) + 1]
          /\ UNCHANGED <<open, capacity, planReads, planSaves, dated>>
      BY <1>2 DEF TypeCapacity
    <2>2. /\ typedFor' \in Seq(Sprint) /\ Len(typedFor) + 1 \in Nat
          /\ TypedAt(typedFor', planner.picked, Len(typedFor) + 1)
          /\ \A s, n : TypedAt(typedFor, s, n) => TypedAt(typedFor', s, n)
      BY <1>0, <1>1, <2>1, TypedGrows
    <2> QED BY <1>1, <2>1, <2>2, DraftKeeps
  <1>3. CASE EmptyCapacity
    <2>1. typedFor' = typedFor /\ planner' = [planner EXCEPT !.draft.cap = 0] /\ UNCHANGED <<open, capacity, planReads, planSaves, dated>>
      BY <1>3 DEF EmptyCapacity
    <2>2. TypedAt(typedFor', planner.picked, 0)
      BY DEF TypedAt
    <2> QED BY <1>0, <1>1, <2>1, <2>2, DraftKeeps
  <1> QED BY <1>2, <1>3

\* What changes the saves under way only; one the page waits for stays.
LEMMA SavesKeep ==
  ASSUME PlanningInv, UNCHANGED <<open, capacity, typedFor, planner, planReads, dated>>,
         \A w \in planSaves' : w \in planSaves \/ (/\ IsPlanSave(w) /\ TypedAt(typedFor, w.into, w.cap)
                                                   /\ w.mount = planner.mount /\ planner.picked # 0),
         \A w \in planSaves : w.mount = planner.mount /\ w.answer = "ok" => w \in planSaves'
  PROVE  PlanningInvNext
  <1>0. planner.mount \in Nat
    BY PlannerFields DEF PlanningInv, PlannerTypes
  <1>1. PlannerTypes' /\ PlanReadTypes' /\ PlanSaveTypes'
    BY DEF PlanningInv, PlannerTypes, PlanReadTypes, PlanSaveTypes
  <1>2. KeptTyped' /\ ReadTyped' /\ SaveTyped'
    BY DEF PlanningInv, KeptTyped, ReadTyped, SaveTyped
  <1>3. DraftTyped(planner', typedFor') /\ LoadingUnpicked(planner')
    BY DEF PlanningInv, DraftTyped, LoadingUnpicked
  <1>4. UnpickedIdle(planner', planReads', planSaves') /\ PlanAges(planner', planReads', planSaves')
    BY <1>0 DEF PlanningInv, UnpickedIdle, PlanAges
  <1>5. PlanFollows(planner', capacity', planReads', planSaves', dated')
    BY DEF PlanningInv, PlanFollows
  <1> QED BY <1>1, <1>2, <1>3, <1>4, <1>5 DEF PlanningInvNext

LEMMA SaveKeeps ==
  ASSUME PlanningInv, SaveCapacity
  PROVE  PlanningInvNext
  <1>0. planner \in Planners /\ HasPlan /\ planner.draft.sprint = planner.picked
    BY DEF PlanningInv, PlannerTypes, SaveCapacity, SaveOffered
  <1>1. planner.picked # 0 /\ planner.picked \in Sprint /\ planner.mount \in Nat /\ planner.draft.cap \in Nat
    BY <1>0, PlannerFields DEF PlanningInv, UnpickedIdle, HasPlan
  <1>2. PICK w : w = [n |-> UnusedBy(planSaves), mount |-> planner.mount, into |-> planner.draft.sprint,
                      cap |-> planner.draft.cap, picked |-> planner.picked, answer |-> "none"]
    OBVIOUS
  <1>3. planSaves' = planSaves \cup {w} /\ UNCHANGED <<open, capacity, typedFor, planner, planReads, dated>>
    BY <1>2 DEF SaveCapacity
  <1>4. w.mount = planner.mount /\ w.into = planner.picked /\ w.cap = planner.draft.cap /\ w.n = UnusedBy(planSaves)
    BY <1>0, <1>2
  <1>5. IsPlanSave(w)
    BY <1>0, <1>1, <1>2, <1>4 DEF IsPlanSave
  <1>6. TypedAt(typedFor, w.into, w.cap)
    BY <1>0, <1>4 DEF PlanningInv, DraftTyped
  <1> QED BY <1>1, <1>3, <1>4, <1>5, <1>6, SavesKeep

LEMMA NotSavedKeeps ==
  ASSUME PlanningInv, NEW w \in planSaves, CapacityNotSaved(w)
  PROVE  PlanningInvNext
  BY SavesKeep DEF CapacityNotSaved

LEMMA ReplacedKeeps ==
  ASSUME PlanningInv, NEW w \in planSaves, CapacityReplaced(w)
  PROVE  PlanningInvNext
  <1>0. /\ planner \in Planners /\ capacity \in [Sprint -> Nat] /\ IsPlanSave(w) /\ TypedAt(typedFor, w.into, w.cap)
        /\ KeptTyped /\ dated \in BOOLEAN
    BY DEF PlanningInv, PlannerTypes, PlanSaveTypes, SaveTyped
  <1>1. w.into \in Sprint /\ w.cap \in Nat
    BY <1>0 DEF IsPlanSave
  <1>2. PICK how \in {"ok", "lost"} :
          /\ planSaves' = (planSaves \ {w}) \cup {[w EXCEPT !.answer = how]}
          /\ dated' = (dated \/ how = "lost" \/ w.mount # planner.mount)
    BY DEF CapacityReplaced
  <1>3. PICK x : x = [w EXCEPT !.answer = how]
    OBVIOUS
  <1>4. x.mount = w.mount /\ x.into = w.into /\ x.cap = w.cap /\ x.answer = how /\ IsPlanSave(x)
    BY <1>0, <1>3 DEF IsPlanSave
  <1>5. planSaves' = (planSaves \ {w}) \cup {x} /\ UNCHANGED <<open, typedFor, planner, planReads>>
    BY <1>2, <1>3 DEF CapacityReplaced
  <1>6. capacity' \in [Sprint -> Nat] /\ KeptTyped'
    <2>1. CASE w.cap = 0
      BY <1>0, <1>5, <2>1 DEF CapacityReplaced, KeptTyped
    <2>2. CASE w.cap # 0
      <3>1. capacity' = [capacity EXCEPT ![w.into] = w.cap]
        BY <2>2 DEF CapacityReplaced
      <3> QED BY <1>0, <1>1, <1>5, <3>1 DEF KeptTyped
    <2> QED BY <2>1, <2>2
  <1>7. dated' \in BOOLEAN
    BY <1>2
  <1>8. PlannerTypes' /\ PlanReadTypes' /\ PlanSaveTypes'
    BY <1>4, <1>5, <1>6, <1>7 DEF PlanningInv, PlannerTypes, PlanReadTypes, PlanSaveTypes
  <1>9. ReadTyped' /\ SaveTyped'
    BY <1>0, <1>4, <1>5 DEF PlanningInv, ReadTyped, SaveTyped
  <1>10. DraftTyped(planner', typedFor') /\ LoadingUnpicked(planner')
    BY <1>5 DEF PlanningInv, DraftTyped, LoadingUnpicked
  <1>11. UnpickedIdle(planner', planReads', planSaves') /\ PlanAges(planner', planReads', planSaves')
    BY <1>4, <1>5 DEF PlanningInv, UnpickedIdle, PlanAges
  <1>12. PlanFollows(planner', capacity', planReads', planSaves', dated')
    <2>1. CASE how = "lost" \/ w.mount # planner.mount
      <3>1. dated' = TRUE
        BY <1>2, <2>1
      <3> QED BY <3>1 DEF PlanFollows
    <2>2. CASE ~(how = "lost" \/ w.mount # planner.mount)
      <3>1. x \in planSaves' /\ x.mount = planner'.mount /\ x.answer = "ok"
        BY <1>4, <1>5, <2>2
      <3> QED BY <3>1 DEF PlanFollows
    <2> QED BY <2>1, <2>2
  <1> QED BY <1>6, <1>8, <1>9, <1>10, <1>11, <1>12 DEF PlanningInvNext

LEMMA SavedKeeps ==
  ASSUME PlanningInv, NEW w \in planSaves, CapacitySaved(w)
  PROVE  PlanningInvNext
  <1>0. /\ planner \in Planners /\ IsPlanSave(w) /\ planSaves' = planSaves \ {w} /\ UNCHANGED <<open, capacity, typedFor>>
    BY DEF PlanningInv, PlannerTypes, PlanSaveTypes, CapacitySaved
  <1>1. CASE w.mount # planner.mount
    <2>1. UNCHANGED <<planner, planReads, dated>>
      BY <1>1 DEF CapacitySaved
    <2> QED BY <1>0, <1>1, <2>1, SavesKeep
  <1>2. CASE w.mount = planner.mount
    <2>1. RefreshPlanning(planner, w.picked) /\ w.picked \in Sprint \cup {0}
      BY <1>0, <1>2 DEF CapacitySaved, IsPlanSave
    <2>2. planner.picked # 0 /\ planner.picked \in Sprint /\ planner.base = "shown"
      BY <1>0, <1>2, PlannerFields DEF PlanningInv, UnpickedIdle, LoadingUnpicked
    <2>3. w.picked \in Sprint
      BY <1>0 DEF IsPlanSave
    <2> QED BY <1>0, <2>1, <2>2, <2>3, RefreshKeeps
  <1> QED BY <1>1, <1>2

LEMMA OthersKeep ==
  ASSUME PlanningInv, NEW s \in Sprint, OthersPlan(s)
  PROVE  PlanningInvNext
  <1>0. /\ planner \in Planners /\ capacity \in [Sprint -> Nat] /\ typedFor \in Seq(Sprint) /\ open \subseteq Sprint
        /\ UNCHANGED <<planner, planReads, planSaves>>
    BY DEF PlanningInv, PlannerTypes, OthersPlan
  <1>1. CASE open' = open \ {s} /\ UNCHANGED <<capacity, typedFor, dated>>
    <2>1. PlannerTypes' /\ PlanReadTypes' /\ PlanSaveTypes'
      BY <1>0, <1>1 DEF PlanningInv, PlannerTypes, PlanReadTypes, PlanSaveTypes
    <2>2. KeptTyped' /\ ReadTyped' /\ SaveTyped'
      BY <1>0, <1>1 DEF PlanningInv, KeptTyped, ReadTyped, SaveTyped
    <2> QED BY <1>0, <1>1, <2>1, <2>2 DEF PlanningInv, PlanningInvNext
  <1>2. CASE typedFor' = Append(typedFor, s) /\ capacity' = [capacity EXCEPT ![s] = Len(typedFor) + 1] /\ dated' = TRUE /\ UNCHANGED open
    <2>1. /\ typedFor' \in Seq(Sprint) /\ Len(typedFor) + 1 \in Nat
          /\ TypedAt(typedFor', s, Len(typedFor) + 1)
          /\ \A x, n : TypedAt(typedFor, x, n) => TypedAt(typedFor', x, n)
      BY <1>0, <1>2, TypedGrows
    <2>2. capacity' \in [Sprint -> Nat] /\ \A x \in Sprint : capacity'[x] = IF x = s THEN Len(typedFor) + 1 ELSE capacity[x]
      BY <1>0, <1>2, <2>1
    <2>3. PlannerTypes' /\ PlanReadTypes' /\ PlanSaveTypes'
      BY <1>0, <1>2, <2>1, <2>2 DEF PlanningInv, PlannerTypes, PlanReadTypes, PlanSaveTypes
    <2>4. KeptTyped'
      BY <2>1, <2>2 DEF PlanningInv, KeptTyped
    <2>5. ReadTyped' /\ SaveTyped'
      BY <1>0, <2>1 DEF PlanningInv, ReadTyped, SaveTyped
    <2>6. DraftTyped(planner', typedFor')
      BY <1>0, <2>1 DEF PlanningInv, DraftTyped
    <2>7. PlanFollows(planner', capacity', planReads', planSaves', dated')
      BY <1>2 DEF PlanFollows
    <2>8. LoadingUnpicked(planner') /\ UnpickedIdle(planner', planReads', planSaves') /\ PlanAges(planner', planReads', planSaves')
      BY <1>0 DEF PlanningInv, LoadingUnpicked
    <2> QED BY <2>3, <2>4, <2>5, <2>6, <2>7, <2>8 DEF PlanningInvNext
  <1> QED BY <1>1, <1>2 DEF OthersPlan

LEMMA PlanningStart ==
  ASSUME Init
  PROVE  PlanningInv
  <1>1. /\ open = Sprint /\ typedFor = << >> /\ capacity = [s \in Sprint |-> 0] /\ planner = Empty(0)
        /\ planReads = {} /\ planSaves = {} /\ dated = FALSE
    BY DEF Init, PlanningInit
  <1>2. planner \in Planners /\ planner.base = "loading" /\ planner.plan = NoPlan /\ planner.draft = NoPlan
    BY <1>1, SprintsAre DEF Empty, Planners
  <1>3. PlannerTypes /\ PlanReadTypes /\ PlanSaveTypes
    <2>1. << >> \in Seq(Sprint) /\ [s \in Sprint |-> 0] \in [Sprint -> Nat]
      OBVIOUS
    <2>2. dated \in BOOLEAN
      BY <1>1
    <2>3. open \subseteq Sprint /\ typedFor \in Seq(Sprint) /\ capacity \in [Sprint -> Nat]
      BY <1>1, <2>1
    <2> QED BY <1>1, <1>2, <2>2, <2>3 DEF PlannerTypes, PlanReadTypes, PlanSaveTypes
  <1>4. KeptTyped /\ ReadTyped /\ SaveTyped /\ DraftTyped(planner, typedFor)
    BY <1>1, <1>2 DEF KeptTyped, ReadTyped, SaveTyped, DraftTyped, TypedAt, NoPlan
  <1>5. /\ UnpickedIdle(planner, planReads, planSaves) /\ LoadingUnpicked(planner)
        /\ PlanAges(planner, planReads, planSaves) /\ PlanFollows(planner, capacity, planReads, planSaves, dated)
    BY <1>1, <1>2 DEF UnpickedIdle, LoadingUnpicked, PlanAges, PlanFollows, Empty
  <1> QED BY <1>3, <1>4, <1>5 DEF PlanningInv

LEMMA PlanningKept ==
  ASSUME PlanningInv, [Next]_vars
  PROVE  PlanningInv'
  <1>1. CASE PlanningUser
    <2>1. PlanningInvNext
      BY <1>1, PickKeeps, OthersKeep, TypingKeeps, SaveKeeps, RemountKeeps DEF PlanningUser
    <2> QED BY <2>1 DEF PlanningInv, PlanningInvNext
  <1>2. CASE PlanningAnswers
    <2>1. PlanningInvNext
      BY <1>2, BaseKeeps, BaseFailsKeeps, PlanReadKeeps, ReplacedKeeps, SavedKeeps, NotSavedKeeps DEF PlanningAnswers
    <2> QED BY <2>1 DEF PlanningInv, PlanningInvNext
  <1>3. CASE UNCHANGED planning
    <2>1. UNCHANGED <<open, capacity, typedFor, planner, planReads, planSaves, dated>>
      BY <1>3 DEF planning
    <2>2. (PlannerTypes /\ PlanReadTypes /\ PlanSaveTypes /\ KeptTyped /\ ReadTyped /\ SaveTyped)'
      BY <2>1 DEF PlanningInv, PlannerTypes, PlanReadTypes, PlanSaveTypes, KeptTyped, ReadTyped, SaveTyped
    <2> QED BY <2>1, <2>2 DEF PlanningInv
  <1> QED BY <1>1, <1>2, <1>3, PageSteps

(* However picks, loads and saves of the planning page interleave          *)
(* (views/agile/PlanningPanel.jsx): a capacity reaches no other sprint     *)
(* than the one picked when it was typed, and with nothing under way the   *)
(* plan shown is the server's and of the sprint picked, but for the cases  *)
(* PlanSettles names.                                                      *)
THEOREM PlanningHolds == Spec => []PlanningRight
  <1>1. Init => PlanningInv
    BY PlanningStart
  <1>2. PlanningInv /\ [Next]_vars => PlanningInv'
    BY PlanningKept
  <1>3. ASSUME PlanningInv PROVE PlanningRight
    <2>1. CapacityWhereTyped
      BY <1>3 DEF PlanningInv, KeptTyped, TypedAt, CapacityWhereTyped
    <2>2. PlanSettles
      BY <1>3 DEF PlanningInv, PlanFollows, PlanSettles
    <2> QED BY <2>1, <2>2 DEF PlanningRight
  <1> QED BY <1>1, <1>2, <1>3, PTL DEF Spec
-----------------------------------------------------------------------------
(* The rows of the audit trail: what the filters let through, in pages.    *)

(* A set of numbers that is not empty has a least one.                     *)
LEMMA Least ==
  ASSUME NEW S \in SUBSET Nat, S # {}
  PROVE  \E x \in S : \A y \in S : x <= y
  <1>1. PICK R : R = OpToRel(<, Nat)
    OBVIOUS
  <1>2. IsWellFoundedOn(R, Nat)
    BY <1>1, NatLessThanWellFounded
  <1>3. \A x, y \in Nat : y < x => <<y, x>> \in R
    BY <1>1 DEF OpToRel
  <1>4. PICK x \in S : \A y \in S : ~(<<y, x>> \in R)
    BY <1>2, WFMin
  <1>5. \A y \in S : x \in Nat /\ y \in Nat /\ ~(y < x)
    BY <1>3, <1>4
  <1> QED BY <1>4, <1>5

(* Of sequences there is a shortest; so what fails for some sequence fails *)
(* for one of which it holds without the last element.                     *)
LEMMA Shortest ==
  ASSUME NEW E, NEW S \in SUBSET Seq(E), S # {}
  PROVE  \E s \in S : \A t \in S : Len(s) <= Len(t)
  <1> DEFINE Lengths == {Len(s) : s \in S}
  <1>1. Lengths \in SUBSET Nat /\ Lengths # {}
    BY LenProperties
  <1>2. PICK n \in Lengths : \A m \in Lengths : n <= m
    BY <1>1, Least
  <1> QED BY <1>2

LEMMA ShortestBut ==
  ASSUME NEW E, NEW S \in SUBSET Seq(E), <<>> \notin S, S # {}
  PROVE  \E s \in Seq(E), x \in E : Append(s, x) \in S /\ s \notin S
  <1>1. PICK t \in S : \A u \in S : Len(t) <= Len(u)
    BY Shortest
  <1>2. PICK s \in Seq(E), x \in E : t = Append(s, x)
    BY <1>1, SequenceEmptyOrAppend
  <1>3. Len(t) = Len(s) + 1 /\ Len(s) \in Nat
    BY <1>2, AppendProperties, LenProperties
  <1> QED BY <1>1, <1>2, <1>3

LEMMA Appended ==
  ASSUME NEW E, NEW s \in Seq(E), NEW x \in E
  PROVE  /\ Append(s, x) \in Seq(E) /\ Len(s) \in Nat /\ DOMAIN s = 1..Len(s)
         /\ Len(Append(s, x)) = Len(s) + 1 /\ DOMAIN Append(s, x) = 1..(Len(s) + 1)
         /\ \A i \in 1..Len(s) : Append(s, x)[i] = s[i] /\ s[i] \in E
         /\ Append(s, x)[Len(s) + 1] = x
         /\ Range(Append(s, x)) = Range(s) \cup {x}
  <1>1. /\ Append(s, x) \in Seq(E) /\ Len(s) \in Nat /\ DOMAIN s = 1..Len(s)
        /\ Len(Append(s, x)) = Len(s) + 1 /\ DOMAIN Append(s, x) = 1..(Len(s) + 1)
        /\ \A i \in 1..Len(s) : Append(s, x)[i] = s[i] /\ s[i] \in E
        /\ Append(s, x)[Len(s) + 1] = x
    BY AppendProperties, LenProperties, ElementOfSeq
  <1>2. Range(Append(s, x)) = Range(s) \cup {x}
    <2>1. \A i \in 1..(Len(s) + 1) : i \in 1..Len(s) \/ i = Len(s) + 1
      BY <1>1
    <2>2. \A i \in 1..Len(s) : i \in 1..(Len(s) + 1)
      BY <1>1
    <2>3. Len(s) + 1 \in 1..(Len(s) + 1)
      BY <1>1
    <2> QED BY <1>1, <2>1, <2>2, <2>3 DEF Range
  <1> QED BY <1>1, <1>2

LEMMA Prepended ==
  ASSUME NEW E, NEW s \in Seq(E), NEW x \in E
  PROVE  /\ <<x>> \o s \in Seq(E) /\ Len(s) \in Nat /\ DOMAIN s = 1..Len(s)
         /\ Len(<<x>> \o s) = Len(s) + 1 /\ DOMAIN (<<x>> \o s) = 1..(Len(s) + 1)
         /\ \A i \in 1..Len(s) : (<<x>> \o s)[i + 1] = s[i] /\ s[i] \in E
         /\ (<<x>> \o s)[1] = x
         /\ Range(<<x>> \o s) = Range(s) \cup {x}
  <1>0. <<x>> \in Seq(E) /\ Len(<<x>>) = 1 /\ <<x>>[1] = x
    OBVIOUS
  <1>1. /\ <<x>> \o s \in Seq(E) /\ Len(s) \in Nat /\ DOMAIN s = 1..Len(s)
        /\ Len(<<x>> \o s) = Len(s) + 1 /\ DOMAIN (<<x>> \o s) = 1..(Len(s) + 1)
        /\ \A i \in 1..Len(s) : s[i] \in E
    BY <1>0, ConcatProperties, LenProperties, ElementOfSeq
  <1>2. \A i \in 1..(Len(s) + 1) : (<<x>> \o s)[i] = IF i <= 1 THEN <<x>>[i] ELSE s[i - 1]
    BY <1>0, <1>1, ConcatProperties
  <1>3. (<<x>> \o s)[1] = x
    BY <1>0, <1>1, <1>2
  <1>4. \A i \in 1..Len(s) : (<<x>> \o s)[i + 1] = s[i]
    BY <1>1, <1>2
  <1>5. Range(<<x>> \o s) = Range(s) \cup {x}
    <2>1. \A i \in 1..(Len(s) + 1) : i = 1 \/ (i - 1 \in 1..Len(s) /\ i = (i - 1) + 1)
      BY <1>1
    <2>2. \A i \in 1..Len(s) : i + 1 \in 1..(Len(s) + 1)
      BY <1>1
    <2>3. 1 \in 1..(Len(s) + 1)
      BY <1>1
    <2> DEFINE c == <<x>> \o s
    <2>4. DOMAIN c = 1..(Len(s) + 1) /\ DOMAIN s = 1..Len(s) /\ c[1] = x /\ \A i \in 1..Len(s) : c[i + 1] = s[i]
      BY <1>1, <1>3, <1>4
    <2> HIDE DEF c
    <2>5. Range(c) = Range(s) \cup {x}
      <3>1. ASSUME NEW i \in DOMAIN c PROVE c[i] \in Range(s) \cup {x}
        <4>1. CASE i = 1
          BY <2>4, <4>1
        <4>2. CASE i # 1
          <5>1. i - 1 \in 1..Len(s) /\ i = (i - 1) + 1
            BY <2>1, <2>4, <4>2
          <5>2. c[i] = s[i - 1]
            BY <2>4, <5>1
          <5> QED BY <2>4, <5>1, <5>2 DEF Range
        <4> QED BY <4>1, <4>2
      <3>2. ASSUME NEW i \in DOMAIN s PROVE s[i] \in Range(c)
        BY <2>2, <2>4 DEF Range
      <3>3. x \in Range(c)
        BY <2>3, <2>4 DEF Range
      <3> QED BY <3>1, <3>2, <3>3 DEF Range
    <2> QED BY <2>5 DEF c
  <1> QED BY <1>1, <1>3, <1>4, <1>5

\* What Newest and Unseen count up, for the first k elements.
LetsThrough(f, x) == {f.topic, f.words} \subseteq {None, x}
Before(n, s) == << n >> \o s
NewestUp(t, f, k, g) ==
    g = [n \in 0..k |-> IF n = 0 THEN << >> ELSE IF LetsThrough(f, t[n]) THEN Before(n, g[n - 1]) ELSE g[n - 1]]
UnseenUp(s, X, k, g) ==
    g = [n \in 0..k |-> IF n = 0 THEN << >> ELSE IF s[n] \in X THEN g[n - 1] ELSE Append(g[n - 1], s[n])]

LEMMA NewestExists ==
  ASSUME NEW t, NEW f, NEW k \in Nat
  PROVE  \E g : NewestUp(t, f, k, g)
  <1> DEFINE Bad == {n \in Nat : ~\E g : NewestUp(t, f, n, g)}
  <1>1. SUFFICES ASSUME Bad # {} PROVE FALSE
    OBVIOUS
  <1>2. PICK n \in Bad : \A m \in Bad : n <= m
    BY <1>1, Least
  <1>3. CASE n = 0
    <2>1. PICK g : g = [i \in 0..0 |-> << >>]
      OBVIOUS
    <2>2. NewestUp(t, f, 0, g)
      BY <2>1 DEF NewestUp
    <2> QED BY <1>3, <2>2
  <1>4. CASE n # 0
    <2>1. n - 1 \in Nat /\ n - 1 \notin Bad
      BY <1>2, <1>4
    <2>2. PICK g : NewestUp(t, f, n - 1, g)
      BY <2>1
    <2>3. PICK h : h = [i \in 0..n |-> IF i < n THEN g[i] ELSE IF LetsThrough(f, t[n]) THEN Before(n, g[n - 1]) ELSE g[n - 1]]
      OBVIOUS
    <2>4. \A i \in 0..(n - 1) : g[i] = IF i = 0 THEN << >> ELSE IF LetsThrough(f, t[i]) THEN Before(i, g[i - 1]) ELSE g[i - 1]
      BY <2>2 DEF NewestUp
    <2>5. \A i \in 0..n : h[i] = IF i = 0 THEN << >> ELSE IF LetsThrough(f, t[i]) THEN Before(i, h[i - 1]) ELSE h[i - 1]
      <3>1. TAKE i \in 0..n
      <3>2. CASE i = n
        BY <1>4, <2>3, <3>2
      <3>3. CASE i # n
        <4>1. i \in 0..(n - 1) /\ h[i] = g[i] /\ (i # 0 => h[i - 1] = g[i - 1])
          BY <2>3, <3>3
        <4> QED BY <2>4, <4>1
      <3> QED BY <3>2, <3>3
    <2>6. NewestUp(t, f, n, h)
      BY <2>3, <2>5 DEF NewestUp
    <2> QED BY <1>2, <2>6
  <1> QED BY <1>3, <1>4

LEMMA UnseenExists ==
  ASSUME NEW s, NEW X, NEW k \in Nat
  PROVE  \E g : UnseenUp(s, X, k, g)
  <1> DEFINE Bad == {n \in Nat : ~\E g : UnseenUp(s, X, n, g)}
  <1>1. SUFFICES ASSUME Bad # {} PROVE FALSE
    OBVIOUS
  <1>2. PICK n \in Bad : \A m \in Bad : n <= m
    BY <1>1, Least
  <1>3. CASE n = 0
    <2>1. PICK g : g = [i \in 0..0 |-> << >>]
      OBVIOUS
    <2>2. UnseenUp(s, X, 0, g)
      BY <2>1 DEF UnseenUp
    <2> QED BY <1>3, <2>2
  <1>4. CASE n # 0
    <2>1. n - 1 \in Nat /\ n - 1 \notin Bad
      BY <1>2, <1>4
    <2>2. PICK g : UnseenUp(s, X, n - 1, g)
      BY <2>1
    <2>3. PICK h : h = [i \in 0..n |-> IF i < n THEN g[i] ELSE IF s[n] \in X THEN g[n - 1] ELSE Append(g[n - 1], s[n])]
      OBVIOUS
    <2>4. \A i \in 0..(n - 1) : g[i] = IF i = 0 THEN << >> ELSE IF s[i] \in X THEN g[i - 1] ELSE Append(g[i - 1], s[i])
      BY <2>2 DEF UnseenUp
    <2>5. \A i \in 0..n : h[i] = IF i = 0 THEN << >> ELSE IF s[i] \in X THEN h[i - 1] ELSE Append(h[i - 1], s[i])
      <3>1. TAKE i \in 0..n
      <3>2. CASE i = n
        BY <1>4, <2>3, <3>2
      <3>3. CASE i # n
        <4>1. i \in 0..(n - 1) /\ h[i] = g[i] /\ (i # 0 => h[i - 1] = g[i - 1])
          BY <2>3, <3>3
        <4> QED BY <2>4, <4>1
      <3> QED BY <3>2, <3>3
    <2>6. UnseenUp(s, X, n, h)
      BY <2>3, <2>5 DEF UnseenUp
    <2> QED BY <1>2, <2>6
  <1> QED BY <1>3, <1>4

LEMMA NewestCounts ==
  ASSUME NEW t, NEW f, Len(t) \in Nat
  PROVE  \E g : NewestUp(t, f, Len(t), g) /\ Newest(t, f) = g[Len(t)]
  <1>1. PICK g : g = CHOOSE h : NewestUp(t, f, Len(t), h)
    OBVIOUS
  <1>2. NewestUp(t, f, Len(t), g)
    BY <1>1, NewestExists
  <1>3. Newest(t, f) = (CHOOSE h : NewestUp(t, f, Len(t), h))[Len(t)]
    BY Zenon DEF Newest, NewestUp, LetsThrough, Before
  <1> QED BY <1>1, <1>2, <1>3

LEMMA UnseenCounts ==
  ASSUME NEW s, NEW X, Len(s) \in Nat
  PROVE  \E g : UnseenUp(s, X, Len(s), g) /\ Unseen(s, X) = g[Len(s)]
  <1>1. PICK g : g = CHOOSE h : UnseenUp(s, X, Len(s), h)
    OBVIOUS
  <1>2. UnseenUp(s, X, Len(s), g)
    BY <1>1, UnseenExists
  <1>3. Unseen(s, X) = (CHOOSE h : UnseenUp(s, X, Len(s), h))[Len(s)]
    BY Zenon DEF Unseen, UnseenUp
  <1> QED BY <1>1, <1>2, <1>3

(* Both are computed from the front.                                       *)
LEMMA NewestEmpty ==
  ASSUME NEW f
  PROVE  Newest(<< >>, f) = << >>
  <1>1. Len(<< >>) = 0
    OBVIOUS
  <1>2. PICK g : NewestUp(<< >>, f, 0, g) /\ Newest(<< >>, f) = g[0]
    BY <1>1, NewestCounts
  <1> QED BY <1>2 DEF NewestUp

LEMMA UnseenEmpty ==
  ASSUME NEW X
  PROVE  Unseen(<< >>, X) = << >>
  <1>1. Len(<< >>) = 0
    OBVIOUS
  <1>2. PICK g : UnseenUp(<< >>, X, 0, g) /\ Unseen(<< >>, X) = g[0]
    BY <1>1, UnseenCounts
  <1> QED BY <1>2 DEF UnseenUp

LEMMA NewestAppend ==
  ASSUME NEW E, NEW s \in Seq(E), NEW x \in E, NEW f
  PROVE  Newest(Append(s, x), f) = IF LetsThrough(f, x) THEN Before(Len(s) + 1, Newest(s, f)) ELSE Newest(s, f)
  <1> DEFINE t == Append(s, x)
             n == Len(s)
  <1>1. /\ n \in Nat /\ Len(t) = n + 1 /\ t[n + 1] = x
        /\ \A i \in 1..n : t[i] = s[i]
    BY Appended
  <1> HIDE DEF t, n
  <1>2. PICK g : NewestUp(s, f, n, g) /\ Newest(s, f) = g[n]
    BY <1>1, NewestCounts DEF n
  <1>3. PICK h : NewestUp(t, f, n + 1, h) /\ Newest(t, f) = h[n + 1]
    BY <1>1, NewestCounts
  <1>4. \A i \in 0..n : g[i] = IF i = 0 THEN << >> ELSE IF LetsThrough(f, s[i]) THEN Before(i, g[i - 1]) ELSE g[i - 1]
    BY <1>1, <1>2 DEF NewestUp
  <1>5. \A i \in 0..(n + 1) : h[i] = IF i = 0 THEN << >> ELSE IF LetsThrough(f, t[i]) THEN Before(i, h[i - 1]) ELSE h[i - 1]
    BY <1>1, <1>3 DEF NewestUp
  <1>6. \A i \in 0..n : g[i] = h[i]
    <2> DEFINE Bad == {i \in 0..n : g[i] # h[i]}
    <2>1. SUFFICES ASSUME Bad # {} PROVE FALSE
      OBVIOUS
    <2>2. Bad \in SUBSET Nat
      BY <1>1
    <2>3. PICK i \in Bad : \A j \in Bad : i <= j
      BY <2>1, <2>2, Least
    <2>4. i # 0
      BY <1>1, <1>4, <1>5, <2>3
    <2>5. i - 1 \in 0..n /\ i - 1 \notin Bad /\ s[i] = t[i]
      BY <1>1, <2>3, <2>4
    <2> QED BY <1>1, <1>4, <1>5, <2>3, <2>4, <2>5
  <1>7. h[n + 1] = IF LetsThrough(f, x) THEN Before(n + 1, h[n]) ELSE h[n]
    <2>1. PICK m : m = n + 1
      OBVIOUS
    <2>2. m \in 0..(n + 1) /\ m # 0 /\ m - 1 = n /\ t[m] = x
      BY <1>1, <2>1
    <2>3. h[m] = IF LetsThrough(f, t[m]) THEN Before(m, h[m - 1]) ELSE h[m - 1]
      BY <1>5, <2>2
    <2> QED BY <2>1, <2>2, <2>3
  <1>8. n \in 0..n
    BY <1>1
  <1> QED BY <1>2, <1>3, <1>6, <1>7, <1>8 DEF t, n

LEMMA UnseenAppend ==
  ASSUME NEW E, NEW s \in Seq(E), NEW x \in E, NEW X
  PROVE  Unseen(Append(s, x), X) = IF x \in X THEN Unseen(s, X) ELSE Append(Unseen(s, X), x)
  <1> DEFINE t == Append(s, x)
             n == Len(s)
  <1>1. /\ n \in Nat /\ Len(t) = n + 1 /\ t[n + 1] = x
        /\ \A i \in 1..n : t[i] = s[i]
    BY Appended
  <1> HIDE DEF t, n
  <1>2. PICK g : UnseenUp(s, X, n, g) /\ Unseen(s, X) = g[n]
    BY <1>1, UnseenCounts DEF n
  <1>3. PICK h : UnseenUp(t, X, n + 1, h) /\ Unseen(t, X) = h[n + 1]
    BY <1>1, UnseenCounts
  <1>4. \A i \in 0..n : g[i] = IF i = 0 THEN << >> ELSE IF s[i] \in X THEN g[i - 1] ELSE Append(g[i - 1], s[i])
    BY <1>1, <1>2 DEF UnseenUp
  <1>5. \A i \in 0..(n + 1) : h[i] = IF i = 0 THEN << >> ELSE IF t[i] \in X THEN h[i - 1] ELSE Append(h[i - 1], t[i])
    BY <1>1, <1>3 DEF UnseenUp
  <1>6. \A i \in 0..n : g[i] = h[i]
    <2> DEFINE Bad == {i \in 0..n : g[i] # h[i]}
    <2>1. SUFFICES ASSUME Bad # {} PROVE FALSE
      OBVIOUS
    <2>2. Bad \in SUBSET Nat
      BY <1>1
    <2>3. PICK i \in Bad : \A j \in Bad : i <= j
      BY <2>1, <2>2, Least
    <2>4. i # 0
      BY <1>1, <1>4, <1>5, <2>3
    <2>5. i - 1 \in 0..n /\ i - 1 \notin Bad /\ s[i] = t[i]
      BY <1>1, <2>3, <2>4
    <2> QED BY <1>1, <1>4, <1>5, <2>3, <2>4, <2>5
  <1>7. h[n + 1] = IF x \in X THEN h[n] ELSE Append(h[n], x)
    BY <1>1, <1>5
  <1>8. n \in 0..n
    BY <1>1
  <1> QED BY <1>2, <1>3, <1>6, <1>7, <1>8 DEF t, n

Descending(a) == \A m, n \in DOMAIN a : m < n => a[m] > a[n]

\* The rows of a trail of that length, newest first: each row behind others is
\* that much older.
Backwards(a, long) ==
    /\ a \in Seq(1..long) /\ Descending(a)
    /\ \A m \in DOMAIN a : a[m] + m <= long + 1

LEMMA BeforeIs ==
  ASSUME NEW k \in Nat, NEW a, Backwards(a, k)
  PROVE  Backwards(Before(k + 1, a), k + 1) /\ Range(Before(k + 1, a)) = Range(a) \cup {k + 1}
  <1> DEFINE b == Before(k + 1, a)
  <1>1. a \in Seq(1..(k + 1)) /\ k + 1 \in 1..(k + 1)
    <2>1. a \in Seq(1..k) /\ 1..k \subseteq 1..(k + 1)
      BY DEF Backwards
    <2> QED BY <2>1, SeqMonotonic
  <1>2. /\ b \in Seq(1..(k + 1)) /\ Len(a) \in Nat /\ DOMAIN a = 1..Len(a)
        /\ DOMAIN b = 1..(Len(a) + 1)
        /\ \A i \in 1..Len(a) : b[i + 1] = a[i]
        /\ b[1] = k + 1 /\ Range(b) = Range(a) \cup {k + 1}
    BY <1>1, Prepended DEF Before
  <1>3. \A m \in 1..Len(a) : a[m] \in 1..k /\ a[m] + m <= k + 1
    <2>1. a \in Seq(1..k)
      BY DEF Backwards
    <2> QED BY <1>2, <2>1, ElementOfSeq DEF Backwards
  <1> HIDE DEF b
  <1>4. \A m \in DOMAIN b : m = 1 \/ (m - 1 \in 1..Len(a) /\ m = (m - 1) + 1 /\ b[m] = a[m - 1])
    <2>1. TAKE m \in DOMAIN b
    <2>2. m = 1 \/ (m - 1 \in 1..Len(a) /\ m = (m - 1) + 1)
      BY <1>2
    <2> QED BY <1>2, <2>2
  <1>5. Descending(b)
    <2>1. SUFFICES ASSUME NEW m \in DOMAIN b, NEW n \in DOMAIN b, m < n
                   PROVE  b[m] > b[n]
      BY DEF Descending
    <2>2. n # 1 /\ m \in Nat /\ n \in Nat
      BY <1>2, <2>1
    <2>3. n - 1 \in 1..Len(a) /\ b[n] = a[n - 1]
      BY <1>4, <2>2
    <2>4. CASE m = 1
      BY <1>2, <1>3, <2>3, <2>4
    <2>5. CASE m # 1
      <3>1. m - 1 \in 1..Len(a) /\ b[m] = a[m - 1] /\ m - 1 < n - 1
        BY <1>4, <2>1, <2>2, <2>5
      <3>2. a[m - 1] > a[n - 1]
        BY <1>2, <2>3, <3>1 DEF Backwards, Descending
      <3> QED BY <2>3, <3>1, <3>2
    <2> QED BY <2>4, <2>5
  <1>6. \A m \in DOMAIN b : b[m] + m <= (k + 1) + 1
    <2>1. TAKE m \in DOMAIN b
    <2>2. CASE m = 1
      BY <1>2, <2>2
    <2>3. CASE m # 1
      <3>1. m - 1 \in 1..Len(a) /\ b[m] = a[m - 1] /\ m \in Nat
        BY <1>2, <1>4, <2>3
      <3>2. a[m - 1] \in 1..k /\ a[m - 1] + (m - 1) <= k + 1
        BY <1>3, <3>1
      <3> QED BY <3>1, <3>2
    <2> QED BY <2>2, <2>3
  <1> QED BY <1>2, <1>5, <1>6 DEF Backwards, b

(* The rows of a trail: those the filters let through, newest first.       *)
NewestRight(t, f) ==
    /\ Backwards(Newest(t, f), Len(t))
    /\ \A k \in Nat : k \in Range(Newest(t, f)) <=> k \in 1..Len(t) /\ LetsThrough(f, t[k])

LEMMA NewestIs ==
  ASSUME NEW E, NEW t \in Seq(E), NEW f
  PROVE  NewestRight(t, f)
  <1> DEFINE Bad == {s \in Seq(E) : ~NewestRight(s, f)}
  <1>1. SUFFICES ASSUME Bad # {} PROVE FALSE
    OBVIOUS
  <1>2. << >> \notin Bad
    <2>1. Len(<< >>) = 0 /\ Newest(<< >>, f) = << >>
      BY NewestEmpty
    <2>2. Backwards(<< >>, 0) /\ Range(<< >>) = {}
      BY DEF Backwards, Descending, Range
    <2>3. NewestRight(<< >>, f)
      BY <2>1, <2>2 DEF NewestRight
    <2> QED BY <2>3
  <1>3. PICK s \in Seq(E), x \in E : Append(s, x) \in Bad /\ s \notin Bad
    BY <1>1, <1>2, ShortestBut
  <1>4. NewestRight(s, f)
    BY <1>3
  <1> DEFINE u == Append(s, x)
             n == Len(s)
             a == Newest(s, f)
  <1>5. n \in Nat /\ Len(u) = n + 1 /\ u[n + 1] = x /\ \A i \in 1..n : u[i] = s[i]
    BY <1>3, Appended
  <1>6. Newest(u, f) = IF LetsThrough(f, x) THEN Before(n + 1, a) ELSE a
    BY <1>3, NewestAppend
  <1>7. Backwards(a, n) /\ \A k \in Nat : k \in Range(a) <=> k \in 1..n /\ LetsThrough(f, s[k])
    BY <1>4 DEF NewestRight
  <1>8. ~NewestRight(u, f)
    BY <1>3
  <1> HIDE DEF u, n, a
  <1>9. Backwards(a, n + 1)
    <2>1. a \in Seq(1..n) /\ 1..n \subseteq 1..(n + 1)
      BY <1>5, <1>7 DEF Backwards
    <2>2. a \in Seq(1..(n + 1)) /\ Len(a) \in Nat /\ DOMAIN a = 1..Len(a) /\ \A m \in 1..Len(a) : a[m] \in 1..n
      BY <2>1, SeqMonotonic, LenProperties, ElementOfSeq
    <2>3. \A m \in DOMAIN a : a[m] + m <= (n + 1) + 1
      <3>1. TAKE m \in DOMAIN a
      <3>2. a[m] \in Nat /\ m \in Nat /\ a[m] + m <= n + 1
        BY <1>7, <2>2 DEF Backwards
      <3> QED BY <1>5, <3>2
    <2> QED BY <1>7, <2>2, <2>3 DEF Backwards
  <1>10. \A k \in Nat : k \in 1..(n + 1) /\ LetsThrough(f, u[k]) <=> (k \in 1..n /\ LetsThrough(f, s[k])) \/ (k = n + 1 /\ LetsThrough(f, x))
    BY <1>5
  <1>11. CASE LetsThrough(f, x)
    <2>1. Backwards(Before(n + 1, a), n + 1) /\ Range(Before(n + 1, a)) = Range(a) \cup {n + 1}
      BY <1>5, <1>7, BeforeIs
    <2> QED BY <1>5, <1>6, <1>7, <1>8, <1>10, <1>11, <2>1 DEF NewestRight
  <1>12. CASE ~LetsThrough(f, x)
    BY <1>5, <1>6, <1>7, <1>8, <1>9, <1>10, <1>12 DEF NewestRight
  <1> QED BY <1>11, <1>12

(* When the trail grows its rows stay, behind at most one more.            *)
Grows(a, b, long) ==
    /\ Range(a) \subseteq Range(b)
    /\ \A m \in DOMAIN b : b[m] <= long => \E l \in DOMAIN a : l <= m /\ a[l] = b[m]

LEMMA NewestGrows ==
  ASSUME NEW E, NEW t \in Seq(E), NEW x \in E, NEW f
  PROVE  Grows(Newest(t, f), Newest(Append(t, x), f), Len(t))
  <1> DEFINE a == Newest(t, f)
             b == Newest(Append(t, x), f)
             n == Len(t)
  <1>1. n \in Nat /\ Backwards(a, n)
    BY NewestIs, LenProperties DEF NewestRight
  <1>2. a \in Seq(1..n)
    BY <1>1 DEF Backwards
  <1>3. b = IF LetsThrough(f, x) THEN Before(n + 1, a) ELSE a
    BY NewestAppend
  <1> HIDE DEF a, b, n
  <1>4. Len(a) \in Nat /\ DOMAIN a = 1..Len(a)
    BY <1>2, LenProperties
  <1>5. CASE b = a
    BY <1>4, <1>5 DEF Grows, a, b, n
  <1>6. CASE b = Before(n + 1, a)
    <2>1. a \in Seq(1..(n + 1)) /\ n + 1 \in 1..(n + 1)
      BY <1>1, <1>2, SeqMonotonic
    <2>2. /\ DOMAIN b = 1..(Len(a) + 1) /\ b[1] = n + 1 /\ Range(b) = Range(a) \cup {n + 1}
          /\ \A i \in 1..Len(a) : b[i + 1] = a[i]
      BY <1>6, <2>1, Prepended DEF Before
    <2>3. ASSUME NEW m \in DOMAIN b, b[m] <= n PROVE \E l \in DOMAIN a : l <= m /\ a[l] = b[m]
      <3>1. m # 1
        BY <1>1, <2>2, <2>3
      <3>2. m - 1 \in 1..Len(a) /\ m = (m - 1) + 1 /\ m - 1 <= m
        BY <1>4, <2>2, <3>1
      <3> QED BY <1>4, <2>2, <3>2
    <2> QED BY <2>2, <2>3 DEF Grows, a, b, n
  <1> QED BY <1>3, <1>5, <1>6

\* What is asked for, and what the list was loaded for.
Conditions == [topic : Sought \cup {None}, words : Sought \cup {None}]
LoadedFor(v) == [topic |-> v.filters.topic, words |-> v.lastWords]

AuditViews ==
    [filters : Conditions, listed : Seq(1..MaxTrail), drained : BOOLEAN, loaded : BOOLEAN, count : Nat,
     lastWords : Sought \cup {None}, timer : BOOLEAN, failed : BOOLEAN]

IsAuditLoad(q) ==
    /\ q = [n |-> q.n, filters |-> q.filters, clean |-> q.clean, by |-> q.by, offset |-> q.offset, got |-> q.got, at |-> q.at]
    /\ q.filters \in Conditions /\ q.clean \in BOOLEAN /\ q.by \in {"user", "poll"} /\ q.offset \in Nat
    /\ q.got \in Seq(1..MaxTrail) \cup {None} /\ q.at \in 0..Len(trail)

AuditTypes ==
    /\ trail \in Seq(Topic) /\ Len(trail) <= MaxTrail
    /\ auditPage \in AuditViews
    /\ \A q \in auditLoads : IsAuditLoad(q)
    /\ headed \in 0..Len(trail) /\ mixed \in BOOLEAN /\ collapsed \in BOOLEAN

\* The list as far as the entries there were at its clean load: rows among all,
\* with nothing left out from the newest on, of what the first of all bring
\* nothing, and, if it is the whole, nothing at all.
Among(kept, all) == kept \subseteq Range(all)
NoneBetween(kept, more, all, head) == \A x \in Range(all), y \in more : y < x /\ x <= head => x \in kept \cup more
Paged(kept, all, head, count) == \A m \in DOMAIN all : m <= count /\ all[m] <= head => all[m] \in kept
Whole(kept, all, head) == \A x \in Range(all) : x <= head => x \in kept
Ordered(list, head) == \A m, n \in DOMAIN list : m < n /\ list[m] <= head /\ list[n] <= head => list[m] > list[n]

ListRight(v, all, head, long) ==
    /\ Among(Range(v.listed), all) /\ IsInjective(v.listed)
    /\ NoneBetween({}, Range(v.listed), all, head)
    /\ Ordered(v.listed, head)
    /\ (long <= head + PageOfAudit => Range(v.listed) \subseteq 1..head)
    /\ Paged(Range(v.listed), all, head, v.count)
    /\ (v.drained => Whole(Range(v.listed), all, head))
    /\ (~v.drained => PageOfAudit <= v.count)

\* What a load has read, for the list it lengthens.
RowsBefore(q) == IF q.clean THEN {} ELSE Range(auditPage.listed)
HeadOf(q) == IF q.clean THEN q.at ELSE headed

GotRight(got, at, kept, all, head, offset) ==
    /\ Among(Range(got), all) /\ (\A x \in Range(got) : x <= at)
    /\ Descending(got)
    /\ NoneBetween(kept, Range(got), all, head)
    /\ (at <= head + PageOfAudit => Range(got) \subseteq 1..head)
    /\ Paged(kept \cup Range(got), all, head, offset + Len(got))
    /\ (Len(got) < PageOfAudit => Whole(kept \cup Range(got), all, head))

LoneLoad == ~mixed => \A p, q \in auditLoads : p = q
WordsApplied(v) == ~v.timer => v.filters.words = v.lastWords
LoadsApplied ==
    ~mixed => \A q \in auditLoads :
        /\ q.filters = LoadedFor(auditPage) /\ q.offset = auditPage.count /\ (q.clean => q.offset = 0)
        /\ (~q.clean /\ ~auditPage.failed => ~auditPage.drained)
        /\ (q.got # None /\ (q.clean \/ ~auditPage.failed) =>
               GotRight(q.got, q.at, RowsBefore(q), Matching(q.filters), HeadOf(q), q.offset))
CleanComes == \E q \in auditLoads : q.clean
Counted == auditPage.failed \/ CleanComes \/ Len(auditPage.listed) <= auditPage.count
Polled == ~mixed /\ ~auditPage.failed => \A q \in auditLoads : q.by = "poll" => Len(auditPage.listed) <= PageOfAudit
Listed ==
    ~mixed /\ ~auditPage.failed /\ ~CleanComes =>
        ListRight(auditPage, Matching(LoadedFor(auditPage)), headed, Len(trail))

AuditInv ==
    /\ AuditTypes /\ LoneLoad /\ WordsApplied(auditPage) /\ LoadsApplied /\ Counted /\ Polled /\ Listed /\ PagesStay

\* The page of the rows from there on, as AuditRead takes it.
PageOf(all, offset) ==
    SubSeq(all, offset + 1, IF Len(all) < offset + PageOfAudit THEN Len(all) ELSE offset + PageOfAudit)

LEMMA PageNumbers ==
  ASSUME NEW k \in Nat, NEW offset \in Nat, NEW page \in Nat,
         NEW end, end = IF k < offset + page THEN k ELSE offset + page,
         NEW long, long = IF offset + 1 <= end THEN end - (offset + 1) + 1 ELSE 0
  PROVE  /\ end \in Nat
         /\ \A i \in (offset + 1)..end : i \in 1..k
         /\ \A i \in 1..long : i \in 1..(end - (offset + 1) + 1) /\ (offset + 1) + i - 1 = offset + i /\ offset + i \in 1..k
         /\ long < page => k <= offset + long
  OBVIOUS

(* What a load reads is the next page of the rows.                         *)
LEMMA PageIs ==
  ASSUME NEW all, NEW long \in Nat, Backwards(all, long), NEW offset \in Nat, PageOfAudit \in Nat,
         NEW got, got = PageOf(all, offset)
  PROVE  /\ got \in Seq(1..long) /\ Len(got) \in Nat /\ DOMAIN got = 1..Len(got)
         /\ Len(all) \in Nat /\ DOMAIN all = 1..Len(all)
         /\ \A i \in 1..Len(got) : offset + i \in 1..Len(all) /\ got[i] = all[offset + i] /\ got[i] \in 1..long
         /\ Len(got) < PageOfAudit => Len(all) <= offset + Len(got)
  <1>1. all \in Seq(1..long) /\ Len(all) \in Nat /\ DOMAIN all = 1..Len(all)
    BY LenProperties DEF Backwards
  <1>2. \A i \in 1..Len(all) : all[i] \in 1..long
    BY <1>1, ElementOfSeq
  <1>3. PICK end : end = IF Len(all) < offset + PageOfAudit THEN Len(all) ELSE offset + PageOfAudit
    OBVIOUS
  <1>4. /\ end \in Nat
        /\ \A i \in (offset + 1)..end : i \in 1..Len(all)
        /\ \A n : n = (IF offset + 1 <= end THEN end - (offset + 1) + 1 ELSE 0) =>
              /\ \A i \in 1..n : i \in 1..(end - (offset + 1) + 1) /\ (offset + 1) + i - 1 = offset + i /\ offset + i \in 1..Len(all)
              /\ n < PageOfAudit => Len(all) <= offset + n
    <2>1. PICK k \in Nat : k = Len(all)
      BY <1>1
    <2>2. end = IF k < offset + PageOfAudit THEN k ELSE offset + PageOfAudit
      BY <1>3, <2>1
    <2> QED BY <2>1, <2>2, PageNumbers
  <1>5. \A i \in (offset + 1)..end : all[i] \in 1..long
    BY <1>2, <1>4
  <1>6. /\ got \in Seq(1..long)
        /\ Len(got) = IF offset + 1 <= end THEN end - (offset + 1) + 1 ELSE 0
        /\ \A i \in 1..(end - (offset + 1) + 1) : got[i] = all[(offset + 1) + i - 1]
    <2>1. offset + 1 \in Int /\ end \in Int /\ got = SubSeq(all, offset + 1, end)
      BY <1>3, <1>4 DEF PageOf
    <2>2. \A k \in Int : \A s : (\A i \in k..end : s[i] \in 1..long) =>
             /\ SubSeq(s, k, end) \in Seq(1..long)
             /\ Len(SubSeq(s, k, end)) = IF k <= end THEN end - k + 1 ELSE 0
             /\ \A i \in 1..(end - k + 1) : SubSeq(s, k, end)[i] = s[k + i - 1]
      BY <2>1, SubSeqProperties
    <2> QED BY <1>5, <2>1, <2>2
  <1>7. Len(got) \in Nat /\ DOMAIN got = 1..Len(got)
    BY <1>6, LenProperties
  <1>8. /\ \A i \in 1..Len(got) : i \in 1..(end - (offset + 1) + 1) /\ (offset + 1) + i - 1 = offset + i /\ offset + i \in 1..Len(all)
        /\ Len(got) < PageOfAudit => Len(all) <= offset + Len(got)
    BY <1>4, <1>6
  <1>9. \A i \in 1..Len(got) : got[i] = all[offset + i]
    BY <1>6, <1>8
  <1> QED BY <1>1, <1>2, <1>6, <1>7, <1>8, <1>9

LEMMA RangeIs ==
  ASSUME NEW s
  PROVE  /\ \A m \in DOMAIN s : s[m] \in Range(s)
         /\ \A x \in Range(s) : \E m \in DOMAIN s : x = s[m]
  BY DEF Range

LEMMA ServedRight ==
  ASSUME PageOfAudit \in Nat \ {0},
         NEW all, NEW long \in Nat, Backwards(all, long), NEW offset \in Nat,
         NEW got, got = PageOf(all, offset),
         NEW kept, NEW head \in 0..long, Paged(kept, all, head, offset),
         PageOfAudit <= offset \/ head = long
  PROVE  got \in Seq(1..long) /\ GotRight(got, long, kept, all, head, offset)
  <1>1. /\ got \in Seq(1..long) /\ Len(got) \in Nat /\ DOMAIN got = 1..Len(got)
        /\ Len(all) \in Nat /\ DOMAIN all = 1..Len(all)
        /\ \A i \in 1..Len(got) : offset + i \in 1..Len(all) /\ got[i] = all[offset + i] /\ got[i] \in 1..long
        /\ Len(got) < PageOfAudit => Len(all) <= offset + Len(got)
    <2>1. PageOfAudit \in Nat
      OBVIOUS
    <2> QED BY <2>1, PageIs
  <1>2. /\ \A m, n \in 1..Len(all) : m < n => all[m] > all[n]
        /\ \A m \in 1..Len(all) : all[m] + m <= long + 1 /\ all[m] \in 1..long
    <2>1. all \in Seq(1..long)
      BY DEF Backwards
    <2> QED BY <1>1, <2>1, ElementOfSeq DEF Backwards, Descending
  \* Where a row of the page is, and where one that is newer.
  <1>3. \A y \in Range(got) : \E i \in 1..Len(got) : y = got[i] /\ y = all[offset + i] /\ y \in 1..long /\ offset + i \in 1..Len(all)
    <2>1. TAKE y \in Range(got)
    <2>2. PICK i \in 1..Len(got) : y = got[i]
      BY <1>1, RangeIs
    <2> QED BY <1>1, <2>2
  <1>4. \A m \in 1..Len(all) : offset < m /\ m <= offset + Len(got) => all[m] \in Range(got)
    <2>1. TAKE m \in 1..Len(all)
    <2>2. HAVE offset < m /\ m <= offset + Len(got)
    <2>3. m - offset \in 1..Len(got) /\ offset + (m - offset) = m
      BY <1>1, <2>2
    <2> QED BY <1>1, <2>3, RangeIs
  <1>5. \A m \in 1..Len(all) : m <= offset + Len(got) /\ all[m] <= head => all[m] \in kept \cup Range(got)
    <2>1. TAKE m \in 1..Len(all)
    <2>2. HAVE m <= offset + Len(got) /\ all[m] <= head
    <2>3. CASE m <= offset
      BY <1>1, <2>2, <2>3 DEF Paged
    <2>4. CASE offset < m
      BY <1>4, <2>2, <2>4
    <2> QED BY <2>3, <2>4
  <1>6. Among(Range(got), all)
    BY <1>1, <1>3, RangeIs DEF Among
  <1>7. Descending(got)
    <2>1. SUFFICES ASSUME NEW m \in 1..Len(got), NEW n \in 1..Len(got), m < n PROVE got[m] > got[n]
      BY <1>1 DEF Descending
    <2>2. offset + m \in 1..Len(all) /\ offset + n \in 1..Len(all) /\ offset + m < offset + n
      BY <1>1, <2>1
    <2> QED BY <1>1, <1>2, <2>2
  <1>8. NoneBetween(kept, Range(got), all, head)
    <2>1. SUFFICES ASSUME NEW x \in Range(all), NEW y \in Range(got), y < x, x <= head
                   PROVE  x \in kept \cup Range(got)
      BY DEF NoneBetween
    <2>2. PICK m \in 1..Len(all) : x = all[m]
      <3>1. PICK m \in DOMAIN all : x = all[m]
        BY <2>1, RangeIs
      <3> QED BY <1>1, <3>1
    <2>3. PICK i \in 1..Len(got) : y = all[offset + i] /\ offset + i \in 1..Len(all)
      BY <1>3, <2>1
    <2>4. m < offset + i
      <3>1. CASE m = offset + i
        BY <1>2, <2>1, <2>2, <2>3, <3>1
      <3>2. CASE offset + i < m
        <4>1. all[offset + i] > all[m]
          BY <1>2, <2>2, <2>3, <3>2
        <4>2. all[m] \in 1..long /\ all[offset + i] \in 1..long
          BY <1>2, <2>2, <2>3
        <4> QED BY <2>1, <2>2, <2>3, <4>1, <4>2
      <3> QED BY <2>2, <2>3, <3>1, <3>2
    <2>5. m <= offset + Len(got)
      BY <1>1, <2>2, <2>3, <2>4
    <2> QED BY <1>5, <2>1, <2>2, <2>5
  <1>9. long <= head + PageOfAudit => Range(got) \subseteq 1..head
    <2>1. SUFFICES ASSUME long <= head + PageOfAudit, NEW y \in Range(got) PROVE y \in 1..head
      OBVIOUS
    <2>2. PICK i \in 1..Len(got) : y = all[offset + i] /\ y \in 1..long /\ offset + i \in 1..Len(all)
      BY <1>3, <2>1
    <2>3. all[offset + i] + (offset + i) <= long + 1
      BY <1>2, <2>2
    <2>4. CASE PageOfAudit <= offset
      BY <1>1, <2>1, <2>2, <2>3, <2>4
    <2>5. CASE head = long
      BY <2>2, <2>5
    <2> QED BY <2>4, <2>5
  <1>10. Paged(kept \cup Range(got), all, head, offset + Len(got))
    BY <1>1, <1>5 DEF Paged
  <1>11. Len(got) < PageOfAudit => Whole(kept \cup Range(got), all, head)
    <2>1. SUFFICES ASSUME Len(got) < PageOfAudit, NEW x \in Range(all), x <= head PROVE x \in kept \cup Range(got)
      BY DEF Whole
    <2>2. PICK m \in 1..Len(all) : x = all[m]
      BY <1>1, <2>1, RangeIs
    <2>3. m <= offset + Len(got)
      BY <1>1, <2>1, <2>2
    <2> QED BY <1>5, <2>1, <2>2, <2>3
  <1>12. \A x \in Range(got) : x <= long
    BY <1>3
  <1> QED BY <1>1, <1>6, <1>7, <1>8, <1>9, <1>10, <1>11, <1>12 DEF GotRight

(* When the trail grows what was read and what is listed is as right.      *)
LEMMA GrownRight ==
  ASSUME NEW all, NEW more, NEW long, Grows(all, more, long), NEW head, head <= long, long \in Nat, head \in Nat,
         Range(more) \subseteq Nat
  PROVE  /\ \A kept : Among(kept, all) => Among(kept, more)
         /\ \A kept, got : NoneBetween(kept, got, all, head) => NoneBetween(kept, got, more, head)
         /\ \A kept : \A count \in Nat : Len(more) \in Nat /\ DOMAIN more = 1..Len(more) /\ DOMAIN all \subseteq Nat
               /\ Paged(kept, all, head, count) => Paged(kept, more, head, count)
         /\ \A kept : Whole(kept, all, head) => Whole(kept, more, head)
  <1>1. \A x \in Range(more) : x <= head => x \in Range(all)
    <2>1. TAKE x \in Range(more)
    <2>2. HAVE x <= head
    <2>3. PICK m \in DOMAIN more : x = more[m]
      BY RangeIs
    <2>4. x <= long
      BY <2>2
    <2>5. PICK l \in DOMAIN all : all[l] = x
      BY <2>3, <2>4 DEF Grows
    <2> QED BY <2>5, RangeIs
  <1>2. \A kept : Among(kept, all) => Among(kept, more)
    BY DEF Among, Grows
  <1>3. \A kept, got : NoneBetween(kept, got, all, head) => NoneBetween(kept, got, more, head)
    BY <1>1 DEF NoneBetween
  <1>4. \A kept : Whole(kept, all, head) => Whole(kept, more, head)
    BY <1>1 DEF Whole
  <1>5. ASSUME NEW kept, NEW count \in Nat, Len(more) \in Nat, DOMAIN more = 1..Len(more), DOMAIN all \subseteq Nat,
               Paged(kept, all, head, count), NEW m \in DOMAIN more, m <= count, more[m] <= head
        PROVE  more[m] \in kept
    <2>1. more[m] \in Nat /\ more[m] <= long
      BY <1>5, RangeIs
    <2>2. PICK l \in DOMAIN all : l <= m /\ all[l] = more[m]
      BY <1>5, <2>1 DEF Grows
    <2>3. l <= count /\ all[l] <= head
      BY <1>5, <2>2
    <2> QED BY <1>5, <2>2, <2>3 DEF Paged
  <1> QED BY <1>2, <1>3, <1>4, <1>5 DEF Paged

LEMMA UnseenIs ==
  ASSUME NEW E, NEW s \in Seq(E), NEW X
  PROVE  Unseen(s, X) \in Seq(E) /\ Range(Unseen(s, X)) = Range(s) \ X /\ Len(Unseen(s, X)) <= Len(s)
  <1> DEFINE Bad == {t \in Seq(E) : ~(/\ Unseen(t, X) \in Seq(E) /\ Range(Unseen(t, X)) = Range(t) \ X
                                     /\ Len(Unseen(t, X)) <= Len(t))}
  <1>1. SUFFICES ASSUME Bad # {} PROVE FALSE
    OBVIOUS
  <1>2. << >> \notin Bad
    <2>1. << >> \in Seq(E) /\ Range(<< >>) = {} /\ Len(<< >>) <= Len(<< >>)
      BY DEF Range
    <2> QED BY <2>1, UnseenEmpty
  <1>3. PICK t \in Seq(E), x \in E : Append(t, x) \in Bad /\ t \notin Bad
    BY <1>1, <1>2, ShortestBut
  <1>4. Unseen(t, X) \in Seq(E) /\ Range(Unseen(t, X)) = Range(t) \ X /\ Len(Unseen(t, X)) <= Len(t)
    BY <1>3
  <1>5. PICK u \in Seq(E) : u = Unseen(t, X)
    BY <1>4
  <1>6. Unseen(Append(t, x), X) = IF x \in X THEN u ELSE Append(u, x)
    BY <1>3, <1>5, UnseenAppend
  <1>7. /\ Append(u, x) \in Seq(E) /\ Range(Append(u, x)) = Range(u) \cup {x} /\ Range(Append(t, x)) = Range(t) \cup {x}
        /\ Len(Append(u, x)) = Len(u) + 1 /\ Len(Append(t, x)) = Len(t) + 1 /\ Len(u) \in Nat /\ Len(t) \in Nat
    BY <1>3, <1>5, Appended
  <1>8. Unseen(Append(t, x), X) \in Seq(E) /\ Range(Unseen(Append(t, x), X)) = Range(Append(t, x)) \ X
    BY <1>4, <1>5, <1>6, <1>7
  <1>9. Len(Unseen(Append(t, x), X)) <= Len(Append(t, x))
    BY <1>4, <1>5, <1>6, <1>7
  <1> QED BY <1>3, <1>8, <1>9

LEMMA UnseenDescends ==
  ASSUME NEW s \in Seq(Nat), NEW X, Descending(s)
  PROVE  Descending(Unseen(s, X))
  <1> DEFINE Bad == {t \in Seq(Nat) : Descending(t) /\ ~Descending(Unseen(t, X))}
  <1>1. SUFFICES ASSUME Bad # {} PROVE FALSE
    OBVIOUS
  <1>2. << >> \notin Bad
    <2>1. Descending(<< >>)
      BY DEF Descending
    <2> QED BY <2>1, UnseenEmpty
  <1>3. PICK t \in Seq(Nat), x \in Nat : Append(t, x) \in Bad /\ t \notin Bad
    BY <1>1, <1>2, ShortestBut
  <1>4. /\ Len(t) \in Nat /\ DOMAIN t = 1..Len(t) /\ DOMAIN Append(t, x) = 1..(Len(t) + 1)
        /\ \A i \in 1..Len(t) : Append(t, x)[i] = t[i] /\ t[i] \in Nat
        /\ Append(t, x)[Len(t) + 1] = x
    BY <1>3, Appended
  <1>5. \A m, n \in 1..(Len(t) + 1) : m < n => Append(t, x)[m] > Append(t, x)[n]
    BY <1>3, <1>4 DEF Descending
  <1>6. \A m \in 1..Len(t) : m \in 1..(Len(t) + 1) /\ m < Len(t) + 1 /\ Len(t) + 1 \in 1..(Len(t) + 1)
    BY <1>4
  <1>7. Descending(t) /\ \A y \in Range(t) : y > x
    <2>1. \A m \in 1..Len(t) : t[m] > x
      BY <1>4, <1>5, <1>6
    <2>2. \A y \in Range(t) : y > x
      BY <1>4, <2>1, RangeIs
    <2>3. \A m, n \in 1..Len(t) : m < n => t[m] > t[n]
      BY <1>4, <1>5, <1>6
    <2> QED BY <1>4, <2>2, <2>3 DEF Descending
  <1>8. PICK u \in Seq(Nat) : u = Unseen(t, X) /\ Range(u) = Range(t) \ X /\ Descending(u)
    BY <1>3, <1>7, UnseenIs
  <1>9. /\ Len(u) \in Nat /\ DOMAIN u = 1..Len(u) /\ DOMAIN Append(u, x) = 1..(Len(u) + 1)
        /\ \A i \in 1..Len(u) : Append(u, x)[i] = u[i] /\ u[i] \in Nat
        /\ Append(u, x)[Len(u) + 1] = x
    BY <1>3, <1>8, Appended
  <1>10. \A i \in 1..Len(u) : u[i] > x
    BY <1>7, <1>8, <1>9, RangeIs
  <1>11. Descending(Append(u, x))
    <2>1. SUFFICES ASSUME NEW m \in 1..(Len(u) + 1), NEW n \in 1..(Len(u) + 1), m < n
                   PROVE  Append(u, x)[m] > Append(u, x)[n]
      BY <1>9 DEF Descending
    <2>2. m \in 1..Len(u)
      BY <1>9, <2>1
    <2>3. CASE n \in 1..Len(u)
      BY <1>8, <1>9, <2>1, <2>2, <2>3 DEF Descending
    <2>4. CASE n = Len(u) + 1
      BY <1>9, <1>10, <2>2, <2>4
    <2> QED BY <1>9, <2>3, <2>4
  <1>12. Unseen(Append(t, x), X) = IF x \in X THEN u ELSE Append(u, x)
    <2>1. Unseen(Append(t, x), X) = IF x \in X THEN Unseen(t, X) ELSE Append(Unseen(t, X), x)
      <3>1. PICK E : E = Nat
        OBVIOUS
      <3>2. t \in Seq(E) /\ x \in E
        BY <1>3, <3>1
      <3> HIDE DEF Bad
      <3> QED BY <3>2, UnseenAppend
    <2> QED BY <1>8, <2>1
  <1> QED BY <1>3, <1>8, <1>11, <1>12

(* What an answer to a load for older rows makes of the list.              *)
LEMMA LengthenedRight ==
  ASSUME NEW listed \in Seq(Nat), NEW got \in Seq(Nat), NEW all, NEW head \in Nat, NEW offset \in Nat,
         NEW at \in Nat, NEW long \in Nat, at <= long, Range(all) \subseteq Nat, PageOfAudit \in Nat,
         GotRight(got, at, Range(listed), all, head, offset),
         Among(Range(listed), all), IsInjective(listed), NoneBetween({}, Range(listed), all, head), Ordered(listed, head),
         long <= head + PageOfAudit => Range(listed) \subseteq 1..head,
         NEW list, list = listed \o Unseen(got, Range(listed))
  PROVE  /\ Among(Range(list), all) /\ IsInjective(list) /\ NoneBetween({}, Range(list), all, head) /\ Ordered(list, head)
         /\ long <= head + PageOfAudit => Range(list) \subseteq 1..head
         /\ Paged(Range(list), all, head, offset + Len(got))
         /\ Len(got) < PageOfAudit => Whole(Range(list), all, head)
  <1>1. PICK u \in Seq(Nat) : u = Unseen(got, Range(listed)) /\ Range(u) = Range(got) \ Range(listed) /\ Descending(u)
    BY UnseenIs, UnseenDescends DEF GotRight
  <1>2. /\ Len(listed) \in Nat /\ Len(u) \in Nat /\ DOMAIN listed = 1..Len(listed) /\ DOMAIN u = 1..Len(u)
        /\ list \in Seq(Nat) /\ DOMAIN list = 1..(Len(listed) + Len(u))
        /\ \A i \in 1..(Len(listed) + Len(u)) : list[i] = IF i <= Len(listed) THEN listed[i] ELSE u[i - Len(listed)]
    <2>1. list = listed \o u
      BY <1>1
    <2> QED BY <1>1, <2>1, ConcatProperties, LenProperties
  <1>3. \A i \in 1..Len(listed) : listed[i] \in Nat /\ listed[i] \in Range(listed)
    BY <1>2, ElementOfSeq, RangeIs
  <1>4. \A i \in 1..Len(u) : u[i] \in Nat /\ u[i] \in Range(got) /\ u[i] \notin Range(listed)
    BY <1>1, <1>2, ElementOfSeq, RangeIs
  <1>5. Range(list) = Range(listed) \cup Range(got)
    <2>1. Range(listed \o u) = Range(listed) \cup Range(u)
      BY <1>1, RangeConcatenation
    <2> QED BY <1>1, <2>1
  <1>6. Among(Range(list), all)
    BY <1>5 DEF GotRight, Among
  <1>7. NoneBetween({}, Range(list), all, head)
    BY <1>5 DEF GotRight, NoneBetween
  <1>8. long <= head + PageOfAudit => Range(list) \subseteq 1..head
    BY <1>5 DEF GotRight
  <1>9. Paged(Range(list), all, head, offset + Len(got)) /\ (Len(got) < PageOfAudit => Whole(Range(list), all, head))
    BY <1>5 DEF GotRight
  \* A row is from the list or from the page that was read.
  <1>10. \A i \in 1..(Len(listed) + Len(u)) :
            \/ i \in 1..Len(listed) /\ list[i] = listed[i]
            \/ Len(listed) < i /\ i - Len(listed) \in 1..Len(u) /\ list[i] = u[i - Len(listed)]
    <2>1. TAKE i \in 1..(Len(listed) + Len(u))
    <2>2. i \in 1..Len(listed) \/ (Len(listed) < i /\ i - Len(listed) \in 1..Len(u))
      BY <1>2
    <2> QED BY <1>2, <2>2
  <1>11. Ordered(list, head)
    <2>1. SUFFICES ASSUME NEW m \in DOMAIN list, NEW n \in DOMAIN list, m < n, list[m] <= head, list[n] <= head
                   PROVE  list[m] > list[n]
      BY DEF Ordered
    <2>2. CASE n \in 1..Len(listed) /\ list[n] = listed[n]
      <3>1. m \in 1..Len(listed) /\ list[m] = listed[m]
        BY <1>2, <1>10, <2>1, <2>2
      <3> QED BY <1>2, <2>1, <2>2, <3>1 DEF Ordered
    <2>3. CASE Len(listed) < n /\ n - Len(listed) \in 1..Len(u) /\ list[n] = u[n - Len(listed)]
      <3>1. CASE m \in 1..Len(listed) /\ list[m] = listed[m]
        <4>1. list[n] \in Range(got) /\ list[n] \notin Range(listed) /\ list[n] \in Nat /\ list[m] \in Range(listed) /\ list[m] \in Nat
          BY <1>3, <1>4, <2>3, <3>1
        <4>2. list[n] \in Range(all)
          BY <4>1 DEF GotRight, Among
        <4>3. ~(list[m] < list[n]) /\ list[m] # list[n]
          BY <2>1, <4>1, <4>2 DEF NoneBetween
        <4>4. \A x, y \in Nat : ~(x < y) /\ x # y => x > y
          OBVIOUS
        <4> QED BY <4>1, <4>3, <4>4
      <3>2. CASE Len(listed) < m /\ m - Len(listed) \in 1..Len(u) /\ list[m] = u[m - Len(listed)]
        <4>1. m - Len(listed) < n - Len(listed)
          BY <1>2, <2>1
        <4> QED BY <1>1, <1>2, <2>3, <3>2, <4>1 DEF Descending
      <3> QED BY <1>2, <1>10, <2>1, <3>1, <3>2
    <2> QED BY <1>2, <1>10, <2>1, <2>2, <2>3
  <1>12. IsInjective(list)
    <2>1. SUFFICES ASSUME NEW m \in DOMAIN list, NEW n \in DOMAIN list, m < n PROVE list[m] # list[n]
      <3>1. \A m, n \in DOMAIN list : m \in Nat /\ n \in Nat /\ (m = n \/ m < n \/ n < m)
        BY <1>2
      <3> QED BY <2>1, <3>1 DEF IsInjective
    <2>2. CASE n \in 1..Len(listed) /\ list[n] = listed[n]
      <3>1. m \in 1..Len(listed) /\ list[m] = listed[m] /\ m # n
        BY <1>2, <1>10, <2>1, <2>2
      <3> QED BY <1>2, <2>2, <3>1 DEF IsInjective
    <2>3. CASE Len(listed) < n /\ n - Len(listed) \in 1..Len(u) /\ list[n] = u[n - Len(listed)]
      <3>1. CASE m \in 1..Len(listed) /\ list[m] = listed[m]
        BY <1>3, <1>4, <2>3, <3>1
      <3>2. CASE Len(listed) < m /\ m - Len(listed) \in 1..Len(u) /\ list[m] = u[m - Len(listed)]
        <4>1. m - Len(listed) < n - Len(listed)
          BY <1>2, <2>1
        <4>2. list[m] > list[n] /\ list[m] \in Nat /\ list[n] \in Nat
          BY <1>1, <1>2, <1>4, <2>3, <3>2, <4>1 DEF Descending
        <4> QED BY <4>2
      <3> QED BY <1>2, <1>10, <2>1, <3>1, <3>2
    <2> QED BY <1>2, <1>10, <2>1, <2>2, <2>3
  <1> QED BY <1>6, <1>7, <1>8, <1>9, <1>11, <1>12

(* What an answer to a clean load makes of it.                             *)
LEMMA ReplacedRight ==
  ASSUME NEW got \in Seq(Nat), NEW all, NEW at \in Nat, NEW long \in Nat, PageOfAudit \in Nat,
         GotRight(got, at, {}, all, at, 0)
  PROVE  /\ Among(Range(got), all) /\ IsInjective(got) /\ NoneBetween({}, Range(got), all, at) /\ Ordered(got, at)
         /\ long <= at + PageOfAudit => Range(got) \subseteq 1..at
         /\ Paged(Range(got), all, at, Len(got))
         /\ Len(got) < PageOfAudit => Whole(Range(got), all, at)
  <1>1. Descending(got) /\ Len(got) \in Nat /\ DOMAIN got = 1..Len(got) /\ \A i \in 1..Len(got) : got[i] \in Nat
    BY LenProperties, ElementOfSeq DEF GotRight
  <1>2. IsInjective(got)
    <2>1. SUFFICES ASSUME NEW m \in DOMAIN got, NEW n \in DOMAIN got, m < n PROVE got[m] # got[n]
      <3>1. \A m, n \in DOMAIN got : m \in Nat /\ n \in Nat /\ (m = n \/ m < n \/ n < m)
        BY <1>1
      <3> QED BY <2>1, <3>1 DEF IsInjective
    <2>2. got[m] > got[n] /\ got[m] \in Nat /\ got[n] \in Nat
      BY <1>1, <2>1 DEF Descending
    <2> QED BY <2>2
  <1>3. Ordered(got, at)
    BY <1>1 DEF Ordered, Descending
  <1>4. {} \cup Range(got) = Range(got) /\ 0 + Len(got) = Len(got) /\ at <= at + PageOfAudit
    BY <1>1
  <1> QED BY <1>2, <1>3, <1>4 DEF GotRight

\* What FetchAudit is told: the page as it is, but for its filters and its timer.
AskedAs(v, clean, by) ==
    /\ v \in AuditViews /\ clean \in BOOLEAN /\ by \in {"user", "poll"}
    /\ v.listed = auditPage.listed /\ v.drained = auditPage.drained /\ v.count = auditPage.count
    /\ v.lastWords = auditPage.lastWords /\ v.failed = auditPage.failed
    /\ (~clean => v.filters = auditPage.filters /\ ~v.drained)
    /\ (by = "poll" => clean /\ v.count <= PageOfAudit)

LEMMA FetchAuditTypes ==
  ASSUME AuditInv, NEW v, NEW clean, NEW by, AskedAs(v, clean, by), FetchAudit(v, clean, by)
  PROVE  /\ AuditTypes'
         /\ auditPage'.filters = v.filters /\ auditPage'.listed = v.listed /\ auditPage'.drained = v.drained
         /\ auditPage'.count = (IF clean THEN 0 ELSE v.count) /\ auditPage'.lastWords = v.filters.words
         /\ auditPage'.timer = v.timer /\ auditPage'.failed = v.failed
         /\ \E q : /\ auditLoads' = auditLoads \cup {q} /\ q.filters = v.filters /\ q.clean = clean /\ q.by = by
                   /\ q.offset = (IF clean THEN 0 ELSE v.count) /\ q.got = None
  <1> DEFINE from == CountFrom(v, clean)
             q == [n |-> NextLoad, filters |-> v.filters, clean |-> clean, by |-> by, offset |-> from, got |-> None, at |-> 0]
  <1>1. /\ auditPage' = [v EXCEPT !.lastWords = v.filters.words, !.count = from]
        /\ auditLoads' = auditLoads \cup {q}
        /\ UNCHANGED <<trail, headed, collapsed>>
        /\ mixed' = (auditLoads # {} \/ (~clean /\ (mixed \/ v.filters.words # v.lastWords)))
    BY DEF FetchAudit
  <1>2. from = IF clean THEN 0 ELSE v.count
    BY DEF CountFrom
  <1>3. from \in Nat /\ v.filters.words \in Sought \cup {None} /\ v.filters \in Conditions /\ v.count \in Nat
    BY <1>2 DEF AskedAs, AuditViews, Conditions
  <1> HIDE DEF from
  <1>4. /\ auditPage' \in AuditViews
        /\ auditPage'.filters = v.filters /\ auditPage'.listed = v.listed /\ auditPage'.drained = v.drained
        /\ auditPage'.count = from /\ auditPage'.lastWords = v.filters.words
        /\ auditPage'.timer = v.timer /\ auditPage'.failed = v.failed
    BY <1>1, <1>3 DEF AskedAs, AuditViews
  <1>5. q = [n |-> q.n, filters |-> q.filters, clean |-> q.clean, by |-> q.by, offset |-> q.offset, got |-> q.got, at |-> q.at]
    OBVIOUS
  <1>6. q.filters = v.filters /\ q.clean = clean /\ q.by = by /\ q.offset = from /\ q.got = None /\ q.at = 0
    OBVIOUS
  <1>7. Len(trail) \in Nat
    BY LenProperties DEF AuditInv, AuditTypes
  <1> HIDE DEF q
  <1>8. \A r \in auditLoads' : IsAuditLoad(r)'
    <2>1. TAKE r \in auditLoads'
    <2>2. CASE r = q
      BY <1>1, <1>3, <1>5, <1>6, <1>7, <2>2 DEF IsAuditLoad, AskedAs
    <2>3. CASE r \in auditLoads
      BY <1>1, <2>3 DEF IsAuditLoad, AuditInv, AuditTypes
    <2> QED BY <1>1, <2>2, <2>3
  <1>9. AuditTypes'
    <2>1. mixed' \in BOOLEAN
      BY <1>1
    <2> QED BY <1>1, <1>4, <1>8, <2>1 DEF AuditInv, AuditTypes
  <1> QED BY <1>1, <1>2, <1>4, <1>6, <1>9

LEMMA FetchAuditKeeps ==
  ASSUME AuditInv, NEW v, NEW clean, NEW by, AskedAs(v, clean, by), FetchAudit(v, clean, by)
  PROVE  AuditInv'
  <1>1. /\ AuditTypes'
        /\ auditPage'.filters = v.filters /\ auditPage'.listed = v.listed /\ auditPage'.drained = v.drained
        /\ auditPage'.count = (IF clean THEN 0 ELSE v.count) /\ auditPage'.lastWords = v.filters.words
        /\ auditPage'.timer = v.timer /\ auditPage'.failed = v.failed
    BY FetchAuditTypes
  <1>2. PICK q : /\ auditLoads' = auditLoads \cup {q} /\ q.filters = v.filters /\ q.clean = clean /\ q.by = by
                 /\ q.offset = (IF clean THEN 0 ELSE v.count) /\ q.got = None
    BY FetchAuditTypes
  <1>3. /\ UNCHANGED <<trail, headed, collapsed>>
        /\ mixed' = (auditLoads # {} \/ (~clean /\ (mixed \/ v.filters.words # v.lastWords)))
    BY DEF FetchAudit
  <1>4. LoneLoad'
    BY <1>2, <1>3 DEF LoneLoad
  <1>5. WordsApplied(auditPage)'
    BY <1>1 DEF WordsApplied
  <1>6. v.filters = [topic |-> v.filters.topic, words |-> v.filters.words]
    <2>1. v.filters \in Conditions
      BY DEF AskedAs, AuditViews
    <2> QED BY <2>1 DEF Conditions
  <1>7. LoadedFor(auditPage)' = v.filters
    BY <1>1, <1>6 DEF LoadedFor
  <1>8. LoadsApplied'
    <2>1. SUFFICES ASSUME ~mixed', NEW r \in auditLoads'
                   PROVE  /\ r.filters = LoadedFor(auditPage)' /\ r.offset = auditPage'.count /\ (r.clean => r.offset = 0)
                          /\ (~r.clean /\ ~auditPage'.failed => ~auditPage'.drained)
                          /\ r.got = None
      BY DEF LoadsApplied
    <2>2. r = q
      BY <1>2, <1>3, <2>1
    <2> QED BY <1>1, <1>2, <1>7, <2>2 DEF AskedAs
  <1>9. Counted'
    BY <1>1, <1>2 DEF AuditInv, Counted, CleanComes, AskedAs
  <1>10. Polled'
    <2>1. SUFFICES ASSUME ~mixed', ~auditPage'.failed, NEW r \in auditLoads', r.by = "poll"
                   PROVE  Len(auditPage'.listed) <= PageOfAudit
      BY DEF Polled
    <2>2. auditLoads = {} /\ r = q
      BY <1>2, <1>3, <2>1
    <2>3. Len(auditPage.listed) <= auditPage.count
      BY <1>1, <2>1, <2>2 DEF AuditInv, Counted, CleanComes, AskedAs
    <2>4. auditPage.count <= PageOfAudit /\ auditPage.count \in Nat /\ PageOfAudit \in Nat /\ Len(auditPage.listed) \in Nat
      <3>1. by = "poll"
        BY <1>2, <2>1, <2>2
      <3>2. v.count <= PageOfAudit /\ v.count = auditPage.count
        BY <3>1 DEF AskedAs
      <3>3. auditPage.listed \in Seq(1..MaxTrail) /\ auditPage.count \in Nat
        BY DEF AuditInv, AuditTypes, AuditViews
      <3> QED BY <3>2, <3>3, AuditAssumption, LenProperties
    <2> QED BY <1>1, <2>3, <2>4 DEF AskedAs
  <1>11. Listed'
    <2>1. SUFFICES ASSUME ~mixed', ~auditPage'.failed, ~CleanComes'
                   PROVE  ListRight(auditPage', Matching(LoadedFor(auditPage))', headed', Len(trail'))
      BY DEF Listed
    <2>2. ~clean /\ auditLoads = {} /\ ~mixed /\ v.filters.words = v.lastWords
      BY <1>2, <1>3, <2>1 DEF CleanComes
    <2>3. ListRight(auditPage, Matching(LoadedFor(auditPage)), headed, Len(trail))
      BY <1>1, <2>1, <2>2 DEF AuditInv, Listed, CleanComes, AskedAs
    <2>4. LoadedFor(auditPage) = v.filters
      BY <1>6, <2>2 DEF LoadedFor, AskedAs
    <2>5. Matching(LoadedFor(auditPage))' = Matching(LoadedFor(auditPage))
      BY <1>3, <1>7, <2>4 DEF Matching
    <2>6. auditPage'.listed = auditPage.listed /\ auditPage'.drained = auditPage.drained /\ auditPage'.count = auditPage.count
      BY <1>1, <2>2 DEF AskedAs
    <2> QED BY <1>3, <2>3, <2>5, <2>6 DEF ListRight
  <1>12. PagesStay'
    BY <1>3 DEF AuditInv, PagesStay
  <1> QED BY <1>1, <1>4, <1>5, <1>8, <1>9, <1>10, <1>11, <1>12 DEF AuditInv

LEMMA AuditServedKeeps ==
  ASSUME AuditInv, NEW q \in auditLoads, AuditServed(q)
  PROVE  AuditInv'
  <1> DEFINE long == Len(trail)
             all == Newest(trail, q.filters)
  <1>1. PICK got : got = AuditRead(q.filters, q.offset)
    OBVIOUS
  <1>2. PICK at, r : at = long /\ r = [q EXCEPT !.got = got, !.at = at]
    OBVIOUS
  <1>3. auditLoads' = (auditLoads \ {q}) \cup {r} /\ UNCHANGED <<trail, auditPage, mixed, headed, collapsed>>
    BY <1>1, <1>2 DEF AuditServed
  <1>4. IsAuditLoad(q)
    BY DEF AuditInv, AuditTypes
  <1>5. /\ r = [n |-> r.n, filters |-> r.filters, clean |-> r.clean, by |-> r.by, offset |-> r.offset, got |-> r.got, at |-> r.at]
        /\ r.filters = q.filters /\ r.clean = q.clean /\ r.by = q.by /\ r.offset = q.offset
        /\ r.got = got /\ r.at = at
    <2>1. PICK a, b, c, d, e, h, i : a = q.n /\ b = q.filters /\ c = q.clean /\ d = q.by /\ e = q.offset /\ h = q.got /\ i = q.at
      OBVIOUS
    <2>2. q = [n |-> a, filters |-> b, clean |-> c, by |-> d, offset |-> e, got |-> h, at |-> i]
      BY <1>4, <2>1 DEF IsAuditLoad
    <2>3. r = [n |-> a, filters |-> b, clean |-> c, by |-> d, offset |-> e, got |-> got, at |-> at]
      BY <1>2, <2>2
    <2> QED BY <2>1, <2>3
  <1>6. /\ long \in Nat /\ MaxTrail \in Nat /\ PageOfAudit \in Nat /\ long <= MaxTrail /\ headed \in 0..long
        /\ Backwards(all, long)
    <2>1. trail \in Seq(Topic)
      BY DEF AuditInv, AuditTypes
    <2> QED BY <2>1, LenProperties, NewestIs, AuditAssumption DEF AuditInv, AuditTypes, NewestRight
  <1>7. got = PageOf(all, q.offset)
    BY <1>1 DEF AuditRead, Matching, PageOf
  <1>8. q.filters \in Conditions /\ q.clean \in BOOLEAN /\ q.by \in {"user", "poll"} /\ q.offset \in Nat
    BY <1>4 DEF IsAuditLoad
  <1> HIDE DEF all, long
  <1>9. got \in Seq(1..MaxTrail)
    <2>1. got \in Seq(1..long)
      BY <1>6, <1>7, <1>8, PageIs
    <2>2. 1..long \subseteq 1..MaxTrail
      BY <1>6
    <2> QED BY <2>1, <2>2, SeqMonotonic
  <1>10. IsAuditLoad(r)'
    BY <1>2, <1>3, <1>5, <1>6, <1>8, <1>9 DEF IsAuditLoad, long
  <1>11. AuditTypes'
    <2>1. \A p \in auditLoads' : IsAuditLoad(p)'
      <3>1. TAKE p \in auditLoads'
      <3>2. CASE p = r
        BY <1>10, <3>2
      <3>3. CASE p \in auditLoads
        BY <1>3, <3>3 DEF AuditInv, AuditTypes, IsAuditLoad
      <3> QED BY <1>3, <3>2, <3>3
    <2> QED BY <1>3, <2>1 DEF AuditInv, AuditTypes
  <1>12. LoneLoad'
    BY <1>3 DEF AuditInv, LoneLoad
  <1>13. CleanComes' <=> CleanComes
    BY <1>3, <1>5 DEF CleanComes
  <1>14. got # None /\ ~mixed /\ (q.clean \/ ~auditPage.failed) =>
           GotRight(got, long, RowsBefore(q), all, (IF q.clean THEN long ELSE headed), q.offset)
    <2>1. SUFFICES ASSUME ~mixed, q.clean \/ ~auditPage.failed
                   PROVE  GotRight(got, long, RowsBefore(q), all, (IF q.clean THEN long ELSE headed), q.offset)
      OBVIOUS
    <2>2. q.filters = LoadedFor(auditPage) /\ q.offset = auditPage.count /\ (q.clean => q.offset = 0)
          /\ (~q.clean /\ ~auditPage.failed => ~auditPage.drained)
      BY <2>1 DEF AuditInv, LoadsApplied
    <2>3. PageOfAudit \in Nat \ {0}
      BY AuditAssumption
    <2>4. CASE q.clean
      <3>1. Paged({}, all, long, q.offset)
        <4>1. DOMAIN all = 1..Len(all) /\ Len(all) \in Nat
          BY <1>6, LenProperties DEF Backwards
        <4> QED BY <2>2, <2>4, <4>1 DEF Paged
      <3>2. long \in 0..long
        BY <1>6
      <3>3. GotRight(got, long, {}, all, long, q.offset)
        BY <1>6, <1>7, <1>8, <2>3, <3>1, <3>2, ServedRight
      <3> QED BY <2>4, <3>3 DEF RowsBefore
    <2>5. CASE ~q.clean
      <3>1. ~CleanComes
        BY <2>1, <2>5 DEF AuditInv, LoneLoad, CleanComes
      <3>2. ListRight(auditPage, all, headed, long)
        BY <2>1, <2>2, <2>5, <3>1 DEF AuditInv, Listed, Matching, all, long
      <3>3. Paged(Range(auditPage.listed), all, headed, q.offset) /\ PageOfAudit <= q.offset
        BY <2>1, <2>2, <2>5, <3>2 DEF ListRight
      <3>4. GotRight(got, long, Range(auditPage.listed), all, headed, q.offset)
        BY <1>6, <1>7, <1>8, <2>3, <3>3, ServedRight
      <3> QED BY <2>5, <3>4 DEF RowsBefore
    <2> QED BY <2>4, <2>5
  <1>15. LoadsApplied'
    <2>1. SUFFICES ASSUME ~mixed', NEW p \in auditLoads'
                   PROVE  /\ p.filters = LoadedFor(auditPage) /\ p.offset = auditPage.count /\ (p.clean => p.offset = 0)
                          /\ (~p.clean /\ ~auditPage.failed => ~auditPage.drained)
                          /\ (p.got # None /\ (p.clean \/ ~auditPage.failed) =>
                                GotRight(p.got, p.at, RowsBefore(p), Matching(p.filters), HeadOf(p), p.offset))
      BY <1>3 DEF LoadsApplied, RowsBefore, HeadOf, Matching, LoadedFor
    <2>2. ~mixed /\ p = r
      BY <1>3, <2>1 DEF AuditInv, LoneLoad
    <2>3. q.filters = LoadedFor(auditPage) /\ q.offset = auditPage.count /\ (q.clean => q.offset = 0)
          /\ (~q.clean /\ ~auditPage.failed => ~auditPage.drained)
      BY <2>2 DEF AuditInv, LoadsApplied
    <2>4. RowsBefore(r) = RowsBefore(q) /\ HeadOf(r) = (IF q.clean THEN long ELSE headed) /\ Matching(r.filters) = all
      BY <1>2, <1>5 DEF RowsBefore, HeadOf, Matching, all
    <2> QED BY <1>2, <1>5, <1>14, <2>2, <2>3, <2>4
  <1>16. Polled'
    BY <1>3, <1>5 DEF AuditInv, Polled
  <1>17. Counted' /\ Listed' /\ WordsApplied(auditPage)' /\ PagesStay'
    BY <1>3, <1>13 DEF AuditInv, Counted, Listed, WordsApplied, PagesStay, ListRight, Matching, LoadedFor
  <1> QED BY <1>11, <1>12, <1>15, <1>16, <1>17 DEF AuditInv

LEMMA AuditArrivesKeeps ==
  ASSUME AuditInv, NEW q \in auditLoads, AuditArrives(q)
  PROVE  AuditInv'
  <1>1. PICK got : got = q.got
    OBVIOUS
  <1>2. PICK list : list = auditPage.listed \o Unseen(got, Range(auditPage.listed))
    OBVIOUS
  <1>3. IsAuditLoad(q)
    BY DEF AuditInv, AuditTypes
  <1>4. got \in Seq(1..MaxTrail) /\ q.at \in 0..Len(trail) /\ q.offset \in Nat /\ q.clean \in BOOLEAN
    BY <1>1, <1>3 DEF IsAuditLoad, AuditArrives
  <1>5. /\ Len(trail) \in Nat /\ MaxTrail \in Nat /\ PageOfAudit \in Nat /\ headed \in 0..Len(trail)
        /\ Len(got) \in Nat /\ auditPage.listed \in Seq(1..MaxTrail) /\ Len(auditPage.listed) \in Nat /\ auditPage.count \in Nat
        /\ got \in Seq(Nat) /\ auditPage.listed \in Seq(Nat)
    <2>1. trail \in Seq(Topic) /\ auditPage.listed \in Seq(1..MaxTrail) /\ auditPage.count \in Nat /\ headed \in 0..Len(trail)
      BY DEF AuditInv, AuditTypes, AuditViews
    <2>2. 1..MaxTrail \subseteq Nat
      OBVIOUS
    <2> QED BY <1>4, <2>1, <2>2, LenProperties, SeqMonotonic, AuditAssumption
  <1>6. list \in Seq(1..MaxTrail) /\ Len(list) \in Nat /\ Len(list) <= Len(auditPage.listed) + Len(got)
    <2>1. PICK u : u = Unseen(got, Range(auditPage.listed))
      OBVIOUS
    <2>2. u \in Seq(1..MaxTrail) /\ Len(u) <= Len(got) /\ Len(u) \in Nat
      BY <1>4, <2>1, UnseenIs, LenProperties
    <2>3. list \in Seq(1..MaxTrail) /\ Len(list) = Len(auditPage.listed) + Len(u)
      BY <1>2, <1>5, <2>1, <2>2, ConcatProperties
    <2> QED BY <1>5, <2>2, <2>3
  <1>7. /\ auditPage' = [auditPage EXCEPT
               !.count = @ + Len(got), !.loaded = TRUE, !.drained = Len(got) < PageOfAudit,
               !.failed = @ /\ ~q.clean, !.listed = IF q.clean THEN got ELSE list]
        /\ auditLoads' = auditLoads \ {q} /\ headed' = (IF q.clean THEN q.at ELSE headed)
        /\ collapsed' = (collapsed \/ (q.by = "poll" /\ Len(auditPage.listed) > PageOfAudit /\ ~mixed /\ ~auditPage.failed))
        /\ UNCHANGED <<trail, mixed>>
    BY <1>1, <1>2 DEF AuditArrives
  <1>8. PICK count, drained, failed, new :
          /\ count = auditPage.count + Len(got) /\ drained = (Len(got) < PageOfAudit)
          /\ failed = (auditPage.failed /\ ~q.clean) /\ new = (IF q.clean THEN got ELSE list)
    OBVIOUS
  <1>9. auditPage' = [auditPage EXCEPT !.count = count, !.loaded = TRUE, !.drained = drained, !.failed = failed, !.listed = new]
    BY <1>7, <1>8
  <1>10. count \in Nat /\ drained \in BOOLEAN /\ failed \in BOOLEAN /\ new \in Seq(1..MaxTrail)
    BY <1>4, <1>5, <1>6, <1>8
  <1>11. /\ auditPage' \in AuditViews
         /\ auditPage'.count = count /\ auditPage'.drained = drained /\ auditPage'.failed = failed /\ auditPage'.listed = new
         /\ auditPage'.filters = auditPage.filters /\ auditPage'.lastWords = auditPage.lastWords
         /\ auditPage'.timer = auditPage.timer
    <2>1. auditPage \in AuditViews
      BY DEF AuditInv, AuditTypes
    <2> QED BY <1>9, <1>10, <2>1 DEF AuditViews
  <1>12. AuditTypes'
    <2>1. \A p \in auditLoads' : IsAuditLoad(p)'
      BY <1>7 DEF AuditInv, AuditTypes, IsAuditLoad
    <2>2. collapsed' \in BOOLEAN /\ headed' \in 0..Len(trail)
      BY <1>4, <1>5, <1>7 DEF AuditInv, AuditTypes
    <2> QED BY <1>7, <1>11, <2>1, <2>2 DEF AuditInv, AuditTypes
  <1>13. LoneLoad' /\ WordsApplied(auditPage)'
    BY <1>7, <1>11 DEF AuditInv, LoneLoad, WordsApplied
  <1>14. ~mixed => auditLoads' = {}
    BY <1>7 DEF AuditInv, LoneLoad
  <1>15. LoadsApplied' /\ Polled'
    BY <1>7, <1>14 DEF LoadsApplied, Polled
  <1>16. Counted'
    <2>1. CASE \E p \in auditLoads : p # q /\ p.clean
      BY <1>7, <2>1 DEF Counted, CleanComes
    <2>2. CASE q.clean
      BY <1>5, <1>8, <1>11, <2>2 DEF Counted
    <2>3. CASE ~q.clean /\ auditPage.failed
      BY <1>8, <1>11, <2>3 DEF Counted
    <2>4. CASE ~q.clean /\ ~auditPage.failed /\ ~\E p \in auditLoads : p # q /\ p.clean
      <3>1. Len(auditPage.listed) <= auditPage.count
        BY <2>4 DEF AuditInv, Counted, CleanComes
      <3>2. Len(auditPage'.listed) <= auditPage'.count
        BY <1>5, <1>6, <1>8, <1>11, <2>4, <3>1
      <3> QED BY <3>2 DEF Counted
    <2> QED BY <2>1, <2>2, <2>3, <2>4
  <1>17. Listed'
    <2>1. SUFFICES ASSUME ~mixed, ~failed
                   PROVE  ListRight(auditPage', Matching(LoadedFor(auditPage))', headed', Len(trail))
      BY <1>7, <1>11 DEF Listed
    <2>2. PICK all : all = Matching(q.filters)
      OBVIOUS
    <2>3. /\ q.filters = LoadedFor(auditPage) /\ q.offset = auditPage.count /\ (q.clean => q.offset = 0)
          /\ (q.clean \/ ~auditPage.failed) /\ (~q.clean => ~auditPage.failed)
          /\ GotRight(got, q.at, RowsBefore(q), all, HeadOf(q), q.offset)
      BY <1>1, <1>8, <2>1, <2>2 DEF AuditInv, LoadsApplied, AuditArrives
    <2>4. Matching(LoadedFor(auditPage))' = all
      BY <1>7, <1>11, <2>2, <2>3 DEF Matching, LoadedFor
    <2>5. ~drained => PageOfAudit <= count
      <3>1. ~drained => ~(Len(got) < PageOfAudit)
        BY <1>8
      <3>2. ~(Len(got) < PageOfAudit) => PageOfAudit <= count
        BY <1>5, <1>8
      <3> QED BY <3>1, <3>2
    <2>6. CASE q.clean
      <3>1. GotRight(got, q.at, {}, all, q.at, 0) /\ headed' = q.at /\ new = got /\ q.at \in Nat
        BY <1>4, <1>7, <1>8, <2>3, <2>6 DEF RowsBefore, HeadOf
      <3>2. /\ Among(Range(got), all) /\ IsInjective(got) /\ NoneBetween({}, Range(got), all, q.at) /\ Ordered(got, q.at)
            /\ Len(trail) <= q.at + PageOfAudit => Range(got) \subseteq 1..q.at
            /\ Paged(Range(got), all, q.at, Len(got))
            /\ Len(got) < PageOfAudit => Whole(Range(got), all, q.at)
        BY <1>5, <3>1, ReplacedRight
      <3>3. count = Len(got)
        BY <1>5, <1>8, <2>3, <2>6
      <3> QED BY <1>7, <1>8, <1>11, <2>4, <2>5, <3>1, <3>2, <3>3 DEF ListRight
    <2>7. CASE ~q.clean
      <3>1. ~CleanComes
        BY <2>1, <2>7 DEF AuditInv, LoneLoad, CleanComes
      <3>2. ListRight(auditPage, all, headed, Len(trail))
        BY <2>1, <2>2, <2>3, <2>7, <3>1 DEF AuditInv, Listed
      <3>3. /\ GotRight(got, q.at, Range(auditPage.listed), all, headed, q.offset)
            /\ headed' = headed /\ new = list /\ q.at \in Nat /\ q.at <= Len(trail) /\ headed \in Nat
        BY <1>4, <1>5, <1>7, <1>8, <2>3, <2>7 DEF RowsBefore, HeadOf
      <3>4. Range(all) \subseteq Nat
        <4>1. trail \in Seq(Topic)
          BY DEF AuditInv, AuditTypes
        <4>2. all \in Seq(1..Len(trail))
          BY <2>2, <4>1, NewestIs DEF NewestRight, Backwards, Matching
        <4>3. DOMAIN all = 1..Len(all) /\ \A m \in 1..Len(all) : all[m] \in 1..Len(trail)
          BY <4>2, LenProperties, ElementOfSeq
        <4> QED BY <4>3, RangeIs
      <3>5. /\ Among(Range(list), all) /\ IsInjective(list) /\ NoneBetween({}, Range(list), all, headed) /\ Ordered(list, headed)
            /\ Len(trail) <= headed + PageOfAudit => Range(list) \subseteq 1..headed
            /\ Paged(Range(list), all, headed, q.offset + Len(got))
            /\ Len(got) < PageOfAudit => Whole(Range(list), all, headed)
        <4>1. /\ Among(Range(auditPage.listed), all) /\ IsInjective(auditPage.listed)
              /\ NoneBetween({}, Range(auditPage.listed), all, headed) /\ Ordered(auditPage.listed, headed)
              /\ Len(trail) <= headed + PageOfAudit => Range(auditPage.listed) \subseteq 1..headed
          BY <3>2 DEF ListRight
        <4>2. PICK old, page, at, offset, head, long :
                 /\ old = auditPage.listed /\ page = got /\ at = q.at /\ offset = q.offset /\ head = headed /\ long = Len(trail)
          OBVIOUS
        <4>3. /\ old \in Seq(Nat) /\ page \in Seq(Nat) /\ head \in Nat /\ offset \in Nat /\ at \in Nat /\ long \in Nat /\ at <= long
              /\ PageOfAudit \in Nat /\ list = old \o Unseen(page, Range(old))
              /\ GotRight(page, at, Range(old), all, head, offset)
              /\ Among(Range(old), all) /\ IsInjective(old) /\ NoneBetween({}, Range(old), all, head) /\ Ordered(old, head)
              /\ (long <= head + PageOfAudit => Range(old) \subseteq 1..head)
          BY <1>2, <1>4, <1>5, <3>3, <4>1, <4>2
        <4>4. /\ Among(Range(list), all) /\ IsInjective(list) /\ NoneBetween({}, Range(list), all, head) /\ Ordered(list, head)
              /\ (long <= head + PageOfAudit => Range(list) \subseteq 1..head)
              /\ Paged(Range(list), all, head, offset + Len(page))
              /\ (Len(page) < PageOfAudit => Whole(Range(list), all, head))
          BY <3>4, <4>3, LengthenedRight
        <4> QED BY <4>2, <4>4
      <3> QED BY <1>7, <1>8, <1>11, <2>3, <2>4, <2>5, <3>3, <3>5 DEF ListRight
    <2> QED BY <2>6, <2>7
  <1>18. PagesStay'
    <2>1. ~(q.by = "poll" /\ Len(auditPage.listed) > PageOfAudit /\ ~mixed /\ ~auditPage.failed)
      <3>1. SUFFICES ASSUME q.by = "poll", ~mixed, ~auditPage.failed PROVE ~(Len(auditPage.listed) > PageOfAudit)
        OBVIOUS
      <3>2. Len(auditPage.listed) <= PageOfAudit
        BY <3>1 DEF AuditInv, Polled
      <3> QED BY <1>5, <3>2
    <2> QED BY <1>7, <2>1 DEF AuditInv, PagesStay
  <1> QED BY <1>12, <1>13, <1>15, <1>16, <1>17, <1>18 DEF AuditInv

LEMMA AuditFailsKeeps ==
  ASSUME AuditInv, NEW q \in auditLoads, AuditFails(q)
  PROVE  AuditInv'
  <1>1. /\ auditLoads' = auditLoads \ {q} /\ UNCHANGED <<trail, mixed, headed, collapsed>>
        /\ auditPage' = [auditPage EXCEPT !.drained = TRUE, !.loaded = TRUE, !.failed = TRUE]
    BY DEF AuditFails
  <1>2. /\ auditPage' \in AuditViews /\ auditPage'.failed
        /\ auditPage'.filters = auditPage.filters /\ auditPage'.lastWords = auditPage.lastWords
        /\ auditPage'.timer = auditPage.timer
    <2>1. auditPage \in AuditViews
      BY DEF AuditInv, AuditTypes
    <2> QED BY <1>1, <2>1 DEF AuditViews
  <1>3. AuditTypes'
    <2>1. \A p \in auditLoads' : IsAuditLoad(p)'
      BY <1>1 DEF AuditInv, AuditTypes, IsAuditLoad
    <2> QED BY <1>1, <1>2, <2>1 DEF AuditInv, AuditTypes
  <1>4. ~mixed => auditLoads' = {}
    BY <1>1 DEF AuditInv, LoneLoad
  <1>5. LoneLoad' /\ LoadsApplied' /\ Polled' /\ Listed' /\ Counted'
    BY <1>1, <1>2, <1>4 DEF AuditInv, LoneLoad, LoadsApplied, Polled, Listed, Counted
  <1>6. WordsApplied(auditPage)' /\ PagesStay'
    BY <1>1, <1>2 DEF AuditInv, WordsApplied, PagesStay
  <1> QED BY <1>3, <1>5, <1>6 DEF AuditInv

(* An entry that is added leaves what was read, and the list, as right as  *)
(* they were.                                                              *)
LEMMA EntryAddedKeeps ==
  ASSUME AuditInv, NEW t \in Topic, EntryAdded(t)
  PROVE  AuditInv'
  <1>1. trail' = Append(trail, t) /\ Len(trail) < MaxTrail /\ UNCHANGED <<auditPage, auditLoads, mixed, headed, collapsed>>
    BY DEF EntryAdded
  <1>2. PICK long : long = Len(trail)
    OBVIOUS
  <1>3. /\ trail \in Seq(Topic) /\ trail' \in Seq(Topic) /\ long \in Nat /\ Len(trail') = long + 1
        /\ headed \in 0..long /\ MaxTrail \in Nat /\ PageOfAudit \in Nat /\ long < MaxTrail
    <2>1. trail \in Seq(Topic) /\ headed \in 0..Len(trail)
      BY DEF AuditInv, AuditTypes
    <2> QED BY <1>1, <1>2, <2>1, Appended, AuditAssumption
  <1>4. AuditTypes'
    <2>1. \A p \in auditLoads' : IsAuditLoad(p)'
      BY <1>1, <1>2, <1>3 DEF AuditInv, AuditTypes, IsAuditLoad
    <2> QED BY <1>1, <1>3, <2>1 DEF AuditInv, AuditTypes
  <1>5. ASSUME NEW f, NEW head \in 0..long
        PROVE  LET all == Newest(trail, f)
                   more == Newest(trail', f)
               IN /\ \A kept : Among(kept, all) => Among(kept, more)
                  /\ \A kept, got : NoneBetween(kept, got, all, head) => NoneBetween(kept, got, more, head)
                  /\ \A kept : \A count \in Nat : Paged(kept, all, head, count) => Paged(kept, more, head, count)
                  /\ \A kept : Whole(kept, all, head) => Whole(kept, more, head)
    <2>1. PICK all, more : all = Newest(trail, f) /\ more = Newest(trail', f)
      OBVIOUS
    <2>2. Grows(all, more, long)
      BY <1>1, <1>2, <1>3, <2>1, NewestGrows
    <2>3. all \in Seq(1..long) /\ more \in Seq(1..(long + 1))
      <3>1. NewestRight(trail, f) /\ NewestRight(trail', f)
        BY <1>3, NewestIs
      <3> QED BY <1>2, <1>3, <2>1, <3>1 DEF NewestRight, Backwards
    <2>4. /\ Len(more) \in Nat /\ DOMAIN more = 1..Len(more) /\ DOMAIN all = 1..Len(all) /\ Len(all) \in Nat
          /\ \A m \in 1..Len(more) : more[m] \in 1..(long + 1)
      BY <2>3, LenProperties, ElementOfSeq
    <2>5. Range(more) \subseteq Nat /\ DOMAIN all \subseteq Nat
      <3>1. \A x \in Range(more) : x \in 1..(long + 1)
        BY <2>4, RangeIs
      <3> QED BY <2>4, <3>1
    <2>6. head <= long /\ head \in Nat /\ long \in Nat
      BY <1>3
    <2>7. /\ \A kept : Among(kept, all) => Among(kept, more)
          /\ \A kept, got : NoneBetween(kept, got, all, head) => NoneBetween(kept, got, more, head)
          /\ \A kept : \A count \in Nat : Len(more) \in Nat /\ DOMAIN more = 1..Len(more) /\ DOMAIN all \subseteq Nat
                /\ Paged(kept, all, head, count) => Paged(kept, more, head, count)
          /\ \A kept : Whole(kept, all, head) => Whole(kept, more, head)
      BY <2>2, <2>5, <2>6, GrownRight
    <2> QED BY <2>1, <2>4, <2>5, <2>7
  <1>6. LoadsApplied'
    <2>1. SUFFICES ASSUME ~mixed, NEW q \in auditLoads, q.got # None, q.clean \/ ~auditPage.failed
                   PROVE  GotRight(q.got, q.at, RowsBefore(q), Matching(q.filters)', HeadOf(q), q.offset)
      BY <1>1 DEF AuditInv, LoadsApplied, RowsBefore, HeadOf, LoadedFor, Matching
    <2>2. GotRight(q.got, q.at, RowsBefore(q), Newest(trail, q.filters), HeadOf(q), q.offset)
      BY <2>1 DEF AuditInv, LoadsApplied, Matching
    <2>3. IsAuditLoad(q)
      BY DEF AuditInv, AuditTypes
    <2>4. HeadOf(q) \in 0..long /\ q.offset + Len(q.got) \in Nat
      <3>1. q.at \in 0..long /\ q.offset \in Nat /\ q.got \in Seq(1..MaxTrail)
        BY <1>2, <2>1, <2>3 DEF IsAuditLoad
      <3> QED BY <1>3, <3>1, LenProperties DEF HeadOf
    <2>5. PICK f, head, got, offset, kept :
             /\ f = q.filters /\ head = HeadOf(q) /\ got = q.got /\ offset = q.offset /\ kept = RowsBefore(q)
      OBVIOUS
    <2>6. GotRight(got, q.at, kept, Newest(trail, f), head, offset) /\ head \in 0..long /\ offset + Len(got) \in Nat
      BY <2>2, <2>4, <2>5
    <2>7. /\ Among(Range(got), Newest(trail', f)) /\ NoneBetween(kept, Range(got), Newest(trail', f), head)
          /\ Paged(kept \cup Range(got), Newest(trail', f), head, offset + Len(got))
          /\ (Len(got) < PageOfAudit => Whole(kept \cup Range(got), Newest(trail', f), head))
      BY <1>5, <2>6 DEF GotRight
    <2>8. GotRight(got, q.at, kept, Newest(trail', f), head, offset)
      BY <2>6, <2>7 DEF GotRight
    <2>9. Matching(q.filters)' = Newest(trail', f)
      BY <1>1, <2>5 DEF Matching
    <2> QED BY <2>5, <2>8, <2>9
  <1>7. Listed'
    <2>1. SUFFICES ASSUME ~mixed, ~auditPage.failed, ~CleanComes
                   PROVE  ListRight(auditPage, Matching(LoadedFor(auditPage))', headed, Len(trail'))
      BY <1>1 DEF Listed, CleanComes
    <2>2. PICK f, v : f = LoadedFor(auditPage) /\ v = auditPage
      OBVIOUS
    <2>3. ListRight(v, Newest(trail, f), headed, long) /\ v.count \in Nat
      BY <1>2, <2>1, <2>2 DEF AuditInv, Listed, Matching, AuditTypes, AuditViews
    <2>4. /\ Among(Range(v.listed), Newest(trail', f)) /\ NoneBetween({}, Range(v.listed), Newest(trail', f), headed)
          /\ Paged(Range(v.listed), Newest(trail', f), headed, v.count)
          /\ (v.drained => Whole(Range(v.listed), Newest(trail', f), headed))
      BY <1>3, <1>5, <2>3 DEF ListRight
    <2>5. long + 1 <= headed + PageOfAudit => long <= headed + PageOfAudit
      BY <1>3
    <2>6. ListRight(v, Newest(trail', f), headed, long + 1)
      BY <2>3, <2>4, <2>5 DEF ListRight
    <2>7. Matching(LoadedFor(auditPage))' = Newest(trail', f)
      BY <1>1, <2>2 DEF Matching, LoadedFor
    <2> QED BY <1>3, <2>2, <2>6, <2>7
  <1>8. LoneLoad' /\ WordsApplied(auditPage)' /\ Counted' /\ Polled' /\ PagesStay'
    BY <1>1 DEF AuditInv, LoneLoad, WordsApplied, Counted, CleanComes, Polled, PagesStay
  <1> QED BY <1>4, <1>6, <1>7, <1>8 DEF AuditInv

(* Typing, and its timer when a load took the words along.                 *)
LEMMA WordsTypedKeeps ==
  ASSUME AuditInv, NEW w \in Sought \cup {None}, NEW on \in BOOLEAN, NEW v, WordsApplied(v),
         v = [auditPage EXCEPT !.filters.words = w, !.timer = on],
         auditPage' = v, UNCHANGED <<trail, auditLoads, mixed, headed, collapsed>>
  PROVE  AuditInv'
  <1>1. PICK f : f = [auditPage.filters EXCEPT !.words = w]
    OBVIOUS
  <1>2. auditPage \in AuditViews /\ auditPage.filters \in Conditions
    BY DEF AuditInv, AuditTypes, AuditViews
  <1>3. f \in Conditions /\ f.topic = auditPage.filters.topic
    BY <1>1, <1>2 DEF Conditions
  <1>4. v = [auditPage EXCEPT !.filters = f, !.timer = on]
    BY <1>1
  <1>5. /\ v \in AuditViews /\ v.filters = f
        /\ v.listed = auditPage.listed /\ v.drained = auditPage.drained /\ v.count = auditPage.count
        /\ v.lastWords = auditPage.lastWords /\ v.failed = auditPage.failed
    BY <1>2, <1>3, <1>4 DEF AuditViews
  <1>6. AuditTypes'
    <2>1. \A p \in auditLoads' : IsAuditLoad(p)'
      BY DEF AuditInv, AuditTypes, IsAuditLoad
    <2> QED BY <1>5, <2>1 DEF AuditInv, AuditTypes
  <1>7. LoadedFor(auditPage)' = LoadedFor(auditPage)
    BY <1>3, <1>5 DEF LoadedFor
  <1>8. \A q : RowsBefore(q)' = RowsBefore(q) /\ HeadOf(q)' = HeadOf(q)
    BY <1>5 DEF RowsBefore, HeadOf
  <1>9. \A q : Matching(q)' = Matching(q)
    BY DEF Matching
  <1>10. LoadsApplied'
    <2>1. SUFFICES ASSUME ~mixed, NEW q \in auditLoads
                   PROVE  /\ q.filters = LoadedFor(auditPage)' /\ q.offset = auditPage'.count /\ (q.clean => q.offset = 0)
                          /\ (~q.clean /\ ~auditPage'.failed => ~auditPage'.drained)
                          /\ (q.got # None /\ (q.clean \/ ~auditPage'.failed) =>
                                GotRight(q.got, q.at, RowsBefore(q)', Matching(q.filters)', HeadOf(q)', q.offset))
      BY DEF LoadsApplied
    <2> QED BY <1>5, <1>7, <1>8, <1>9, <2>1 DEF AuditInv, LoadsApplied
  <1>11. Listed'
    <2>1. SUFFICES ASSUME ~mixed, ~auditPage.failed, ~CleanComes
                   PROVE  ListRight(v, Matching(LoadedFor(auditPage))', headed, Len(trail))
      BY <1>5 DEF Listed, CleanComes
    <2>2. ListRight(auditPage, Matching(LoadedFor(auditPage)), headed, Len(trail))
      BY <2>1 DEF AuditInv, Listed
    <2>3. Matching(LoadedFor(auditPage))' = Matching(LoadedFor(auditPage))
      BY <1>7 DEF Matching
    <2> QED BY <1>5, <2>2, <2>3 DEF ListRight
  <1>12. LoneLoad' /\ WordsApplied(auditPage)' /\ Counted' /\ Polled' /\ PagesStay'
    BY <1>5 DEF AuditInv, LoneLoad, WordsApplied, Counted, CleanComes, Polled, PagesStay
  <1> QED BY <1>6, <1>10, <1>11, <1>12 DEF AuditInv

LEMMA AuditUserKeeps ==
  ASSUME AuditInv, AuditUser
  PROVE  AuditInv'
  <1>1. auditPage \in AuditViews /\ auditPage.filters \in Conditions
    BY DEF AuditInv, AuditTypes, AuditViews
  <1>2. ASSUME NEW t \in Sought \cup {None}, ChooseTopic(t) PROVE AuditInv'
    <2>1. PICK f : f = [auditPage.filters EXCEPT !.topic = t]
      OBVIOUS
    <2>2. PICK v : v = [auditPage EXCEPT !.filters = f]
      OBVIOUS
    <2>3. f \in Conditions
      BY <1>1, <2>1 DEF Conditions
    <2>4. AskedAs(v, TRUE, "user")
      BY <1>1, <2>2, <2>3 DEF AskedAs, AuditViews
    <2>5. FetchAudit(v, TRUE, "user")
      BY <1>2, <2>1, <2>2 DEF ChooseTopic
    <2> QED BY <2>4, <2>5, FetchAuditKeeps
  <1>3. ASSUME NEW w \in Sought \cup {None}, TypeWords(w) PROVE AuditInv'
    <2>1. PICK v : v = [auditPage EXCEPT !.filters.words = w, !.timer = TRUE]
      OBVIOUS
    <2>2. v.timer
      BY <1>1, <2>1 DEF AuditViews
    <2>3. WordsApplied(v)
      BY <2>2 DEF WordsApplied
    <2>4. auditPage' = v /\ UNCHANGED <<trail, auditLoads, mixed, headed, collapsed>>
      BY <1>3, <2>1 DEF TypeWords
    <2> QED BY <2>1, <2>3, <2>4, WordsTypedKeeps
  <1>4. ASSUME NEW t \in Topic, EntryAdded(t) PROVE AuditInv'
    BY <1>4, EntryAddedKeeps
  <1>5. ASSUME ClearAudit PROVE AuditInv'
    <2>1. PICK f, on : f = Everything /\ on = (auditPage.timer \/ auditPage.filters.words # None)
      OBVIOUS
    <2>2. PICK v : v = [auditPage EXCEPT !.filters = f, !.timer = on]
      OBVIOUS
    <2>3. f \in Conditions /\ on \in BOOLEAN
      BY <1>1, <2>1 DEF Conditions, Everything, AuditViews
    <2>4. AskedAs(v, TRUE, "user")
      BY <1>1, <2>2, <2>3 DEF AskedAs, AuditViews
    <2>5. FetchAudit(v, TRUE, "user")
      BY <1>5, <2>1, <2>2 DEF ClearAudit
    <2> QED BY <2>4, <2>5, FetchAuditKeeps
  <1>6. ASSUME RefreshAudit PROVE AuditInv'
    <2>1. AskedAs(auditPage, TRUE, "user")
      BY <1>1 DEF AskedAs
    <2> QED BY <1>6, <2>1, FetchAuditKeeps DEF RefreshAudit
  <1>7. ASSUME LoadOlder PROVE AuditInv'
    <2>1. AskedAs(auditPage, FALSE, "user")
      BY <1>1, <1>7 DEF AskedAs, LoadOlder
    <2> QED BY <1>7, <2>1, FetchAuditKeeps DEF LoadOlder
  <1>8. ASSUME AuditPoll PROVE AuditInv'
    <2>1. AskedAs(auditPage, TRUE, "poll")
      BY <1>1, <1>8 DEF AskedAs, AuditPoll, MayPoll
    <2> QED BY <1>8, <2>1, FetchAuditKeeps DEF AuditPoll
  <1> QED BY <1>2, <1>3, <1>4, <1>5, <1>6, <1>7, <1>8 DEF AuditUser

LEMMA WordsTimerKeeps ==
  ASSUME AuditInv, WordsTimer
  PROVE  AuditInv'
  <1>1. auditPage \in AuditViews /\ auditPage.filters \in Conditions
    BY DEF AuditInv, AuditTypes, AuditViews
  <1>2. PICK v : v = [auditPage EXCEPT !.timer = FALSE]
    OBVIOUS
  <1>3. /\ v \in AuditViews /\ v.filters = auditPage.filters
        /\ v.listed = auditPage.listed /\ v.drained = auditPage.drained /\ v.count = auditPage.count
        /\ v.lastWords = auditPage.lastWords /\ v.failed = auditPage.failed
    BY <1>1, <1>2 DEF AuditViews
  <1>4. CASE v.filters.words = v.lastWords
    <2>1. auditPage' = v /\ UNCHANGED <<trail, auditLoads, mixed, headed, collapsed>>
      BY <1>2, <1>4 DEF WordsTimer
    <2>2. PICK w : w = auditPage.filters.words
      OBVIOUS
    <2>3. w \in Sought \cup {None}
      BY <1>1, <2>2 DEF Conditions
    <2>4. v = [auditPage EXCEPT !.filters.words = w, !.timer = FALSE]
      <3>1. [auditPage.filters EXCEPT !.words = w] = auditPage.filters
        BY <1>1, <2>2 DEF Conditions
      <3>2. PICK f : f = auditPage.filters
        OBVIOUS
      <3>3. [auditPage EXCEPT !.filters = f, !.timer = FALSE] = v
        BY <1>1, <1>2, <3>2 DEF AuditViews
      <3> QED BY <3>1, <3>2, <3>3
    <2>5. WordsApplied(v)
      BY <1>4 DEF WordsApplied
    <2> QED BY <2>1, <2>3, <2>4, <2>5, WordsTypedKeeps
  <1>5. CASE v.filters.words # v.lastWords
    <2>1. FetchAudit(v, TRUE, "user")
      BY <1>2, <1>5 DEF WordsTimer
    <2>2. AskedAs(v, TRUE, "user")
      BY <1>3 DEF AskedAs
    <2> QED BY <2>1, <2>2, FetchAuditKeeps
  <1> QED BY <1>4, <1>5

LEMMA AuditStart ==
  ASSUME Init
  PROVE  AuditInv
  <1>1. PICK n \in 0..MaxTrail : trail \in [1..n -> Topic]
    BY DEF Init, AuditInit
  <1>2. trail \in Seq(Topic) /\ Len(trail) <= MaxTrail /\ 0 \in 0..Len(trail) /\ 0 \in Nat
    <2>1. MaxTrail \in Nat /\ n \in Nat /\ n <= MaxTrail /\ trail \in Seq(Topic)
      BY <1>1, AuditAssumption, SeqDef
    <2>2. Len(trail) = n
      BY <1>1, <2>1, LenProperties
    <2> QED BY <2>1, <2>2
  <1>3. Everything \in Conditions
    BY DEF Everything, Conditions
  <1>4. auditPage = Fresh0
    BY DEF Init, AuditInit
  <1>5. /\ auditPage \in AuditViews /\ auditPage.filters = Everything /\ auditPage.lastWords = None
        /\ auditPage.count = 0 /\ ~auditPage.timer
    <2>1. << >> \in Seq(1..MaxTrail) /\ 0 \in Nat
      OBVIOUS
    <2> QED BY <1>3, <1>4, <2>1 DEF Fresh0, AuditViews
  <1>6. PICK q : q = [n |-> 0, filters |-> Everything, clean |-> TRUE, by |-> "user", offset |-> 0, got |-> None, at |-> 0]
    OBVIOUS
  <1>7. auditLoads = {q} /\ mixed = FALSE /\ headed = 0 /\ collapsed = FALSE
    BY <1>6 DEF Init, AuditInit
  <1>8. /\ q = [n |-> q.n, filters |-> q.filters, clean |-> q.clean, by |-> q.by, offset |-> q.offset, got |-> q.got, at |-> q.at]
        /\ q.filters = Everything /\ q.clean = TRUE /\ q.by = "user" /\ q.offset = 0 /\ q.got = None /\ q.at = 0
    BY <1>6
  <1>9. IsAuditLoad(q)
    BY <1>2, <1>3, <1>8 DEF IsAuditLoad
  <1>10. AuditTypes
    BY <1>2, <1>5, <1>7, <1>9 DEF AuditTypes
  <1>11. LoadedFor(auditPage) = Everything
    BY <1>5 DEF LoadedFor, Everything
  <1>12. LoadsApplied
    BY <1>5, <1>7, <1>8, <1>11 DEF LoadsApplied
  <1>13. LoneLoad /\ WordsApplied(auditPage) /\ Counted /\ Listed /\ PagesStay
    BY <1>5, <1>7, <1>8 DEF LoneLoad, WordsApplied, Counted, CleanComes, Listed, PagesStay, Everything
  <1>14. Polled
    BY <1>7, <1>8 DEF Polled
  <1> QED BY <1>10, <1>12, <1>13, <1>14 DEF AuditInv

LEMMA AuditKept ==
  ASSUME AuditInv, [Next]_vars
  PROVE  AuditInv'
  <1>1. CASE AuditUser
    BY <1>1, AuditUserKeeps
  <1>2. CASE AuditAnswers
    BY <1>2, AuditServedKeeps, AuditArrivesKeeps, AuditFailsKeeps, WordsTimerKeeps DEF AuditAnswers
  <1>3. CASE UNCHANGED audit
    <2>1. UNCHANGED <<trail, auditPage, auditLoads, mixed, headed, collapsed>>
      BY <1>3 DEF audit
    <2>2. AuditTypes' /\ LoneLoad' /\ WordsApplied(auditPage)' /\ Counted' /\ Polled' /\ PagesStay'
      BY <2>1 DEF AuditInv, AuditTypes, IsAuditLoad, LoneLoad, WordsApplied, Counted, CleanComes, Polled, PagesStay
    <2>3. LoadsApplied' /\ Listed'
      BY <2>1 DEF AuditInv, LoadsApplied, Listed, CleanComes, LoadedFor, Matching, RowsBefore, HeadOf
    <2> QED BY <2>2, <2>3 DEF AuditInv
  <1> QED BY <1>1, <1>2, <1>3, PageSteps

LEMMA AuditIsRight ==
  ASSUME AuditInv
  PROVE  AuditRight
  <1>1. ASSUME AtRest PROVE ListRight(auditPage, Matching(auditPage.filters), headed, Len(trail))
    <2>1. ~mixed /\ ~auditPage.failed /\ ~CleanComes /\ auditPage.filters.words = auditPage.lastWords
      BY <1>1 DEF AtRest, CleanComes, AuditInv, WordsApplied
    <2>2. auditPage.filters \in Conditions
      BY DEF AuditInv, AuditTypes, AuditViews
    <2>3. LoadedFor(auditPage) = auditPage.filters
      BY <2>1, <2>2 DEF LoadedFor, Conditions
    <2> QED BY <2>1, <2>3 DEF AuditInv, Listed
  <1>2. NoGap
    BY <1>1 DEF NoGap, ListRight, Among, NoneBetween, Ordered
  <1>3. EndIsTheEnd
    BY <1>1 DEF EndIsTheEnd, ListRight, Whole
  <1> QED BY <1>2, <1>3 DEF AuditInv, AuditRight

(* However the user filters, searches, pages and refreshes while polls run *)
(* and entries come in (views/AuditView.jsx): the rows are entries the     *)
(* filters let through, each once, none between the newest of the clean    *)
(* load and the last row is left out, the end is announced only when all   *)
(* is shown, and no poll takes back the rows paged to; and the plan of a   *)
(* sprint and its capacity are right (PlanningHolds), each but for the     *)
(* cases its definition names.                                             *)
THEOREM PagesHold == Spec => []PagesRight
  <1>1. Init => AuditInv
    BY AuditStart
  <1>2. AuditInv /\ [Next]_vars => AuditInv'
    BY AuditKept
  <1>3. AuditInv /\ PlanningRight => PagesRight
    BY AuditIsRight DEF PagesRight
  <1> QED BY <1>1, <1>2, <1>3, PlanningHolds, PTL DEF Spec
-----------------------------------------------------------------------------
(* What the types say besides: comments, files and links.                  *)
DiscussionRest ==
    /\ linked \subseteq Item \X Item
    /\ told \subseteq Thing /\ late \subseteq Thing /\ given \subseteq Thing /\ doubted \subseteq Text

LEMMA DiscussionRestKept ==
  ASSUME DiscussionTypes, DiscussionRest, [Next]_vars
  PROVE  DiscussionRest'
  <1> USE DEF Trays, Thing
  <1>1. CASE \E x \in Text : Type(x)
    BY <1>1 DEF Type, Late, DiscussionRest, store
  <1>2. CASE \E f \in File, t \in Trays : Stage(t, f)
    BY <1>2 DEF Stage, Late, DiscussionRest, store
  <1>3. CASE \E i \in Item : PickTarget(i) \/ RemoveLink(i)
    BY <1>3 DEF PickTarget, RemoveLink, Late, DiscussionRest, store
  <1>4. CASE \E t \in Trays : ClearTray(t) \/ \E x \in tray[t] : Unstage(t, x)
    BY <1>4 DEF ClearTray, Unstage, DiscussionTypes, DiscussionRest, store
  <1>5. CASE \E n \in Run, t \in Trays : Press(n, t)
    BY <1>5 DEF Press, DiscussionTypes, DiscussionRest, store
  <1>6. CASE \E f \in File : DeleteAttachment(f)
    BY <1>6 DEF DeleteAttachment, DiscussionRest, store
  <1>7. CASE SavePressed \/ SaveEnds
    <2>1. tray["link"] \subseteq File \cup Item /\ draft \subseteq Text
      BY DEF DiscussionTypes
    <2> QED BY <1>7, <2>1 DEF SavePressed, SaveEnds, DiscussionRest, store
  <1>8. CASE \E i \in Item \cup {None} : DiscussionTurn(i)
    <2>1. UNION {tray[t] : t \in Trays} \subseteq File \cup Item /\ draft \subseteq Text
      BY DEF DiscussionTypes
    <2> QED BY <1>8, <2>1 DEF DiscussionTurn, LeaveTrays, DiscussionRest, store
  <1>9. CASE \E n \in Run : CommentPosted(n) \/ CommentFails(n) \/ RunDone(n)
    <2>1. PICK n \in Run : CommentPosted(n) \/ CommentFails(n) \/ RunDone(n)
      BY <1>9
    <2>2. run[n].text \subseteq Text
      BY <2>1, RunTypes DEF CommentPosted, CommentFails, RunDone
    <2> QED BY <2>1, <2>2 DEF CommentPosted, CommentFails, RunDone, DiscussionRest, store
  <1>10. CASE \E n \in Run, x \in File \cup Item : ThingStored(n, x) \/ ThingFails(n, x)
    <2>1. PICK n \in Run, x \in File \cup Item : ThingStored(n, x) \/ ThingFails(n, x)
      BY <1>10
    <2>2. run[n].item \in Item
      BY <2>1, RunTypes DEF ThingStored, ThingFails
    <2> QED BY <2>1, <2>2 DEF ThingStored, ThingFails, Stores, DiscussionRest, store
  <1>11. CASE UNCHANGED <<shown, discussion>>
    BY <1>11 DEF discussion, store, DiscussionRest
  <1> QED BY <1>1, <1>2, <1>3, <1>4, <1>5, <1>6, <1>7, <1>8, <1>9, <1>10, <1>11, DiscussionSteps

(* The branches: an active row is the first or a later one of its item.    *)
Numbered(r) == r.active => r.n # 0
BranchesRest ==
    /\ remote \subseteq Item \X Repo
    /\ panel.repos \subseteq Repo \/ panel.repos = NotLoaded
    /\ \A i \in Item, r \in Repo : Numbered(rows[i][r])
    /\ panel.data # NoData => \A r \in Repo : Numbered(panel.data.rows[r])
    /\ \A q \in asks : q.kind \in {"confirm", "remove"} => q.n # 0

LEMMA RowsStayNumbered ==
  ASSUME BranchTypes, BranchesRest, NEW q \in asks, CreateDone(q) \/ RemoveDone(q) \/ OperationFails(q)
  PROVE  remote' \subseteq Item \X Repo /\ \A i \in Item, r \in Repo : Numbered(rows'[i][r])
  <1>1. q.item \in Item /\ q.repo \in Repo
    <2>1. q \in Asks /\ q.kind \in {"create", "remove"}
      BY DEF BranchTypes, CreateDone, RemoveDone, OperationFails
    <2> QED BY <2>1, AskTypes
  <1>2. \A i \in Item, r \in Repo : rows[i] \in [Repo -> Row] /\ rows[i][r] \in Row /\ Numbered(rows[i][r])
    BY DEF BranchTypes, BranchesRest
  <1>3. ASSUME NEW row, rows' = [rows EXCEPT ![q.item][q.repo] = row], Numbered(row)
        PROVE  \A i \in Item, r \in Repo : Numbered(rows'[i][r])
    BY <1>1, <1>2, <1>3 DEF BranchTypes
  <1>4. ASSUME Created(q) PROVE remote' \subseteq Item \X Repo /\ \A i \in Item, r \in Repo : Numbered(rows'[i][r])
    <2>1. CASE rows[q.item][q.repo].active
      BY <1>4, <2>1 DEF Created, BranchesRest
    <2>2. CASE ~rows[q.item][q.repo].active
      <3>1. PICK row : row = [n |-> rows[q.item][q.repo].n + 1, active |-> TRUE, base |-> q.base]
        OBVIOUS
      <3>2. rows' = [rows EXCEPT ![q.item][q.repo] = row] /\ remote' = remote \cup {<<q.item, q.repo>>}
        BY <1>4, <2>2, <3>1 DEF Created
      <3>3. Numbered(row)
        <4>1. rows[q.item][q.repo].n \in Nat
          BY <1>1, <1>2, BranchesAssumption DEF Row
        <4> QED BY <3>1, <4>1 DEF Numbered
      <3> QED BY <1>1, <1>3, <3>2, <3>3 DEF BranchesRest
    <2> QED BY <2>1, <2>2
  <1>5. ASSUME rows' = [rows EXCEPT ![q.item][q.repo].active = FALSE]
        PROVE  \A i \in Item, r \in Repo : Numbered(rows'[i][r])
    <2>1. PICK row : row = [rows[q.item][q.repo] EXCEPT !.active = FALSE]
      OBVIOUS
    <2>2. rows' = [rows EXCEPT ![q.item][q.repo] = row]
      BY <1>1, <1>5, <2>1 DEF BranchTypes
    <2>3. Numbered(row)
      BY <1>1, <1>2, <2>1 DEF Numbered, Row
    <2> QED BY <1>3, <2>2, <2>3
  <1>6. CASE CreateDone(q)
    BY <1>4, <1>6 DEF CreateDone
  <1>7. CASE RemoveDone(q)
    BY <1>5, <1>7 DEF RemoveDone, BranchesRest
  <1>8. CASE OperationFails(q)
    BY <1>1, <1>2, <1>4, <1>5, <1>8 DEF OperationFails, BranchesRest
  <1> QED BY <1>6, <1>7, <1>8

(* What is asked for is a list, or what the section shows.                 *)
LEMMA RemovalsNumbered ==
  ASSUME BranchTypes, BranchesRest, [Next]_vars
  PROVE  \A q \in asks' : q.kind \in {"confirm", "remove"} => q.n # 0
  <1>1. SUFFICES ASSUME NEW q \in asks', q \notin asks, q.kind \in {"confirm", "remove"}
                 PROVE  q.n # 0
    BY DEF BranchesRest
  <1>2. \/ \E r \in Repo : AskRemoval(r)
        \/ \E p \in asks : ConfirmRemoval(p)
    <2>1. CASE \E i \in Item \cup {None} : BranchesTurn(i)
      BY <1>1, <2>1 DEF BranchesTurn, LoadAsk
    <2>2. CASE \E p \in asks : ListAnswer(p) \/ ListFails(p)
      BY <1>1, <2>2 DEF ListAnswer, ListFails
    <2>3. CASE \E p \in asks : CreateDone(p) \/ RemoveDone(p)
      BY <1>1, <2>3 DEF CreateDone, RemoveDone, LoadAsk
    <2>4. CASE LoadRepositories \/ AskPreview \/ CreateBranch
      <3>1. PICK k \in {"repos", "preview", "create"} : \A p \in asks' \ asks : p.kind = k
        BY <2>4 DEF LoadRepositories, AskPreview, CreateBranch
      <3> QED BY <1>1, <3>1
    <2>5. ASSUME \/ CancelPreview \/ (\E r \in Repo : ChooseRepository(r)) \/ (\E b \in Base \cup {None} : TypeBase(b))
                 \/ \E p \in asks : CancelRemoval(p) \/ RepositoriesAnswer(p) \/ RepositoriesFail(p) \/ PreviewAnswer(p) \/ PreviewFails(p)
                                     \/ OperationFails(p)
                 \/ UNCHANGED <<shown, branches>>
          PROVE  FALSE
      BY <1>1, <2>5 DEF CancelPreview, ChooseRepository, TypeBase, CancelRemoval, RepositoriesAnswer, RepositoriesFail, PreviewAnswer,
         PreviewFails, OperationFails, branches
    <2> QED BY <2>1, <2>2, <2>3, <2>4, <2>5, BranchCases DEF Quiet
  <1>3. CASE \E r \in Repo : AskRemoval(r)
    <2>1. PICK r \in Repo : AskRemoval(r)
      BY <1>3
    <2>2. q = [kind |-> "confirm", item |-> panel.data.item, repo |-> r, n |-> panel.data.rows[r].n]
      BY <1>1, <2>1 DEF AskRemoval
    <2>3. panel.data # NoData /\ panel.data.rows[r].active
      BY <2>1 DEF AskRemoval, Shows
    <2>4. panel.data.rows[r].n # 0
      BY <2>3 DEF BranchesRest, Numbered
    <2> QED BY <2>2, <2>4
  <1>4. CASE \E p \in asks : ConfirmRemoval(p)
    <2>1. PICK p \in asks : ConfirmRemoval(p)
      BY <1>4
    <2>2. q = [p EXCEPT !.kind = "remove"] /\ p \in asks /\ p.kind = "confirm"
      BY <1>1, <2>1 DEF ConfirmRemoval
    <2>3. p \in Removals /\ p.n # 0
      BY <2>2, AskTypes DEF BranchTypes, BranchesRest
    <2> QED BY <2>2, <2>3 DEF Removals
  <1> QED BY <1>2, <1>3, <1>4

LEMMA BranchesRestKept ==
  ASSUME BranchTypes, BranchesRest, [Next]_vars
  PROVE  BranchesRest'
  <1>1. panel \in Panels /\ ReposOf \in [Item -> SUBSET Repo]
    BY BranchesAssumption DEF BranchTypes
  <1>2. CASE \E i \in Item \cup {None} : BranchesTurn(i)
    <2>1. PICK i \in Item \cup {None} : BranchesTurn(i)
      BY <1>2
    <2>2. panel'.repos = NotLoaded /\ panel'.data = NoData
      BY <2>1 DEF BranchesTurn, Fresh
    <2> QED BY <2>1, <2>2, RemovalsNumbered DEF BranchesTurn, BranchesRest
  <1>3. CASE \E q \in asks : ListAnswer(q) \/ ListFails(q)
    <2>1. PICK q \in asks : ListAnswer(q) \/ ListFails(q)
      BY <1>3
    <2>2. panel'.repos = panel.repos
      BY <1>1, <2>1 DEF ListAnswer, ListFails, Panels
    <2>3. q.item \in Item
      BY <2>1, AskTypes DEF BranchTypes
    <2>4. panel'.data \in {panel.data, NoData, [item |-> q.item, rows |-> rows[q.item]]}
      BY <1>1, <2>1 DEF ListAnswer, ListFails, Panels
    <2>5. panel'.data # NoData => \A r \in Repo : Numbered(panel'.data.rows[r])
      BY <2>3, <2>4 DEF BranchesRest
    <2>6. UNCHANGED <<rows, remote>>
      BY <2>1 DEF ListAnswer, ListFails
    <2> QED BY <2>2, <2>5, <2>6, RemovalsNumbered DEF BranchesRest
  <1>4. CASE \E q \in asks : CreateDone(q) \/ RemoveDone(q)
    <2>1. PICK q \in asks : CreateDone(q) \/ RemoveDone(q)
      BY <1>4
    <2>2. panel'.repos = panel.repos /\ panel'.data = panel.data
      BY <1>1, <2>1 DEF CreateDone, RemoveDone, Panels
    <2> QED BY <2>1, <2>2, RowsStayNumbered, RemovalsNumbered DEF BranchesRest
  <1>5. CASE Quiet
    <2>1. panel'.data = panel.data
      BY <1>5, QuietLeaves
    <2>2. panel'.repos \subseteq Repo \/ panel'.repos = NotLoaded
      <3>1. CASE \E q \in asks : RepositoriesAnswer(q)
        <4>1. PICK q \in asks : RepositoriesAnswer(q)
          BY <3>1
        <4>2. panel'.repos = ReposOf[q.item] /\ q.item \in Item
          BY <4>1, DiscoveryLeaves, AskTypes DEF BranchTypes
        <4> QED BY <1>1, <4>2
      <3>2. CASE ~\E q \in asks : RepositoriesAnswer(q)
        <4>1. panel'.repos = panel.repos
          BY <1>1, <1>5, <3>2 DEF Quiet, LoadRepositories, AskPreview, CancelPreview, CreateBranch, ChooseRepository, AskRemoval, TypeBase,
             ConfirmRemoval, CancelRemoval, RepositoriesFail, PreviewAnswer, PreviewFails, OperationFails, branches, Panels
        <4> QED BY <4>1 DEF BranchesRest
      <3> QED BY <3>1, <3>2
    <2>3. remote' \subseteq Item \X Repo /\ \A i \in Item, r \in Repo : Numbered(rows'[i][r])
      <3>1. CASE \E q \in asks : OperationFails(q)
        BY <3>1, RowsStayNumbered
      <3>2. CASE ~\E q \in asks : OperationFails(q)
        <4>1. UNCHANGED <<rows, remote>>
          BY <1>5, <3>2 DEF Quiet, LoadRepositories, AskPreview, CancelPreview, CreateBranch, ChooseRepository, AskRemoval, TypeBase,
             ConfirmRemoval, CancelRemoval, RepositoriesAnswer, RepositoriesFail, PreviewAnswer, PreviewFails, branches
        <4> QED BY <4>1 DEF BranchesRest
      <3> QED BY <3>1, <3>2
    <2> QED BY <2>1, <2>2, <2>3, RemovalsNumbered DEF BranchesRest
  <1> QED BY <1>2, <1>3, <1>4, <1>5, BranchCases

LEMMA SectionsTyped ==
  ASSUME DiscussionTypes, DiscussionRest, BranchTypes, BranchesRest
  PROVE  SectionsTypeOK
  <1>1. DiscussionTypeOK
    BY DEF DiscussionTypeOK, DiscussionTypes, DiscussionRest
  <1>2. asks \subseteq Ask
    <2>1. SUFFICES ASSUME NEW q \in asks PROVE q \in Ask
      OBVIOUS
    <2>2. CASE q \in Removals
      <3>1. q.kind \in {"confirm", "remove"} /\ q.n \in 0..MaxRows /\ MaxRows \in Nat
        BY <2>2, BranchesAssumption DEF Removals
      <3>2. q.n \in 1..MaxRows
        BY <3>1 DEF BranchesRest
      <3> QED BY <2>2, <3>1, <3>2 DEF Removals, Ask
    <2>3. CASE q \in Asks \ Removals
      BY <2>3 DEF Asks, Loads, Discoveries, Previews, Creations, Ask
    <2> QED BY <2>2, <2>3 DEF BranchTypes
  <1>3. panel.repos \in (SUBSET Repo) \cup {{None}}
    BY DEF BranchesRest, NotLoaded
  <1>4. BranchesTypeOK
    BY <1>2, <1>3, PanelTypes DEF BranchesTypeOK, BranchTypes, BranchesRest
  <1> QED BY <1>1, <1>4 DEF SectionsTypeOK
-----------------------------------------------------------------------------
\* The events: every one was planned, and edited no more often than is counted.
WellPlanned ==
    DOMAIN events \subseteq everPlanned /\ everPlanned \subseteq Event /\ \A e \in DOMAIN events : events[e] <= MaxEdits

LEMMA WithoutPlanned ==
  ASSUME WellPlanned, NEW e, Without(e)
  PROVE  WellPlanned'
  <1>1. events' = [x \in DOMAIN events \ {e} |-> events[x]] /\ everPlanned' = everPlanned
    BY DEF Without, Restrict
  <1> QED BY <1>1 DEF WellPlanned

LEMMA WrittenPlanned ==
  ASSUME EventServerTypes, WellPlanned, NEW w, EventWritten(w)
  PROVE  WellPlanned'
  <1>0. 0 <= MaxEdits /\ MaxEdits \in Nat
    BY EventsAssumption
  <1>1. \/ \E e \in Event \ everPlanned : events' = Put(events, e, 0) /\ everPlanned' = everPlanned \cup {e}
        \/ /\ w.id \in DOMAIN events
           /\ \/ events[w.id] < MaxEdits /\ events' = [events EXCEPT ![w.id] = @ + 1] /\ UNCHANGED everPlanned
              \/ Without(w.id)
    BY DEF EventWritten
  <1>2. CASE \E e \in Event \ everPlanned : events' = Put(events, e, 0) /\ everPlanned' = everPlanned \cup {e}
    <2>1. PICK e \in Event : events' = Put(events, e, 0) /\ everPlanned' = everPlanned \cup {e}
      BY <1>2
    <2>2. events' = [x \in DOMAIN events \cup {e} |-> IF x = e THEN 0 ELSE events[x]]
      BY <2>1 DEF Put
    <2> QED BY <1>0, <2>1, <2>2 DEF WellPlanned
  <1>3. CASE w.id \in DOMAIN events /\ events[w.id] < MaxEdits /\ events' = [events EXCEPT ![w.id] = @ + 1] /\ UNCHANGED everPlanned
    <2>1. events[w.id] \in Nat /\ events[w.id] + 1 <= MaxEdits
      BY <1>0, <1>3, EventsPlanned
    <2>2. PICK k : k = events[w.id] + 1
      OBVIOUS
    <2>3. events' = [events EXCEPT ![w.id] = k]
      BY <1>3, <2>2, EventsPlanned
    <2> QED BY <1>3, <2>1, <2>2, <2>3 DEF WellPlanned
  <1> QED BY <1>1, <1>2, <1>3, WithoutPlanned

LEMMA PlannedKept ==
  ASSUME EventServerTypes, WellPlanned, misfiled \in BOOLEAN, EventsUser \/ EventsAnswers
  PROVE  WellPlanned' /\ misfiled' \in BOOLEAN
  <1>1. ASSUME UNCHANGED <<events, everPlanned>> PROVE WellPlanned'
    BY <1>1 DEF WellPlanned
  <1>2. CASE EventsUser
    <2>1. ASSUME NEW t \in Task, NEW e \in Event \cup {None}, ItemCloses(t, e) PROVE UNCHANGED <<events, everPlanned, misfiled>>
      BY <2>1 DEF ItemCloses
    <2>2. CASE OthersDelete
      BY <2>2, WithoutPlanned DEF OthersDelete
    <2>3. ASSUME \/ \E e \in Event \cup {None} : EnterView(e)
                 \/ \E e \in Event : OpenEvent(e) \/ FollowLink(e)
                 \/ \E t \in Task : PickTask(t)
                 \/ \E yes \in BOOLEAN : AnswerDelete(yes)
                 \/ LeaveView \/ Back \/ EventsPoll \/ Narrows \/ Drafts \/ SubmitEvent \/ AskDelete
          PROVE  UNCHANGED <<events, everPlanned, misfiled>>
      BY <2>3 DEF EnterView, OpenEvent, FollowLink, PickTask, AnswerDelete, LeaveView, Back, EventsPoll, Narrows, Drafts,
         SubmitEvent, AskDelete, Stays, server
    <2>4. CASE AddExistingTasks
      <3>1. misfiled' \in BOOLEAN
        BY <2>4 DEF AddExistingTasks
      <3> QED BY <1>1, <2>4, <3>1 DEF AddExistingTasks, server
    <2> QED BY <1>1, <1>2, <2>1, <2>2, <2>3, <2>4 DEF EventsUser
  <1>3. CASE EventsAnswers
    <2>1. ASSUME NEW q, EventServed(q) \/ EventArrives(q) \/ EventFails(q) PROVE UNCHANGED <<events, everPlanned, misfiled>>
      BY <2>1 DEF EventServed, EventArrives, EventFails, server
    <2>2. ASSUME NEW w, NEW t, \/ EventNotWritten(w) \/ EventSaved(w) \/ EventDeleted(w) \/ TasksAdded(w) \/ TaskRefused(w, t)
          PROVE  UNCHANGED <<events, everPlanned, misfiled>>
      BY <2>2 DEF EventNotWritten, EventSaved, EventDeleted, TasksAdded, TaskRefused, server
    <2>3. ASSUME SearchApplies PROVE UNCHANGED <<events, everPlanned, misfiled>>
      BY <2>3 DEF SearchApplies, Stays, server
    <2>4. ASSUME NEW w \in eventWrites, EventWritten(w) PROVE WellPlanned' /\ misfiled' = misfiled
      BY <2>4, WrittenPlanned DEF EventWritten
    <2>5. ASSUME NEW w, NEW t, NEW lost, TaskAdded(w, t, lost) PROVE UNCHANGED <<events, everPlanned, misfiled>>
      BY <2>5 DEF TaskAdded
    <2> QED BY <1>1, <1>3, <2>1, <2>2, <2>3, <2>4, <2>5 DEF EventsAnswers
  <1> QED BY <1>2, <1>3

LEMMA EventsTyped ==
  ASSUME EventTypes, WellPlanned, misfiled \in BOOLEAN
  PROVE  EventsTypeOK
  <1>1. /\ DOMAIN events \subseteq Event /\ \A e \in DOMAIN events : events[e] \in 0..MaxEdits
    BY EventsPlanned, EventsAssumption DEF EventTypes, WellPlanned
  <1>2. DOMAIN calendar = DOMAIN Away
    BY DEF EventTypes, EventViewTypes, Calendars, Away
  <1>3. /\ calendar.mode \in {"away", "list", "detail"} /\ calendar.mount \in Nat
        /\ {calendar.opened, calendar.filter, calendar.typed, calendar.asking} \subseteq Event \cup {None}
    BY CalendarTypes DEF EventTypes, EventViewTypes
  <1>4. eventForm.id \in Event \cup {None} /\ eventForm.open \in BOOLEAN /\ vague \subseteq Kinds
    BY DEF EventTypes, EventViewTypes
  <1> QED BY <1>1, <1>2, <1>3, <1>4 DEF EventTypes, EventServerTypes, WellPlanned, EventsTypeOK
-----------------------------------------------------------------------------
LEMMA AuditTyped ==
  ASSUME AuditInv
  PROVE  AuditTypeOK
  <1>1. AuditTypes /\ collapsed \in BOOLEAN /\ auditPage \in AuditViews
    BY DEF AuditInv, AuditTypes
  <1>2. DOMAIN auditPage = DOMAIN Fresh0
    BY <1>1 DEF AuditViews, Fresh0
  <1>3. /\ {auditPage.filters.topic, auditPage.filters.words, auditPage.lastWords} \subseteq Sought \cup {None}
        /\ auditPage.listed \in Seq(1..MaxTrail) /\ auditPage.count \in Nat
        /\ {auditPage.drained, auditPage.loaded, auditPage.timer, auditPage.failed} \subseteq BOOLEAN
    BY <1>1 DEF AuditViews, Conditions
  <1> QED BY <1>1, <1>2, <1>3 DEF AuditTypes, AuditTypeOK
-----------------------------------------------------------------------------
\* What the planning page shows and what is typed into it was typed before.
CapsTyped == planner.plan.cap \in 0..Len(typedFor) /\ planner.draft.cap \in 0..Len(typedFor)

LEMMA CapsKept ==
  ASSUME PlanningInv, CapsTyped, PlanningUser \/ PlanningAnswers
  PROVE  CapsTyped'
  <1>0. /\ planner \in Planners /\ typedFor \in Seq(Sprint) /\ Len(typedFor) \in Nat /\ open \in SUBSET Sprint
        /\ \A q \in planReads : TypedAt(typedFor, q.sprint, q.cap)
    BY DEF PlanningInv, PlannerTypes, ReadTyped
  <1>1. ASSUME UNCHANGED <<planner, typedFor>> PROVE CapsTyped'
    BY <1>1 DEF CapsTyped
  <1>2. ASSUME NEW v \in Planners, NEW s \in Sprint \cup {0}, RefreshPlanning(v, s), UNCHANGED typedFor PROVE CapsTyped'
    BY <1>0, <1>2, Refreshed DEF CapsTyped, NoPlan
  <1>3. ASSUME NEW x \in Sprint, UNCHANGED planner, typedFor' = Append(typedFor, x) PROVE CapsTyped'
    BY <1>0, <1>3 DEF CapsTyped
  <1>4. CASE PlanningUser
    <2>1. ASSUME NEW s \in Sprint, PickSprint(s) PROVE CapsTyped'
      <3>1. PICK v : v = [planner EXCEPT !.picked = s]
        OBVIOUS
      <3>2. v \in Planners
        BY <1>0, <3>1 DEF Planners
      <3> QED BY <1>2, <2>1, <3>1, <3>2 DEF PickSprint
    <2>2. ASSUME NEW s \in Sprint, OthersPlan(s) PROVE CapsTyped'
      BY <1>1, <1>3, <2>2 DEF OthersPlan
    <2>3. CASE TypeCapacity
      <3>1. planner.picked \in Sprint
        BY <1>0, <2>3, PlannerFields DEF TypeCapacity, PlanningInv, UnpickedIdle, HasPlan
      <3>2. PICK k \in Nat : k = Len(typedFor) + 1
        BY <1>0
      <3>3. planner' = [planner EXCEPT !.draft.cap = k]
        BY <2>3, <3>2 DEF TypeCapacity
      <3>4. planner'.plan = planner.plan /\ planner'.draft.cap = k
        BY <1>0, <3>3 DEF Planners, Plans
      <3>5. Len(typedFor') = k
        BY <1>0, <2>3, <3>1, <3>2 DEF TypeCapacity
      <3> QED BY <1>0, <3>2, <3>4, <3>5 DEF CapsTyped
    <2>4. CASE EmptyCapacity
      <3>1. planner'.plan = planner.plan /\ planner'.draft.cap = 0 /\ typedFor' = typedFor
        BY <1>0, <2>4 DEF EmptyCapacity, Planners, Plans
      <3> QED BY <1>0, <3>1 DEF CapsTyped
    <2>5. CASE SaveCapacity
      BY <1>1, <2>5 DEF SaveCapacity
    <2>6. CASE Remount
      <3>1. planner'.plan = NoPlan /\ planner'.draft = NoPlan /\ typedFor' = typedFor
        BY <2>6 DEF Remount, Empty
      <3> QED BY <1>0, <3>1 DEF CapsTyped, NoPlan
    <2> QED BY <1>4, <2>1, <2>2, <2>3, <2>4, <2>5, <2>6 DEF PlanningUser
  <1>5. CASE PlanningAnswers
    <2>1. CASE BaseArrives(open)
      <3>1. PICK pick : pick = IF planner.picked \in open THEN planner.picked ELSE First(open)
        OBVIOUS
      <3>2. pick \in Sprint \cup {0}
        BY <1>0, <3>1, FirstIs
      <3>3. PICK v : v = [planner EXCEPT !.base = "shown", !.sprints = open, !.picked = pick]
        OBVIOUS
      <3>4. /\ IF pick = planner.picked THEN planner' = v ELSE RefreshPlanning(v, pick)
            /\ typedFor' = typedFor
        BY <2>1, <3>1, <3>3 DEF BaseArrives
      <3>5. v \in Planners /\ v.plan = planner.plan /\ v.draft = planner.draft
        BY <1>0, <3>2, <3>3 DEF Planners
      <3> QED BY <1>2, <3>2, <3>4, <3>5 DEF CapsTyped
    <2>2. CASE BaseFails
      <3>1. planner'.plan = planner.plan /\ planner'.draft = planner.draft /\ typedFor' = typedFor
        BY <1>0, <2>2 DEF BaseFails, Planners
      <3> QED BY <3>1 DEF CapsTyped
    <2>3. ASSUME NEW q \in planReads, PlanServed(q) \/ PlanFails(q) PROVE CapsTyped'
      BY <1>1, <2>3 DEF PlanServed, PlanFails
    <2>4. ASSUME NEW q \in planReads, PlanArrives(q) PROVE CapsTyped'
      <3>1. typedFor' = typedFor /\ q.cap \in 0..Len(typedFor)
        BY <1>0, <2>4 DEF PlanArrives, TypedAt
      <3>2. PICK p : p = [sprint |-> q.sprint, cap |-> q.cap]
        OBVIOUS
      <3>3. planner' = planner \/ planner' = [planner EXCEPT !.plan = p, !.draft = p]
        BY <2>4, <3>2 DEF PlanArrives
      <3>4. planner' = planner \/ (planner'.plan = p /\ planner'.draft = p)
        BY <1>0, <3>3 DEF Planners
      <3> QED BY <3>1, <3>2, <3>4 DEF CapsTyped
    <2>5. ASSUME NEW w \in planSaves, CapacityReplaced(w) \/ CapacityNotSaved(w) PROVE CapsTyped'
      BY <1>1, <2>5 DEF CapacityReplaced, CapacityNotSaved
    <2>6. ASSUME NEW w \in planSaves, CapacitySaved(w) PROVE CapsTyped'
      <3>1. w.picked \in Sprint
        BY DEF PlanningInv, PlanSaveTypes, IsPlanSave
      <3> QED BY <1>0, <1>1, <1>2, <2>6, <3>1 DEF CapacitySaved
    <2> QED BY <1>5, <2>1, <2>2, <2>3, <2>4, <2>5, <2>6 DEF PlanningAnswers
  <1> QED BY <1>4, <1>5

LEMMA PlanningTyped ==
  ASSUME PlanningInv, CapsTyped
  PROVE  PlanningTypeOK
  <1>1. /\ open \subseteq Sprint /\ typedFor \in Seq(Sprint) /\ capacity \in [Sprint -> Nat]
        /\ planner \in Planners /\ dated \in BOOLEAN /\ \A s \in Sprint : TypedAt(typedFor, s, capacity[s])
    BY DEF PlanningInv, PlannerTypes, KeptTyped
  <1>2. capacity \in [Sprint -> 0..Len(typedFor)]
    BY <1>1 DEF TypedAt
  <1>3. DOMAIN planner = DOMAIN Empty(0)
    BY <1>1 DEF Planners, Empty
  <1>4. /\ planner.sprints \subseteq Sprint /\ planner.base \in {"loading", "shown", "missing"}
        /\ {planner.picked, planner.plan.sprint, planner.draft.sprint} \subseteq Sprint \cup {0}
    BY <1>1, PlannerFields
  <1> QED BY <1>1, <1>2, <1>3, <1>4 DEF CapsTyped, PlanningTypeOK
-----------------------------------------------------------------------------
(* The state of a page, whichever part is exercised: types.                *)
PartTyped == part \in Parts /\ inputs \in 0..MaxInputs[part]

PagesInv ==
    /\ PartTyped
    /\ DiscussionTypes /\ DiscussionRest /\ BranchTypes /\ BranchesRest
    /\ EventsInv /\ WellPlanned /\ misfiled \in BOOLEAN
    /\ AuditInv
    /\ PlanningInv /\ CapsTyped

LEMMA PagesStart ==
  ASSUME Init
  PROVE  PagesInv
  <1>1. PartTyped
    BY PartsAssumption DEF Init, PartTyped
  <1>2. DiscussionTypes /\ DiscussionRest
    BY DiscussionStart DEF DiscussionInv, DiscussionRest, Init, SectionsInit, DiscussionInit
  <1>3. BranchTypes /\ BranchesRest
    <2>1. /\ remote = AtFirst /\ panel.repos = NotLoaded /\ panel.data = NoData /\ asks = {}
          /\ rows = [i \in Item |-> [r \in Repo |->
                IF <<i, r>> \in AtFirst THEN [n |-> 1, active |-> TRUE, base |-> ProjectBase]
                ELSE [n |-> 0, active |-> FALSE, base |-> None]]]
      BY DEF Init, SectionsInit, BranchesInit, Fresh
    <2>2. \A i \in Item, r \in Repo : Numbered(rows[i][r])
      BY <2>1 DEF Numbered
    <2> QED BY <2>1, <2>2, BranchesStart, BranchesAssumption DEF BranchesInv, BranchesRest
  <1>4. WellPlanned /\ misfiled \in BOOLEAN
    <2>1. everPlanned \subseteq Event /\ events = [e \in everPlanned |-> 0] /\ misfiled = FALSE /\ 0 <= MaxEdits
      BY EventsAssumption DEF Init, EventsInit
    <2> QED BY <2>1 DEF WellPlanned
  <1>5. CapsTyped
    <2>1. planner.plan = NoPlan /\ planner.draft = NoPlan /\ typedFor = << >>
      BY DEF Init, PlanningInit, Empty
    <2> QED BY <2>1 DEF CapsTyped, NoPlan
  <1> QED BY <1>1, <1>2, <1>3, <1>4, <1>5, EventsStart, AuditStart, PlanningStart DEF PagesInv

LEMMA PagesKept ==
  ASSUME PagesInv, [Next]_vars
  PROVE  PagesInv'
  <1>1. PartTyped'
    <2>1. /\ part' = part
          /\ inputs' = inputs \/ (inputs < MaxInputs[part] /\ inputs' = inputs + 1)
      BY DEF Next, vars, ByUser
    <2>2. part \in Parts /\ inputs \in 0..MaxInputs[part] /\ MaxInputs[part] \in Nat
      BY PartsAssumption DEF PagesInv, PartTyped
    <2> QED BY <2>1, <2>2 DEF PartTyped
  <1>2. (DiscussionTypes /\ DiscussionRest)'
    BY DiscussionTypesKept, DiscussionRestKept DEF PagesInv
  <1>3. (BranchTypes /\ BranchesRest)'
    BY BranchTypesKept, BranchesRestKept DEF PagesInv
  <1>4. EventsInv' /\ AuditInv' /\ PlanningInv'
    BY EventsKept, AuditKept, PlanningKept DEF PagesInv
  <1>5. WellPlanned' /\ misfiled' \in BOOLEAN
    <2>1. EventServerTypes
      BY DEF PagesInv, EventsInv, EventTypes
    <2>2. CASE EventsUser \/ EventsAnswers
      BY <2>1, <2>2, PlannedKept DEF PagesInv
    <2>3. CASE UNCHANGED eventsState
      BY <2>3 DEF eventsState, PagesInv, WellPlanned
    <2> QED BY <2>2, <2>3, PageSteps
  <1>6. CapsTyped'
    <2>1. CASE PlanningUser \/ PlanningAnswers
      BY <2>1, CapsKept DEF PagesInv
    <2>2. CASE UNCHANGED planning
      BY <2>2 DEF planning, PagesInv, CapsTyped
    <2> QED BY <2>1, <2>2, PageSteps
  <1> QED BY <1>1, <1>2, <1>3, <1>4, <1>5, <1>6 DEF PagesInv

(* Whatever the user and the answers do to a page, what the sections of    *)
(* the dialog, the events, the audit trail and the planning page keep is   *)
(* of its type: the trays hold files and items, the loads and writes of    *)
(* the branches are for what exists, every event there is was planned, and *)
(* a capacity, shown or in the field, was typed before.                    *)
THEOREM PagesTyped == Spec => []TypeOK
  <1>1. Init => PagesInv
    BY PagesStart
  <1>2. PagesInv /\ [Next]_vars => PagesInv'
    BY PagesKept
  <1>3. PagesInv => TypeOK
    <2>1. ASSUME PagesInv PROVE TypeOK
      <3>1. SectionsTypeOK
        BY <2>1, SectionsTyped DEF PagesInv
      <3>2. EventsTypeOK
        BY <2>1, EventsTyped DEF PagesInv, EventsInv
      <3>3. AuditTypeOK /\ PlanningTypeOK
        BY <2>1, AuditTyped, PlanningTyped DEF PagesInv
      <3> QED BY <2>1, <3>1, <3>2, <3>3 DEF PagesInv, PartTyped, TypeOK
    <2> QED BY <2>1
  <1> QED BY <1>1, <1>2, <1>3, PTL DEF Spec
=============================================================================
