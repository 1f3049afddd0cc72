----------------------------- MODULE ClientShell -----------------------------
(***************************************************************************)
(* The web client around the item dialog and the agile pages: its shared   *)
(* state and its other pages, one of which a behaviour exercises.          *)
(***************************************************************************)
EXTENDS ClientNotices, ClientList, ClientSleuth, ClientDirectory, ClientManaged, ClientAccess, ClientPush, ClientForms, ClientAccount

vars == <<part, inputs, notices, list, sleuth, directory, managed, access, push, formsState, accountState>>

Init ==
    /\ part \in Parts /\ inputs = 0
    /\ NoticesInit /\ ListInit /\ SleuthInit /\ DirectoryInit /\ ManagedInit /\ AccessInit /\ PushInit /\ FormsInit /\ AccountInit

\* What one part does leaves the others alone.
Only(name) ==
    /\ part = name
    /\ name # "notices" => UNCHANGED notices
    /\ name # "list" => UNCHANGED list
    /\ name # "sleuth" => UNCHANGED sleuth
    /\ name # "directory" => UNCHANGED directory
    /\ name # "managed" => UNCHANGED managed
    /\ name # "access" => UNCHANGED access
    /\ name # "push" => UNCHANGED push
    /\ name # "forms" => UNCHANGED formsState
    /\ name # "account" => UNCHANGED accountState

Next ==
    \/ /\ UNCHANGED part
       /\ \/ Only("notices") /\ ByUser(NoticesUser)
          \/ Only("list") /\ ByUser(ListUser)
          \/ Only("sleuth") /\ ByUser(SleuthUser)
          \/ Only("directory") /\ ByUser(DirectoryUser)
          \/ Only("managed") /\ ByUser(ManagedUser)
          \/ Only("access") /\ ByUser(AccessUser)
          \/ Only("push") /\ ByUser(PushUser)
          \/ Only("forms") /\ ByUser(FormsUser)
          \/ Only("account") /\ ByUser(AccountUser)
    \/ /\ UNCHANGED <<part, inputs>>
       /\ \/ Only("notices") /\ NoticesAnswers
          \/ Only("list") /\ (ListAnswers \/ Poll)
          \/ Only("sleuth") /\ SleuthAnswers
          \/ Only("directory") /\ DirectoryAnswers
          \/ Only("managed") /\ ManagedAnswers
          \/ Only("access") /\ AccessAnswers
          \/ Only("push") /\ PushAnswers
          \/ Only("forms") /\ FormsAnswers
          \/ Only("account") /\ AccountReplies

\* Requests are answered, if only by the time limit, and timers run.
Steady == UNCHANGED <<part, inputs>>
Fairness ==
    /\ WF_vars(Steady /\ Only("list") /\ UserAnswers)
    /\ WF_vars(Steady /\ Only("list") /\ (PollAnswers \/ Poll))

Spec == Init /\ [][Next]_vars /\ Fairness

TypeOK ==
    /\ part \in Parts /\ inputs \in 0..MaxInputs[part]
    /\ NoticesTypeOK /\ ListTypeOK /\ SleuthTypeOK /\ DirectoryTypeOK /\ ManagedTypeOK /\ AccessTypeOK /\ PushTypeOK /\ FormsTypeOK /\ AccountTypeOK

\* A load that was under way takes back nothing the page showed meanwhile: not
\* what its user marked read, not a project that was saved or removed.
LateLoadsTakeNothingBack == UnreadByLaterLoad /\ LoadsNeverGoBack

\* What carries a version is not written over unseen: not an item by a bulk edit
\* of the list, not the settings by a form that was filled before.
NothingUnseenOverwritten == NothingOverwritten /\ SettingsRight

\* Who is signed out is out: sessions follow the password, links work once, and
\* the browser gets none of the former user's notifications.
SignedOutIsOut == AccessRight /\ SharedBrowserSafe
=============================================================================
