---------------------------- MODULE ClientDirectory ----------------------------
(***************************************************************************)
(* The projects and people of the sidebar: state/AppContext.jsx with       *)
(* lib/projectList.js, shell/Sidebar.jsx and the forms of modals/ that     *)
(* change them.                                                            *)
(*                                                                         *)
(* Both lists are polled and loaded again after every change.  Answers     *)
(* about projects are numbered, and those that raced a change are dropped; *)
(* a saved project is put in the list at once, as it came.  Answers about  *)
(* people are shown as they come.                                          *)
(***************************************************************************)
EXTENDS ClientParts, Functions

CONSTANTS
    Project,      \* the projects there can be: 1, 2, ...
    MaxVersion    \* bound: how often one project, and the people, change

ASSUME DirectoryAssumption == Project \subseteq Nat /\ MaxVersion \in Nat

VARIABLES
    projects,   \* the server's, each with its version
    born,       \* how many projects there ever were
    people,     \* the version of the server's list of people
    rail,       \* the projects in the sidebar, as they came
    team,       \* the people in the sidebar: a version
    loadSeq,    \* the number of the latest load of projects
    changeSeq,  \* the number of changes the page has put in the list
    reads,      \* loads under way
    form,       \* the form on screen: what it edits, or nothing
    writes,     \* saves and deletions under way
    polling,    \* the poll is under way
    dropped     \* history: projects a load took out of the list

directory == <<projects, born, people, rail, team, loadSeq, changeSeq, reads, form, writes, polling, dropped>>

NoForm == [of |-> "nothing", id |-> None]
NoProjects == [p \in {} |-> 0]

DirectoryTypeOK ==
    /\ DOMAIN projects \subseteq Project /\ \A p \in DOMAIN projects : projects[p] \in 0..MaxVersion
    /\ DOMAIN rail \subseteq Project /\ \A p \in DOMAIN rail : rail[p] \in 0..MaxVersion
    /\ born \in Nat /\ people \in 0..MaxVersion /\ team \in 0..MaxVersion
    /\ loadSeq \in Nat /\ changeSeq \in Nat
    /\ form.of \in {"nothing", "project", "person"} /\ form.id \in Project \cup {None}
    /\ polling \in BOOLEAN /\ dropped \subseteq Project

\* The page once it has been loaded.
DirectoryInit ==
    /\ projects = [p \in {1} \cap Project |-> 0] /\ born = 1 /\ people = 0
    /\ rail = projects /\ team = 0
    /\ loadSeq = 1 /\ changeSeq = 0
    /\ reads = {} /\ writes = {} /\ form = NoForm /\ polling = FALSE /\ dropped = {}
-----------------------------------------------------------------------------
(* Loads. *)

\* A load: its number and the changes there were when it began.
LoadProjects(by, changes) ==
    [of |-> "projects", by |-> by, seq |-> loadSeq + 1, changes |-> changes, got |-> None]

LoadUsers(by) == [of |-> "people", by |-> by, got |-> None]

ReadServed(q) ==
    /\ q.got = None
    /\ reads' = (reads \ {q}) \cup {[q EXCEPT !.got = [projects |-> projects, people |-> people]]}
    /\ UNCHANGED <<projects, born, people, rail, team, loadSeq, changeSeq, form, writes, polling, dropped>>

\* The poll is over when both of its loads are answered, or one has failed.
PollEnds(q) == polling' = (polling /\ (q.by # "poll" \/ \E r \in reads \ {q} : r.by = "poll"))

\* Slip: a load that another one overtook is shown.
Mut_IsStale(q) == q.changes # changeSeq

\* Another load began since, or a change was put in the list.
IsStale(q) == q.seq # loadSeq \/ q.changes # changeSeq

ProjectsArrive(q) ==
    /\ q.of = "projects" /\ q.got # None
    /\ reads' = reads \ {q}
    /\ IF IsStale(q) THEN UNCHANGED <<rail, dropped>>
       ELSE /\ rail' = q.got.projects
            /\ dropped' = dropped \cup (DOMAIN rail \ DOMAIN q.got.projects)
    /\ PollEnds(q)
    /\ UNCHANGED <<projects, born, people, team, loadSeq, changeSeq, form, writes>>

PeopleArrive(q) ==
    /\ q.of = "people" /\ q.got # None
    /\ reads' = reads \ {q}
    /\ team' = q.got.people
    /\ PollEnds(q)
    /\ UNCHANGED <<projects, born, people, rail, loadSeq, changeSeq, form, writes, dropped>>

ReadFails(q) ==
    /\ q.got = None
    /\ reads' = {IF r.by = "poll" /\ q.by = "poll" THEN [r EXCEPT !.by = "page"] ELSE r : r \in reads \ {q}}
    /\ polling' = (polling /\ q.by # "poll")
    /\ UNCHANGED <<projects, born, people, rail, team, loadSeq, changeSeq, form, writes, dropped>>

DirectoryPoll ==
    /\ ~polling /\ polling' = TRUE
    /\ loadSeq' = loadSeq + 1
    /\ reads' = reads \cup {LoadProjects("poll", changeSeq), LoadUsers("poll")}
    /\ UNCHANGED <<projects, born, people, rail, team, changeSeq, form, writes, dropped>>
-----------------------------------------------------------------------------
(* Forms, saves and deletions. *)

OpenProjectForm(id) ==
    /\ form.of = "nothing" /\ id \in DOMAIN rail \cup {None}
    /\ form' = [of |-> "project", id |-> id]
    /\ UNCHANGED <<projects, born, people, rail, team, loadSeq, changeSeq, reads, writes, polling, dropped>>

OpenUserForm ==
    /\ form.of = "nothing"
    /\ form' = [of |-> "person", id |-> None]
    /\ UNCHANGED <<projects, born, people, rail, team, loadSeq, changeSeq, reads, writes, polling, dropped>>

CloseForm ==
    /\ form.of # "nothing" /\ form' = NoForm
    /\ UNCHANGED <<projects, born, people, rail, team, loadSeq, changeSeq, reads, writes, polling, dropped>>

Write(of, kind, id) == [of |-> of, kind |-> kind, id |-> id, answer |-> "none", ver |-> 0]

Sent(w) ==
    /\ writes' = writes \cup {w}
    /\ UNCHANGED <<projects, born, people, rail, team, loadSeq, changeSeq, reads, form, polling, dropped>>

SubmitProject == form.of = "project" /\ Sent(Write("project", "save", form.id))

\* A person is saved, or freed from the second factor, from their form.
SubmitUser == form.of = "person" /\ \E kind \in {"save", "reset"} : Sent(Write("person", kind, None))

DeleteProject(p) == p \in DOMAIN rail /\ Sent(Write("project", "delete", p))

DeleteUser == Sent(Write("person", "delete", None))

\* Roles, members and fields of a project are changed within its form.
ChangeMembers == form.of = "project" /\ form.id # None /\ Sent(Write("project", "members", form.id))

Answered(w, how, ver) == writes' = (writes \ {w}) \cup {[w EXCEPT !.answer = how, !.id = ver.id, !.ver = ver.ver]}

\* A write is carried out, whether or not its answer comes back.
WriteServed(w) ==
    /\ w.answer = "none"
    /\ \E how \in {"ok", "lost"} :
         \/ /\ w.of = "person" /\ people < MaxVersion
            /\ people' = people + 1
            /\ Answered(w, how, [id |-> None, ver |-> 0])
            /\ UNCHANGED <<projects, born>>
         \/ /\ w.of = "project" /\ w.kind = "save" /\ w.id = None
            /\ born + 1 \in Project /\ born' = born + 1
            /\ projects' = Put(projects, born + 1, 0)
            /\ Answered(w, how, [id |-> born + 1, ver |-> 0])
            /\ UNCHANGED people
         \/ /\ w.kind \in {"save", "members"} /\ w.id \in DOMAIN projects /\ projects[w.id] < MaxVersion
            /\ projects' = [projects EXCEPT ![w.id] = @ + 1]
            /\ Answered(w, how, [id |-> w.id, ver |-> projects[w.id] + 1])
            /\ UNCHANGED <<born, people>>
         \/ /\ w.of = "project" /\ w.kind = "delete" /\ w.id \in DOMAIN projects
            /\ projects' = Restrict(projects, DOMAIN projects \ {w.id})
            /\ Answered(w, how, [id |-> w.id, ver |-> 0])
            /\ UNCHANGED <<born, people>>
    /\ UNCHANGED <<rail, team, loadSeq, changeSeq, reads, form, polling, dropped>>

WriteRefused(w) ==
    /\ w.answer = "none"
    /\ writes' = (writes \ {w}) \cup {[w EXCEPT !.answer = "lost"]}
    /\ UNCHANGED <<projects, born, people, rail, team, loadSeq, changeSeq, reads, form, polling, dropped>>

\* A refusal or a lost answer is told of, and changes nothing on the page.
WriteFailed(w) ==
    /\ w.answer = "lost"
    /\ writes' = writes \ {w}
    /\ UNCHANGED <<projects, born, people, rail, team, loadSeq, changeSeq, reads, form, polling, dropped>>

\* A saved project is put in the list as it came; then the list is loaded.
UpsertProject(id, ver) ==
    /\ changeSeq' = changeSeq + 1
    /\ rail' = Put(rail, id, ver)

\* The form that is on screen is closed, whichever it is.
ProjectWritten(w) ==
    /\ w.of = "project" /\ w.answer = "ok"
    /\ writes' = writes \ {w}
    /\ IF w.kind = "save"
       THEN UpsertProject(w.id, w.ver) /\ form' = IF form.of = "project" THEN NoForm ELSE form
       ELSE UNCHANGED <<changeSeq, rail, form>>
    /\ loadSeq' = loadSeq + 1
    /\ reads' = reads \cup {LoadProjects("page", changeSeq')}
    /\ UNCHANGED <<projects, born, people, team, polling, dropped>>

UserWritten(w) ==
    /\ w.of = "person" /\ w.answer = "ok"
    /\ writes' = writes \ {w}
    /\ form' = IF w.kind # "delete" /\ form.of = "person" THEN NoForm ELSE form
    /\ UNCHANGED changeSeq
    /\ reads' = reads \cup {LoadUsers("page")}
    /\ UNCHANGED <<projects, born, people, rail, team, loadSeq, polling, dropped>>

ChangedByOthers ==
    /\ \/ /\ people < MaxVersion /\ people' = people + 1 /\ UNCHANGED projects
       \/ /\ \E p \in DOMAIN projects : \/ projects' = Restrict(projects, DOMAIN projects \ {p})
                                        \/ projects[p] < MaxVersion /\ projects' = [projects EXCEPT ![p] = @ + 1]
          /\ UNCHANGED people
    /\ UNCHANGED <<born, rail, team, loadSeq, changeSeq, reads, form, writes, polling, dropped>>
-----------------------------------------------------------------------------
DirectoryUser ==
    \/ \E id \in Project \cup {None} : OpenProjectForm(id)
    \/ \E p \in Project : DeleteProject(p)
    \/ OpenUserForm \/ CloseForm \/ SubmitProject \/ SubmitUser \/ DeleteUser \/ ChangeMembers
    \/ ChangedByOthers \/ DirectoryPoll
    \/ \E q \in reads : ReadFails(q)

DirectoryAnswers ==
    \/ \E q \in reads : ReadServed(q) \/ ProjectsArrive(q) \/ PeopleArrive(q)
    \/ \E w \in writes : WriteServed(w) \/ WriteRefused(w) \/ WriteFailed(w)
                         \/ ProjectWritten(w) \/ UserWritten(w)
-----------------------------------------------------------------------------
(* Properties. *)

\* A list that is loaded never takes back what the sidebar showed: not a project
\* that was just saved, not a newer name, and no project comes back that a load
\* had taken out, in whatever order the answers come.
LoadsNeverGoBack ==
    [][writes' = writes =>
         /\ \A p \in DOMAIN rail \cap DOMAIN rail' : rail'[p] >= rail[p]
         /\ \A p \in DOMAIN rail' \ DOMAIN rail : p \notin dropped]_<<rail, writes>>
=============================================================================
