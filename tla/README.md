# Bug Hunter Enterprise: TLA+ models, model checking and proofs

This directory holds formal models of Bug Hunter Enterprise, a multi-tenant
issue tracker: a FastAPI server (`app/`) over PostgreSQL and a React client
(`frontend/src/`). Paths below are relative to the repository's root, those of the
client to `frontend/src/`; line numbers are those of the modelled commit.

Contents: [1 The system](#1-the-system), [2 The plan](#2-the-plan),
[3 Modules](#3-modules-and-the-code-they-model), [4 Runs](#4-runs),
[5 Fairness](#5-fairness), [6 Proofs](#6-proofs),
[7 Disagreements](#7-where-the-code-and-its-texts-disagree),
[8 Limits](#8-what-is-not-shown), [9 How to run](#9-running-everything).

## 1 The system

**The server.** One Uvicorn process (several in a scaled-out deployment) serves
HTTP requests. A synchronous handler runs in a worker thread, on one SQLAlchemy
session (`autoflush=False`) that `get_db` opens and closes; the session holds one
pooled connection from its first statement to its commit or close. Every
transaction is READ COMMITTED: each statement sees what was committed when it
began, a row lock (`SELECT ... FOR UPDATE`, an UPDATE, a DELETE) is held to
the end of the transaction, and an ORM object keeps the values it was loaded
with until it is refreshed. Nearly every hard behaviour of the server comes
from that: a handler reads, decides, and writes, and another handler commits in
between. Scheduled jobs (e-mail digest, retention) run in the same process or
from host cron; background tasks (mail, push, webhooks) run after the response.

**The client.** One page application and a few pages before sign-in. Its state
lives in React state and refs; every request is asynchronous, answers come in any
order, fail, or are lost after the server acted; pollers ask again every 15 to 30
seconds. A component that is turned to another item, tab or project keeps the
requests it had under way, and what their callbacks do when they end depends on
what they closed over. The loader's overlay (`styles.css:4387`) catches clicks,
not keys. Nearly every hard behaviour of the client comes from that.

### Components

The column "correct" says what each must keep; the status is that of
`PROJECT.json`, which also has every component's files and what is left out of it.

| Component | State and operations | What makes it correct | Status | Modules |
|---|---|---|---|---|
| **Server** | | | | |
| Sprint lifecycle | `sprints.state`, `.version`, `bugs.sprint_id`, `sprint_item_history`; create, edit, start, complete, cancel, add, remove, move (`app/agile/sprints.py`, `app/routes/agile.py`) | one active sprint per board; states only move forward; an ended sprint holds its finished issues and no others; history agrees with membership | modelled | BoardLifecycle, SprintLifecycle |
| Hierarchy integrity hook | parent, epic, sprint, rank of an issue; runs before every flush (`app/agile/integrity.py`) | Sub-tasks follow their parent; a reopened issue leaves a closed sprint | partly | SprintLifecycle, ItemDialog |
| Boards, workflow and WIP limits | columns, mappings, limits, statuses; transition, configure, disable | a blocking limit is never exceeded | partly | SprintLifecycle, AgileServer, AgileBoard |
| Backlog and ranking | `rank`; place, respace | ranks keep the order | partly | AgileServer |
| Planning, capacity and releases | estimates, capacities, versions | a capacity is the one last saved | partly | ClientPlanning, ClientManaged |
| Agile taxonomy, views, reports and upgrade | releases, components, labels; planning and board views | views agree with the tables | partly | ClientManaged, AgileServer |
| Idempotency keys and optimistic versions | `idempotency_keys`, version columns; look up, store, compare | one effect per key; no lost update | partly | SprintLifecycle, ItemDialog |
| Work items | issues, comments, links, attachments; create, update, bulk edit, delete | no lost update | partly | SprintLifecycle, ItemDialog, ItemDiscussion, ClientList |
| Bulk import and exports | files | - | not modelled | - |
| Organization administration | `users.role`, `.is_active`; create, update, delete, delete my account | an active admin remains; only admins handle admins | partly | OrgAdmins |
| Sign-in, sessions and passwords | password, `session_version`, links, sessions; sign in, change, reset, verify | a link is used once; a change of password ends other sessions | partly | ClientAccess, ClientAccount |
| Two-factor authentication | secret, enabled, recovery codes; begin, confirm, disable, consume | the secret in force is one its owner has | partly | ClientAccount, ClientAccess |
| Account lockout | in-process buckets | counts within window and bound | not modelled | - |
| Invitations | invitations; invite, resend, revoke, accept | accepted or revoked, not both | partly | ClientAccess, ClientManaged |
| Project membership and tenancy | `user_projects`; set role, remove | a project keeps a lead | partly | ClientDirectory, ClientManaged |
| Request admission and the connection pool | slots, threads, connections; admit, run, tear down | no pool deadlock; every request served | partly | RequestAdmission |
| Schema migration at boot | schema, marks | one replica migrates | not modelled | - |
| E-mail digest | `notifications.emailed_at`; select, claim, commit, send, release | each row mailed at most once, and in the end | modelled | EmailDigest |
| Digest scheduler and retention tasks | last minute fired | once a matching minute | partly | EmailDigest |
| Notifications and push | notification rows, device tokens | a row for each who is entitled | partly | EmailDigest, ClientNotices, ClientPush |
| Webhooks | failure counter, `is_active`; deliver, suspend | suspended after N failures in a row | partly | RequestAdmission, ClientManaged |
| Git integration | branch records, remote branches, configuration; create, adopt, delete | one branch although answers are lost | partly | GitBranches, ClientForms |
| Assistant (Sleuth) | newest proposal and document per user; answer, carry out | carried out once, and what was confirmed | partly | SprintLifecycle, ClientSleuth |
| Other CRUD routes | rows | - | not modelled | - |
| Operations support | - | - | not modelled | - |
| **Client** | | | | |
| Work item dialog (client) | item shown, form, `expectedVersionRef`, offers; open, seed, poll, save as a chain of requests (`modals/BugModal.jsx`) | no edit overwritten unseen; a failed save can be repeated | partly | ItemDialog |
| Discussion, attachments and links (client) | three trays; post, upload, link while the dialog turns | what is staged for an item stays its own; nothing vanishes | partly | DialogTarget, ItemDiscussion, ItemSections, ClientPages |
| Git branches section (client) | list, preview, repositories, busy; load, preview, create, remove | the branch confirmed is the one created; the list is the item's | modelled | DialogTarget, GitBranches, ItemSections, ClientPages |
| Agile pages: backlog and board (client) | lists, cards, drag, selection; move, plan, complete | what is shown is what the server has; a drop lands where shown | partly | LatestLoad, AgileServer, AgileBacklog, AgileBoard, AgileWorkspace |
| Notifications in the client | list, badge, sequence numbers; poll, read | overtaken answers are dropped; announced once | partly | ClientNotices, ClientShell |
| Item list, filters and bulk edit (client) | filter, page, rows, ticks; poll, bulk edit | settles on what is asked; overwrites nothing unseen | partly | ClientList, ClientShell |
| Assistant panel (client) | conversation, cards; say yes or no, clear | a yes carries out the card that is newest | partly | ClientSleuth, ClientShell |
| Projects and people of the sidebar (client) | two lists; poll, save, archive, delete | a load takes nothing back | partly | ClientDirectory, ClientShell |
| Lists managed in place (client) | one list each; operate, confirm, reload | the list is the server's; the secret shown is in force | partly | ClientManaged, ClientShell |
| Pages before sign-in (client) | forms, links, one cookie per browser | sessions follow the password; links once; deletes one's own account | partly | ClientAccess, ClientShell |
| Push registration (client) | token, registrations; start, retry, log out | nothing is pushed after log-out | partly | ClientPush, ClientShell |
| Settings with a version (client) | forms and the version they were filled from | nothing clobbered; unsaved input kept | partly | ClientForms, ClientShell |
| Account settings (client) | second factor, password, address, preferences on several devices | the owner is not locked out | partly | ClientAccount, ClientShell |
| Events (client and routes) | list or details, picks, form; open, link, poll, narrow, add tasks, save, delete (`views/EventsView.jsx`, `routes/events.py`) | a task is filed under the event it was picked for; the page comes to agree with the server | partly | ClientEvents, ClientPages |
| Audit trail (client and routes) | rows, count of rows loaded; filter, search, poll, load older (`views/AuditView.jsx`) | no row skipped or repeated; the end is the end | partly | ClientAudit, ClientPages |
| Sprint planning page (client) | sprint picked, its plan, the capacity typed; pick, type, save (`views/agile/PlanningPanel.jsx`) | a capacity is saved for the sprint it was typed for | partly | ClientPlanning, ClientPages |
| Rest of the web client | - | - | not modelled | - |
| Scripts and container files | - | - | not modelled | - |

Interaction. The client's parts share the item list, the directory of projects and
people, the modal and the notifications through `state/AppContext.jsx`, and announce
changes of agile data by a window event (`agile:refresh`). Each talks to the server
only by requests. In the server all components meet in the tables, every writer of
`bugs` passes the integrity hook, and the assistant's tools call the same services as
the routes.

### The hard behaviours

1. *Read, decide, write* under READ COMMITTED: the destination of a completion,
   the sprint an issue was in, the number of admins, the WIP count.
2. *Locks in several orders*: board and sprint rows, plus the implicit `FOR KEY
   SHARE` of foreign keys, which waits for `FOR UPDATE`.
3. *A resource held while waiting for another*: connections and threads.
4. *A commit before an external effect*: the digest stamps rows, commits, and
   only then mails; the browser registers a push token with two parties.
5. *Retries*: digest release, adoption of a remote branch, a save that failed after
   some of its requests, a registration whose answer was lost.
6. *Versions carried through chains*: the version a form sends was put there by the
   seeding, by a reload, or by an earlier save.
7. *Answers for something that is no longer shown*: another item, project, tab or
   filter, and answers to a load that was overtaken by another.
8. *Optimistic display*: a move shown at once and taken back if it is refused, while
   loads and other moves come in between.

## 2 The plan

What is both most important and least testable came first.

Done: the server's core (`BoardLifecycle`, `SprintLifecycle`, `OrgAdmins`,
`RequestAdmission`, `EmailDigest`), each with its theorems; then the client, from the
dialog outwards (`ItemDialog`, `AgileWorkspace` over `AgileBacklog` and `AgileBoard`,
`ClientShell` over nine parts and `ClientPages` over the dialog's sections, the events, the
audit trail and the planning page), with theorems as well. The handlers a client module talks to are in the module,
as steps that read and write as the route does.

To come, in this order:

| Module | Question | Main properties | Composes or extends |
|---|---|---|---|
| `Idempotency` | a retried lifecycle request | one effect and one answer per key | `SprintLifecycle`'s `Step` as the effect |
| `Hierarchy` | Sub-tasks and epics while parents move | a Sub-task is in its parent's sprint; no epic in a sprint | its transition replaces the one of `SprintLifecycle` |
| `WipLimit` | two transitions into the last place; disabling Agile | the blocking limit | boards |
| `WebhookDelivery` | overlapping deliveries and re-enabling | suspended only after that many failures in a row | `RequestAdmission`'s background work |
| `Membership` | two last leads | a lead remains | shape of `OrgAdmins` |
| `Ranking` | between, respace | order kept, over bounded tokens | operators only |
| `MigrationLock` | two replicas boot | one migrates at a time | - |

## 3 Modules and the code they model

Each operator's source lines are in the `map` of `PROJECT.json`. Operators named
`Mut_...` are slips of the code, written beside the definition they distort; no
specification uses them. They serve to show that a property notices the slip.

### BoardLifecycle and SprintLifecycle

`BoardLifecycle` is what a board promises: a sprint is created, started, completed
(possibly into a sprint created by the same step) or cancelled, and starts only
while no other of its board is active.

`SprintLifecycle` is how the routes do it. A request slot `t \in Tx` is a worker
with its transaction. Its program counter `pc[t]` names what it waits for or does
next:

| pc | the request is about to |
|---|---|
| `enter` | lock the sprint row of its URL (`_get_sprint_or_404(..., lock=True)`) and run the checks that follow before any other wait |
| `board` | lock the board row and look for another active sprint (`start_sprint`) |
| `read` | load the issues of a move or transition, without a lock |
| `lock` | take the next row of `lock_sprints`, in id order |
| `commit` | flush its writes and commit |

State: `state`, `version`, `home` (`bugs.sprint_id`), `done` and `subsDone` (the
issue's and its Sub-tasks' status is in the right-most column), `hist` (the last
`sprint_item_history` event of an issue in a sprint) are the tables; `rowLock`,
`boardLock` the row locks; `req` what a request asks; `seen` what it loaded and
will still act on. The steps of one transaction between two waits are one action;
flush and commit are one action, because a flush's writes are seen by others only
at the commit, and what a flush can wait for (foreign keys checked `FOR KEY SHARE`)
is the guard of the commit (`Referable`).

| Action | Code |
|---|---|
| `EnterStart`, `LockBoard`, `RefuseParallel`, `CommitStart` | `start_sprint` |
| `EnterComplete`, `CommitComplete` | `complete_sprint`, `completion_split`, `_destination_sprint` |
| `EnterCancel`, `CommitCancel` | `cancel_sprint` |
| `UpdateSprint`, `CreateSprint` | `update_sprint`, `create_sprint` |
| `EnterAdd`, `EnterRemove`, `ReadMove`, `LockNext`, `CommitMove`, `RefuseMove` | `add_items_to_sprint`, `remove_item_from_sprint`, `move_items`, `lock_sprints`, `_record_membership` |
| `ReadTransition`, `CommitTransition`, `TransitionSubtask` | `transition_work_item`, the flush hook's `_reopened_in_closed_sprint` |
| `Refuse` | the 409 of each failed check |
| `Fail`, `AbortDeadlock` | a dead worker, a lost connection, a constraint, a lock timeout; PostgreSQL's deadlock detector |

Left out: the Idempotency-Key, names, dates, ranks, estimates, goals; the item's own
version; project moves and deletion of issues; permission checks (they only remove
requests).

### OrgAdmins

State: `role` (an account that does not exist is in `Gone`), `active`, and for each
request its step, what it loaded of its caller and target, the rows its `FOR UPDATE`
statement found and those it holds. `Begin` is the authentication (the caller as
loaded), `Load` the target and the checks on it (`_check_manager_role_limits`,
`_check_self_edit_guardrails`), `CountAdmins` and `LockAdmins` the locked count of
`_count_other_active_admins` (found under one snapshot, waited for, re-evaluated:
PostgreSQL's rule for `FOR UPDATE` under READ COMMITTED), `CountOthers` the unlocked
count of `delete_my_account`, `WriteUpdate` and `WriteDelete` the flush and commit.
`Written` is the ORM's rule that only a changed attribute is written.

`Overlapping` says which of two kinds of requests, known to defeat the guard, may run
beside others: `"promotion"` (granting the admin role to an account) and `"leave"` (an
admin deletes his own account). Those not in it are run alone. This makes visible
exactly where the guard ends: with `Overlapping = {}` it holds, with either element
it does not (section 7).

One simplification: the row locks of one `FOR UPDATE` statement are taken all at once,
so a deadlock between two of them is a `Fail`.

### RequestAdmission

State: the stage of every request and of every session opened elsewhere, its remaining
trips through the worker threads, whether it has background work, and who holds a
connection. `Slots` is `_request_session_slots`. The 30-second pool timeout is left
out: the module is about never needing it.

A background task runs while the request still holds its slot, and possibly its
connection: in the pinned FastAPI release dependencies with `yield` are torn down after
the background tasks (`deliver_event`'s comment says "already closed").

### EmailDigest

State: `stamp` (`emailed_at`: absent, null or stamped), the operator's switch, users'
deliverability, and for each run its rows, its users still to claim and to mail, its
claims and its failures. `mailed`, `twice` and `dropped` are history variables: what
actually reached a user. `Start` is the selection, `Skip` and `Claim` the loop with the
guarded UPDATE (its rows stay locked until `Commit`), `Deliver` and `DeliveryFails`
`email_service.deliver`, `Finish` the release of the failed rows. In immediate mode a
notification is born stamped and its mail counts as mailed. Rendering, addresses and
the disabled back end are left out.

### ItemDialog

One dialog (`modals/BugModal.jsx`, the modal part of `state/AppContext.jsx`) beside the
rows of the items, an item that may be created, and other people's edits. State: `row` and
`gone` (the table), `modal` (what is open, with the copy it holds), `form` (what
decides what a save does: project, kind, epic or parent, sprint, completeness, and how
many of others' edits it was seeded with), `expected` (`expectedVersionRef`), `offers`
(what is loaded for the project), the copies and saves under way, the sprint buttons.

| Action | Code |
|---|---|
| `OpenDetail`, `OpenAnswer`, `OpenForm`, `CloseBugModal`, `Close` | opening from the list, turning to another item, the form to create, Escape |
| `Poll`, `Reload`, `ReloadAnswer`, `GetFails` | the 30 second poll of the open item, the reload after an action, late copies |
| `Fill`, `ChooseProject`, `ChooseKind`, `PickUp`, `PickSprint`, `OffersAnswer`, `OffersFail` | the fields that matter, and the sprints and epics offered |
| `Submit`, `ServePost`, `ServePut`, `ServeLink`, `ServeSprint`, `ServeCustom`, `Answered`, `StepFails`, `Proceed`, `Finish` | a press of Save: the chain POST or PUT, link to epic or parent, change of sprint, custom values, each with the version the one before returned |
| `AddToSprint`, `RemoveFromSprint`, `EnableAgile`, `DeleteBug` | the other buttons |
| `ForeignEdit`, `ForeignDelete` | somebody else |

`overwrote`, `crossed`, `tainted`, `unsure` are history variables: a save wrote over an
edit its form never showed; the version in the ref was put there by a save of
another seeding; a save was sent with such a version; an answer was lost. A save begun
before the dialog turned still writes its version into the ref (`BugModal.jsx:165` says
"frozen at open time"), which is the exception `crossed` in `NoLostUpdate`.

### ClientPages and its parts

What a page works with by itself. As in `ClientShell` below, a behaviour exercises one part,
chosen first (`ClientParts`).

*The dialog's sections: DialogTarget, ItemDiscussion, GitBranches, ItemSections.*

The sections with requests of their own. `DialogTarget` is the item shown;
`ItemDiscussion` the composer, the attachments and the links: three trays and runs of
requests over what a tray held at the press; `GitBranches` the Development section
(`components/GitBranchesPanel.jsx`): its list with the generation that ignores the list of an
earlier item, the repositories, the confirmation with its base, creation, removal, and the
server's rows and remote branches, including a remote branch whose row was never written
and is adopted by the retry. `ItemSections` composes them and turns the dialog under all of
them at once.

History variables name what the code does when the dialog turns meanwhile: `strayed` (an
operation on X ends under Y and loads X's branches there), `doubted` (Post pressed again
with Ctrl+Enter while files are uploading posts twice, or an answer was lost), and `beside`: a removal was
confirmed while another operation had begun. `removeBranch` looks at the `busy` of the render its
button was pressed in (`GitBranchesPanel.jsx:144`), so it starts beside a preview, and its end frees the fields
while the preview is still to arrive. The confirmation covers the page but does not keep the keyboard out of it.

*The events: ClientEvents.* `events` and `eventOf` are the table and `bugs.event_id`; `calendar` is
the view: its mode, the list, the details with the event that was opened, the filters and the
search not yet applied, the picks. Loads are not numbered in the code, so any answer is shown.

| Action | Code |
|---|---|
| `EnterView`, `LeaveView`, `OpenEvent`, `FollowLink`, `Back`, `EventsPoll`, `ItemCloses` | moving about, `EventsView.jsx:329-433` |
| `EventServed`, `EventArrives`, `EventFails` | `refreshEvents`, `openEventDetail`, `refreshDetailSilently`, `list_events`, `get_event` |
| `Narrows`, `SearchApplies` | the filters of the details and the debounced search |
| `PickTask`, `AddExistingTasks`, `TaskAdded`, `TaskRefused`, `TasksAdded` | the picker; one PUT a task, side by side |
| `Drafts`, `SubmitEvent`, `AskDelete`, `AnswerDelete`, `EventWritten`, `EventNotWritten`, `EventSaved`, `EventDeleted`, `OthersDelete` | `EventModal.jsx`, `handleSaved`, `handleDeleteEvent`, the routes |

`vague`, `misfiled`, and `late` and `turned` of the view are history: loads crossed or an answer was
lost; a task went to an event it was not picked for; the details or the search came from
before the turn; the page turned by itself under the picks.

*The audit trail: ClientAudit.* `trail` grows at its head while `auditPage` pages it by the running
count of rows (`loadedCountRef`). `FetchAudit`, `AuditServed`, `AuditArrives`, `AuditFails` are
`fetchAudit` and `list_audit`; `ChooseTopic`, `TypeWords`, `WordsTimer`, `ClearAudit`,
`RefreshAudit`, `LoadOlder`, `AuditPoll` are the controls and the two timers.

*The planning page: ClientPlanning.* `planner` is `PlanningPanel.jsx`: the sprints offered, the one
picked, the plan of the latest request, the capacity typed with the sprint it was loaded
for. `RefreshPlanning`, `BaseArrives`, `PlanArrives` and their failures are its loads, `PickSprint`,
`TypeCapacity`, `EmptyCapacity`, `SaveCapacity` the user, `CapacityReplaced` is
`replace_capacity`, which keeps the rows nobody sent.

### LatestLoad, AgileServer, AgileBacklog, AgileBoard, AgileWorkspace

`LatestLoad` is `useLatestLoad`: a load that runs again when its key or the data
changes, of which only the latest answer counts. `AgileServer` is what the server keeps:
lists in order, statuses with versions, sprints. A request that changes something is one step
(`SprintLifecycle` looks inside); an issue of an ended sprint that is open again goes to the bottom of the backlog, as the
integrity hook has it. The backlog's data is put together by three statements of `planning_view`, the open
sprints, their issues, the backlog (`Opened`, `Filled`, `Whole`), between which other requests commit: it is `torn`
if it is not what the server has at the last. `AgileBacklog` is the backlog panel with its drags, menus, ticks, filters and dialogs;
`AgileBoard` the board with optimistic moves, limits that ask for an
acknowledgement, flags and reverts (its cards are one statement); `AgileWorkspace` mounts one panel at a time, keeps a left
panel's requests running, and lets any change announce itself to the mounted one.

| Action | Code |
|---|---|
| `MoveTo`, `DragStart`, `DragOver`, `Drop`, `DragCancel`, `Tick`, `Filter`, `Collapse`, `SubmitDialog` | `BacklogPanel.jsx`, `logic/backlog.js`, `SprintDialogs.jsx` |
| `MoveCard`, `MoveAnyway`, `NotAnyway`, `Flag`, `ChooseSprint`, `MoveOk`, `MoveFails` | `BoardPanel.jsx`, `logic/board.js` |
| `SendServed`, `SendRefused`, `MoveServed`, `MoveRefused`, `MoveOverLimit`, `OthersMove` | `app/routes/agile_board.py`, `app/agile/sprints.py` |
| `FetchServed` (one statement each), `FetchArrives`, `FetchFails`, `OpenTab`, `Started` | `app/agile/views.py`, `useAgileProject.js`, `SprintsView.jsx` |

Each drop computes the neighbour it names to the server from the list as it is
on the page. Torn data can show an issue in two lists (`mixed` says that the page may); nothing is dragged then, as rows
are dragged by their issue, and the menus send each issue once (`Taken`). A start's answer opens the board (`OpensBoard`,
`Started`), also from another tab; a completion's or edit's closes whichever of these dialogs is open by then. `agrees` records whether the server, placing it there, puts it where it was shown.
What a filter leaves of a sequence is written as a recursive function (`Only`), which the
proofs can reason about.

### ClientShell and its parts

Nine modules for parts of the client that share no state. `ClientParts` lets a behaviour
exercise one of them, chosen first, so that the state space is the sum and not the
product; `ClientShell` composes them.

| Module | Models | With the server's |
|---|---|---|
| `ClientNotices` | list of the newest (`limit=50`: `ListLimit`) and badge, numbered loads, counts that carry no number, toasts, mark one or all, dismiss | `routes/notifications.py` |
| `ClientList` | filters, pages, rows and figures by separate loads, the poller with its hidden window, ticks, bulk edit with expected versions and partial outcome | `routes/bugs.py`, `services/bug_bulk.py`: versions are compared as the rows are read, the writes follow |
| `ClientSleuth` | conversation, cards with yes and no, documents, other windows of the same user | `chatbot/memory.py`, `executor.py`, `router.py` |
| `ClientDirectory` | projects by numbered loads, people as they come, saves put in place at once | rows |
| `ClientManaged` | members, fields, invitations, webhooks, sessions, saved views, releases, components, labels: operation, confirmation, reload, the secret shown once | their routes' checks |
| `ClientAccess` | sign-in with its second step, forgot and reset, verify, resend, join, sign-up, delete account, in two tabs with one cookie | `auth.py`, `routes/auth.py`, `invitations.py`, `dsar.py`, `totp.py`, each as a read and a later write |
| `ClientPush` | start, token, registration with retries, online, rotation, log-out | `routes/push.py` |
| `ClientForms` | board settings and columns (one row, one version), quick filters, epics, Git configuration | `routes/agile.py`, `agile_board.py`, `agile_taxonomy.py`, `git.py`, read and write apart |
| `ClientAccount` | second factor, password, address, preferences, on two devices | `routes/totp.py`, `routes/auth.py`, read and write apart; a change of password also deletes the sessions it sees before it commits |

What an answer means is modelled by its effect: wrong, expired and locked credentials are all
"refused"; two accounts never share a password; what a setting says is the number of the
change that wrote it. Where the server compares a version on a row it read without a lock, the model has two
steps and lets other writes come between: `BulkRead` and `BulkWritten`, `SaveChecked` and `SaveWritten`. A write by somebody
else may itself have been prepared from any older version (`ForeignChange`, `OthersSave`, `ConfirmsRemoval` with `base`), so
a version may be given out twice, as in the code.

History variables name the gaps this leaves: `overlapped` and `crossed`, the items and sections where two requests
wrote that had read the same version; `overtaken`, the leaves to give a code which `login` made after a reset
(`auth.py:363-365` commits and reads `session_version` again) although it compared the password before; `mixed`, a
request on the account wrote what another had written since it read, or a change of password committed while
another was deleting the sessions it saw; `left` and `short`, the notifications a list had no room for, and how many
were dismissed without an older one moving up.

## 4 Runs

Twelve configurations; two of them exhibit a disagreement (section 7).

| Run | Instance | Checks | Distinct states |
|---|---|---|---|
| `sprint_sequential` | 1 request at a time, 2 sprints, 2 issues each with a Sub-task, parallel sprints on, all operations, every kind of destination | `ScopeMatchesHistory`, `NoOpenWorkInClosedSprint` | 2.2 million |
| `sprint_concurrent` | 2 requests, 2 sprints, 1 issue, parallel sprints off, all but edit and remove, destinations backlog and new sprint | `OneActivePerBoard`, `EndedHoldsFinished`, `LifecycleFromSeenVersion`, `ClosedHistoryIsFinal`, `ImplementsBoard` | 665 thousand |
| `sprint_requests_end` | 2 requests, 2 sprints, start, complete, add and move, destination a named sprint | `EveryRequestEnds` | 106 thousand |
| `admins_concurrent` | 3 accounts, 2 requests, `Overlapping = {}` | `AdminRemains`, `ManagersSpareAdmins` | 820 thousand |
| `admission` | 4 requests, 1 outside session, pool of 3, 1 thread, 2 trips | `NoPoolDeadlock`, `EverySessionEnds` | 23 thousand |
| `digest_run` | 1 runner, 2 users, 3 notifications, 1 crash, the switch turned at will | `AtMostOnce`, `NoSilentLoss`, `ReleasedWasNotSent`, `EventuallyMailed` | 50 thousand |
| `digest_overlap` | 2 runners, 1 user, 2 notifications | `AtMostOnce` is violated | - |
| `item_dialog` | a bug and an item to be created, 2 projects, one save at a time, 4 inputs, 1 foreign edit, 1 deletion, 1 copy under way | `NoLostUpdate`, `RetryFindsNoConflict`, `EverySaveEnds` | 238 thousand |
| `client_pages` | 2 items, 1 text, 2 files, 2 runs, 2 repositories, 2 bases with 6 inputs; 2 events and 2 tasks with 4; up to 4 audit rows in pages of 1 with 4; 2 sprints with 4 | `TypeOK`, `EachItemItsOwn`, `SentOnceInFull`, `CreatedAsConfirmed`, `ListIsCurrent`, `EventsRight`, `PagesRight` | 2.7 million |
| `agile_workspace` | 3 issues, 2 sprints (one or both active), 3 statuses in 2 columns, one with a limit, five budgets | `TypeOK`, `BacklogRight`, `DropLandsWhereShown`, `BoardRight` | 2.1 million |
| `client_shell` | each of the nine parts, 3 to 6 inputs | `TypeOK` and the nine properties below | 1.1 million |
| `second_factor_race` | two devices | `NeverLockedOut` is violated | - |

Some properties are conjunctions of two or three, of which each has its own definition and
comment in the module:

| Property | Says |
|---|---|
| `NoLostUpdate` | a save never overwrites an edit its form never showed, whatever polls, reloads, fails and repeats come between |
| `RetryFindsNoConflict` | a save that failed half-way can be pressed again and meets no conflict of its own making |
| `EachItemItsOwn` | what is typed or staged for one item never lands on another (`OwnItem`); the branches shown are the item's (`OwnBranches`) |
| `SentOnceInFull` | no file vanishes (`FilesAccounted`), no comment is posted twice (`PostedOnce`) |
| `CreatedAsConfirmed`, `ListIsCurrent` | a branch comes from what the confirmation showed, unless a removal was started beside another operation; after an operation the list is the server's |
| `EventsRight` | a task is added to the event it was picked for (`TasksWherePicked`); filters belong to the event shown (`FiltersOwn`); at rest the page is the server's (`EventsSettle`) |
| `PagesRight` | of the audit entries there were at the last clean load none is skipped, repeated or out of order, and newer ones are among the rows only when more came in than a page holds (`NoGap`); the history is said to end when all of those are shown (`EndIsTheEnd`); a poll takes back no rows (`PagesStay`); a capacity reaches only the sprint it was typed for (`CapacityWhereTyped`); at rest the plan is that of the sprint picked (`PlanSettles`) |
| `BacklogRight`, `BoardRight` | an issue is in one list, unless a move committed between the statements that read the page's data (`EachIssueOnce`), a card in its own sprint; at rest the page shows what the server has, whatever was refused and in whatever order answers came |
| `DropLandsWhereShown` | the neighbour named to the server stands for the place shown, hidden issues or not (torn data excepted) |
| `BellRight` | each notification announced once, in whatever order lists come and older ones move up into them (`AnnouncedOnce`); no overtaken answer on the page (`NewestListShown`) |
| `LateLoadsTakeNothingBack` | a load that began earlier neither un-reads what was read (`UnreadByLaterLoad`) nor brings back what was saved or deleted (`LoadsNeverGoBack`) |
| `ListSettles` | list and figures end up being those of the filter and page, while the window is on screen |
| `ConfirmedRight` | a proposal is carried out once (`CarriedOutOnce`) and is the newest shown (`NewestConfirmed`) |
| `ManagedRight` | the list is the server's (`ManagedListRight`), the secret shown is in force (`SecretInForce`) |
| `SignedOutIsOut` | sessions follow the password in force, a sign-in overtaken by a reset and then finished with its code excepted (`SessionsFollowPassword`); links take effect once (`LinksWorkOnce`); the account deleted is that of whose details were typed (`DeletesOwn`); after log-out nothing is pushed to this browser (`SharedBrowserSafe`) |
| `NothingUnseenOverwritten` | a bulk edit spares what somebody else changed since it was seen (`NothingOverwritten`), and a save clobbers no setting the form was not filled from (`NothingClobbered`), unless two requests that had read the same version both wrote; own saves are shown (with it `SettingsRight`) |
| `UnsavedKept` | a section's save leaves the other section's unsaved input alone |
| `AccountRight` | the second factor is usable (`SecondFactorUsable`), a new password signs out the others (`OthersSignedOut`), the preferences shown are those stored (`PreferencesShown`) |

The exceptions these properties name (an answer lost, two requests across each other, data read while it changed, a
dialog that turned meanwhile) are history variables of the modules, set where the code
gives up the guarantee; section 7 says what happens then.

What the sprint runs establish together: executed one after another, the operations
keep scope and history in agreement and closed sprints finished
(`sprint_sequential`); run concurrently, the row locks and versions preserve what
they were written for (`sprint_concurrent`); three properties they do not
preserve are described in section 7.

### Bounds

- *Two sprints, one board, one or two issues.* Every rule of the lifecycle relates one
  sprint to one other (a second active one, a destination, the sprint an issue was
  in) and judges issues one by one; a second issue matters where a set is split,
  which `sprint_sequential` has. A second board only removes interactions.
- *Two requests.* Each property that fails does so with two, and a lock that keeps two
  requests apart keeps any two apart; the theorems of section 6 hold for any number.
- *`MaxVersion` 3.* A lifecycle request or edit starts below it; a sprint passes at most
  through create, start and complete (versions 1 to 3), so every path of a
  sprint is there; one edit fits before a start or a cancellation, and none before a
  completion, which is no loss: an edit changes only the version. Edits and removals
  are left to the sequential run; that a lifecycle request overtaken by an edit refuses
  its stale version is theorem `LifecycleSeen`.
- *Three accounts, two requests.* Losing the last admin takes two admins and two requests;
  the third account is the manager or the one promoted. Roles other than admin and
  manager behave as neither and are left to the theorem's arbitrary `Role`.
- *Pool of three.* One request slot beside two reserved connections: the smallest with the
  reserve intact. Four requests and an outside session exceed slots, thread and
  connections at once; larger pools are the theorem's.
- *Three notifications, one crash.* Two rows of one user are what a partial claim needs, and
  a second user what a failure for one of them needs; after a crash the job has no state
  but the table, so a second crash repeats the first.
- *Inputs.* In the client modules the user's clicks, picks and presses are counted
  (`MaxInputs`, `Budgets`); the network, timers and, within their own bounds, other people
  are not. Four inputs in the dialog are: change a field, press Save, turn or close, press
  again, with any answers and a foreign edit in between. Larger budgets were run once each
  without finding more: 5 inputs in `item_dialog` (2.2 million states, the invariants),
  7 in the dialog's sections, 5 in the events with one task (4.3 million), one more in every part of `client_shell` (its invariants).
  Four inputs at the events are: pick a task, go back, open another event, add; at the planning
  page: save, pick another sprint, type, save.
- *Budgets of `agile_workspace`* are triples: requests of the backlog, requests of the board or
  turns of the tab, gestures or moves by others. The five triples give each panel two or
  three requests across each other or mix the panels. Budgets `<<3,0,0>>`, `<<0,3,1>>`,
  `<<0,4,0>>`, `<<1,2,1>>`, `<<2,0,2>>` held as well.
- *`ListLimit` 1* stands for the 50 of `limit=50`: with two notifications one is pushed out by a newer one and moves up when
  that is dismissed, which is all a limit does. The theorem has any limit. `BACKLOG_DEFAULT_LIMIT` of the planning view is not
  reached in the model: every issue of the backlog is served.
- *Two of everything else.* Two items for "the other item", two repositories with
  different default branches, two tabs, two devices, two projects of the sidebar, a page of
  one row so that a list of two has two pages.

Deadlock is checked in the sprint, administration and admission runs; in the others the
system may really stop: every notification mailed and the users left alone, or the user
out of inputs with every answer in.

Symmetry is used only in runs without a liveness property: request slots (no code
compares workers), issues in `sprint_sequential` (the exceptions are closed under
permutation), accounts and requests in `admins_concurrent`. The client runs use none.

## 5 Fairness

- `SprintLifecycle!FairSpec`: strong fairness of each request's own steps. A worker runs
  the request it has; PostgreSQL queues lock waiters, so a row that keeps becoming
  free is granted; its deadlock detector aborts one of a cycle of waiters
  (`AbortDeadlock` is one of those steps). Arrivals, failures, creation and Sub-task
  transitions are not fair.
- `RequestAdmission!Fairness`: strong fairness of each party's steps: asyncio's
  semaphore, anyio's thread limiter and SQLAlchemy's queue pool serve waiters in turn.
  Arrivals are not fair, and neither is the opening of an outside session.
- `EmailDigest!Fairness`: weak fairness of starting and of stepping (the schedule fires
  again, a live process goes on), and strong fairness of each user's successful
  delivery: the mail server is not down for ever. Crashes, ageing, failures, the switch
  and the users are not fair, and `EventuallyMailed` excuses a row they took away.
- `ItemDialog!Fairness`: weak fairness of each save's steps. `lib/api.js` gives every request
  a time limit, so each is answered or fails; a save ends also when all of its requests fail.
- `ClientShell!Fairness`: weak fairness of the answers to the user's requests and of the
  poller with its answers. Failures are counted with the user's inputs, so loads fail any
  bounded number of times but not for ever. `ClientPages` and `AgileWorkspace` are checked
  for safety only: what they show when nothing is under way is an invariant.

## 6 Proofs

Proofs are checked by TLAPS for every value of the constants that satisfies the named
assumptions of the modules. All of them are invariance arguments: an inductive invariant
is shown to hold initially and to be kept by each action, and implies the property.

| Module | Theorem | Says | Assumes |
|---|---|---|---|
| `SprintLifecycle_proofs` | `TypeCorrect` | `Spec => []TypeOK` | - |
| | `OneActive` | `Spec => []OneActivePerBoard` | - |
| | `LifecycleSeen` | `Spec => LifecycleFromSeenVersion` | - |
| | `HistoryFinal` | `Spec => ClosedHistoryIsFinal` | - |
| | `Implements` | `Spec => ImplementsBoard`: the concurrent program refines `BoardLifecycle` | - |
| | `EndedRight` | `Spec => []EndedHoldsFinished` | `NoSprintNamed`: unfinished work goes to the backlog or to a new sprint |
| | `ScopeRight` | `Spec /\ [][PlacesAsLoaded]_vars => []ScopeMatchesHistory` | a commit finds the places it loaded |
| | `ReopenedLeaves` | `Spec /\ [][PlacesAsLoaded /\ FinishedAsLoaded]_vars => []NoOpenWorkInClosedSprint` | and a completion finds finished what it read as finished |
| `OrgAdmins_proofs` | `TypeCorrect` | `Spec => []TypeOK` | - |
| | `LocksHold` | `Spec => []LockedAreAdmins` | - |
| | `AdminsRemain` | `Spec => []AdminRemains` | `Overlapping = {}` |
| | `ManagersSpare` | `Spec /\ [][NotPromoted]_vars => ManagersSpareAdmins` | any `Overlapping`; no target is given the admin role between load and write |
| `RequestAdmission_proofs` | `TypeCorrect` | `Spec => []TypeOK` | - |
| | `NoDeadlock` | `Spec => []NoPoolDeadlock` | `PoolSize > 1` |
| `EmailDigest_proofs` | `TypeCorrect` | `Spec => []TypeOK` | - |
| | `NothingForgotten` | `Spec => []NoSilentLoss` | any number of runners |
| | `MailedOnce` | `Spec => []AtMostOnce` | one runner, no lost answers |
| | `ReleasedUnsent` | `Spec => ReleasedWasNotSent` | one runner, no lost answers |
| `ItemDialog_proofs` | `TypeCorrect` | `Spec => []TypeOK` | - |
| | `NoUpdateLost` | `Spec => []NoLostUpdate` | any items, saves that overlap, copies under way, edits |
| | `RetryIsSafe` | `Spec => []RetryFindsNoConflict` | - |
| `ClientShell_proofs` | `Bell` | `Spec => []BellRight` | - |
| | `LateLoads` | `Spec => LateLoadsTakeNothingBack` | - |
| | `SleuthConfirms` | `Spec => []ConfirmedRight` | - |
| | `UnseenIsKept` | `Spec => []NothingUnseenOverwritten` | - |
| | `TypedIsKept` | `Spec => UnsavedKept` | - |
| | `ManagedShown` | `Spec => []ManagedRight` | - |
| | `SignedOut` | `Spec => []SignedOutIsOut` | - |
| | `AccountHolds` | `Spec => []AccountRight` | - |
| | `ShellTyped` | `Spec => []TypeOK` | - |
| `ClientPages_proofs` | `OwnThings` | `Spec => []EachItemItsOwn` | - |
| | `SentOnce` | `Spec => []SentOnceInFull` | - |
| | `Confirmed` | `Spec => []CreatedAsConfirmed` | - |
| | `ListFollows` | `Spec => []ListIsCurrent` | - |
| | `EventsHold` | `Spec => []EventsRight` | - |
| | `PlanningHolds` | `Spec => []PlanningRight`, of `PagesRight` what is about the planning page | - |
| | `PagesHold` | `Spec => []PagesRight` | - |
| | `PagesTyped` | `Spec => []TypeOK` | - |
| `AgileWorkspace_proofs` | `TypesHold` | `Spec => []TypeOK` | - |
| | `LandsRight` | `Spec => []DropLandsWhereShown` | - |
| | `BacklogHolds` | `Spec => []BacklogRight` | - |
| | `BoardHolds` | `Spec => []BoardRight` | - |

*One active sprint.* `OneActivePerBoard` is not inductive: a start about to commit must be
known to be alone. The invariant adds `Ready(t)` for each request, chiefly that a start at
`commit` holds its sprint row (still future) and, without parallel sprints, the board row,
and that no other sprint of the board is active; that requests at `commit` of complete and
cancel hold their sprint in the state they judged it in. Two starts of one board cannot
both hold the board row, and no action but a start's commit makes a sprint active, so the
fact survives until it is used. `TypeOK` itself needs `Ready` (a cancellation never reaches
its commit with the destination "new sprint"). The same invariant gives, step by step, that
only a granted request changes a sprint's state, which is `LifecycleSeen`, the refinement
(`Implements`, with a lemma on the effect of each committing action) and `HistoryFinal`.

*An ended sprint.* A completion judges the issues it read and moves the unfinished ones; an issue
that came in between would stay. `Knows(t)` says that none can: a request at `commit` of a
completion or cancellation has read every issue its sprint has. Issues come to a sprint
only by a move that holds its row while it is open, which the ending request holds, or by a
completion that creates the sprint (lemma `Arrivals`). So what remains was recorded as completed
in the same commit, and a history that is final stays so. A destination that names
an existing sprint defeats it (section 7), hence `NoSprintNamed`.

*Scope and history.* Any number of requests of any kind overlap here. What the code relies on and does not lock is stated as
a condition on the steps. `PlacesAsLoaded`: a move or a transition at its commit finds each of its issues in the
sprint the request loaded it from, and a completion or cancellation finds its destination still open to it. `FinishedAsLoaded`:
the issues a completion read as finished are finished when it commits. The conditions are what fails in the races
of section 7, and nothing else is assumed: two requests that touch other issues, the same sprints, each other's destinations
while these are open, or wait for each other's locks are all covered. The argument ties the history of an issue in a
sprint to its place there (`ScopeFacts`, `Counted`), shows that a sprint that has not started has no history (`HistoryBegins`),
and that what a request holds locked is as it read it until its commit (`HeldKept`, `CountedKept`). `ReopenedLeaves` then
follows from what a completion leaves and from the hook of a transition.

*The last admin.* `LockedAreAdmins` (locked rows are active admins, no row is locked twice)
is inductive with the types. `AdminRemains` needs three more facts per request: what is known
of its caller and target given what it loaded (an account loaded without the admin role is
still not an admin, as nobody is promoted meanwhile), that at `write` either the target is no
admin or the request holds another active admin's row or runs alone (`Covered`), and
`Solo`, the scheduling of risky requests. The decisive step: a write that takes an admin
away leaves the other admin whose row the same request holds. `ManagersSpare` does not need requests kept apart: the role
checks of a manager's request hold of what it loaded (`Limited`), and `NotPromoted`, a condition on the steps, is that this is
still so when it writes. It fails when the target is promoted in between (section 7).

*The pool.* The invariant adds that at most `Slots` requests are admitted. If nothing under way
could go on, all threads would be held by parties waiting for connections, and all
connections by admitted requests, of which there are fewer than connections.
The argument counts subsets with the cardinality theorems of the library.

*The digest.* `NothingForgotten` carries `ClaimsToMail`: a claimed row belongs to a user still in the
outbox, or failed, or is mailed. `MailedOnce` carries that the rows of a run are unmailed
until their user leaves the outbox (`Fresh`) and that a mailed row is stamped.

*No lost update.* To each version of an item belongs one count of other people's edits.
`Agrees(i, v, f)` says so of a pair: if `v` still is the row's version, `f` is the row's count,
and no version runs ahead of its row. The invariant says it of every copy under way
(`CopiesAgree`), of the version in `expectedVersionRef` with what the form was seeded with
(`FormAgrees`, unless a save of another seeding wrote the ref) and of the version
each save sends with what its form had seen (`SavesAgree`), and it ties a save of the seeding
on the screen to the item on the screen (`SavesLive`). Rows only age (lemma `Ages`),
which keeps every pair. When a request is accepted its version is the row's, so the counts
are equal (`CurrentIsSeen`), nothing unseen is overwritten, and what it
returns is again a pair. The invariant was checked by TLC with two overlapping saves first.

*A save pressed again.* Every version of an item beyond the first is a write of the dialog (`Own`) or
an edit of somebody else, so the version the form should send is `Written`: the dialog's own
writes and the edits seen at the seeding. `Synced` says that `expectedVersionRef` is that version
once no save of the item shown is `Unsettled` (has written, or may have, what the ref is still to
be told); `LiveRight` that a live save of the item shown runs alone and carries, or brings back,
that version. The rows only count upward and copies only age, so a poll or reload keeps it.

*Parts of the client.* A step is a step of one part (`PartSteps`), so each part has an invariant of its
own, proved from its actions alone.

- *Notifications* (`NoticesInv`): loads and marks share one numbering (`Numbered`); what was read here
  was marked when the load that may still be shown began (`Marked`); what was announced has been
  in a list (`Once`), and what was there from the beginning is in every list until it is gone,
  unless the limit left it out of one (`Unannounced`); and the ways in which the list gets to be the server's
  (`Reconciled`: the newest load brings it, a failure or an older change will have it loaded, the newest
  change brings the server to what is shown, or the two agree).
- *Projects and people* (`DirectoryInv`): what a load read was the server's (`ReadBehind`) and, unless
  something overtook it, is not behind the sidebar (`ReadAhead`); an answered save hands over what
  the server had (`SavedTrue`).
- *List and bulk edit* (`ListInv`): a copy of a row that has the server's version has what others
  changed (`CopiesBehind`), unless two requests that had read one version both wrote the item; so an edit that the version
  check lets through, and that writes later, overwrites nothing unseen but there.
- *Assistant* (`SleuthInv`): what waits was not carried out (`CarriedApart`), and a waiting proposal is
  the newest card shown or under way unless an answer was lost or another window spoke
  (`ProposalSeen`).
- *Settings* (`FormsInv`): every copy of the row is behind it, and equal where the versions are and no two requests
  `crossed` (`FormsBehind`); a form is filled from the row the page holds (`FormsSeeded`); what was stored is
  on the page or on its way (`PageFresh`). For the board, whose two sections have one version, `SaysNew`
  is needed: what a save writes was never there before, so a section that is as the
  page holds it was not changed and changed back.
- *Lists managed in place* (`ManagedInv`): the only load under way is from after the last change, or the
  change is still to be told and loaded (`RowsComing`); a secret made again is on its way with the
  answer, then with the load (`SecretsFollowed`).
- *Push* (`PushInv`): what is registered for the token that works is registered for who is signed in, and
  is what the browser remembers or the logout under way withdraws (`Withdrawable`).
- *Sign-in* (`AccessInv`): each session was granted for the password in force when it was read, and the
  version read then goes with that password (`SessionsGood`); the requests under way carry such
  snapshots (`CallsGood`), so one that overtakes a reset is granted a version that is no longer
  accepted, except the leave to give a code, which is then in `overtaken`; links are fresh or used (`LinksFresh`).
- *Account* (`AccountInv`): unless two requests crossed, the second factor is off with no codes or on with
  one set and a scanned secret (`SecondRight`); a change of password leaves the rows of one device that are at the
  version in force, unless another was made while it deleted (`RowsRight`); a device that nothing disturbed shows the stored preferences with the one change
  that is under way, and a refusal takes exactly that change back (`Following`).

*Pages of the client*, again one invariant each.

- *Comments, files and links* (`DiscussionInv`): what is typed, staged or under way is for the item it
  was for at first, the one shown or that of its run (`Homed`). Every staged file is in a tray, in
  a run that still has it to send, or accounted for; what a run's tray has at its end was in
  it at the press, or was added late, so emptying the tray loses nothing (`FilesFollowed`). A text
  that can still be posted was not posted before, and no two runs have it, unless it is
  `doubted` (`TextsFollowed`).
- *Branches* (`BranchesInv`): loads have generations, and those of the present one, the operations under
  way and the list are of the item shown (`OwnAsks`, `OwnData`); one answer at a time keeps the
  section busy, unless a removal was started `beside` it (`OneAwaited`); so the preview is of the repository picked when its confirmation is
  pressed (`Previewed`). Each operation that goes through has the list loaded under a new generation,
  which the answer to an older load does not meet (`RowsShown`).
- *Events* (`EventsInv`): filters and picks are of the event seen (`CalendarOK`); and every answer
  on its way is the server's present one, or the page will load again when a write of its own
  returns, or, with no answer on its way, what it shows is the server's (`Follows`). This one is not
  kept by an addition that succeeds after another of the same press failed: `addExistingTasks` has
  then no load to come (`EventsView.jsx`, `Promise.all`). One task could not show it; the run has two since, and
  `EventsSettle` names the case.
- *Planning* (`PlanningInv`): each capacity kept, read, on its way or in the field was typed for its
  sprint (`KeptTyped`, `ReadTyped`, `SaveTyped`, `DraftTyped`); nothing is asked before a sprint is
  picked (`UnpickedIdle`); the latest load is of the sprint picked and brings what the server has,
  or a save is to be answered, after which it is loaded again (`PlanFollows`).
- *Audit trail* (`AuditInv`): while loads do not cross, the count covers all rows that came up to
  it (`Paged`), so a page read from there leaves none out behind it, however the trail has grown
  since (`ServedRight`, `GrownRight`); of the rows of that page only those already listed are dropped
  (`LengthenedRight`). That no newer entry is among the rows needs the count of rows behind each
  one (`Backwards`): the offset moves on by as much as came in. The first form of `NoGap` forbade newer
  rows altogether; it held in a run whose trail could grow by one, and its proof failed (section 7).

*Agile pages* (`AgileInv`). Three arguments, over facts about sequences that are proved first: what
`Only` keeps of a sequence, and that two sequences that keep the same elements in the same order are equal
(by the least prefix that would break it, so no induction theorem is needed).

- *Where a drop lands.* However the issue was dragged over other lists, the lists without it are those
  of the drag's start (`PlanIs`), and a filter hides issues of both alike. So the first shown issue
  behind the place, or the last one before it, is the same neighbour for the page and for the
  server, and inserting beside it gives the same list (lemma `Inserted`: `Placed` is `MoveLocally`).
- *No issue twice.* The two reads of torn data each have an issue once; data that is not torn is the server's at one
  moment, where lists are disjoint. Moves on the page keep that, and `mixed` follows the data shown.
- *The lists settle.* Of the loads under way only one is the latest, and it is for the present key
  (`LoadsOK`). While the lists on the page are not the server's, a load that will read them, or a move that
  will have them loaded or taken back, is still to be answered, or an answer was lost (`Settling`). A
  refused move has them loaded again; so have the changes others announce.
- *The board settles.* A card that is not in `again` has at most one move under way (`Single`), and shows
  the server's status, or what its move wants, with the server still at what the move would put back, or
  the board is about to be loaded (`BoardSettling`).

*Types of the pages* (`PagesInv`). The parts' invariants say most of `TypeOK`; three clauses need more.
That no operation is asked on a row that never was: an active row, as the server has it and as the
page shows it, has a number. That every event the server keeps was planned and is edited within the
bound, also after deletions. And that a capacity shown or in the field was typed before: so was the
one in every answer under way (`ReadTyped`).

*Types of the client* (`ShellInv`). The conjunction of the invariants above says all of `TypeOK` but
what relates three parts to the values made so far, so three invariants join it.

- *Pages before sign-in* (`AccessPages`): each tab shows a view its page has, and asks for a code only
  with the leave to give one. An answer changes the view of whatever page its tab then shows, so it
  must be known that a request a tab still waits for was sent by that page (`SentFrom`: who leaves
  a page waits for none of them), and that an answer that asks for a code answers a sign-in
  and carries that leave (`AnswerFits`): only pages with a view for the code send one.
- *Settings* (`FormsBounded`): a stored version is at most the number of changes and one. That alone
  is not inductive: saves under way were counted when they were sent and raise the version when they are
  served. The invariant counts them: the version of a section and the number of saves still to be served
  together are at most the changes and one; and each such save is known by what it says (`Pending`), so
  serving one leaves one fewer.
- *Account* (`AccountBounded`): secrets, codes, versions and addresses, stored, read by a request or given
  by an answer, were made before (`RequestBounded`, `StoredBounded`).

The constants' assumptions of these modules say that `None` is not a value of the kinds it
stands beside (for `ClientAccess` a password, an answer or what a sign-in is granted), that versions and attempts are counted in numbers, and that no set of actors the
part cannot do without is empty.

Every invariant and every action property of the passing runs is stated by one of these theorems.
Only model-checked: the liveness properties, `ListSettles` among them. TLAPS does not
handle liveness under fairness or ENABLED. The installed provers cannot instantiate the library's
induction theorems: what the recursive functions of `ClientAudit` yield is proved from a shortest
sequence that would refute it. RECURSIVE operators would cost their modules the SMT back end, so
none is used.

## 7 Where the code and its texts disagree

Two runs end in a counterexample. Each checks something the repository says.

| Run | What is said | What happens |
|---|---|---|
| `digest_overlap` | "never double-sends" (`app/jobs/email_digest.py:17-18`, `150-151`) | a run whose UPDATE claims only part of the rows it read mails all of them |
| `second_factor_race` | "Never overwrite an active secret: that would lock the user out of their authenticator" (`app/routes/totp.py:105`) | begin compares the `totp_enabled` its request loaded; a confirm on another device commits in between, and the secret that is then in force was never confirmed. The `totp_enabled = False` of line 113 does not help: the ORM had loaded False and writes nothing |

Others met while modelling, which the modules reproduce or except by name but which
have no run of their own. In the server:

- *Destination of a completion.* "to the backlog, a future sprint or a new sprint"
  (`README.md:176`): the destination is read unlocked (`sprints.py:421`); it is cancelled or
  started before the completion commits, and the issues land in it.
- *Reopening.* Reopened work "belongs in the backlog" (`integrity.py:163-167`): a reopening that
  overlaps a completion stays in the closed sprint.
- *Stale move.* A sprint started meanwhile "is seen as it is now, not as this request read it"
  (`sprints.py:305-308`): the sprints are refreshed, the issues are not, and an issue leaves an
  active sprint with no `removed` event.
- *Self-deletion.* A sole admin is blocked from deleting himself (`dsar.py:172`), by a count
  that takes no lock: two last admins delete themselves. `AdminRemains` fails with
  `Overlapping = {"leave"}`.
- *Promotion.* A target loaded before it is promoted is deleted or demoted without the
  last-admin count (`users.py:289`): `AdminRemains` fails with `Overlapping = {"promotion"}`.
- *A sprint cancelled into itself.* The route does not refuse the sprint being cancelled as
  destination (`sprints.py:421`, docstring 505-506): `EndedHoldsFinished` fails with one request,
  `Ops = {"cancel", "add"}`, `Destinations = {Backlog, 1}`. This is why
  `sprint_concurrent` has no named destinations.
- *Lock order.* `add` locks the sprint of its URL before the sorted locks of `move_items`
  (`routes/agile.py:490`, `sprints.py:305-306`), so two adds can deadlock; PostgreSQL aborts one,
  and `EveryRequestEnds` holds.
- *A lost SMTP answer* releases rows that were mailed (`email_digest.py:181-182`):
  `ReleasedWasNotSent` fails with `AnswersLost = TRUE`.
- *A pool of one connection* (`database.py:122` admits one request, background work needs a
  second connection): `NoPoolDeadlock` fails with `PoolSize = 1`.
- *First Git configuration.* A PUT without a version skips the check (`routes/git.py:438-443`):
  two first configurations overwrite each other.
- *Versions compared on unlocked rows.* The bulk edit reports items "changed since you loaded them" and the settings answer "was modified
  by someone else; reload and retry", but both compare the version of a row they read without a lock
  (`routes/bugs.py:1418`, `bug_bulk.py:147`; `routes/agile.py:242`, `270`; `agile_board.py:361`; `agile_taxonomy.py:171`) and
  write it later: two requests that read the same version both write, the second over the first, and the version they leave is the
  same. `NothingUnseenOverwritten` excepts exactly this.
- *A sign-in overtaken by a reset.* "A password change, reset or forced sign-out since the password step voids the token"
  (`routes/auth.py:390`): `login` commits and then reads `session_version` for the token from the refreshed row (`363-365`). A reset
  that commits after the password was compared and before that leaves a token that is good on the new version, and the old
  password with a code of the second factor signs in. `SessionsFollowPassword` excepts it (`OvertakenLogin`).
- *The planning view is three statements* (`agile/views.py:205-226`), each with a snapshot of its own: an issue moved from a sprint to
  the backlog between them is served in both. `EachIssueOnce` excepts torn data.
- *The assistant* keeps one proposal and one document for each user
  (`chatbot/memory.py`): while a document waits, a "yes" to a card carries out the document;
  clearing the conversation does not clear the server.
- *Two devices change the password at once*: "Rows are already invalid via the version bump" (`routes/auth.py:576`), but both
  changes add one to the version they loaded, and each deletes only the sessions its own statement sees: neither sees the
  other's new one, both are at the version in force, and both devices stay signed in. `OthersSignedOut` excepts it (`mixed`). A disable that crosses a confirm can leave
  the second factor on without a secret; a lost answer to a confirm loses the recovery codes.

In the work item dialog:

- *"frozen at open time"* (`BugModal.jsx:165`): a save begun before the dialog turned puts its
  version into the ref of the item now shown, and two Saves pressed together can put back an
  older version. These are the exceptions of `NoLostUpdate` and `RetryFindsNoConflict`.
- "reloadBugModal() keeps the id so half-typed fields survive" (`BugModal.jsx:270`) is not so for a
  reload that arrives after the dialog turned; "never a stale pick" (`BugModal.jsx:959`) is not so
  while a new project's sprints are loading.
- A creation whose link to the epic fails leaves the form open, and the next Save creates a second
  item; a comment typed and not posted is dropped by Save; custom values carry no version.
- *Sections.* After a turn from X to Y an old operation's `load()` puts X's branches in Y's
  panel, its `finally` releases Y's busy flag, and a late preview or repository list of X is shown
  at Y. A removal confirmed while a preview is under way runs beside it and frees the fields when it ends; another repository
  can then be picked and the late preview of the former confirmed. A branch adopted after a lost answer is recorded with the base of the retry. Ctrl+Enter
  while files upload posts the comment twice.

In the events, the audit trail and the planning page:

- "Different event: clear filters so previous selections don't bleed in" (`EventsView.jsx:332`): a search
  typed at A fires after B was opened and narrows B (`late`). The tasks picked at A stay when a link,
  a late answer or a failed reload turns the page, and Add files them under B (`turned`).
- A link followed from another view ends on the list: the effect on the link
  (`EventsView.jsx:352`) runs before the one that shows the list on entering (`395`). A late detail
  answer in list mode makes the page take the creation of an event for an edit, and the new one is not opened.
- Of tasks added side by side some may fail; the page then does not reload, and shows those added as
  absent. `EventModal` seeds again, and drops what was typed, when the projects change; edits
  of an event carry no version.
- "filter changes replace the list" (`AuditView.jsx:2`): "Load older" pressed within the 300 ms of the
  search mixes rows of two filters, as the timer then skips its load; two clean loads that overlap
  count twice, and "Load older" skips a page; after a failed Refresh the count is 0 and the poll
  collapses what was paged to.
- "Offset paging over a growing table can repeat rows" (`AuditView.jsx:79`): once more matching entries
  came in than rows were loaded, the offset (line 73) falls among them, and "Load older" puts rows newer
  than all others at the end of the list, where the next clean load moves them to its head.
- The load after a capacity was saved is for the sprint picked at the press (`PlanningPanel.jsx:95`): if
  another was picked meanwhile its plan is replaced by the former's, and Save stays disabled.
  An emptied capacity is not sent and `replace_capacity` only upserts (`agile/planning.py:43`): after
  "Capacity saved" the old one is back. When the project is changed and the new one's board fails to
  load, the page keeps the former project's (not modelled).

In the agile pages:

- "Undo only this card's optimistic move" (`BoardPanel.jsx:155-158`): a refused move puts its card
  back to the old column although a load meanwhile brought the status it wanted (the first
  answer was lost, or another user made the same move), and the board stays wrong until the
  next load. Two quick moves A, B, C of a card that both fail leave B on the page while the server
  has A. Both are in `again`, the exception of `BoardSettles`.

In the rest of the client:

- "in-flight poll can't un-read this" (`AppContext.jsx:628`): the session tick's count carries no number
  and can. The bell's own poll does not wait for the one before it. Charts are said to follow the filters
  (about line 236), but setting a filter does not refresh the stats.
- *A list cut at 50.* An old notification that moves up into the list after others were dismissed is announced as if it were new
  (`AppContext.jsx:341`, `358`), and the list shown is not filled up until the next load.
- A failed registration leaves the push token stored, so the online listener never retries
  (`lib/push.js:252-253`); a retry under way during log-out can register again.
- *Sidebar.* `ProjectMembers` says "Member removed" when it failed; `UserModal` saves the
  memberships it opened with; the answer to a save closes whichever project form is open, and
  a late one briefly puts a deleted project back.
- *Managed lists.* A release offered for archiving is archived though somebody released it
  meanwhile; of two creations that cross, the first webhook's secret is never seen.
- *Settings.* Own saves reseed the form and drop what was typed meanwhile; a column's removal by
  index may hit another column if the form was reseeded during the confirmation; a late answer closes
  whichever draft is open; "Test connection" clears the typed token; archiving and deleting name no version.
- After a refused deletion of the account the person who typed the details stays signed in.
- Two preference toggles that cross can show the older answer.

## 8 What is not shown

- Components with status `not_modelled` in `PROJECT.json`, for the reasons given there; of
  partly modelled ones, what the note names.
- Of the client: reports and analytics, the calendar of reports, the rich editor, set-up
  wizard, tours and help, branding and general organization settings, deletion of an organization,
  pickers, the player, bulk import, deep links other than to an event, the version poll, single-row deletion in the list, charts;
  in the dialog, editing and deleting comments, files staged before creation, pasted images and
  event options; in the account, `PrivacyTab` and the change of one's name. These are read-only
  pages, inputs with no request, or single requests with no version.
- Hazards of the server without a property (besides those in `PROJECT.json`):
  disabling Agile while a sprint starts (`agile/boards.py:257`), a Sub-task created while its parent moves
  (`agile/integrity.py:220`), exhausted ranks (`agile/ranking.py:24`), two last leads
  (`routes/memberships.py:139`), accepting while revoking (`routes/invitations.py:259`), two uses of one
  second-factor step (`routes/totp.py:147`), boot of two replicas (`database.py:949`), a digest longer
  than a minute (`scheduler.py:185`), two users creating one branch (`routes/git.py:683`), an item version
  compared on an unlocked row (`routes/agile_board.py:188`), suspension of a webhook that is being
  enabled (`webhooks_delivery.py:145`).
- Isolation below READ COMMITTED: on SQLite (tests, single-user installs) row locks are
  no-ops and writers are serialised by the file lock.
- Wall-clock time: lock, pool and HTTP timeouts appear as failures or not at all.
- Authorization, except where it decides who may change admins or edit an item.
- What one flush writes beyond the columns named in section 3: audit rows, ranks,
  notifications of sprint operations.
- Combinations of the client's parts: a behaviour of `ClientShell` or `ClientPages` exercises one of them. They share no
  state in the models; in the code they share the session and the error banner.

## 9 Running everything

    tlc -workers 2 -config sprint_concurrent.cfg MCSprintLifecycle
    tlapm OrgAdmins_proofs.tla

Each configuration names its run; the module of a run is in `PROJECT.json`. With
two workers the longest runs (`sprint_sequential`, `client_shell`) take about two minutes, most of
the others less than one; the proofs of all eight modules take about forty minutes.
