-------------------------- MODULE SprintLifecycle --------------------------
(***************************************************************************)
(* The sprint lifecycle of app/agile/sprints.py as its HTTP routes run it: *)
(* every request is one READ COMMITTED transaction of PostgreSQL, made of  *)
(* row locks taken one by one, reads that hold no lock, and a commit that  *)
(* publishes all writes at once.  Two requests interleave at every point   *)
(* where one of them waits for a lock or acts on something it read before. *)
(*                                                                         *)
(* The rows: sprints (state, version), issues (sprint_id, status, whether  *)
(* their Sub-tasks are finished) and the last sprint_item_history event of *)
(* each issue in each sprint.  The Idempotency-Key header, names, dates,   *)
(* ranks and estimates are left out.                                       *)
(***************************************************************************)
EXTENDS Integers, FiniteSets

CONSTANTS
    Sprint,         \* sprint ids; row locks are taken in id order
    Board,          \* boards
    BoardOf,        \* the board of each sprint
    Issue,          \* standard issues (Story, Task, Bug, Requirement)
    Parents,        \* the issues that have a Sub-task
    Tx,             \* request slots: the transactions that may run at once
    Backlog,        \* sprint_id NULL
    NewSprint,      \* the destination "new_sprint" of Complete sprint
    NoTx,           \* no holder of a row lock
    AnyVersion,     \* Sleuth's start and complete tools send no version
    AllowParallel,  \* the project's parallel_sprints flag
    Ops,            \* the operations the clients of a run send
    Destinations,   \* where clients of a run send unfinished issues
    Dispositions,   \* their per-issue exceptions: functions on sets of issues
    MaxVersion      \* bound: an edit or lifecycle call starts below it

OpNames == {"start", "complete", "cancel", "update",
            "add", "remove", "move", "transition"}

Home == Sprint \cup {Backlog}

ASSUME SprintAssumption ==
    /\ Sprint \subseteq Nat
    /\ Sprint # {}
    /\ IsFiniteSet(Sprint)
    /\ Backlog \notin Sprint
    /\ NewSprint \notin Home
    /\ BoardOf \in [Sprint -> Board]

ASSUME RequestAssumption ==
    /\ NoTx \notin Tx
    /\ AnyVersion \notin Nat
    /\ AllowParallel \in BOOLEAN
    /\ Ops \subseteq OpNames
    /\ Parents \subseteq Issue
    /\ MaxVersion \in Nat
    /\ Destinations \subseteq Home \cup {NewSprint}
    /\ [i \in {} |-> Backlog] \in Dispositions
    /\ \A d \in Dispositions :
          /\ DOMAIN d \subseteq Issue
          /\ \A i \in DOMAIN d : d[i] \in Home \cup {NewSprint}

VARIABLES
    state,       \* sprints.state; "none" until the sprint is created
    version,     \* sprints.version
    home,        \* bugs.sprint_id of each issue
    done,        \* the issue's status is in the board's right-most column
    subsDone,    \* so are the statuses of all of its Sub-tasks
    hist,        \* last sprint_item_history event of an issue in a sprint
    rowLock,     \* holder of SELECT ... FOR UPDATE on a sprint row
    boardLock,   \* holder of SELECT ... FOR UPDATE on a board row
    pc,          \* where each request is
    req,         \* what each request asks
    seen         \* what each request has read and still acts on

db == <<state, version, home, done, subsDone, hist>>
locks == <<rowLock, boardLock>>
vars == <<state, version, home, done, subsDone, hist,
          rowLock, boardLock, pc, req, seen>>

----------------------------------------------------------------------------
(* Values.                                                                 *)

States == {"none", "future", "active", "closed", "cancelled"}
ClosedStates == {"closed", "cancelled"}
Events == {"none", "committed", "added", "removed", "completed", "carried_over"}
Steps == {"idle", "enter", "board", "read", "lock", "commit"}

Versions == Nat \cup {AnyVersion}

(* sprint: the one in the URL; target: where issues go; issues: the ids in *)
(* the body; done: the status of a transition.                             *)
Requests == [op : OpNames, sprint : Sprint, version : Versions,
             target : Home \cup {NewSprint}, disposition : Dispositions,
             issues : SUBSET Issue, done : BOOLEAN]

(* home, done: the columns of the issues as the request loaded them;       *)
(* members, finished: the sprint's issues, and those that are complete.    *)
Views == [home : [Issue -> Home], done : [Issue -> BOOLEAN],
          members : SUBSET Issue, finished : SUBSET Issue]

NoDisposition == [i \in {} |-> Backlog]
SomeSprint == CHOOSE s \in Sprint : TRUE
NoRequest == [op |-> "start", sprint |-> SomeSprint, version |-> AnyVersion,
              target |-> Backlog, disposition |-> NoDisposition,
              issues |-> {}, done |-> FALSE]
NoView == [home |-> [i \in Issue |-> Backlog], done |-> [i \in Issue |-> FALSE],
           members |-> {}, finished |-> {}]

TypeOK ==
    /\ state \in [Sprint -> States]
    /\ version \in [Sprint -> Nat]
    /\ home \in [Issue -> Home]
    /\ done \in [Issue -> BOOLEAN]
    /\ subsDone \in [Issue -> BOOLEAN]
    /\ hist \in [Sprint -> [Issue -> Events]]
    /\ rowLock \in [Sprint -> Tx \cup {NoTx}]
    /\ boardLock \in [Board -> Tx \cup {NoTx}]
    /\ pc \in [Tx -> Steps]
    /\ req \in [Tx -> Requests]
    /\ seen \in [Tx -> Views]

----------------------------------------------------------------------------
(* Reading the tables.                                                     *)

Members(s) == {i \in Issue : home[i] = s}
(* Mutant: any finished part finishes the issue.                           *)
Mut_Finished(s) == {i \in Members(s) : done[i] \/ subsDone[i]}
Finished(s) == {i \in Members(s) : done[i] /\ subsDone[i]}
OtherActive(s) ==
    \E o \in Sprint \ {s} : BoardOf[o] = BoardOf[s] /\ state[o] = "active"

Free(s) == rowLock[s] = NoTx
(* A foreign key to a row is checked FOR KEY SHARE: it waits for another   *)
(* transaction's FOR UPDATE lock on that row.                              *)
Referable(t, s) == rowLock[s] \in {t, NoTx}
ReferableBoard(t, b) == boardLock[b] \in {t, NoTx}

(* Mutant: the version the client sent is not compared.                    *)
Mut_Current(t) == TRUE
Current(t) == req[t].version \in {AnyVersion, version[req[t].sprint]}

(* Commit and rollback both end the transaction and drop its locks.        *)
Finish(t) ==
    /\ pc' = [pc EXCEPT ![t] = "idle"]
    /\ req' = [req EXCEPT ![t] = NoRequest]
    /\ seen' = [seen EXCEPT ![t] = NoView]
    /\ rowLock' = [s \in Sprint |-> IF rowLock[s] = t THEN NoTx ELSE rowLock[s]]
    /\ boardLock' = [b \in Board |-> IF boardLock[b] = t THEN NoTx ELSE boardLock[b]]

Lock(t, s) == rowLock' = [rowLock EXCEPT ![s] = t]

Rollback(t) == Finish(t) /\ UNCHANGED db

----------------------------------------------------------------------------
(* Requests arrive.                                                        *)

(* Complete and cancel take destinations, the others none.  A client sends *)
(* the version it last loaded, Sleuth's tools send none.                   *)
LifecycleRequests ==
    {r \in [op : Ops \cap {"start", "complete", "cancel", "update"}, sprint : Sprint,
            version : {version[s] : s \in Sprint} \cup {AnyVersion},
            target : Destinations \cup {Backlog}, disposition : Dispositions,
            issues : {{}}, done : {FALSE}] :
        /\ state[r.sprint] # "none"
        /\ version[r.sprint] < MaxVersion
        /\ r.version \in {version[r.sprint]} \cup
                         (IF r.op \in {"start", "complete"} THEN {AnyVersion} ELSE {})
        /\ r.version = AnyVersion => r.target = Backlog /\ r.disposition = NoDisposition
        /\ r.op \in {"start", "update"} => r.target = Backlog /\ r.disposition = NoDisposition}

(* add and remove name their sprint in the URL, move and a bug update name *)
(* the target (a sprint or the backlog) in the body.                       *)
PlanningRequests ==
    {r \in [op : Ops \cap {"add", "remove", "move"}, sprint : Sprint,
            version : {AnyVersion}, target : Home,
            disposition : {NoDisposition},
            issues : (SUBSET Issue) \ {{}}, done : {FALSE}] :
        /\ state[r.sprint] # "none"
        /\ r.target \in Sprint => state[r.target] # "none"
        /\ r.op = "add" => r.target = r.sprint
        /\ r.op = "remove" => r.target = Backlog /\ Cardinality(r.issues) = 1
        /\ r.op = "move" => (IF r.target = Backlog THEN r.sprint = SomeSprint
                                                   ELSE r.sprint = r.target)}

TransitionRequests ==
    [op : Ops \cap {"transition"}, sprint : {SomeSprint},
     version : {AnyVersion}, target : {Backlog},
     disposition : {NoDisposition},
     issues : {{i} : i \in Issue}, done : BOOLEAN]

Begin(t) ==
    /\ pc[t] = "idle"
    /\ \E r \in LifecycleRequests \cup PlanningRequests \cup TransitionRequests :
          /\ req' = [req EXCEPT ![t] = r]
          /\ pc' = [pc EXCEPT ![t] = IF r.op \in {"move", "transition"}
                                     THEN "read" ELSE "enter"]
    /\ UNCHANGED <<db, locks, seen>>

At(t, step, op) == pc[t] = step /\ req[t].op = op

----------------------------------------------------------------------------
(* Start.  The route locks the sprint row, checks its version and state    *)
(* and reads its issues; unless parallel sprints are on it then locks the  *)
(* board row and looks for another active sprint.                          *)

MayStart(t) ==
    LET s == req[t].sprint IN
    Current(t) /\ state[s] = "future" /\ Members(s) # {}

EnterStart(t) ==
    LET s == req[t].sprint IN
    /\ At(t, "enter", "start")
    /\ Free(s)
    /\ MayStart(t)
    /\ Lock(t, s)
    /\ seen' = [seen EXCEPT ![t].members = Members(s)]
    /\ pc' = [pc EXCEPT ![t] = IF AllowParallel THEN "commit" ELSE "board"]
    /\ UNCHANGED <<db, boardLock, req>>

(* Mutant: the check for another active sprint holds no board lock.        *)
Mut_LockBoard(t) ==
    /\ At(t, "board", "start")
    /\ ~OtherActive(req[t].sprint)
    /\ pc' = [pc EXCEPT ![t] = "commit"]
    /\ UNCHANGED <<db, locks, req, seen>>

LockBoard(t) ==
    LET b == BoardOf[req[t].sprint] IN
    /\ At(t, "board", "start")
    /\ boardLock[b] = NoTx
    /\ ~OtherActive(req[t].sprint)
    /\ boardLock' = [boardLock EXCEPT ![b] = t]
    /\ pc' = [pc EXCEPT ![t] = "commit"]
    /\ UNCHANGED <<db, rowLock, req, seen>>

RefuseParallel(t) ==
    /\ At(t, "board", "start")
    /\ boardLock[BoardOf[req[t].sprint]] = NoTx
    /\ OtherActive(req[t].sprint)
    /\ Rollback(t)

CommitStart(t) ==
    LET s == req[t].sprint IN
    /\ At(t, "commit", "start")
    /\ state' = [state EXCEPT ![s] = "active"]
    /\ version' = [version EXCEPT ![s] = @ + 1]
    /\ hist' = [hist EXCEPT ![s] =
                   [i \in Issue |-> IF i \in seen[t].members THEN "committed" ELSE @[i]]]
    /\ Finish(t)
    /\ UNCHANGED <<home, done, subsDone>>

----------------------------------------------------------------------------
(* Complete and cancel.  Only the named sprint is locked: the destination  *)
(* sprint is read once, when the plan is made.                             *)

Unfinished(t) == seen[t].members \ seen[t].finished

DestinationOf(t, i) ==
    LET d == req[t].disposition IN
    IF i \in DOMAIN d THEN d[i] ELSE req[t].target

ValidDestination(s, d) ==
    d \in Sprint => BoardOf[d] = BoardOf[s] /\ state[d] = "future"

(* Mutant: any open sprint can be completed.                               *)
Mut_MayComplete(t) ==
    LET s == req[t].sprint
        incomplete == Members(s) \ Finished(s)
    IN  /\ Current(t)
        /\ state[s] \in {"future", "active"}
        /\ DOMAIN req[t].disposition \subseteq incomplete
        /\ \A i \in incomplete : ValidDestination(s, DestinationOf(t, i))

MayComplete(t) ==
    LET s == req[t].sprint
        incomplete == Members(s) \ Finished(s)
    IN  /\ Current(t)
        /\ state[s] = "active"
        /\ DOMAIN req[t].disposition \subseteq incomplete
        /\ \A i \in incomplete : ValidDestination(s, DestinationOf(t, i))

(* Mutant: completes without the row lock.                                 *)
Mut_EnterComplete(t) ==
    LET s == req[t].sprint IN
    /\ At(t, "enter", "complete")
    /\ MayComplete(t)
    /\ seen' = [seen EXCEPT ![t].members = Members(s), ![t].finished = Finished(s)]
    /\ pc' = [pc EXCEPT ![t] = "commit"]
    /\ UNCHANGED <<db, locks, req>>

EnterComplete(t) ==
    LET s == req[t].sprint IN
    /\ At(t, "enter", "complete")
    /\ Free(s)
    /\ MayComplete(t)
    /\ Lock(t, s)
    /\ seen' = [seen EXCEPT ![t].members = Members(s), ![t].finished = Finished(s)]
    /\ pc' = [pc EXCEPT ![t] = "commit"]
    /\ UNCHANGED <<db, boardLock, req>>

MayCancel(t) ==
    LET s == req[t].sprint IN
    /\ Current(t)
    /\ state[s] \in {"active", "future"}
    /\ DOMAIN req[t].disposition \subseteq Members(s)
    /\ \A i \in Members(s) : /\ DestinationOf(t, i) # NewSprint
                             /\ ValidDestination(s, DestinationOf(t, i))

(* Mutant: the sprint is not locked while its issues are moved.            *)
Mut_EnterCancel(t) ==
    /\ At(t, "enter", "cancel")
    /\ MayCancel(t)
    /\ seen' = [seen EXCEPT ![t].members = Members(req[t].sprint)]
    /\ pc' = [pc EXCEPT ![t] = "commit"]
    /\ UNCHANGED <<db, locks, req>>

EnterCancel(t) ==
    LET s == req[t].sprint IN
    /\ At(t, "enter", "cancel")
    /\ Free(s)
    /\ MayCancel(t)
    /\ Lock(t, s)
    /\ seen' = [seen EXCEPT ![t].members = Members(s)]
    /\ pc' = [pc EXCEPT ![t] = "commit"]
    /\ UNCHANGED <<db, boardLock, req>>

(* The destinations that are rows of the sprints table.                    *)
TargetRows(t) == {DestinationOf(t, i) : i \in Unfinished(t)} \cap Sprint
OpensSprint(t) == \E i \in Unfinished(t) : DestinationOf(t, i) = NewSprint

(* The new sprint is created once, on the same board, in the transaction   *)
(* that completes the old one.                                             *)
CommitComplete(t) ==
    LET s == req[t].sprint IN
    /\ At(t, "commit", "complete")
    /\ \A d \in TargetRows(t) : Referable(t, d)
    /\ \E n \in Sprint :
          /\ OpensSprint(t) => /\ state[n] = "none"
                               /\ BoardOf[n] = BoardOf[s]
                               /\ ReferableBoard(t, BoardOf[s])
          /\ ~OpensSprint(t) => n = s
          /\ state' = [[state EXCEPT ![n] = "future"] EXCEPT ![s] = "closed"]
          /\ version' = [[version EXCEPT ![n] = 1] EXCEPT ![s] = version[s] + 1]
          /\ home' = [i \in Issue |->
                        IF i \notin Unfinished(t) THEN home[i]
                        ELSE IF DestinationOf(t, i) = NewSprint THEN n
                        ELSE DestinationOf(t, i)]
    /\ hist' = [hist EXCEPT ![s] =
                   [i \in Issue |-> IF i \in seen[t].finished THEN "completed"
                                    ELSE IF i \in seen[t].members THEN "carried_over"
                                    ELSE @[i]]]
    /\ Finish(t)
    /\ UNCHANGED <<done, subsDone>>

CommitCancel(t) ==
    LET s == req[t].sprint IN
    /\ At(t, "commit", "cancel")
    /\ \A d \in TargetRows(t) : Referable(t, d)
    /\ state' = [state EXCEPT ![s] = "cancelled"]
    /\ version' = [version EXCEPT ![s] = @ + 1]
    /\ home' = [i \in Issue |->
                  IF i \in seen[t].members /\ DestinationOf(t, i) # s
                  THEN DestinationOf(t, i) ELSE home[i]]
    /\ hist' = [hist EXCEPT ![s] =
                   [i \in Issue |-> IF i \in seen[t].members /\ state[s] = "active"
                                    THEN "removed" ELSE @[i]]]
    /\ Finish(t)
    /\ UNCHANGED <<done, subsDone>>

----------------------------------------------------------------------------
(* Editing and creating a sprint hold no read across a wait: one step.     *)

MayUpdate(t) == Current(t) /\ state[req[t].sprint] \notin ClosedStates

UpdateSprint(t) ==
    LET s == req[t].sprint IN
    /\ At(t, "enter", "update")
    /\ Free(s)
    /\ MayUpdate(t)
    /\ version' = [version EXCEPT ![s] = @ + 1]
    /\ Finish(t)
    /\ UNCHANGED <<state, home, done, subsDone, hist>>

CreateSprint(s) ==
    /\ state[s] = "none"
    /\ boardLock[BoardOf[s]] = NoTx
    /\ state' = [state EXCEPT ![s] = "future"]
    /\ version' = [version EXCEPT ![s] = 1]
    /\ UNCHANGED <<home, done, subsDone, hist, locks, pc, req, seen>>

----------------------------------------------------------------------------
(* Planning: add (locks its sprint first), remove (likewise) and move.     *)

(* The issue rows are loaded once; their sprint_id is used as loaded until *)
(* the transaction commits.                                                *)
LoadIssues(t) ==
    seen' = [seen EXCEPT ![t].home = [i \in Issue |->
                IF i \in req[t].issues THEN home[i] ELSE Backlog]]

EnterAdd(t) ==
    /\ At(t, "enter", "add")
    /\ Free(req[t].sprint)
    /\ Lock(t, req[t].sprint)
    /\ LoadIssues(t)
    /\ pc' = [pc EXCEPT ![t] = "lock"]
    /\ UNCHANGED <<db, boardLock, req>>

MayRemove(t) ==
    /\ \A i \in req[t].issues : home[i] = req[t].sprint
    /\ state[req[t].sprint] \notin ClosedStates

EnterRemove(t) ==
    /\ At(t, "enter", "remove")
    /\ Free(req[t].sprint)
    /\ MayRemove(t)
    /\ Lock(t, req[t].sprint)
    /\ LoadIssues(t)
    /\ pc' = [pc EXCEPT ![t] = "lock"]
    /\ UNCHANGED <<db, boardLock, req>>

ReadMove(t) ==
    /\ At(t, "read", "move")
    /\ LoadIssues(t)
    /\ pc' = [pc EXCEPT ![t] = "lock"]
    /\ UNCHANGED <<db, locks, req>>

(* lock_sprints: the target and the sprints the issues were loaded in, one *)
(* row at a time in id order.                                              *)
LockSet(t) == ({req[t].target} \cup {seen[t].home[i] : i \in req[t].issues}) \cap Sprint
Unlocked(t) == {s \in LockSet(t) : rowLock[s] # t}

LockNext(t) ==
    /\ pc[t] = "lock"
    /\ \E s \in Unlocked(t) :
          /\ \A o \in Unlocked(t) : s <= o
          /\ Free(s)
          /\ Lock(t, s)
    /\ UNCHANGED <<db, boardLock, pc, req, seen>>

Leaving(t) == {i \in req[t].issues : seen[t].home[i] # req[t].target}

(* Mutant: the state of the target is not looked at.                       *)
Mut_MayMove(t) ==
    \A i \in Leaving(t) :
        seen[t].home[i] \in Sprint => state[seen[t].home[i]] \notin ClosedStates

MayMove(t) ==
    /\ req[t].target \in Sprint => state[req[t].target] \notin ClosedStates
    /\ \A i \in Leaving(t) :
          seen[t].home[i] \in Sprint => state[seen[t].home[i]] \notin ClosedStates

(* Mutant: leaving an active sprint records nothing.                       *)
Mut_RecordMove(t) ==
    hist' = [s \in Sprint |-> [i \in Issue |->
                IF i \in Leaving(t) /\ state[s] = "active" /\ req[t].target = s
                THEN "added" ELSE hist[s][i]]]

(* The target of an issue, the sprint it left: each records the change if  *)
(* it is active.                                                           *)
RecordMove(t) ==
    hist' = [s \in Sprint |-> [i \in Issue |->
                IF i \in Leaving(t) /\ state[s] = "active" /\ seen[t].home[i] = s THEN "removed"
                ELSE IF i \in Leaving(t) /\ state[s] = "active" /\ req[t].target = s THEN "added"
                ELSE hist[s][i]]]

CommitMove(t) ==
    /\ pc[t] = "lock"
    /\ Unlocked(t) = {}
    /\ MayMove(t)
    /\ RecordMove(t)
    /\ home' = [i \in Issue |-> IF i \in Leaving(t) THEN req[t].target ELSE home[i]]
    /\ Finish(t)
    /\ UNCHANGED <<state, version, done, subsDone>>

(* Mutant: the refused move answers without rolling back.                  *)
Mut_RefuseMove(t) ==
    /\ pc[t] = "lock"
    /\ Unlocked(t) = {}
    /\ ~MayMove(t)
    /\ pc' = [pc EXCEPT ![t] = "idle"]
    /\ UNCHANGED <<db, locks, req, seen>>

RefuseMove(t) ==
    /\ pc[t] = "lock"
    /\ Unlocked(t) = {}
    /\ ~MayMove(t)
    /\ Rollback(t)

----------------------------------------------------------------------------
(* A status change loads the issue, then writes it.  The flush hook sends  *)
(* an issue that leaves the right-most column while its sprint is closed   *)
(* back to the backlog (agile/integrity.py).                               *)

ReadTransition(t) ==
    /\ At(t, "read", "transition")
    /\ seen' = [seen EXCEPT
                  ![t].home = [i \in Issue |-> IF i \in req[t].issues THEN home[i] ELSE Backlog],
                  ![t].done = [i \in Issue |-> i \in req[t].issues /\ done[i]]]
    /\ pc' = [pc EXCEPT ![t] = "commit"]
    /\ UNCHANGED <<db, locks, req>>

ReopenedInClosedSprint(t, i) ==
    /\ ~req[t].done
    /\ seen[t].home[i] \in Sprint
    /\ state[seen[t].home[i]] \in ClosedStates

CommitTransition(t) ==
    LET changed == {i \in req[t].issues : seen[t].done[i] # req[t].done} IN
    /\ At(t, "commit", "transition")
    /\ done' = [i \in Issue |-> IF i \in changed THEN req[t].done ELSE done[i]]
    /\ home' = [i \in Issue |-> IF i \in changed /\ ReopenedInClosedSprint(t, i)
                                THEN Backlog ELSE home[i]]
    /\ Finish(t)
    /\ UNCHANGED <<state, version, subsDone, hist>>

(* A Sub-task is moved on the board; its parent's row is not written.      *)
TransitionSubtask(i) ==
    /\ i \in Parents
    /\ subsDone' = [subsDone EXCEPT ![i] = ~@]
    /\ UNCHANGED <<state, version, home, done, hist, locks, pc, req, seen>>

----------------------------------------------------------------------------
(* A request that fails its checks is answered 409 and rolled back.        *)
Refuse(t) ==
    /\ pc[t] = "enter"
    /\ Free(req[t].sprint)
    /\ CASE req[t].op = "start" -> ~MayStart(t)
         [] req[t].op = "complete" -> ~MayComplete(t)
         [] req[t].op = "cancel" -> ~MayCancel(t)
         [] req[t].op = "update" -> ~MayUpdate(t)
         [] req[t].op = "remove" -> ~MayRemove(t)
         [] OTHER -> FALSE
    /\ Rollback(t)

(* The worker dies, the connection drops or a constraint is violated: the  *)
(* database rolls the transaction back.                                    *)
Fail(t) == pc[t] # "idle" /\ Rollback(t)

(* PostgreSQL aborts a member of a cycle of lock waits.  WaitsFor(t) is    *)
(* who holds the rows t needs for its next step.                           *)
WaitsFor(t) ==
    LET rows ==
            CASE pc[t] = "enter" -> {req[t].sprint}
              [] pc[t] = "lock" -> {s \in Unlocked(t) : \A o \in Unlocked(t) : s <= o}
              [] pc[t] = "commit" /\ req[t].op \in {"complete", "cancel"} -> TargetRows(t)
              [] OTHER -> {}
        boards ==
            IF \/ At(t, "board", "start")
               \/ At(t, "commit", "complete") /\ OpensSprint(t)
            THEN {BoardOf[req[t].sprint]} ELSE {}
    IN  ({rowLock[s] : s \in rows} \cup {boardLock[b] : b \in boards}) \ {t, NoTx}

Deadlocked(t) ==
    \E D \in SUBSET Tx : t \in D /\ \A u \in D : WaitsFor(u) \cap D # {}

AbortDeadlock(t) == Deadlocked(t) /\ Rollback(t)

----------------------------------------------------------------------------
Init ==
    /\ state = [s \in Sprint |-> "none"]
    /\ version = [s \in Sprint |-> 0]
    /\ home = [i \in Issue |-> Backlog]
    /\ done = [i \in Issue |-> FALSE]
    /\ subsDone = [i \in Issue |-> TRUE]
    /\ hist = [s \in Sprint |-> [i \in Issue |-> "none"]]
    /\ rowLock = [s \in Sprint |-> NoTx]
    /\ boardLock = [b \in Board |-> NoTx]
    /\ pc = [t \in Tx |-> "idle"]
    /\ req = [t \in Tx |-> NoRequest]
    /\ seen = [t \in Tx |-> NoView]

Step(t) ==
    \/ EnterStart(t) \/ LockBoard(t) \/ RefuseParallel(t) \/ CommitStart(t)
    \/ EnterComplete(t) \/ CommitComplete(t)
    \/ EnterCancel(t) \/ CommitCancel(t)
    \/ UpdateSprint(t)
    \/ EnterAdd(t) \/ EnterRemove(t) \/ ReadMove(t)
    \/ LockNext(t) \/ CommitMove(t) \/ RefuseMove(t)
    \/ ReadTransition(t) \/ CommitTransition(t)
    \/ Refuse(t)
    \/ AbortDeadlock(t)

Next ==
    \/ \E t \in Tx : Begin(t) \/ Step(t) \/ Fail(t)
    \/ \E s \in Sprint : CreateSprint(s)
    \/ \E i \in Issue : TransitionSubtask(i)

Spec == Init /\ [][Next]_vars

(* A worker runs the request it has, PostgreSQL grants a row lock that     *)
(* keeps becoming free, and its deadlock detector runs.                    *)
FairSpec == Spec /\ \A t \in Tx : SF_vars(Step(t))

----------------------------------------------------------------------------
(* Properties.                                                             *)

(* At most one sprint of a board is active unless parallel sprints are on, *)
(* however many starts race: the board row lock of start_sprint.           *)
OneActivePerBoard ==
    ~AllowParallel =>
        \A s, o \in Sprint :
            s # o /\ BoardOf[s] = BoardOf[o] => ~(state[s] = "active" /\ state[o] = "active")

(* A lifecycle step is taken by a request that named this sprint and saw   *)
(* this very version, and bumps it: of two requests that loaded the same   *)
(* version one is refused (_get_sprint_or_404, lock=True).                 *)
LifecycleFromSeenVersion ==
    [][\A s \in Sprint :
          state[s] # "none" /\ state'[s] # state[s] =>
              /\ version'[s] = version[s] + 1
              /\ \E t \in Tx : /\ pc[t] = "commit" /\ req[t].sprint = s
                               /\ req[t].version \in {AnyVersion, version[s]}]_vars

(* Completing keeps finished issues with the closed sprint and moves the   *)
(* rest out: what is still in a closed sprint was recorded as completed.   *)
ClosedHoldsFinished ==
    \A s \in Sprint, i \in Issue :
        state[s] = "closed" /\ home[i] = s => hist[s][i] = "completed"

(* A cancelled sprint holds no issue: they return to the backlog or move   *)
(* to a future sprint (cancel_sprint).                                     *)
CancelledIsEmpty ==
    \A s \in Sprint : state[s] = "cancelled" => Members(s) = {}

(* An ended sprint holds what was finished in it, or nothing.              *)
EndedHoldsFinished == ClosedHoldsFinished /\ CancelledIsEmpty

(* The issues of an active sprint are those its history says it holds:     *)
(* committed at the start or added since, and not removed.                 *)
ScopeMatchesHistory ==
    \A s \in Sprint, i \in Issue :
        state[s] = "active" =>
            (home[i] = s <=> hist[s][i] \in {"committed", "added"})

(* Work reopened after its sprint closed goes back to the backlog: an      *)
(* issue that is open again is never left in a closed sprint.              *)
NoOpenWorkInClosedSprint ==
    \A s \in Sprint, i \in Issue :
        state[s] = "closed" /\ home[i] = s => done[i]

(* The history of a sprint is final once it is closed or cancelled: its    *)
(* reports do not change afterwards.                                       *)
ClosedHistoryIsFinal ==
    [][\A s \in Sprint : state[s] \in ClosedStates => hist'[s] = hist[s]]_vars

(* Every request gets its answer: no lock is held forever.                 *)
EveryRequestEnds == \A t \in Tx : pc[t] # "idle" ~> pc[t] = "idle"

(* The abstract board: one step per lifecycle operation.                   *)
Abstract == INSTANCE BoardLifecycle WITH phase <- state
ImplementsBoard == Abstract!Spec

============================================================================
