----------------------- MODULE SprintLifecycle_proofs -----------------------
(* Proofs about SprintLifecycle, for any boards, sprints, issues and        *)
(* number of concurrent requests.                                           *)
EXTENDS SprintLifecycle, TLAPS

(***************************************************************************)
(* The strengthening that makes the properties inductive: what a request   *)
(* past its checks still has.  It holds its sprint's row lock, so the      *)
(* state and version it checked are still there; a start that is about to  *)
(* commit without parallel sprints holds the board's lock, so no other     *)
(* sprint of the board has become active.                                  *)
(***************************************************************************)
Granted(t, states) ==
    /\ rowLock[req[t].sprint] = t
    /\ Current(t)
    /\ state[req[t].sprint] \in states

Ready(t) ==
    /\ pc[t] = "board" => req[t].op = "start"
    /\ pc[t] = "commit" => req[t].op \in {"start", "complete", "cancel", "transition"}
    /\ pc[t] = "lock" => req[t].op \in {"add", "remove", "move"}
    /\ req[t].op \in {"add", "remove", "move"} => req[t].target \in Home
    /\ pc[t] \in {"board", "commit"} /\ req[t].op = "start" => Granted(t, {"future"})
    /\ At(t, "commit", "start") /\ ~AllowParallel =>
          boardLock[BoardOf[req[t].sprint]] = t /\ ~OtherActive(req[t].sprint)
    /\ At(t, "commit", "complete") => Granted(t, {"active"})
    /\ At(t, "commit", "cancel") =>
          /\ Granted(t, {"active", "future"})
          /\ \A i \in seen[t].members : DestinationOf(t, i) # NewSprint

Inv == TypeOK /\ (\A t \in Tx : Ready(t)) /\ OneActivePerBoard

USE SprintAssumption, RequestAssumption

----------------------------------------------------------------------------
(* The values a finished request is reset to are requests and views.       *)
LEMMA IdleValues == NoRequest \in Requests /\ NoView \in Views
  <1>1. SomeSprint \in Sprint
    BY DEF SomeSprint
  <1>2. NoRequest \in Requests
    BY <1>1 DEF NoRequest, Requests, OpNames, Versions, Home, NoDisposition
  <1>3. NoView \in Views
    BY DEF NoView, Views, Home
  <1> QED BY <1>2, <1>3

(* Ending a transaction keeps the types and everyone else's locks.         *)
LEMMA FinishType ==
  ASSUME TypeOK, NEW t \in Tx, Finish(t)
  PROVE  /\ rowLock' \in [Sprint -> Tx \cup {NoTx}]
         /\ boardLock' \in [Board -> Tx \cup {NoTx}]
         /\ pc' \in [Tx -> Steps]
         /\ req' \in [Tx -> Requests]
         /\ seen' \in [Tx -> Views]
  BY IdleValues DEF TypeOK, Finish, Steps

LEMMA FinishFrame ==
  ASSUME TypeOK, NEW t \in Tx, Finish(t)
  PROVE  /\ pc'[t] = "idle"
         /\ \A u \in Tx \ {t} : pc'[u] = pc[u] /\ req'[u] = req[u] /\ seen'[u] = seen[u]
         /\ \A u \in Tx \ {t}, s \in Sprint : rowLock[s] = u => rowLock'[s] = u
         /\ \A u \in Tx \ {t}, b \in Board : boardLock[b] = u => boardLock'[b] = u
  BY DEF TypeOK, Finish

LEMMA DestinationType ==
  ASSUME TypeOK, NEW t \in Tx, NEW i \in Issue
  PROVE  DestinationOf(t, i) \in Home \cup {NewSprint}
  <1>1. req[t] \in Requests
    BY DEF TypeOK
  <1> QED BY <1>1 DEF DestinationOf, Requests

(* A request that is not the one taking the step stays ready as long as    *)
(* the sprint row it was granted is left alone and no sprint of a board it *)
(* has locked becomes active.                                              *)
LEMMA ReadyFrame ==
  ASSUME TypeOK, NEW u \in Tx, Ready(u),
         pc'[u] = pc[u], req'[u] = req[u], seen'[u] = seen[u],
         Granted(u, {"future", "active"}) =>
             /\ rowLock'[req[u].sprint] = u
             /\ state'[req[u].sprint] = state[req[u].sprint]
             /\ version'[req[u].sprint] = version[req[u].sprint],
         \A b \in Board : boardLock[b] = u => boardLock'[b] = u,
         ~AllowParallel => \A s \in Sprint :
             boardLock[BoardOf[s]] = u /\ state'[s] = "active" => state[s] = "active"
  PROVE  Ready(u)'
  <1> DEFINE s == req[u].sprint
  <1>1. s \in Sprint /\ BoardOf[s] \in Board
    BY DEF TypeOK, Requests
  <1>2. /\ Granted(u, {"future"}) => Granted(u, {"future"})'
        /\ Granted(u, {"active"}) => Granted(u, {"active"})'
        /\ Granted(u, {"active", "future"}) => Granted(u, {"active", "future"})'
    BY <1>1 DEF Granted, Current
  <1>3. ASSUME NEW i PROVE DestinationOf(u, i)' = DestinationOf(u, i)
    BY DEF DestinationOf
  <1>4. ASSUME ~AllowParallel, boardLock[BoardOf[s]] = u, ~OtherActive(s)
        PROVE  ~OtherActive(s)'
    BY <1>1, <1>4 DEF OtherActive
  <1>5. (At(u, "commit", "start") /\ ~AllowParallel =>
          boardLock[BoardOf[req[u].sprint]] = u /\ ~OtherActive(req[u].sprint))'
    BY <1>1, <1>4 DEF Ready, At, OtherActive
  <1>6. (At(u, "commit", "cancel") =>
          /\ Granted(u, {"active", "future"})
          /\ \A i \in seen[u].members : DestinationOf(u, i) # NewSprint)'
    BY <1>2, <1>3 DEF Ready, At
  <1> QED BY <1>2, <1>5, <1>6 DEF Ready, At

(* The frame for steps of t that write no sprint row.                      *)
LEMMA ReadyOthers ==
  ASSUME TypeOK, NEW t \in Tx, \A u \in Tx : Ready(u),
         UNCHANGED <<state, version>>,
         \A u \in Tx \ {t} : pc'[u] = pc[u] /\ req'[u] = req[u] /\ seen'[u] = seen[u],
         \A u \in Tx \ {t}, s \in Sprint : rowLock[s] = u => rowLock'[s] = u,
         \A u \in Tx \ {t}, b \in Board : boardLock[b] = u => boardLock'[b] = u
  PROVE  \A u \in Tx \ {t} : Ready(u)'
  <1> TAKE u \in Tx \ {t}
  <1>1. req[u].sprint \in Sprint
    BY DEF TypeOK, Requests
  <1> QED BY <1>1, ReadyFrame DEF Granted

(* The end of a transaction of t that wrote some sprint rows: none of them *)
(* was granted to u.                                                       *)
LEMMA ReadyRest ==
  ASSUME TypeOK, NEW t \in Tx, NEW u \in Tx \ {t}, Ready(u), Finish(t),
         NEW written \in SUBSET Sprint,
         \A x \in written : rowLock[x] # u \/ state[x] = "none",
         \A x \in Sprint \ written : state'[x] = state[x] /\ version'[x] = version[x],
         ~AllowParallel => \A x \in Sprint :
             boardLock[BoardOf[x]] = u /\ state'[x] = "active" => state[x] = "active"
  PROVE  Ready(u)'
  <1>1. req[u].sprint \in Sprint
    BY DEF TypeOK, Requests
  <1>2. Granted(u, {"future", "active"}) => req[u].sprint \in Sprint \ written
    BY <1>1 DEF Granted
  <1>3. Granted(u, {"future", "active"}) =>
             /\ rowLock'[req[u].sprint] = u
             /\ state'[req[u].sprint] = state[req[u].sprint]
             /\ version'[req[u].sprint] = version[req[u].sprint]
    <2>1. Granted(u, {"future", "active"}) => rowLock[req[u].sprint] = u
      BY DEF Granted
    <2> QED BY <1>1, <1>2, <2>1, FinishFrame
  <1>4. pc'[u] = pc[u] /\ req'[u] = req[u] /\ seen'[u] = seen[u]
    BY FinishFrame
  <1>5. \A b \in Board : boardLock[b] = u => boardLock'[b] = u
    BY FinishFrame
  <1> QED BY <1>3, <1>4, <1>5, ReadyFrame

(* The grant of one row lock to t.                                         *)
LEMMA ReadyLock ==
  ASSUME TypeOK, NEW t \in Tx, \A u \in Tx : Ready(u),
         NEW s \in Sprint, Free(s), Lock(t, s),
         UNCHANGED <<state, version, boardLock>>,
         \A u \in Tx \ {t} : pc'[u] = pc[u] /\ req'[u] = req[u] /\ seen'[u] = seen[u]
  PROVE  \A u \in Tx \ {t} : Ready(u)'
  <1>1. \A u \in Tx \ {t}, x \in Sprint : rowLock[x] = u => rowLock'[x] = u
    BY DEF Free, Lock, TypeOK
  <1> QED BY <1>1, ReadyOthers

(* A request that has ended asks nothing.                                  *)
LEMMA ReadyIdle ==
  ASSUME TypeOK, NEW t \in Tx, Finish(t)
  PROVE  Ready(t)'
  BY DEF TypeOK, Finish, Ready, At, NoRequest

----------------------------------------------------------------------------
(* Type correctness, one step per action.                                  *)

LEMMA InitType == Init => TypeOK
  BY IdleValues DEF Init, TypeOK, States, Events, Steps, Home

LEMMA BeginType ==
  ASSUME TypeOK, NEW t \in Tx, Begin(t)
  PROVE  TypeOK'
  <1>1. PICK r \in LifecycleRequests \cup PlanningRequests \cup TransitionRequests :
          /\ req' = [req EXCEPT ![t] = r]
          /\ pc' = [pc EXCEPT ![t] = IF r.op \in {"move", "transition"}
                                     THEN "read" ELSE "enter"]
    BY DEF Begin
  <1>2. SomeSprint \in Sprint /\ NoDisposition \in Dispositions
    BY DEF SomeSprint, NoDisposition
  <1>3. \A x \in Sprint : version[x] \in Nat
    BY DEF TypeOK
  <1>4. r \in Requests
    <2>1. CASE r \in LifecycleRequests
      <3>1. r \in [op : OpNames, sprint : Sprint, version : Versions,
                   target : Home \cup {NewSprint}, disposition : Dispositions,
                   issues : SUBSET Issue, done : BOOLEAN]
        BY <2>1, <1>3 DEF LifecycleRequests, Versions, Home
      <3> QED BY <3>1 DEF Requests
    <2>2. CASE r \in PlanningRequests
      BY <2>2, <1>2 DEF PlanningRequests, Requests, Versions, Home
    <2>3. CASE r \in TransitionRequests
      BY <2>3, <1>2 DEF TransitionRequests, Requests, Versions, Home
    <2> QED BY <1>1, <2>1, <2>2, <2>3
  <1>5. req' \in [Tx -> Requests]
    BY <1>1, <1>4 DEF TypeOK
  <1>6. pc' \in [Tx -> Steps]
    BY <1>1 DEF TypeOK, Steps
  <1> QED BY <1>5, <1>6 DEF TypeOK, Begin, db, locks

LEMMA RollbackType ==
  ASSUME TypeOK, NEW t \in Tx, Rollback(t)
  PROVE  TypeOK'
  BY FinishType DEF TypeOK, Rollback, db

(* Writing one row of each table with a value of its type.                 *)
LEMMA RowUpdate ==
  ASSUME TypeOK, NEW t \in Tx, NEW s \in Sprint
  PROVE  /\ \A v \in Views : [seen EXCEPT ![t] = v] \in [Tx -> Views]
         /\ \A x \in States : [state EXCEPT ![s] = x] \in [Sprint -> States]
         /\ \A k \in Nat : [version EXCEPT ![s] = k] \in [Sprint -> Nat]
         /\ [version EXCEPT ![s] = version[s] + 1] \in [Sprint -> Nat]
         /\ \A h \in [Issue -> Events] : [hist EXCEPT ![s] = h] \in [Sprint -> [Issue -> Events]]
         /\ \A i \in Issue : hist[s][i] \in Events
  <1>1. version[s] + 1 \in Nat
    BY DEF TypeOK
  <1> QED BY <1>1 DEF TypeOK

(* What a request may have read is a view.                                 *)
LEMMA ViewUpdate ==
  ASSUME TypeOK, NEW t \in Tx, NEW s \in Sprint
  PROVE  /\ [seen[t] EXCEPT !.members = Members(s)] \in Views
         /\ [seen[t] EXCEPT !.members = Members(s), !.finished = Finished(s)] \in Views
         /\ \A h \in [Issue -> Home] : [seen[t] EXCEPT !.home = h] \in Views
         /\ \A h \in [Issue -> Home], d \in [Issue -> BOOLEAN] :
               [seen[t] EXCEPT !.home = h, !.done = d] \in Views
  <1>1. Members(s) \subseteq Issue /\ Finished(s) \subseteq Issue
    BY DEF Members, Finished
  <1>2. seen[t] \in Views
    BY DEF TypeOK
  <1> QED BY <1>1, <1>2 DEF Views

LEMMA StartType ==
  ASSUME TypeOK, NEW t \in Tx,
         EnterStart(t) \/ LockBoard(t) \/ RefuseParallel(t) \/ CommitStart(t)
  PROVE  TypeOK'
  <1> DEFINE s == req[t].sprint
  <1>1. s \in Sprint /\ BoardOf[s] \in Board
    BY DEF TypeOK, Requests
  <1>2. CASE EnterStart(t)
    <2>1. seen' \in [Tx -> Views]
      BY <1>1, <1>2, RowUpdate, ViewUpdate DEF EnterStart
    <2>2. rowLock' \in [Sprint -> Tx \cup {NoTx}] /\ pc' \in [Tx -> Steps]
      BY <1>1, <1>2 DEF EnterStart, Lock, TypeOK, Steps
    <2> QED BY <1>2, <2>1, <2>2 DEF EnterStart, TypeOK, db
  <1>3. CASE LockBoard(t)
    BY <1>1, <1>3 DEF LockBoard, TypeOK, Steps, db
  <1>4. CASE RefuseParallel(t)
    BY <1>4, RollbackType DEF RefuseParallel
  <1>5. CASE CommitStart(t)
    <2>1. state' \in [Sprint -> States] /\ version' \in [Sprint -> Nat]
      BY <1>1, <1>5, RowUpdate DEF CommitStart, States
    <2>2. hist' \in [Sprint -> [Issue -> Events]]
      <3>1. \A i \in Issue : (IF i \in seen[t].members THEN "committed" ELSE hist[s][i]) \in Events
        BY <1>1, RowUpdate DEF Events
      <3> QED BY <1>1, <1>5, <3>1, RowUpdate DEF CommitStart
    <2> QED BY <1>5, <2>1, <2>2, FinishType DEF CommitStart, TypeOK
  <1> QED BY <1>2, <1>3, <1>4, <1>5

LEMMA CompleteType ==
  ASSUME TypeOK, NEW t \in Tx, EnterComplete(t) \/ CommitComplete(t)
  PROVE  TypeOK'
  <1> DEFINE s == req[t].sprint
  <1>1. s \in Sprint
    BY DEF TypeOK, Requests
  <1>2. CASE EnterComplete(t)
    <2>1. seen' \in [Tx -> Views]
      <3>1. seen' = [seen EXCEPT ![t] =
                        [seen[t] EXCEPT !.members = Members(s), !.finished = Finished(s)]]
        BY <1>2 DEF EnterComplete, TypeOK
      <3> QED BY <1>1, <3>1, RowUpdate, ViewUpdate
    <2>2. rowLock' \in [Sprint -> Tx \cup {NoTx}] /\ pc' \in [Tx -> Steps]
      BY <1>1, <1>2 DEF EnterComplete, Lock, TypeOK, Steps
    <2> QED BY <1>2, <2>1, <2>2 DEF EnterComplete, TypeOK, db
  <1>3. CASE CommitComplete(t)
    <2>1. PICK n \in Sprint :
            /\ state' = [[state EXCEPT ![n] = "future"] EXCEPT ![s] = "closed"]
            /\ version' = [[version EXCEPT ![n] = 1] EXCEPT ![s] = version[s] + 1]
            /\ home' = [i \in Issue |->
                          IF i \notin Unfinished(t) THEN home[i]
                          ELSE IF DestinationOf(t, i) = NewSprint THEN n
                          ELSE DestinationOf(t, i)]
      BY <1>3 DEF CommitComplete
    <2>2. state' \in [Sprint -> States] /\ version' \in [Sprint -> Nat]
      <3>1. version[s] + 1 \in Nat
        <4>1. version[s] \in Nat
          BY <1>1 DEF TypeOK
        <4> QED BY <4>1
      <3>2. [version EXCEPT ![n] = 1] \in [Sprint -> Nat]
        BY <2>1, <3>1 DEF TypeOK
      <3>3. version' \in [Sprint -> Nat]
        BY <1>1, <2>1, <3>1, <3>2
      <3>4. state' \in [Sprint -> States]
        BY <1>1, <2>1 DEF TypeOK, States
      <3> QED BY <3>3, <3>4
    <2>3. home' \in [Issue -> Home]
      BY <2>1, DestinationType DEF TypeOK, Home
    <2>4. hist' \in [Sprint -> [Issue -> Events]]
      <3>1. \A i \in Issue : (IF i \in seen[t].finished THEN "completed"
                              ELSE IF i \in seen[t].members THEN "carried_over"
                              ELSE hist[s][i]) \in Events
        BY <1>1, RowUpdate DEF Events
      <3>2. hist' = [hist EXCEPT ![s] =
                       [i \in Issue |-> IF i \in seen[t].finished THEN "completed"
                                        ELSE IF i \in seen[t].members THEN "carried_over"
                                        ELSE @[i]]]
        BY <1>3 DEF CommitComplete
      <3> QED BY <1>1, <3>1, <3>2, RowUpdate
    <2>5. Finish(t) /\ UNCHANGED <<done, subsDone>>
      BY <1>3 DEF CommitComplete
    <2> QED BY <2>2, <2>3, <2>4, <2>5, FinishType DEF TypeOK
  <1> QED BY <1>2, <1>3

LEMMA CancelType ==
  ASSUME TypeOK, NEW t \in Tx, Ready(t), EnterCancel(t) \/ CommitCancel(t)
  PROVE  TypeOK'
  <1> DEFINE s == req[t].sprint
  <1>1. s \in Sprint
    BY DEF TypeOK, Requests
  <1>2. CASE EnterCancel(t)
    <2>1. seen' \in [Tx -> Views]
      BY <1>1, <1>2, RowUpdate, ViewUpdate DEF EnterCancel
    <2>2. rowLock' \in [Sprint -> Tx \cup {NoTx}] /\ pc' \in [Tx -> Steps]
      BY <1>1, <1>2 DEF EnterCancel, Lock, TypeOK, Steps
    <2> QED BY <1>2, <2>1, <2>2 DEF EnterCancel, TypeOK, db
  <1>3. CASE CommitCancel(t)
    <2>1. \A i \in seen[t].members : DestinationOf(t, i) # NewSprint
      BY <1>3 DEF CommitCancel, Ready
    <2>2. state' \in [Sprint -> States] /\ version' \in [Sprint -> Nat]
      BY <1>1, <1>3, RowUpdate DEF CommitCancel, States
    <2>3. home' \in [Issue -> Home]
      BY <1>3, <2>1, DestinationType DEF CommitCancel, TypeOK, Home
    <2>4. hist' \in [Sprint -> [Issue -> Events]]
      <3>1. \A i \in Issue : (IF i \in seen[t].members /\ state[s] = "active"
                              THEN "removed" ELSE hist[s][i]) \in Events
        BY <1>1, RowUpdate DEF Events
      <3> QED BY <1>1, <1>3, <3>1, RowUpdate DEF CommitCancel
    <2>5. Finish(t) /\ UNCHANGED <<done, subsDone>>
      BY <1>3 DEF CommitCancel
    <2> QED BY <2>2, <2>3, <2>4, <2>5, FinishType DEF TypeOK
  <1> QED BY <1>2, <1>3

LEMMA LoadIssuesType ==
  ASSUME TypeOK, NEW t \in Tx, LoadIssues(t)
  PROVE  seen' \in [Tx -> Views]
  <1>1. [i \in Issue |-> IF i \in req[t].issues THEN home[i] ELSE Backlog] \in [Issue -> Home]
    BY DEF TypeOK, Home
  <1>2. PICK s \in Sprint : TRUE
    OBVIOUS
  <1> QED BY <1>1, <1>2, RowUpdate, ViewUpdate DEF LoadIssues

LEMMA PlanningType ==
  ASSUME TypeOK, NEW t \in Tx, Ready(t),
         \/ EnterAdd(t) \/ EnterRemove(t) \/ ReadMove(t)
         \/ LockNext(t) \/ CommitMove(t) \/ RefuseMove(t)
  PROVE  TypeOK'
  <1>1. req[t].sprint \in Sprint
    BY DEF TypeOK, Requests
  <1>2. CASE EnterAdd(t)
    BY <1>1, <1>2, LoadIssuesType DEF EnterAdd, Lock, TypeOK, Steps, db
  <1>3. CASE EnterRemove(t)
    BY <1>1, <1>3, LoadIssuesType DEF EnterRemove, Lock, TypeOK, Steps, db
  <1>4. CASE ReadMove(t)
    BY <1>4, LoadIssuesType DEF ReadMove, TypeOK, Steps, db, locks
  <1>5. CASE LockNext(t)
    <2>1. PICK x \in Unlocked(t) : Lock(t, x)
      BY <1>5 DEF LockNext
    <2>2. x \in Sprint
      BY DEF Unlocked, LockSet
    <2> QED BY <1>5, <2>1, <2>2 DEF LockNext, Lock, TypeOK, db
  <1>6. CASE CommitMove(t)
    <2>1. hist' \in [Sprint -> [Issue -> Events]]
      BY <1>6 DEF CommitMove, RecordMove, TypeOK, Events
    <2>2. req[t].target \in Home
      BY <1>6 DEF CommitMove, Ready
    <2>3. home' \in [Issue -> Home]
      BY <1>6, <2>2 DEF CommitMove, TypeOK
    <2> QED BY <1>6, <2>1, <2>3, FinishType DEF CommitMove, TypeOK
  <1>7. CASE RefuseMove(t)
    BY <1>7, RollbackType DEF RefuseMove
  <1> QED BY <1>2, <1>3, <1>4, <1>5, <1>6, <1>7

LEMMA NextType ==
  ASSUME TypeOK, \A t \in Tx : Ready(t), [Next]_vars
  PROVE  TypeOK'
  <1>1. ASSUME NEW t \in Tx, Begin(t) PROVE TypeOK'
    BY <1>1, BeginType
  <1>2. ASSUME NEW t \in Tx, Step(t) PROVE TypeOK'
    <2>1. CASE UpdateSprint(t)
      <3>1. req[t].sprint \in Sprint
        BY DEF TypeOK, Requests
      <3>2. version' \in [Sprint -> Nat]
        <4>1. version' = [version EXCEPT ![req[t].sprint] = version[req[t].sprint] + 1]
          BY <2>1 DEF UpdateSprint
        <4> QED BY <3>1, <4>1, RowUpdate
      <3>3. Finish(t) /\ UNCHANGED <<state, home, done, subsDone, hist>>
        BY <2>1 DEF UpdateSprint
      <3> QED BY <3>2, <3>3, FinishType DEF TypeOK
    <2>2. CASE ReadTransition(t)
      <3> DEFINE h == [i \in Issue |-> IF i \in req[t].issues THEN home[i] ELSE Backlog]
                 d == [i \in Issue |-> i \in req[t].issues /\ done[i]]
      <3>1. h \in [Issue -> Home]
        BY DEF TypeOK, Home
      <3>2. d \in [Issue -> BOOLEAN]
        OBVIOUS
      <3>3. PICK s \in Sprint : TRUE
        OBVIOUS
      <3>4. seen' = [seen EXCEPT ![t] = [seen[t] EXCEPT !.home = h, !.done = d]]
        BY <2>2 DEF ReadTransition, TypeOK
      <3> HIDE DEF h, d
      <3>5. seen' \in [Tx -> Views]
        BY <3>1, <3>2, <3>3, <3>4, RowUpdate, ViewUpdate
      <3> QED BY <2>2, <3>5 DEF ReadTransition, TypeOK, Steps, db, locks
    <2>3. CASE CommitTransition(t)
      <3>1. req[t].done \in BOOLEAN
        BY DEF TypeOK, Requests
      <3> QED BY <2>3, <3>1, FinishType DEF CommitTransition, TypeOK, Home
    <2>4. CASE Refuse(t) \/ AbortDeadlock(t)
      BY <2>4, RollbackType DEF Refuse, AbortDeadlock
    <2> QED BY <1>2, <2>1, <2>2, <2>3, <2>4, StartType, CompleteType, CancelType,
               PlanningType DEF Step
  <1>3. ASSUME NEW t \in Tx, Fail(t) PROVE TypeOK'
    BY <1>3, RollbackType DEF Fail
  <1>4. ASSUME NEW s \in Sprint, CreateSprint(s) PROVE TypeOK'
    BY <1>4 DEF CreateSprint, TypeOK, States, locks
  <1>5. ASSUME NEW i \in Issue, TransitionSubtask(i) PROVE TypeOK'
    BY <1>5 DEF TransitionSubtask, TypeOK, locks
  <1>6. CASE UNCHANGED vars
    BY <1>6 DEF vars, TypeOK
  <1> QED BY <1>1, <1>2, <1>3, <1>4, <1>5, <1>6 DEF Next

----------------------------------------------------------------------------
(* Ready is preserved, one step per action.                                *)

LEMMA RollbackReady ==
  ASSUME TypeOK, NEW t \in Tx, \A u \in Tx : Ready(u), Rollback(t)
  PROVE  \A u \in Tx : Ready(u)'
  <1>1. Finish(t) /\ UNCHANGED <<state, version>>
    BY DEF Rollback, db
  <1>2. \A u \in Tx \ {t} : Ready(u)'
    BY <1>1, FinishFrame, ReadyOthers
  <1> QED BY <1>1, <1>2, ReadyIdle

LEMMA BeginReady ==
  ASSUME TypeOK, NEW t \in Tx, \A u \in Tx : Ready(u), Begin(t)
  PROVE  \A u \in Tx : Ready(u)'
  <1>1. PICK r \in LifecycleRequests \cup PlanningRequests \cup TransitionRequests :
          /\ req' = [req EXCEPT ![t] = r]
          /\ pc' = [pc EXCEPT ![t] = IF r.op \in {"move", "transition"}
                                     THEN "read" ELSE "enter"]
    BY DEF Begin
  <1>2. r.op \in {"add", "remove", "move"} => r.target \in Home
    BY <1>1 DEF LifecycleRequests, PlanningRequests, TransitionRequests
  <1>3. req'[t] = r /\ pc'[t] \in {"read", "enter"}
    BY <1>1 DEF TypeOK
  <1>4. Ready(t)'
    BY <1>2, <1>3 DEF Ready, At
  <1>5. \A u \in Tx \ {t} : Ready(u)'
    BY <1>1, ReadyOthers DEF Begin, db, locks, TypeOK
  <1> QED BY <1>4, <1>5

LEMMA StartReady ==
  ASSUME TypeOK, NEW t \in Tx, \A u \in Tx : Ready(u),
         EnterStart(t) \/ LockBoard(t) \/ RefuseParallel(t) \/ CommitStart(t)
  PROVE  \A u \in Tx : Ready(u)'
  <1> DEFINE s == req[t].sprint
  <1>1. s \in Sprint /\ BoardOf[s] \in Board
    BY DEF TypeOK, Requests
  <1>2. CASE EnterStart(t)
    <2>1. \A u \in Tx \ {t} : Ready(u)'
      BY <1>1, <1>2, ReadyLock DEF EnterStart, TypeOK, db
    <2>2. Ready(t)'
      BY <1>1, <1>2 DEF EnterStart, MayStart, Lock, TypeOK, Ready, At, Granted, Current, db
    <2> QED BY <2>1, <2>2
  <1>3. CASE LockBoard(t)
    <2>1. \A u \in Tx \ {t} : Ready(u)'
      BY <1>1, <1>3, ReadyOthers DEF LockBoard, TypeOK, db
    <2>2. Ready(t)'
      BY <1>1, <1>3 DEF LockBoard, OtherActive, TypeOK, Ready, At, Granted, Current, db
    <2> QED BY <2>1, <2>2
  <1>4. CASE RefuseParallel(t)
    BY <1>4, RollbackReady DEF RefuseParallel
  <1>5. CASE CommitStart(t)
    <2>1. Finish(t) /\ rowLock[s] = t
      BY <1>5 DEF CommitStart, Ready, At, Granted
    <2>2. ~AllowParallel => boardLock[BoardOf[s]] = t
      BY <1>5 DEF CommitStart, Ready
    <2>3. ASSUME NEW u \in Tx \ {t} PROVE Ready(u)'
      <3>1. \A x \in Sprint \ {s} : state'[x] = state[x] /\ version'[x] = version[x]
        BY <1>5 DEF CommitStart, TypeOK
      <3>2. ~AllowParallel => \A x \in Sprint :
              boardLock[BoardOf[x]] = u /\ state'[x] = "active" => state[x] = "active"
        BY <2>2, <3>1
      <3>3. \A x \in {s} : rowLock[x] # u \/ state[x] = "none"
        BY <2>1
      <3>4. {s} \in SUBSET Sprint /\ Ready(u)
        BY <1>1
      <3> QED BY <2>1, <3>1, <3>2, <3>3, <3>4, ReadyRest
    <2> QED BY <2>1, <2>3, ReadyIdle
  <1> QED BY <1>2, <1>3, <1>4, <1>5

LEMMA CompleteReady ==
  ASSUME TypeOK, NEW t \in Tx, \A u \in Tx : Ready(u),
         EnterComplete(t) \/ CommitComplete(t)
  PROVE  \A u \in Tx : Ready(u)'
  <1> DEFINE s == req[t].sprint
  <1>1. s \in Sprint
    BY DEF TypeOK, Requests
  <1>2. CASE EnterComplete(t)
    <2>1. \A u \in Tx \ {t} : Ready(u)'
      BY <1>1, <1>2, ReadyLock DEF EnterComplete, TypeOK, db
    <2>2. Ready(t)'
      BY <1>1, <1>2 DEF EnterComplete, MayComplete, Lock, TypeOK, Ready, At, Granted, Current, db
    <2> QED BY <2>1, <2>2
  <1>3. CASE CommitComplete(t)
    <2>1. Finish(t) /\ rowLock[s] = t
      BY <1>3 DEF CommitComplete, Ready, At, Granted
    <2>2. PICK n \in Sprint :
            /\ state[n] = "none" \/ n = s
            /\ state' = [[state EXCEPT ![n] = "future"] EXCEPT ![s] = "closed"]
            /\ version' = [[version EXCEPT ![n] = 1] EXCEPT ![s] = version[s] + 1]
      BY <1>3 DEF CommitComplete
    <2>3. ASSUME NEW u \in Tx \ {t} PROVE Ready(u)'
      <3>1. \A x \in {s, n} : rowLock[x] # u \/ state[x] = "none"
        BY <2>1, <2>2
      <3>2. \A x \in Sprint \ {s, n} : state'[x] = state[x] /\ version'[x] = version[x]
        BY <2>2 DEF TypeOK
      <3>3. \A x \in Sprint : state'[x] = "active" => state[x] = "active"
        BY <1>1, <2>2 DEF TypeOK
      <3>4. {s, n} \in SUBSET Sprint /\ Ready(u)
        BY <1>1
      <3>5. ~AllowParallel => \A x \in Sprint :
              boardLock[BoardOf[x]] = u /\ state'[x] = "active" => state[x] = "active"
        BY <3>3
      <3>6. Finish(t)
        BY <2>1
      <3> QED BY <3>1, <3>2, <3>3, <3>4, <3>5, <3>6, ReadyRest
    <2> QED BY <2>1, <2>3, ReadyIdle
  <1> QED BY <1>2, <1>3

LEMMA CancelReady ==
  ASSUME TypeOK, NEW t \in Tx, \A u \in Tx : Ready(u),
         EnterCancel(t) \/ CommitCancel(t)
  PROVE  \A u \in Tx : Ready(u)'
  <1> DEFINE s == req[t].sprint
  <1>1. s \in Sprint
    BY DEF TypeOK, Requests
  <1>2. CASE EnterCancel(t)
    <2>1. \A u \in Tx \ {t} : Ready(u)'
      BY <1>1, <1>2, ReadyLock DEF EnterCancel, TypeOK, db
    <2>2. req' = req /\ seen'[t].members = Members(s)
      BY <1>2 DEF EnterCancel, TypeOK, Views
    <2>3. \A i \in seen'[t].members : DestinationOf(t, i)' # NewSprint
      BY <1>2, <2>2 DEF EnterCancel, MayCancel, DestinationOf
    <2>4. Granted(t, {"active", "future"})'
      BY <1>1, <1>2 DEF EnterCancel, MayCancel, Lock, TypeOK, Granted, Current, db
    <2>5. pc'[t] = "commit" /\ req'[t].op = "cancel"
      BY <1>2 DEF EnterCancel, At, TypeOK
    <2>6. Ready(t)'
      BY <2>3, <2>4, <2>5 DEF Ready, At
    <2> QED BY <2>1, <2>6
  <1>3. CASE CommitCancel(t)
    <2>1. Finish(t) /\ rowLock[s] = t
      BY <1>3 DEF CommitCancel, Ready, At, Granted
    <2>2. ASSUME NEW u \in Tx \ {t} PROVE Ready(u)'
      <3>1. \A x \in Sprint \ {s} : state'[x] = state[x] /\ version'[x] = version[x]
        BY <1>3 DEF CommitCancel, TypeOK
      <3>2. \A x \in Sprint : state'[x] = "active" => state[x] = "active"
        BY <1>1, <1>3 DEF CommitCancel, TypeOK
      <3>3. \A x \in {s} : rowLock[x] # u \/ state[x] = "none"
        BY <2>1
      <3>4. {s} \in SUBSET Sprint /\ Ready(u)
        BY <1>1
      <3>5. ~AllowParallel => \A x \in Sprint :
              boardLock[BoardOf[x]] = u /\ state'[x] = "active" => state[x] = "active"
        BY <3>2
      <3>6. Finish(t)
        BY <2>1
      <3> QED BY <3>1, <3>2, <3>3, <3>4, <3>5, <3>6, ReadyRest
    <2> QED BY <2>1, <2>2, ReadyIdle
  <1> QED BY <1>2, <1>3

LEMMA PlanningReady ==
  ASSUME TypeOK, NEW t \in Tx, \A u \in Tx : Ready(u),
         \/ EnterAdd(t) \/ EnterRemove(t) \/ ReadMove(t)
         \/ LockNext(t) \/ CommitMove(t) \/ RefuseMove(t)
  PROVE  \A u \in Tx : Ready(u)'
  <1>1. CASE EnterAdd(t) \/ EnterRemove(t)
    <2>1. \A u \in Tx \ {t} : Ready(u)'
      <3>1. req[t].sprint \in Sprint
        BY DEF TypeOK, Requests
      <3> QED BY <1>1, <3>1, ReadyLock DEF EnterAdd, EnterRemove, LoadIssues, TypeOK, db
    <2>2. Ready(t)'
      BY <1>1 DEF EnterAdd, EnterRemove, TypeOK, Ready, At
    <2> QED BY <2>1, <2>2
  <1>2. CASE ReadMove(t)
    <2>1. \A u \in Tx \ {t} : Ready(u)'
      BY <1>2, ReadyOthers DEF ReadMove, LoadIssues, TypeOK, db, locks
    <2>2. Ready(t)'
      BY <1>2 DEF ReadMove, TypeOK, Ready, At
    <2> QED BY <2>1, <2>2
  <1>3. CASE LockNext(t)
    <2>1. PICK x \in Unlocked(t) : Free(x) /\ Lock(t, x)
      BY <1>3 DEF LockNext
    <2>2. \A u \in Tx \ {t}, y \in Sprint : rowLock[y] = u => rowLock'[y] = u
      BY <2>1 DEF Free, Lock, TypeOK
    <2>3. \A u \in Tx \ {t} : Ready(u)'
      BY <1>3, <2>2, ReadyOthers DEF LockNext, db
    <2>4. Ready(t)'
      BY <1>3 DEF LockNext, Ready, At
    <2> QED BY <2>3, <2>4
  <1>4. CASE CommitMove(t)
    <2>1. Finish(t) /\ UNCHANGED <<state, version>>
      BY <1>4 DEF CommitMove
    <2> QED BY <2>1, FinishFrame, ReadyOthers, ReadyIdle
  <1>5. CASE RefuseMove(t)
    BY <1>5, RollbackReady DEF RefuseMove
  <1> QED BY <1>1, <1>2, <1>3, <1>4, <1>5

LEMMA UpdateReady ==
  ASSUME TypeOK, NEW t \in Tx, \A u \in Tx : Ready(u), UpdateSprint(t)
  PROVE  \A u \in Tx : Ready(u)'
  <1> DEFINE s == req[t].sprint
  <1>1. Finish(t) /\ rowLock[s] = NoTx /\ state' = state
    BY DEF UpdateSprint, Free
  <1>2. ASSUME NEW u \in Tx \ {t} PROVE Ready(u)'
    <2>1. \A x \in {s} : rowLock[x] # u \/ state[x] = "none"
      BY <1>1
    <2>2. \A x \in Sprint \ {s} : version'[x] = version[x]
      BY DEF UpdateSprint, TypeOK
    <2>3. {s} \in SUBSET Sprint /\ Ready(u)
      BY DEF TypeOK, Requests
    <2>4. ~AllowParallel => \A x \in Sprint :
            boardLock[BoardOf[x]] = u /\ state'[x] = "active" => state[x] = "active"
      BY <1>1
    <2>5. \A x \in Sprint \ {s} : state'[x] = state[x] /\ version'[x] = version[x]
      BY <1>1, <2>2
    <2> QED BY <1>1, <2>1, <2>3, <2>4, <2>5, ReadyRest
  <1> QED BY <1>1, <1>2, ReadyIdle

LEMMA CreateReady ==
  ASSUME TypeOK, \A u \in Tx : Ready(u), NEW s \in Sprint, CreateSprint(s)
  PROVE  \A u \in Tx : Ready(u)'
  <1> TAKE u \in Tx
  <1>1. req[u].sprint \in Sprint
    BY DEF TypeOK, Requests
  <1>2. Granted(u, {"future", "active"}) => req[u].sprint # s
    BY DEF Granted, CreateSprint
  <1>3. \A x \in Sprint \ {s} : state'[x] = state[x] /\ version'[x] = version[x]
    BY DEF CreateSprint, TypeOK
  <1>4. \A x \in Sprint : state'[x] = "active" => state[x] = "active"
    BY DEF CreateSprint, TypeOK
  <1> QED BY <1>1, <1>2, <1>3, <1>4, ReadyFrame DEF Granted, CreateSprint, locks

LEMMA NextReady ==
  ASSUME TypeOK, \A u \in Tx : Ready(u), [Next]_vars
  PROVE  \A u \in Tx : Ready(u)'
  <1>1. ASSUME NEW t \in Tx, Begin(t) PROVE \A u \in Tx : Ready(u)'
    BY <1>1, BeginReady
  <1>2. ASSUME NEW t \in Tx, Step(t) PROVE \A u \in Tx : Ready(u)'
    <2>1. CASE ReadTransition(t)
      <3>1. \A u \in Tx \ {t} : Ready(u)'
        BY <2>1, ReadyOthers DEF ReadTransition, TypeOK, db, locks
      <3>2. Ready(t)'
        BY <2>1 DEF ReadTransition, TypeOK, Ready, At
      <3> QED BY <3>1, <3>2
    <2>2. CASE CommitTransition(t)
      <3>1. Finish(t) /\ UNCHANGED <<state, version>>
        BY <2>2 DEF CommitTransition
      <3> QED BY <3>1, FinishFrame, ReadyOthers, ReadyIdle
    <2>3. CASE Refuse(t) \/ AbortDeadlock(t)
      BY <2>3, RollbackReady DEF Refuse, AbortDeadlock
    <2> QED BY <1>2, <2>1, <2>2, <2>3, StartReady, CompleteReady, CancelReady,
               PlanningReady, UpdateReady DEF Step
  <1>3. ASSUME NEW t \in Tx, Fail(t) PROVE \A u \in Tx : Ready(u)'
    BY <1>3, RollbackReady DEF Fail
  <1>4. ASSUME NEW s \in Sprint, CreateSprint(s) PROVE \A u \in Tx : Ready(u)'
    BY <1>4, CreateReady
  <1>5. ASSUME UNCHANGED <<state, version, rowLock, boardLock, pc, req, seen>>
        PROVE  \A u \in Tx : Ready(u)'
    BY <1>5 DEF Ready, At, Granted, Current, OtherActive, DestinationOf
  <1>6. ASSUME NEW i \in Issue, TransitionSubtask(i) PROVE \A u \in Tx : Ready(u)'
    BY <1>5, <1>6 DEF TransitionSubtask, locks
  <1>7. CASE UNCHANGED vars
    BY <1>5, <1>7 DEF vars
  <1> QED BY <1>1, <1>2, <1>3, <1>4, <1>6, <1>7 DEF Next

----------------------------------------------------------------------------
(* The theorems.                                                           *)

(* Only a commit of start, complete or cancel, or a new sprint, writes the *)
(* state column.                                                           *)
LEMMA StateWriters ==
  ASSUME [Next]_vars
  PROVE  \/ state' = state
         \/ \E t \in Tx : CommitStart(t) \/ CommitComplete(t) \/ CommitCancel(t)
         \/ \E s \in Sprint : CreateSprint(s)
  <1>1. ASSUME NEW t \in Tx, Begin(t) \/ Fail(t) PROVE state' = state
    BY <1>1 DEF Begin, Fail, Rollback, db
  <1>2. ASSUME NEW t \in Tx, Step(t)
        PROVE  state' = state \/ CommitStart(t) \/ CommitComplete(t) \/ CommitCancel(t)
    BY <1>2 DEF Step, EnterStart, LockBoard, RefuseParallel, EnterComplete, EnterCancel,
                UpdateSprint, EnterAdd, EnterRemove, ReadMove, LockNext, CommitMove,
                RefuseMove, ReadTransition, CommitTransition, Refuse, AbortDeadlock,
                Rollback, db
  <1>3. ASSUME NEW i \in Issue, TransitionSubtask(i) PROVE state' = state
    BY <1>3 DEF TransitionSubtask
  <1>4. CASE UNCHANGED vars
    BY <1>4 DEF vars
  <1> QED BY <1>1, <1>2, <1>3, <1>4 DEF Next

(* What each of them does to it.                                           *)
LEMMA StartEffect ==
  ASSUME TypeOK, NEW t \in Tx, Ready(t), CommitStart(t)
  PROVE  LET s == req[t].sprint IN
         /\ s \in Sprint /\ state[s] = "future"
         /\ pc[t] = "commit" /\ Current(t)
         /\ AllowParallel \/ ~OtherActive(s)
         /\ state' = [state EXCEPT ![s] = "active"]
         /\ version'[s] = version[s] + 1
  <1> DEFINE s == req[t].sprint
  <1>1. s \in Sprint
    BY DEF TypeOK, Requests
  <1>2. Granted(t, {"future"}) /\ (AllowParallel \/ ~OtherActive(s))
    BY DEF CommitStart, Ready, At
  <1>3. version'[s] = version[s] + 1
    BY <1>1 DEF CommitStart, TypeOK
  <1> QED BY <1>1, <1>2, <1>3 DEF CommitStart, At, Granted

LEMMA CompleteEffect ==
  ASSUME TypeOK, NEW t \in Tx, Ready(t), CommitComplete(t)
  PROVE  LET s == req[t].sprint IN
         /\ s \in Sprint /\ state[s] = "active"
         /\ pc[t] = "commit" /\ Current(t)
         /\ version'[s] = version[s] + 1
         /\ \E n \in Sprint :
               /\ n = s \/ (state[n] = "none" /\ BoardOf[n] = BoardOf[s])
               /\ state' = [[state EXCEPT ![n] = "future"] EXCEPT ![s] = "closed"]
  <1> DEFINE s == req[t].sprint
  <1>1. s \in Sprint
    BY DEF TypeOK, Requests
  <1>2. Granted(t, {"active"})
    BY DEF CommitComplete, Ready
  <1>3. PICK n \in Sprint :
          /\ n = s \/ (state[n] = "none" /\ BoardOf[n] = BoardOf[s])
          /\ state' = [[state EXCEPT ![n] = "future"] EXCEPT ![s] = "closed"]
          /\ version' = [[version EXCEPT ![n] = 1] EXCEPT ![s] = version[s] + 1]
    BY DEF CommitComplete
  <1>4. version'[s] = version[s] + 1
    BY <1>1, <1>3 DEF TypeOK
  <1> QED BY <1>1, <1>2, <1>3, <1>4 DEF CommitComplete, At, Granted

LEMMA CancelEffect ==
  ASSUME TypeOK, NEW t \in Tx, Ready(t), CommitCancel(t)
  PROVE  LET s == req[t].sprint IN
         /\ s \in Sprint /\ state[s] \in {"future", "active"}
         /\ pc[t] = "commit" /\ Current(t)
         /\ state' = [state EXCEPT ![s] = "cancelled"]
         /\ version'[s] = version[s] + 1
  <1> DEFINE s == req[t].sprint
  <1>1. s \in Sprint
    BY DEF TypeOK, Requests
  <1>2. Granted(t, {"active", "future"})
    BY DEF CommitCancel, Ready
  <1>3. version'[s] = version[s] + 1
    BY <1>1 DEF CommitCancel, TypeOK
  <1> QED BY <1>1, <1>2, <1>3 DEF CommitCancel, At, Granted

LEMMA NextOneActive ==
  ASSUME Inv, [Next]_vars
  PROVE  OneActivePerBoard'
  <1>1. CASE \A x \in Sprint : state'[x] = "active" => state[x] = "active"
    BY <1>1 DEF Inv, OneActivePerBoard
  <1>2. ASSUME NEW t \in Tx, CommitStart(t) PROVE OneActivePerBoard'
    <2> DEFINE s == req[t].sprint
    <2>1. /\ s \in Sprint /\ state' = [state EXCEPT ![s] = "active"]
          /\ AllowParallel \/ ~OtherActive(s)
      BY <1>2, StartEffect DEF Inv
    <2>2. \A x \in Sprint \ {s} : state'[x] = state[x]
      BY <2>1 DEF Inv, TypeOK
    <2> QED BY <2>1, <2>2 DEF Inv, OneActivePerBoard, OtherActive
  <1>3. ASSUME NEW t \in Tx, CommitComplete(t) \/ CommitCancel(t)
        PROVE  \A x \in Sprint : state'[x] = "active" => state[x] = "active"
    <2>1. CASE CommitComplete(t)
      <3>1. PICK n \in Sprint :
              state' = [[state EXCEPT ![n] = "future"] EXCEPT ![req[t].sprint] = "closed"]
        BY <2>1 DEF CommitComplete
      <3> QED BY <3>1 DEF Inv, TypeOK
    <2>2. CASE CommitCancel(t)
      <3>1. state' = [state EXCEPT ![req[t].sprint] = "cancelled"]
        BY <2>2 DEF CommitCancel
      <3> QED BY <3>1 DEF Inv, TypeOK
    <2> QED BY <1>3, <2>1, <2>2
  <1>4. ASSUME NEW s \in Sprint, CreateSprint(s)
        PROVE  \A x \in Sprint : state'[x] = "active" => state[x] = "active"
    BY <1>4 DEF CreateSprint, Inv, TypeOK
  <1> QED BY <1>1, <1>2, <1>3, <1>4, StateWriters

(* Inv holds initially and every step preserves it.                        *)
LEMMA Invariance == Spec => []Inv
  <1>1. Init => Inv
    <2> SUFFICES ASSUME Init PROVE Inv
      OBVIOUS
    <2>1. TypeOK
      BY InitType
    <2>2. \A t \in Tx : Ready(t)
      BY DEF Init, Ready, At, NoRequest
    <2>3. OneActivePerBoard
      BY DEF Init, OneActivePerBoard
    <2> QED BY <2>1, <2>2, <2>3 DEF Inv
  <1>2. Inv /\ [Next]_vars => Inv'
    <2> SUFFICES ASSUME Inv, [Next]_vars PROVE Inv'
      OBVIOUS
    <2>1. TypeOK /\ \A t \in Tx : Ready(t)
      BY DEF Inv
    <2>2. TypeOK'
      BY <2>1, NextType
    <2>3. \A t \in Tx : Ready(t)'
      BY <2>1, NextReady
    <2>4. OneActivePerBoard'
      BY NextOneActive
    <2> QED BY <2>2, <2>3, <2>4 DEF Inv
  <1> QED BY <1>1, <1>2, PTL DEF Spec

(* Every variable keeps its type: sprint_id never names something that is  *)
(* not a sprint or the backlog, whatever requests interleave.              *)
THEOREM TypeCorrect == Spec => []TypeOK
  <1>1. Inv => TypeOK
    BY DEF Inv
  <1> QED BY <1>1, Invariance, PTL

(* At most one sprint of a board is active, for any number of boards,      *)
(* sprints and concurrent requests.                                        *)
THEOREM OneActive == Spec => []OneActivePerBoard
  <1>1. Inv => OneActivePerBoard
    BY DEF Inv
  <1> QED BY <1>1, Invariance, PTL

(* A lifecycle step is taken by a request that saw the version it bumps.   *)
THEOREM LifecycleSeen == Spec => LifecycleFromSeenVersion
  <1> DEFINE Seen == \A s \in Sprint :
               state[s] # "none" /\ state'[s] # state[s] =>
                   /\ version'[s] = version[s] + 1
                   /\ \E t \in Tx : /\ pc[t] = "commit" /\ req[t].sprint = s
                                    /\ req[t].version \in {AnyVersion, version[s]}
  <1>1. Inv /\ [Next]_vars => Seen
    <2> SUFFICES ASSUME Inv, [Next]_vars, NEW s \in Sprint,
                        state[s] # "none", state'[s] # state[s]
                 PROVE  /\ version'[s] = version[s] + 1
                        /\ \E t \in Tx : /\ pc[t] = "commit" /\ req[t].sprint = s
                                         /\ req[t].version \in {AnyVersion, version[s]}
      OBVIOUS
    <2>1. ASSUME NEW t \in Tx, CommitStart(t) \/ CommitComplete(t) \/ CommitCancel(t)
          PROVE  /\ req[t].sprint = s /\ pc[t] = "commit" /\ Current(t)
                 /\ version'[s] = version[s] + 1
      <3>1. CASE CommitStart(t)
        BY <3>1, StartEffect DEF Inv, TypeOK
      <3>2. CASE CommitComplete(t)
        BY <3>2, CompleteEffect DEF Inv, TypeOK
      <3>3. CASE CommitCancel(t)
        BY <3>3, CancelEffect DEF Inv, TypeOK
      <3> QED BY <2>1, <3>1, <3>2, <3>3
    <2>2. ~\E x \in Sprint : CreateSprint(x)
      BY DEF CreateSprint, Inv, TypeOK
    <2> QED BY <2>1, <2>2, StateWriters DEF Current
  <1>2. Inv /\ [Next]_vars => [Seen]_vars
    BY <1>1
  <1> QED BY <1>2, Invariance, PTL DEF Spec, LifecycleFromSeenVersion

(* The sprints of the concurrent program go through the phases of the      *)
(* abstract board and no others.                                           *)
THEOREM Implements == Spec => ImplementsBoard
  <1>1. Init => Abstract!Init
    BY DEF Init, Abstract!Init
  <1>2. Inv /\ [Next]_vars => [Abstract!Next]_state
    <2> SUFFICES ASSUME Inv, [Next]_vars, state' # state PROVE Abstract!Next
      OBVIOUS
    <2>1. ASSUME NEW t \in Tx, CommitStart(t) PROVE Abstract!Next
      <3>1. Abstract!Start(req[t].sprint) /\ req[t].sprint \in Sprint
        BY <2>1, StartEffect DEF Inv, Abstract!Start, OtherActive
      <3> QED BY <3>1 DEF Abstract!Next
    <2>2. ASSUME NEW t \in Tx, CommitComplete(t) PROVE Abstract!Next
      <3> DEFINE s == req[t].sprint
      <3>1. /\ s \in Sprint /\ state[s] = "active"
            /\ \E n \in Sprint :
                  /\ n = s \/ (state[n] = "none" /\ BoardOf[n] = BoardOf[s])
                  /\ state' = [[state EXCEPT ![n] = "future"] EXCEPT ![s] = "closed"]
        BY <2>2, CompleteEffect DEF Inv
      <3>2. PICK n \in Sprint :
              /\ n = s \/ (state[n] = "none" /\ BoardOf[n] = BoardOf[s])
              /\ state' = [[state EXCEPT ![n] = "future"] EXCEPT ![s] = "closed"]
        BY <3>1
      <3>3. CASE n = s
        <4>1. Abstract!Complete(s)
          BY <3>1, <3>2, <3>3 DEF Inv, TypeOK, Abstract!Complete
        <4> QED BY <3>1, <4>1 DEF Abstract!Next
      <3>4. CASE n # s
        <4>1. state' = [state EXCEPT ![s] = "closed", ![n] = "future"]
          BY <3>1, <3>2, <3>4 DEF Inv, TypeOK
        <4>2. Abstract!CompleteInto(s, n)
          BY <3>1, <3>2, <3>4, <4>1 DEF Abstract!CompleteInto
        <4> QED BY <3>1, <4>2 DEF Abstract!Next
      <3> QED BY <3>3, <3>4
    <2>3. ASSUME NEW t \in Tx, CommitCancel(t) PROVE Abstract!Next
      <3>1. Abstract!Cancel(req[t].sprint) /\ req[t].sprint \in Sprint
        BY <2>3, CancelEffect DEF Inv, Abstract!Cancel
      <3> QED BY <3>1 DEF Abstract!Next
    <2>4. ASSUME NEW s \in Sprint, CreateSprint(s) PROVE Abstract!Next
      BY <2>4 DEF CreateSprint, Abstract!Create, Abstract!Next
    <2> QED BY <2>1, <2>2, <2>3, <2>4, StateWriters
  <1> QED BY <1>1, <1>2, Invariance, PTL DEF Spec, ImplementsBoard, Abstract!Spec

(* A step records nothing in a sprint that has ended.                      *)
LEMMA HistoryKept ==
  ASSUME Inv, [Next]_vars, NEW s \in Sprint, state[s] \in ClosedStates
  PROVE  hist'[s] = hist[s]
  <1>1. hist \in [Sprint -> [Issue -> Events]]
    BY DEF Inv, TypeOK
  <1>2. ASSUME NEW t \in Tx, CommitStart(t) \/ CommitComplete(t) \/ CommitCancel(t)
        PROVE  hist'[s] = hist[s]
    <2>1. state[req[t].sprint] \in {"future", "active"}
      BY <1>2, StartEffect, CompleteEffect, CancelEffect DEF Inv
    <2>2. s # req[t].sprint
      BY <2>1 DEF ClosedStates
    <2> QED BY <1>1, <1>2, <2>2 DEF CommitStart, CommitComplete, CommitCancel
  <1>3. ASSUME NEW t \in Tx, CommitMove(t) PROVE hist'[s] = hist[s]
    <2>1. hist'[s] = [i \in Issue |-> hist[s][i]]
      BY <1>3 DEF CommitMove, RecordMove, ClosedStates
    <2> QED BY <1>1, <2>1
  <1>4. ASSUME NEW t \in Tx, Begin(t) \/ Fail(t) PROVE hist' = hist
    BY <1>4 DEF Begin, Fail, Rollback, db
  <1>5. ASSUME NEW t \in Tx, Step(t) PROVE hist'[s] = hist[s]
    BY <1>2, <1>3, <1>5 DEF Step, EnterStart, LockBoard, RefuseParallel, EnterComplete,
          EnterCancel, UpdateSprint, EnterAdd, EnterRemove, ReadMove, LockNext,
          RefuseMove, ReadTransition, CommitTransition, Refuse, AbortDeadlock,
          Rollback, db
  <1>6. ASSUME \/ \E x \in Sprint : CreateSprint(x)
               \/ \E i \in Issue : TransitionSubtask(i)
               \/ UNCHANGED vars
        PROVE  hist' = hist
    BY <1>6 DEF CreateSprint, TransitionSubtask, vars
  <1> QED BY <1>4, <1>5, <1>6 DEF Next

(* The history of a closed or cancelled sprint never changes again: a      *)
(* completion is granted on an active sprint and a move records only in    *)
(* active ones, whatever the request read before.                          *)
THEOREM HistoryFinal == Spec => ClosedHistoryIsFinal
  <1> DEFINE Final == \A s \in Sprint : state[s] \in ClosedStates => hist'[s] = hist[s]
  <1>1. Inv /\ [Next]_vars => Final
    BY HistoryKept
  <1>2. Inv /\ [Next]_vars => [Final]_vars
    BY <1>1
  <1> QED BY <1>2, Invariance, PTL DEF Spec, ClosedHistoryIsFinal


----------------------------------------------------------------------------
(* What an ended sprint holds.                                             *)

(* No client names an existing sprint as the destination of unfinished     *)
(* issues: they go to the backlog or to a new sprint.  (A named sprint is  *)
(* read without a lock and may end before the issues get there.)           *)
NoSprintNamed ==
    /\ Destinations \cap Sprint = {}
    /\ \A d \in Dispositions : \A i \in DOMAIN d : d[i] \notin Sprint

(* A request that is about to end its sprint knows every issue the sprint  *)
(* still has: none can come while it holds the row.                        *)
Knows(t) ==
    /\ req[t].op \in {"complete", "cancel"} => req[t].target \notin Sprint
    /\ At(t, "commit", "complete") \/ At(t, "commit", "cancel") =>
          Members(req[t].sprint) \subseteq seen[t].members

EndInv == (\A t \in Tx : Knows(t)) /\ EndedHoldsFinished

(* Issues come to a sprint by a move that holds its row while it is open,  *)
(* or by a completion that creates it.                                     *)
LEMMA Arrivals ==
  ASSUME NoSprintNamed, Inv, \A t \in Tx : Knows(t), [Next]_vars,
         NEW s \in Sprint, NEW i \in Issue, home'[i] = s, home[i] # s
  PROVE  \/ \E t \in Tx : rowLock[s] = t /\ pc[t] = "lock" /\ state[s] \notin ClosedStates
                          /\ state' = state
         \/ state[s] = "none" /\ state'[s] = "future"
  <1>0. TypeOK /\ home \in [Issue -> Home] /\ state \in [Sprint -> States]
    BY DEF Inv, TypeOK
  <1>1. ASSUME NEW t \in Tx, CommitMove(t)
        PROVE  rowLock[s] = t /\ pc[t] = "lock" /\ state[s] \notin ClosedStates /\ state' = state
    <2>1. req[t].target = s
      BY <1>0, <1>1 DEF CommitMove
    <2> QED BY <1>1, <2>1 DEF CommitMove, MayMove, Unlocked, LockSet
  <1>2. ASSUME NEW t \in Tx, CommitComplete(t) \/ CommitCancel(t), NEW j \in Issue
        PROVE  DestinationOf(t, j) \notin Sprint
    <2>1. req[t].op \in {"complete", "cancel"} /\ req[t].disposition \in Dispositions
      BY <1>0, <1>2 DEF CommitComplete, CommitCancel, At, TypeOK, Requests
    <2> QED BY <2>1 DEF NoSprintNamed, Knows, DestinationOf
  <1>3. ASSUME NEW t \in Tx, CommitComplete(t)
        PROVE  state[s] = "none" /\ state'[s] = "future"
    <2>1. PICK n \in Sprint :
            /\ OpensSprint(t) => state[n] = "none"
            /\ state' = [[state EXCEPT ![n] = "future"] EXCEPT ![req[t].sprint] = "closed"]
            /\ home' = [j \in Issue |->
                          IF j \notin Unfinished(t) THEN home[j]
                          ELSE IF DestinationOf(t, j) = NewSprint THEN n
                          ELSE DestinationOf(t, j)]
      BY <1>3 DEF CommitComplete
    <2>2. i \in Unfinished(t) /\ DestinationOf(t, i) = NewSprint /\ n = s
      BY <1>2, <1>3, <2>1
    <2>3. state[s] = "none"
      BY <2>1, <2>2 DEF OpensSprint
    <2>4. state[req[t].sprint] = "active"
      BY <1>0, <1>3, CompleteEffect DEF Inv
    <2> QED BY <1>0, <2>1, <2>2, <2>3, <2>4
  <1>4. ASSUME NEW t \in Tx, CommitCancel(t) PROVE FALSE
    BY <1>2, <1>4 DEF CommitCancel
  <1>5. ASSUME NEW t \in Tx, CommitTransition(t) PROVE FALSE
    BY <1>0, <1>5 DEF CommitTransition
  <1>6. ASSUME NEW t \in Tx, Begin(t) \/ Fail(t) PROVE FALSE
    BY <1>6 DEF Begin, Fail, Rollback, db
  <1>7. ASSUME NEW t \in Tx, Step(t)
        PROVE  CommitMove(t) \/ CommitComplete(t)
    BY <1>4, <1>5, <1>7 DEF Step, EnterStart, LockBoard, RefuseParallel, CommitStart,
          EnterComplete, EnterCancel, UpdateSprint, EnterAdd, EnterRemove, ReadMove, LockNext,
          RefuseMove, ReadTransition, Refuse, AbortDeadlock, Rollback, db
  <1>8. ASSUME \/ \E x \in Sprint : CreateSprint(x)
               \/ \E j \in Issue : TransitionSubtask(j)
               \/ UNCHANGED vars
        PROVE  FALSE
    BY <1>8 DEF CreateSprint, TransitionSubtask, vars
  <1> QED BY <1>1, <1>3, <1>6, <1>7, <1>8 DEF Next

(* Who is past the checks of complete or cancel, and has read nothing      *)
(* since, still knows all issues of its sprint.                            *)
LEMMA KnowsKept ==
  ASSUME NoSprintNamed, Inv, \A t \in Tx : Knows(t), [Next]_vars, NEW u \in Tx,
         pc'[u] = pc[u], req'[u] = req[u], seen'[u] = seen[u]
  PROVE  Knows(u)'
  <1> SUFFICES ASSUME At(u, "commit", "complete") \/ At(u, "commit", "cancel"),
                      NEW i \in Issue, home'[i] = req[u].sprint
               PROVE  i \in seen[u].members
    BY DEF Knows, At, Members
  <1>1. req[u].sprint \in Sprint
    BY DEF Inv, TypeOK, Requests
  <1>2. rowLock[req[u].sprint] = u /\ state[req[u].sprint] \in {"active", "future"} /\ pc[u] = "commit"
    BY DEF Inv, Ready, Granted, At
  <1>3. home[i] = req[u].sprint
    <2> SUFFICES ASSUME home[i] # req[u].sprint PROVE FALSE
      OBVIOUS
    <2> QED BY <1>1, <1>2, Arrivals
  <1> QED BY <1>3 DEF Knows, Members

LEMMA KnowsNext ==
  ASSUME NoSprintNamed, Inv, \A t \in Tx : Knows(t), [Next]_vars
  PROVE  \A u \in Tx : Knows(u)'
  <1>0. TypeOK
    BY DEF Inv
  <1>1. ASSUME UNCHANGED <<pc, req, seen>> PROVE \A u \in Tx : Knows(u)'
    BY <1>1, KnowsKept
  <1>2. ASSUME NEW t \in Tx, \A u \in Tx \ {t} : pc'[u] = pc[u] /\ req'[u] = req[u] /\ seen'[u] = seen[u],
               Knows(t)'
        PROVE  \A u \in Tx : Knows(u)'
    BY <1>2, KnowsKept
  <1>3. ASSUME NEW t \in Tx, Finish(t) PROVE \A u \in Tx : Knows(u)'
    <2>1. Knows(t)'
      BY <1>0, <1>3 DEF Finish, Knows, At, NoRequest, TypeOK
    <2> QED BY <1>0, <1>2, <1>3, <2>1, FinishFrame
  <1>4. ASSUME NEW t \in Tx, Begin(t) PROVE \A u \in Tx : Knows(u)'
    <2>1. PICK r \in LifecycleRequests \cup PlanningRequests \cup TransitionRequests :
            /\ req' = [req EXCEPT ![t] = r]
            /\ pc' = [pc EXCEPT ![t] = IF r.op \in {"move", "transition"}
                                       THEN "read" ELSE "enter"]
      BY <1>4 DEF Begin
    <2>2. r.op \in {"complete", "cancel"} => r.target \in Destinations \cup {Backlog}
      BY <2>1 DEF LifecycleRequests, PlanningRequests, TransitionRequests
    <2>3. Knows(t)'
      BY <1>0, <2>1, <2>2 DEF Knows, At, NoSprintNamed, TypeOK
    <2>4. \A u \in Tx \ {t} : pc'[u] = pc[u] /\ req'[u] = req[u] /\ seen'[u] = seen[u]
      BY <1>0, <1>4, <2>1 DEF Begin, TypeOK
    <2> QED BY <1>2, <2>3, <2>4
  <1>5. ASSUME NEW t \in Tx, EnterComplete(t) \/ EnterCancel(t) PROVE \A u \in Tx : Knows(u)'
    <2>1. seen'[t].members = Members(req[t].sprint) /\ req' = req /\ home' = home
      BY <1>0, <1>5 DEF EnterComplete, EnterCancel, TypeOK, Views, db
    <2>2. Knows(t)'
      BY <2>1 DEF Knows, Members
    <2>3. \A u \in Tx \ {t} : pc'[u] = pc[u] /\ req'[u] = req[u] /\ seen'[u] = seen[u]
      BY <1>0, <1>5 DEF EnterComplete, EnterCancel, TypeOK
    <2> QED BY <1>2, <2>2, <2>3
  <1>6. ASSUME NEW t \in Tx, req' = req,
               ~(pc'[t] = "commit" /\ req[t].op \in {"complete", "cancel"}),
               \A u \in Tx \ {t} : pc'[u] = pc[u] /\ seen'[u] = seen[u]
        PROVE  \A u \in Tx : Knows(u)'
    <2>1. Knows(t)'
      BY <1>6 DEF Knows, At
    <2> QED BY <1>2, <1>6, <2>1
  <1>7. ASSUME NEW t \in Tx, EnterStart(t) \/ LockBoard(t) \/ ReadTransition(t)
                             \/ EnterAdd(t) \/ EnterRemove(t) \/ ReadMove(t)
        PROVE  \A u \in Tx : Knows(u)'
    BY <1>0, <1>6, <1>7 DEF EnterStart, LockBoard, ReadTransition, EnterAdd, EnterRemove, ReadMove,
          LoadIssues, At, TypeOK
  <1>8. ASSUME NEW t \in Tx, Step(t) PROVE \A u \in Tx : Knows(u)'
    BY <1>1, <1>3, <1>5, <1>7, <1>8 DEF Step, RefuseParallel, CommitStart, CommitComplete,
          CommitCancel, UpdateSprint, LockNext, CommitMove, RefuseMove, CommitTransition,
          Refuse, AbortDeadlock, Rollback
  <1>9. ASSUME NEW t \in Tx, Fail(t) PROVE \A u \in Tx : Knows(u)'
    BY <1>3, <1>9 DEF Fail, Rollback
  <1>10. ASSUME \/ \E x \in Sprint : CreateSprint(x)
                \/ \E j \in Issue : TransitionSubtask(j)
                \/ UNCHANGED vars
         PROVE  \A u \in Tx : Knows(u)'
    BY <1>1, <1>10 DEF CreateSprint, TransitionSubtask, vars
  <1> QED BY <1>4, <1>8, <1>9, <1>10 DEF Next

(* The unfinished issues of a request that ends its sprint go to no sprint *)
(* that already exists.                                                    *)
LEMMA NoSprintTarget ==
  ASSUME NoSprintNamed, TypeOK, NEW t \in Tx, Knows(t), NEW i \in Issue,
         req[t].op \in {"complete", "cancel"}
  PROVE  DestinationOf(t, i) \notin Sprint
  <1>1. req[t].disposition \in Dispositions
    BY DEF TypeOK, Requests
  <1> QED BY <1>1 DEF NoSprintNamed, Knows, DestinationOf

(* Completing leaves the finished issues behind, cancelling nothing, and   *)
(* nothing comes later.                                                    *)
LEMMA EndedNext ==
  ASSUME NoSprintNamed, Inv, EndInv, [Next]_vars
  PROVE  EndedHoldsFinished'
  <1> SUFFICES ASSUME NEW s \in Sprint, NEW i \in Issue,
                      state'[s] \in ClosedStates, home'[i] = s
               PROVE  state'[s] = "closed" /\ hist'[s][i] = "completed"
    BY DEF EndedHoldsFinished, ClosedHoldsFinished, CancelledIsEmpty, Members, ClosedStates
  <1>0. /\ TypeOK /\ home \in [Issue -> Home] /\ state \in [Sprint -> States]
        /\ hist \in [Sprint -> [Issue -> Events]]
        /\ \A t \in Tx : Knows(t) /\ req[t].sprint \in Sprint
    BY DEF Inv, EndInv, TypeOK, Requests
  <1>1. CASE state[s] \in ClosedStates
    <2>1. home[i] = s
      BY <1>0, <1>1, Arrivals DEF ClosedStates
    <2>2. state[s] = "closed" /\ hist[s][i] = "completed"
      BY <1>1, <2>1 DEF EndInv, EndedHoldsFinished, ClosedHoldsFinished, CancelledIsEmpty,
            Members, ClosedStates
    <2>3. state'[s] = "closed"
      <3> SUFFICES ASSUME state' # state PROVE state'[s] = "closed"
        BY <2>2
      <3>1. ASSUME NEW t \in Tx, CommitStart(t) PROVE state'[s] = "closed"
        BY <1>0, <2>2, <3>1, StartEffect DEF Inv
      <3>2. ASSUME NEW t \in Tx, CommitComplete(t) PROVE state'[s] = "closed"
        BY <1>0, <2>2, <3>2, CompleteEffect DEF Inv
      <3>3. ASSUME NEW t \in Tx, CommitCancel(t) PROVE state'[s] = "closed"
        BY <1>0, <2>2, <3>3, CancelEffect DEF Inv
      <3>4. ASSUME NEW x \in Sprint, CreateSprint(x) PROVE state'[s] = "closed"
        BY <1>0, <2>2, <3>4 DEF CreateSprint
      <3> QED BY <3>1, <3>2, <3>3, <3>4, StateWriters DEF Inv
    <2> QED BY <1>1, <2>2, <2>3, HistoryKept
  <1>2. CASE state[s] \notin ClosedStates
    <2>1. ASSUME NEW t \in Tx, CommitComplete(t)
          PROVE  state'[s] = "closed" /\ hist'[s][i] = "completed"
      <3>1. PICK n \in Sprint :
              /\ OpensSprint(t) => state[n] = "none"
              /\ ~OpensSprint(t) => n = req[t].sprint
              /\ state' = [[state EXCEPT ![n] = "future"] EXCEPT ![req[t].sprint] = "closed"]
              /\ home' = [j \in Issue |->
                            IF j \notin Unfinished(t) THEN home[j]
                            ELSE IF DestinationOf(t, j) = NewSprint THEN n
                            ELSE DestinationOf(t, j)]
        BY <2>1 DEF CommitComplete
      <3>2. s = req[t].sprint /\ state'[s] = "closed"
        BY <1>0, <1>2, <3>1 DEF ClosedStates
      <3>3. state[s] = "active" /\ Members(s) \subseteq seen[t].members
        <4>1. state[s] = "active"
          BY <2>1, <3>2, CompleteEffect DEF Inv
        <4>2. Members(s) \subseteq seen[t].members
          BY <1>0, <2>1, <3>2 DEF Knows, CommitComplete
        <4> QED BY <4>1, <4>2
      <3>4. DestinationOf(t, i) \notin Sprint
        BY <1>0, <2>1, NoSprintTarget DEF CommitComplete, At
      <3>5. i \notin Unfinished(t)
        BY <3>1, <3>2, <3>3, <3>4 DEF OpensSprint
      <3>6. i \in seen[t].finished
        BY <3>1, <3>3, <3>5 DEF Unfinished, Members
      <3> QED BY <1>0, <2>1, <3>2, <3>6 DEF CommitComplete
    <2>2. ASSUME NEW t \in Tx, CommitCancel(t) PROVE FALSE
      <3>1. s = req[t].sprint
        BY <1>0, <1>2, <2>2 DEF CommitCancel
      <3>2. Members(s) \subseteq seen[t].members
        BY <1>0, <2>2, <3>1 DEF Knows, CommitCancel
      <3>3. DestinationOf(t, i) \notin Sprint
        BY <1>0, <2>2, NoSprintTarget DEF CommitCancel, At
      <3> QED BY <1>0, <2>2, <3>1, <3>2, <3>3 DEF CommitCancel, Members
    <2>3. ASSUME NEW t \in Tx, CommitStart(t) PROVE FALSE
      BY <1>0, <1>2, <2>3 DEF CommitStart, ClosedStates
    <2>4. ASSUME NEW x \in Sprint, CreateSprint(x) PROVE FALSE
      BY <1>0, <1>2, <2>4 DEF CreateSprint, ClosedStates
    <2> QED BY <1>2, <2>1, <2>2, <2>3, <2>4, StateWriters DEF Inv
  <1> QED BY <1>1, <1>2

(* Whatever races with the completion or cancellation of a sprint, it ends *)
(* with the issues that were finished in it, or with none: for clients     *)
(* that send unfinished issues to the backlog or to a new sprint.          *)
THEOREM EndedRight == NoSprintNamed => (Spec => []EndedHoldsFinished)
  <1> SUFFICES ASSUME NoSprintNamed PROVE Spec => []EndedHoldsFinished
    OBVIOUS
  <1>1. Init => EndInv
    BY SprintAssumption DEF Init, EndInv, Knows, At, NoRequest, EndedHoldsFinished,
       ClosedHoldsFinished, CancelledIsEmpty
  <1>2. Inv /\ EndInv /\ [Next]_vars => EndInv'
    BY KnowsNext, EndedNext DEF EndInv
  <1>3. EndInv => EndedHoldsFinished
    BY DEF EndInv
  <1> QED BY <1>1, <1>2, <1>3, Invariance, PTL DEF Spec

----------------------------------------------------------------------------
(* What the history of a sprint and a closed sprint say while requests     *)
(* overlap.                                                                *)

(* The places a request loaded without a lock on them are still so: the    *)
(* sprint of each issue it moves or transitions, and the state of the      *)
(* sprints it sends unfinished issues to.                                  *)
Places(t) ==
    /\ At(t, "commit", "complete") =>
          \A i \in Unfinished(t) : ValidDestination(req[t].sprint, DestinationOf(t, i))
    /\ At(t, "commit", "cancel") =>
          \A i \in seen[t].members : ValidDestination(req[t].sprint, DestinationOf(t, i))
    /\ pc[t] = "lock" \/ At(t, "commit", "transition") =>
          \A i \in req[t].issues : seen[t].home[i] = home[i]

(* A step that commits a place it loaded finds it as it was.  False of two *)
(* moves of one issue that cross, and of a destination that starts or ends *)
(* between the plan of a completion and its commit.                        *)
PlacesAsLoaded ==
    \A t \in Tx :
        CommitComplete(t) \/ CommitCancel(t) \/ CommitMove(t) \/ CommitTransition(t) => Places(t)

(* What a completion counts as finished has not been reopened since.       *)
Finishes(t) == \A i \in seen[t].finished : done[i]
FinishedAsLoaded == \A t \in Tx : CommitComplete(t) => Finishes(t)

(* A request that holds its sprint's row knows the issues the sprint has.  *)
Counted(t) ==
    /\ pc[t] \in {"idle", "enter", "read"} \/ At(t, "commit", "cancel") => seen[t].finished = {}
    /\ \/ At(t, "board", "start") \/ At(t, "commit", "start")
       \/ At(t, "commit", "complete") \/ At(t, "commit", "cancel")
       => seen[t].members = Members(req[t].sprint)

(* A sprint that has not started has recorded nothing.                     *)
HistoryBegins ==
    \A s \in Sprint, i \in Issue : state[s] \in {"none", "future"} => hist[s][i] = "none"

ScopeFacts == HistoryBegins /\ ScopeMatchesHistory
ScopeInv == (\A t \in Tx : Counted(t)) /\ ScopeFacts

(* Nothing comes to or leaves a sprint whose row another request holds.    *)
LEMMA HeldKept ==
  ASSUME Inv, \A t \in Tx : Counted(t), PlacesAsLoaded, NEW t \in Tx, Step(t),
         NEW u \in Tx \ {t}, NEW s \in Sprint, rowLock[s] = u,
         state[s] \in {"future", "active"}
  PROVE  \A i \in Issue : home'[i] = s <=> home[i] = s
  <1>0. /\ TypeOK /\ req[t].issues \subseteq Issue /\ req[t].sprint \in Sprint
        /\ home \in [Issue -> Home]
    BY DEF Inv, TypeOK, Requests
  <1>1. CASE CommitMove(t)
    <2>1. s \notin LockSet(t)
      BY <1>1 DEF CommitMove, Unlocked
    <2>2. req[t].target # s /\ \A i \in req[t].issues : seen[t].home[i] # s
      BY <2>1 DEF LockSet
    <2>3. \A i \in req[t].issues : seen[t].home[i] = home[i]
      BY <1>1 DEF PlacesAsLoaded, Places, CommitMove
    <2> QED BY <1>0, <1>1, <2>2, <2>3 DEF CommitMove, Leaving
  <1>2. CASE CommitTransition(t)
    <2>1. \A i \in req[t].issues : seen[t].home[i] = home[i]
      BY <1>2 DEF PlacesAsLoaded, Places, CommitTransition
    <2> QED BY <1>0, <1>2, <2>1 DEF CommitTransition, ReopenedInClosedSprint, ClosedStates
  <1>3. CASE CommitComplete(t)
    <2>1. rowLock[req[t].sprint] = t
      BY <1>3 DEF Inv, Ready, Granted, CommitComplete
    <2>2. \A i \in Unfinished(t) : home[i] = req[t].sprint /\ DestinationOf(t, i) # s
      <3>1. seen[t].members = Members(req[t].sprint)
        BY <1>3 DEF Counted, CommitComplete
      <3>2. s \notin TargetRows(t)
        BY <1>3 DEF CommitComplete, Referable
      <3> QED BY <3>1, <3>2 DEF Unfinished, Members, TargetRows
    <2>3. PICK n \in Sprint :
            /\ OpensSprint(t) => state[n] = "none"
            /\ home' = [j \in Issue |->
                          IF j \notin Unfinished(t) THEN home[j]
                          ELSE IF DestinationOf(t, j) = NewSprint THEN n
                          ELSE DestinationOf(t, j)]
      BY <1>3 DEF CommitComplete
    <2>4. OpensSprint(t) => n # s
      BY <2>3
    <2> QED BY <2>1, <2>2, <2>3, <2>4 DEF OpensSprint
  <1>4. CASE CommitCancel(t)
    <2>1. rowLock[req[t].sprint] = t
      BY <1>4 DEF Inv, Ready, Granted, CommitCancel
    <2>2. seen[t].members = Members(req[t].sprint) /\ seen[t].finished = {}
      BY <1>4 DEF Counted, CommitCancel
    <2>3. s \notin TargetRows(t)
      BY <1>4 DEF CommitCancel, Referable
    <2>4. \A i \in seen[t].members : home[i] = req[t].sprint /\ DestinationOf(t, i) # s
      BY <2>2, <2>3 DEF Unfinished, Members, TargetRows
    <2> QED BY <1>4, <2>1, <2>4 DEF CommitCancel
  <1>5. ASSUME UNCHANGED home PROVE \A i \in Issue : home'[i] = s <=> home[i] = s
    BY <1>5
  <1> QED BY <1>1, <1>2, <1>3, <1>4, <1>5 DEF Step, EnterStart, LockBoard, RefuseParallel,
        CommitStart, EnterComplete, EnterCancel, UpdateSprint, EnterAdd, EnterRemove, ReadMove,
        LockNext, RefuseMove, ReadTransition, Refuse, AbortDeadlock, Rollback, db

(* So a request that takes no step goes on knowing them.                   *)
LEMMA CountedKept ==
  ASSUME Inv, \A t \in Tx : Counted(t), NEW u \in Tx,
         pc'[u] = pc[u], req'[u] = req[u], seen'[u] = seen[u],
         \A s \in Sprint : rowLock[s] = u /\ state[s] \in {"future", "active"} =>
             \A i \in Issue : home'[i] = s <=> home[i] = s
  PROVE  Counted(u)'
  <1>1. req[u].sprint \in Sprint
    BY DEF Inv, TypeOK, Requests
  <1>2. \/ At(u, "board", "start") \/ At(u, "commit", "start")
        \/ At(u, "commit", "complete") \/ At(u, "commit", "cancel")
        => /\ rowLock[req[u].sprint] = u /\ state[req[u].sprint] \in {"future", "active"}
           /\ seen[u].members = Members(req[u].sprint)
    BY DEF Inv, Ready, Granted, At, Counted
  <1>3. \/ At(u, "board", "start") \/ At(u, "commit", "start")
        \/ At(u, "commit", "complete") \/ At(u, "commit", "cancel")
        => Members(req[u].sprint)' = Members(req[u].sprint)
    <2> SUFFICES ASSUME rowLock[req[u].sprint] = u, state[req[u].sprint] \in {"future", "active"}
                 PROVE  Members(req[u].sprint)' = Members(req[u].sprint)
      BY <1>2
    <2>1. \A i \in Issue : home'[i] = req[u].sprint <=> home[i] = req[u].sprint
      BY <1>1
    <2> QED BY <2>1 DEF Members
  <1> QED BY <1>2, <1>3 DEF Counted, At, Members

LEMMA CountedNext ==
  ASSUME Inv, \A t \in Tx : Counted(t), PlacesAsLoaded, [Next]_vars, NEW u \in Tx
  PROVE  Counted(u)'
  <1>0. TypeOK
    BY DEF Inv
  <1>1. ASSUME UNCHANGED <<home, pc, seen, req>> PROVE Counted(u)'
    BY <1>1 DEF Counted, At, Members
  <1>2. ASSUME Finish(u) PROVE Counted(u)'
    BY <1>0, <1>2 DEF Finish, Counted, At, NoView, TypeOK
  <1>3. ASSUME NEW t \in Tx, Finish(t), t # u, UNCHANGED home PROVE Counted(u)'
    BY <1>0, <1>3, FinishFrame, CountedKept
  <1>4. ASSUME NEW t \in Tx, Begin(t) PROVE Counted(u)'
    <2>1. seen' = seen /\ home' = home /\ pc'[t] \in {"enter", "read"} /\ pc[t] = "idle"
      BY <1>0, <1>4 DEF Begin, db, TypeOK
    <2>2. CASE u = t
      BY <2>1, <2>2 DEF Counted, At
    <2>3. CASE u # t
      BY <1>0, <1>4, <2>1, <2>3, CountedKept DEF Begin, TypeOK
    <2> QED BY <2>2, <2>3
  <1>5. ASSUME NEW t \in Tx, Step(t), t # u PROVE Counted(u)'
    <2>1. pc'[u] = pc[u] /\ req'[u] = req[u] /\ seen'[u] = seen[u]
      <3>1. ASSUME Finish(t) PROVE pc'[u] = pc[u] /\ req'[u] = req[u] /\ seen'[u] = seen[u]
        BY <1>0, <1>5, <3>1, FinishFrame
      <3> QED BY <1>0, <1>5, <3>1 DEF Step, EnterStart, LockBoard, RefuseParallel, CommitStart,
            EnterComplete, CommitComplete, EnterCancel, CommitCancel, UpdateSprint, EnterAdd,
            EnterRemove, ReadMove, LoadIssues, LockNext, CommitMove, RefuseMove, ReadTransition,
            CommitTransition, Refuse, AbortDeadlock, Rollback, TypeOK
    <2> QED BY <1>5, <2>1, HeldKept, CountedKept
  <1>6. ASSUME EnterStart(u) \/ LockBoard(u) PROVE Counted(u)'
    <2>1. /\ home' = home /\ req' = req /\ req[u].op = "start" /\ pc'[u] \in {"board", "commit"}
      BY <1>0, <1>6 DEF EnterStart, LockBoard, db, At, TypeOK
    <2>2. seen'[u].members = Members(req[u].sprint)
      BY <1>0, <1>6 DEF EnterStart, LockBoard, Counted, At, TypeOK, Views
    <2> QED BY <2>1, <2>2 DEF Counted, At, Members
  <1>7. ASSUME EnterComplete(u) PROVE Counted(u)'
    <2>1. /\ home' = home /\ req' = req /\ req[u].op = "complete" /\ pc'[u] = "commit"
          /\ seen'[u].members = Members(req[u].sprint)
      BY <1>0, <1>7 DEF EnterComplete, db, At, TypeOK, Views
    <2> QED BY <2>1 DEF Counted, At, Members
  <1>8. ASSUME EnterCancel(u) PROVE Counted(u)'
    <2>1. /\ home' = home /\ req' = req /\ req[u].op = "cancel" /\ pc'[u] = "commit"
          /\ seen'[u].members = Members(req[u].sprint)
          /\ seen'[u].finished = seen[u].finished
      BY <1>0, <1>8 DEF EnterCancel, db, At, TypeOK, Views
    <2>2. seen[u].finished = {}
      BY <1>8 DEF EnterCancel, At, Counted
    <2> QED BY <2>1, <2>2 DEF Counted, At, Members
  <1>9. ASSUME EnterAdd(u) \/ EnterRemove(u) \/ ReadMove(u) \/ ReadTransition(u)
        PROVE  Counted(u)'
    <2>1. /\ req' = req
          /\ pc'[u] = "lock" \/ (pc'[u] = "commit" /\ req[u].op = "transition")
      BY <1>0, <1>9 DEF EnterAdd, EnterRemove, ReadMove, ReadTransition, At, TypeOK
    <2> QED BY <2>1 DEF Counted, At
  <1>10. ASSUME LockNext(u) PROVE Counted(u)'
    BY <1>1, <1>10 DEF LockNext, db
  <1>11. ASSUME Step(u) PROVE Counted(u)'
    BY <1>2, <1>6, <1>7, <1>8, <1>9, <1>10, <1>11 DEF Step, RefuseParallel, CommitStart,
       CommitComplete, CommitCancel, UpdateSprint, CommitMove, RefuseMove, CommitTransition,
       Refuse, AbortDeadlock, Rollback
  <1>12. ASSUME NEW t \in Tx, Fail(t) PROVE Counted(u)'
    BY <1>2, <1>3, <1>12 DEF Fail, Rollback, db
  <1>13. ASSUME \/ \E s \in Sprint : CreateSprint(s)
                \/ \E i \in Issue : TransitionSubtask(i)
                \/ UNCHANGED vars
         PROVE  Counted(u)'
    BY <1>1, <1>13 DEF CreateSprint, TransitionSubtask, vars
  <1> QED BY <1>4, <1>5, <1>11, <1>12, <1>13 DEF Next

(* A start commits the issues it counted, which are those the sprint has.  *)
LEMMA StartFacts ==
  ASSUME Inv, NEW t \in Tx, Counted(t), CommitStart(t)
  PROVE  (ScopeFacts => ScopeFacts') /\ (NoOpenWorkInClosedSprint => NoOpenWorkInClosedSprint')
  <1> DEFINE s == req[t].sprint
  <1>1. /\ s \in Sprint /\ state[s] = "future" /\ state' = [state EXCEPT ![s] = "active"]
        /\ UNCHANGED <<home, done>>
    BY StartEffect DEF Inv, CommitStart
  <1>2. seen[t].members = Members(s)
    BY DEF Counted, CommitStart
  <1>3. /\ \A i \in Issue : hist'[s][i] = IF home[i] = s THEN "committed" ELSE hist[s][i]
        /\ \A o \in Sprint \ {s} : hist'[o] = hist[o]
    BY <1>1, <1>2 DEF CommitStart, Members, Inv, TypeOK
  <1>4. /\ \A o \in Sprint \ {s} : state'[o] = state[o]
        /\ state'[s] = "active"
    BY <1>1 DEF Inv, TypeOK
  <1>5. ScopeFacts => HistoryBegins'
    BY <1>1, <1>3, <1>4 DEF ScopeFacts, HistoryBegins
  <1>6. ScopeFacts => ScopeMatchesHistory'
    BY <1>1, <1>3, <1>4 DEF ScopeFacts, HistoryBegins, ScopeMatchesHistory
  <1>7. NoOpenWorkInClosedSprint => NoOpenWorkInClosedSprint'
    BY <1>1, <1>4 DEF NoOpenWorkInClosedSprint
  <1> QED BY <1>5, <1>6, <1>7 DEF ScopeFacts

(* A completion moves what is unfinished to sprints that have not started. *)
LEMMA CompleteFacts ==
  ASSUME Inv, NEW t \in Tx, Counted(t), Places(t), CommitComplete(t)
  PROVE  /\ ScopeFacts => ScopeFacts'
         /\ Finishes(t) /\ NoOpenWorkInClosedSprint => NoOpenWorkInClosedSprint'
  <1> DEFINE s == req[t].sprint
  <1>0. TypeOK
    BY DEF Inv
  <1>1. s \in Sprint /\ state[s] = "active"
    BY CompleteEffect DEF Inv
  <1>2. /\ seen[t].members = Members(s)
        /\ \A i \in Unfinished(t) : ValidDestination(s, DestinationOf(t, i))
    BY DEF Counted, Places, CommitComplete
  <1>3. PICK n \in Sprint :
          /\ OpensSprint(t) => state[n] = "none"
          /\ ~OpensSprint(t) => n = s
          /\ state' = [[state EXCEPT ![n] = "future"] EXCEPT ![s] = "closed"]
          /\ home' = [i \in Issue |->
                        IF i \notin Unfinished(t) THEN home[i]
                        ELSE IF DestinationOf(t, i) = NewSprint THEN n
                        ELSE DestinationOf(t, i)]
    BY DEF CommitComplete
  <1>4. /\ state'[s] = "closed"
        /\ n # s => state'[n] = "future" /\ state[n] = "none"
        /\ \A o \in Sprint \ {s, n} : state'[o] = state[o]
    BY <1>0, <1>1, <1>3 DEF TypeOK
  <1>5. /\ \A o \in Sprint \ {s} : hist'[o] = hist[o]
        /\ done' = done
    BY <1>0 DEF CommitComplete, TypeOK
  <1>6. ASSUME NEW o \in Sprint, NEW i \in Issue, state[o] \notin {"none", "future"}
        PROVE  /\ home'[i] = o => home[i] = o
               /\ o # s => (home'[i] = o <=> home[i] = o)
               /\ home'[i] = s => i \in seen[t].finished
    <2>1. CASE i \notin Unfinished(t)
      BY <1>2, <1>3, <2>1 DEF Unfinished, Members
    <2>2. CASE i \in Unfinished(t)
      <3>1. home[i] = s
        BY <1>2, <2>2 DEF Unfinished, Members
      <3>2. CASE DestinationOf(t, i) = NewSprint
        <4>1. home'[i] = n /\ state[n] = "none"
          BY <1>3, <2>2, <3>2 DEF OpensSprint
        <4> QED BY <1>1, <1>6, <3>1, <4>1
      <3>3. CASE DestinationOf(t, i) # NewSprint
        <4>1. home'[i] = DestinationOf(t, i)
          BY <1>3, <2>2, <3>3
        <4>2. DestinationOf(t, i) \in Sprint => state[DestinationOf(t, i)] = "future"
          BY <1>2, <2>2 DEF ValidDestination
        <4> QED BY <1>1, <1>6, <3>1, <4>1, <4>2
      <3> QED BY <3>2, <3>3
    <2> QED BY <2>1, <2>2
  <1>7. ScopeFacts => HistoryBegins'
    BY <1>3, <1>4, <1>5 DEF ScopeFacts, HistoryBegins
  <1>8. ScopeFacts => ScopeMatchesHistory'
    <2> SUFFICES ASSUME ScopeFacts, NEW o \in Sprint, NEW i \in Issue, state'[o] = "active"
                 PROVE  home'[i] = o <=> hist'[o][i] \in {"committed", "added"}
      BY DEF ScopeMatchesHistory
    <2>1. o # s /\ o # n /\ state[o] = "active"
      BY <1>4, <2>1
    <2>2. home'[i] = o <=> home[i] = o
      BY <1>6, <2>1
    <2> QED BY <1>5, <2>1, <2>2 DEF ScopeFacts, ScopeMatchesHistory
  <1>9. Finishes(t) /\ NoOpenWorkInClosedSprint => NoOpenWorkInClosedSprint'
    <2> SUFFICES ASSUME Finishes(t), NoOpenWorkInClosedSprint, NEW o \in Sprint, NEW i \in Issue, state'[o] = "closed", home'[i] = o
                 PROVE  done[i]
      BY <1>5 DEF NoOpenWorkInClosedSprint
    <2>1. CASE o = s
      BY <1>1, <1>2, <1>6, <2>1 DEF Finishes
    <2>2. CASE o # s
      <3>1. state[o] = "closed"
        BY <1>4, <2>2
      <3> QED BY <1>6, <3>1 DEF NoOpenWorkInClosedSprint
    <2> QED BY <2>1, <2>2
  <1> QED BY <1>7, <1>8, <1>9 DEF ScopeFacts

(* So does a cancellation, and the rest of the board does not notice.      *)
LEMMA CancelFacts ==
  ASSUME Inv, NEW t \in Tx, Counted(t), Places(t), CommitCancel(t)
  PROVE  /\ ScopeFacts => ScopeFacts'
         /\ NoOpenWorkInClosedSprint => NoOpenWorkInClosedSprint'
  <1> DEFINE s == req[t].sprint
  <1>0. TypeOK
    BY DEF Inv
  <1>1. s \in Sprint /\ state[s] \in {"active", "future"}
        /\ state' = [state EXCEPT ![s] = "cancelled"]
    BY CancelEffect DEF Inv
  <1>2. /\ seen[t].members = Members(s)
        /\ \A i \in seen[t].members : ValidDestination(s, DestinationOf(t, i))
    BY DEF Counted, Places, CommitCancel
  <1>3. /\ state'[s] = "cancelled"
        /\ \A o \in Sprint \ {s} : state'[o] = state[o] /\ hist'[o] = hist[o]
        /\ done' = done
    BY <1>0, <1>1 DEF TypeOK, CommitCancel
  <1>4. ASSUME NEW o \in Sprint \ {s}, NEW i \in Issue, state[o] # "future"
        PROVE  home'[i] = o <=> home[i] = o
    <2>1. CASE i \in seen[t].members /\ DestinationOf(t, i) # s
      <3>1. home[i] = s /\ home'[i] = DestinationOf(t, i)
        BY <1>2, <2>1 DEF CommitCancel, Members
      <3>2. DestinationOf(t, i) \in Sprint => state[DestinationOf(t, i)] = "future"
        BY <1>2, <2>1 DEF ValidDestination
      <3> QED BY <1>4, <3>1, <3>2
    <2>2. CASE ~(i \in seen[t].members /\ DestinationOf(t, i) # s)
      BY <2>2 DEF CommitCancel
    <2> QED BY <2>1, <2>2
  <1>5. ScopeFacts => HistoryBegins'
    BY <1>3 DEF ScopeFacts, HistoryBegins
  <1>6. ScopeFacts => ScopeMatchesHistory'
    BY <1>3, <1>4 DEF ScopeFacts, ScopeMatchesHistory
  <1>7. NoOpenWorkInClosedSprint => NoOpenWorkInClosedSprint'
    <2> SUFFICES ASSUME NoOpenWorkInClosedSprint, NEW o \in Sprint, NEW i \in Issue, state'[o] = "closed", home'[i] = o
                 PROVE  done[i]
      BY <1>3 DEF NoOpenWorkInClosedSprint
    <2>1. state[o] = "closed" /\ home[i] = o
      BY <1>3, <1>4
    <2> QED BY <2>1 DEF NoOpenWorkInClosedSprint
  <1> QED BY <1>5, <1>6, <1>7 DEF ScopeFacts

(* A move records in an active sprint what it takes out or puts in.        *)
LEMMA MoveFacts ==
  ASSUME Inv, NEW t \in Tx, Counted(t), Places(t), CommitMove(t)
  PROVE  /\ ScopeFacts => ScopeFacts'
         /\ NoOpenWorkInClosedSprint => NoOpenWorkInClosedSprint'
  <1> DEFINE d == req[t].target
  <1>0. TypeOK /\ req[t].issues \subseteq Issue
    BY DEF Inv, TypeOK, Requests
  <1>1. \A i \in Issue : i \in Leaving(t) => home[i] = seen[t].home[i] /\ home[i] # d
    BY DEF Counted, Places, CommitMove, Leaving
  <1>2. UNCHANGED <<state, done>>
    BY DEF CommitMove
  <1>3. \A i \in Issue : home'[i] = IF i \in Leaving(t) THEN d ELSE home[i]
    BY DEF CommitMove
  <1>4. ASSUME NEW s \in Sprint, NEW i \in Issue
        PROVE  hist'[s][i] =
                  IF i \in Leaving(t) /\ state[s] = "active" /\ seen[t].home[i] = s THEN "removed"
                  ELSE IF i \in Leaving(t) /\ state[s] = "active" /\ d = s THEN "added"
                  ELSE hist[s][i]
    BY DEF CommitMove, RecordMove
  <1>5. ScopeFacts => HistoryBegins'
    BY <1>2, <1>4 DEF ScopeFacts, HistoryBegins
  <1>6. ScopeFacts => ScopeMatchesHistory'
    <2> SUFFICES ASSUME ScopeFacts, NEW s \in Sprint, NEW i \in Issue, state[s] = "active"
                 PROVE  home'[i] = s <=> hist'[s][i] \in {"committed", "added"}
      BY <1>2 DEF ScopeMatchesHistory
    <2>1. home[i] = s <=> hist[s][i] \in {"committed", "added"}
      BY DEF ScopeFacts, ScopeMatchesHistory
    <2> QED BY <1>1, <1>3, <1>4, <2>1
  <1>7. NoOpenWorkInClosedSprint => NoOpenWorkInClosedSprint'
    <2> SUFFICES ASSUME NoOpenWorkInClosedSprint, NEW s \in Sprint, NEW i \in Issue, state[s] = "closed", home'[i] = s
                 PROVE  done[i]
      BY <1>2 DEF NoOpenWorkInClosedSprint
    <2>1. d # s
      BY DEF CommitMove, MayMove, ClosedStates
    <2>2. home[i] = s
      BY <1>3, <2>1
    <2> QED BY <2>2 DEF NoOpenWorkInClosedSprint
  <1> QED BY <1>5, <1>6, <1>7 DEF ScopeFacts

(* A status change leaves every active sprint with its issues, and takes   *)
(* an issue it reopens out of a sprint that has ended.                     *)
LEMMA TransitionFacts ==
  ASSUME Inv, NEW t \in Tx, Counted(t), Places(t), CommitTransition(t)
  PROVE  /\ ScopeFacts => ScopeFacts'
         /\ NoOpenWorkInClosedSprint => NoOpenWorkInClosedSprint'
  <1> DEFINE changed == {i \in req[t].issues : seen[t].done[i] # req[t].done}
  <1>0. TypeOK /\ req[t].issues \subseteq Issue /\ req[t].done \in BOOLEAN
    BY DEF Inv, TypeOK, Requests
  <1>1. \A i \in req[t].issues : seen[t].home[i] = home[i]
    BY DEF Counted, Places, CommitTransition
  <1>2. UNCHANGED <<state, hist>>
    BY DEF CommitTransition
  <1>3. /\ \A i \in Issue : done'[i] = IF i \in changed THEN req[t].done ELSE done[i]
        /\ \A i \in Issue : home'[i] = IF i \in changed /\ ReopenedInClosedSprint(t, i)
                                       THEN Backlog ELSE home[i]
    BY DEF CommitTransition
  <1>4. ScopeFacts => HistoryBegins'
    BY <1>2 DEF ScopeFacts, HistoryBegins
  <1>5. ScopeFacts => ScopeMatchesHistory'
    <2> SUFFICES ASSUME ScopeFacts, NEW s \in Sprint, NEW i \in Issue, state[s] = "active"
                 PROVE  home'[i] = s <=> home[i] = s
      BY <1>2 DEF ScopeFacts, ScopeMatchesHistory
    <2>1. CASE i \in changed /\ ReopenedInClosedSprint(t, i)
      BY <1>1, <1>3, <2>1, SprintAssumption DEF ReopenedInClosedSprint, ClosedStates
    <2>2. CASE ~(i \in changed /\ ReopenedInClosedSprint(t, i))
      BY <1>3, <2>2
    <2> QED BY <2>1, <2>2
  <1>6. NoOpenWorkInClosedSprint => NoOpenWorkInClosedSprint'
    <2> SUFFICES ASSUME NoOpenWorkInClosedSprint, NEW s \in Sprint, NEW i \in Issue, state[s] = "closed", home'[i] = s
                 PROVE  done'[i]
      BY <1>2 DEF NoOpenWorkInClosedSprint
    <2>1. home[i] = s /\ ~(i \in changed /\ ReopenedInClosedSprint(t, i))
      BY <1>3, SprintAssumption
    <2>2. CASE i \in changed
      <3>1. seen[t].home[i] = s
        BY <1>1, <2>1, <2>2
      <3>2. req[t].done
        BY <2>1, <2>2, <3>1 DEF ReopenedInClosedSprint, ClosedStates
      <3> QED BY <1>3, <2>2, <3>2
    <2>3. CASE i \notin changed
      <3>1. done[i]
        BY <2>1 DEF NoOpenWorkInClosedSprint
      <3> QED BY <1>3, <2>3, <3>1
    <2> QED BY <2>2, <2>3
  <1> QED BY <1>4, <1>5, <1>6 DEF ScopeFacts

(* What every step keeps as long as commits find the places they loaded.   *)
LEMMA ScopeNext ==
  ASSUME Inv, ScopeInv, PlacesAsLoaded, [Next]_vars
  PROVE  /\ ScopeInv'
         /\ FinishedAsLoaded /\ NoOpenWorkInClosedSprint => NoOpenWorkInClosedSprint'
  <1> DEFINE Good == /\ ScopeFacts'
                     /\ FinishedAsLoaded /\ NoOpenWorkInClosedSprint => NoOpenWorkInClosedSprint'
  <1>1. TypeOK /\ ScopeFacts /\ \A t \in Tx : Counted(t)
    BY DEF Inv, ScopeInv
  <1>2. \A t \in Tx : Counted(t)'
    BY <1>1, CountedNext
  <1>3. ASSUME UNCHANGED <<state, home, done, hist>> PROVE Good
    BY <1>1, <1>3 DEF ScopeFacts, HistoryBegins, ScopeMatchesHistory, NoOpenWorkInClosedSprint
  <1>4. ASSUME NEW t \in Tx,
               CommitStart(t) \/ CommitComplete(t) \/ CommitCancel(t) \/ CommitMove(t)
               \/ CommitTransition(t)
        PROVE  Good
    <2>1. CASE CommitStart(t)
      BY <1>1, <2>1, StartFacts
    <2>2. CASE CommitComplete(t)
      BY <1>1, <2>2, CompleteFacts DEF PlacesAsLoaded, FinishedAsLoaded
    <2>3. CASE CommitCancel(t)
      BY <1>1, <2>3, CancelFacts DEF PlacesAsLoaded
    <2>4. CASE CommitMove(t)
      BY <1>1, <2>4, MoveFacts DEF PlacesAsLoaded
    <2>5. CASE CommitTransition(t)
      BY <1>1, <2>5, TransitionFacts DEF PlacesAsLoaded
    <2> QED BY <1>4, <2>1, <2>2, <2>3, <2>4, <2>5
  <1>5. ASSUME NEW t \in Tx, Step(t) PROVE Good
    BY <1>3, <1>4, <1>5
       DEF Step, EnterStart, LockBoard, RefuseParallel, EnterComplete, EnterCancel, UpdateSprint,
           EnterAdd, EnterRemove, ReadMove, LockNext, RefuseMove, ReadTransition, Refuse,
           AbortDeadlock, Rollback, db
  <1>6. ASSUME NEW t \in Tx, Begin(t) \/ Fail(t) PROVE Good
    BY <1>3, <1>6 DEF Begin, Fail, Rollback, db
  <1>7. ASSUME NEW s \in Sprint, CreateSprint(s) PROVE Good
    <2>1. state' = [state EXCEPT ![s] = "future"] /\ UNCHANGED <<home, done, hist>>
      BY <1>7 DEF CreateSprint
    <2>2. state[s] = "none" /\ state'[s] = "future" /\ \A o \in Sprint \ {s} : state'[o] = state[o]
      BY <1>1, <1>7, <2>1 DEF CreateSprint, TypeOK
    <2>3. HistoryBegins'
      BY <1>1, <2>1, <2>2 DEF ScopeFacts, HistoryBegins
    <2>4. ScopeMatchesHistory'
      BY <1>1, <2>1, <2>2 DEF ScopeFacts, ScopeMatchesHistory
    <2>5. NoOpenWorkInClosedSprint => NoOpenWorkInClosedSprint'
      BY <2>1, <2>2 DEF NoOpenWorkInClosedSprint
    <2> QED BY <2>3, <2>4, <2>5 DEF ScopeFacts
  <1>8. ASSUME (\E i \in Issue : TransitionSubtask(i)) \/ UNCHANGED vars PROVE Good
    BY <1>3, <1>8 DEF TransitionSubtask, vars
  <1>9. Good
    BY <1>5, <1>6, <1>7, <1>8 DEF Next
  <1> QED BY <1>2, <1>9 DEF ScopeInv

LEMMA ScopeInit == Init => ScopeInv /\ NoOpenWorkInClosedSprint
  BY SprintAssumption DEF Init, ScopeInv, ScopeFacts, Counted, At, NoView, HistoryBegins,
     ScopeMatchesHistory, NoOpenWorkInClosedSprint

LEMMA ScopeInvariance == Spec /\ [][PlacesAsLoaded]_vars => []ScopeInv
  <1>1. Init => ScopeInv
    BY ScopeInit
  <1>2. Inv /\ ScopeInv /\ [Next]_vars /\ [PlacesAsLoaded]_vars => ScopeInv'
    <2>1. ASSUME Inv, ScopeInv, UNCHANGED vars PROVE ScopeInv'
      BY <2>1 DEF vars, ScopeInv, Counted, At, Members, ScopeFacts, HistoryBegins,
         ScopeMatchesHistory
    <2> QED BY <2>1, ScopeNext
  <1> QED BY <1>1, <1>2, Invariance, PTL DEF Spec

(* However many requests overlap, the history of an active sprint equals   *)
(* its scope (what start_sprint committed and the moves since) as long as  *)
(* no commit writes a place that changed since the request loaded it: the  *)
(* row locks keep everything else.  Two moves of one issue that cross, or  *)
(* a destination that starts or ends under a completion, are the exception.*)
THEOREM ScopeRight == Spec /\ [][PlacesAsLoaded]_vars => []ScopeMatchesHistory
  <1>1. ScopeInv => ScopeMatchesHistory
    BY DEF ScopeInv, ScopeFacts
  <1> QED BY <1>1, ScopeInvariance, PTL

(* Nor is open work left in a closed sprint, unless besides that an issue  *)
(* is reopened between a completion's reading it finished and its commit:  *)
(* the completion moves open work out, and the flush hook sends what is    *)
(* reopened later to the backlog, even when it was read before the end.    *)
THEOREM ReopenedLeaves ==
    Spec /\ [][PlacesAsLoaded /\ FinishedAsLoaded]_vars => []NoOpenWorkInClosedSprint
  <1>1. Init => NoOpenWorkInClosedSprint
    BY ScopeInit
  <1>2. Inv /\ ScopeInv /\ NoOpenWorkInClosedSprint
        /\ [Next]_vars /\ [PlacesAsLoaded /\ FinishedAsLoaded]_vars
        => NoOpenWorkInClosedSprint'
    <2>1. ASSUME NoOpenWorkInClosedSprint, UNCHANGED vars PROVE NoOpenWorkInClosedSprint'
      BY <2>1 DEF vars, NoOpenWorkInClosedSprint
    <2> QED BY <2>1, ScopeNext
  <1>3. [PlacesAsLoaded /\ FinishedAsLoaded]_vars => [PlacesAsLoaded]_vars
    OBVIOUS
  <1> QED BY <1>1, <1>2, <1>3, Invariance, ScopeInvariance, PTL DEF Spec
=============================================================================
