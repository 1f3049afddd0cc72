-------------------------- MODULE RequestAdmission --------------------------
(***************************************************************************)
(* Admission control of app/database.py (get_db): requests, worker threads *)
(* and pooled connections.                                                 *)
(*                                                                         *)
(* A request makes several trips through the worker-thread pool and keeps  *)
(* its connection between them; a background task of it runs in a thread   *)
(* of its own with a second session, while the request still holds its     *)
(* slot.  Health checks, pages and scheduled jobs open sessions outside    *)
(* get_db.  The 30 s pool timeout is left out: the module is about never   *)
(* needing it.                                                             *)
(***************************************************************************)
EXTENDS Integers, FiniteSets

CONSTANTS
    Request,    \* requests that use get_db
    Outside,    \* sessions opened outside get_db
    PoolSize,   \* DB_POOL_SIZE + DB_MAX_OVERFLOW
    Threads,    \* worker threads
    MaxTrips    \* bound on the trips of one request

ASSUME AdmissionAssumption ==
    /\ IsFiniteSet(Request)
    /\ IsFiniteSet(Outside)
    /\ Request \cap Outside = {}
    /\ PoolSize \in Nat \ {0}
    /\ Threads \in Nat \ {0}
    /\ MaxTrips \in Nat \ {0}

Party == Request \cup Outside

VARIABLES
    stage,     \* where each request or outside session is
    trips,     \* trips a request has yet to make
    tasks,     \* the requests that have a background task to run
    session,   \* the requests whose get_db session holds a connection
    extra      \* the parties whose other session holds one

vars == <<stage, trips, tasks, session, extra>>

\* _RESERVED_CONNECTIONS and _request_session_slots
Reserved == 2

\* Slip: the reserve is not subtracted.
Mut_Slots == PoolSize

Slots == IF PoolSize > Reserved THEN PoolSize - Reserved ELSE 1

Admitted == {p \in Request : stage[p] \in {"between", "thread", "task"}}
InThread == {p \in Party : stage[p] \in {"thread", "task"}}
FreeThread == Cardinality(InThread) < Threads
FreeConnection == Cardinality(session) + Cardinality(extra) < PoolSize

Init ==
    /\ stage = [p \in Party |-> "idle"]
    /\ trips = [p \in Request |-> 0]
    /\ tasks = {}
    /\ session = {}
    /\ extra = {}

Goto(p, where) == stage' = [stage EXCEPT ![p] = where]

-----------------------------------------------------------------------------
(* A request, admitted by the semaphore. *)

Arrive(p) ==
    /\ stage[p] = "idle"
    /\ Goto(p, "queued")
    /\ \E n \in 1 .. MaxTrips : trips' = [trips EXCEPT ![p] = n]
    /\ tasks' \in {tasks, tasks \cup {p}}
    /\ UNCHANGED <<session, extra>>

\* async with _session_slots(): waits on the event loop, in no thread.
Admit(p) ==
    /\ stage[p] = "queued"
    /\ Cardinality(Admitted) < Slots
    /\ Goto(p, "between")
    /\ UNCHANGED <<trips, tasks, session, extra>>

\* A synchronous dependency, or the handler, is handed to a worker thread.
Enter(p) ==
    /\ stage[p] = "between"
    /\ trips[p] > 0
    /\ FreeThread
    /\ Goto(p, "thread")
    /\ UNCHANGED <<trips, tasks, session, extra>>

\* Its first statement takes a connection, if the session has none.
Connect(p) ==
    /\ stage[p] = "thread"
    /\ p \notin session
    /\ FreeConnection
    /\ session' = session \cup {p}
    /\ UNCHANGED <<stage, trips, tasks, extra>>

\* A commit hands the connection back, a read after it takes one again.
Leave(p) ==
    /\ stage[p] = "thread"
    /\ p \in session
    /\ Goto(p, "between")
    /\ trips' = [trips EXCEPT ![p] = @ - 1]
    /\ session' \in {session, session \ {p}}
    /\ UNCHANGED <<tasks, extra>>

\* After the response and its background task: close() and the slot, on the
\* event loop.
Teardown(p) ==
    /\ stage[p] = "between"
    /\ trips[p] = 0
    /\ p \notin tasks
    /\ Goto(p, "idle")
    /\ session' = session \ {p}
    /\ UNCHANGED <<trips, tasks, extra>>

-----------------------------------------------------------------------------
(* Sessions outside get_db. *)

EnterTask(p) ==
    /\ IF p \in Request
         THEN stage[p] = "between" /\ trips[p] = 0 /\ p \in tasks
         ELSE stage[p] = "idle"
    /\ FreeThread
    /\ Goto(p, "task")
    /\ UNCHANGED <<trips, tasks, session, extra>>

ConnectTask(p) ==
    /\ stage[p] = "task"
    /\ p \notin extra
    /\ FreeConnection
    /\ extra' = extra \cup {p}
    /\ UNCHANGED <<stage, trips, tasks, session>>

\* Slip: the task is put back, as after a failure that is retried at once.
Mut_LeaveTask(p) ==
    /\ stage[p] = "task"
    /\ p \in extra
    /\ Goto(p, IF p \in Request THEN "between" ELSE "idle")
    /\ extra' = extra \ {p}
    /\ UNCHANGED <<trips, tasks, session>>

LeaveTask(p) ==
    /\ stage[p] = "task"
    /\ p \in extra
    /\ Goto(p, IF p \in Request THEN "between" ELSE "idle")
    /\ tasks' = tasks \ {p}
    /\ extra' = extra \ {p}
    /\ UNCHANGED <<trips, session>>

-----------------------------------------------------------------------------
Step(p) ==
    \/ /\ p \in Request
       /\ Admit(p) \/ Enter(p) \/ Connect(p) \/ Leave(p) \/ Teardown(p)
       \/ EnterTask(p)
    \/ ConnectTask(p)
    \/ LeaveTask(p)

Next ==
    \/ \E p \in Request : Arrive(p)
    \/ \E p \in Outside : EnterTask(p)
    \/ \E p \in Party : Step(p)

\* The semaphore, the thread limiter and the connection pool serve their
\* waiters in turn.
Fairness == \A p \in Party : SF_vars(Step(p))

Spec == Init /\ [][Next]_vars /\ Fairness

-----------------------------------------------------------------------------
TypeOK ==
    /\ stage \in [Party -> {"idle", "queued", "between", "thread", "task"}]
    /\ trips \in [Request -> 0 .. MaxTrips]
    /\ tasks \subseteq Request
    /\ session \subseteq Admitted
    /\ extra \subseteq {p \in Party : stage[p] = "task"}
    /\ \A p \in Request : stage[p] = "thread" => trips[p] > 0

\* Requests that hold connections never wait for worker threads that are all
\* waiting for connections: whenever something is under way, something that is
\* under way can go on.
UnderWay(p) == stage[p] \notin {"idle", "queued"}

CanGoOn(p) ==
    \/ stage[p] = "thread" /\ (p \in session \/ FreeConnection)
    \/ stage[p] = "task" /\ (p \in extra \/ FreeConnection)
    \/ stage[p] = "between" /\ trips[p] = 0 /\ p \notin tasks
    \/ stage[p] = "between" /\ FreeThread

NoPoolDeadlock ==
    (\E p \in Party : UnderWay(p)) => \E p \in Party : UnderWay(p) /\ CanGoOn(p)

\* Every request is served and every session ends, with no help from a timeout.
EverySessionEnds ==
    \A p \in Party : stage[p] # "idle" ~> stage[p] = "idle"

=============================================================================
