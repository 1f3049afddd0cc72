---------------------------- MODULE ClientPlanning ----------------------------
(***************************************************************************)
(* The planning page of a project, views/agile/PlanningPanel.jsx, with the *)
(* capacity of the sprints at the server, routes/agile_planning.py.        *)
(*                                                                         *)
(* The page asks for the plan of the sprint picked and takes the answer to *)
(* its latest request only.  The capacity being edited carries the sprint  *)
(* it was loaded for, and a save is followed by a load of the sprint that  *)
(* was picked when it was pressed.  One person's capacity stands for all.  *)
(***************************************************************************)
EXTENDS ClientParts

CONSTANT Sprint     \* the project's sprints, numbered as they are listed

ASSUME PlanningAssumption == Sprint \subseteq Nat \ {0}

VARIABLES
    open,         \* the server's sprints that are future or active
    capacity,     \* the server's capacity of each sprint: which of those typed, 0 for none
    typedFor,     \* history: the sprint that was picked when each was typed
    planner,      \* the state of the page
    planReads,    \* loads of a plan under way
    planSaves,    \* saves under way
    dated         \* history: others changed the plan shown, its load failed, a
                  \* save's answer was lost, or a save brought it back after the pick turned

planning == <<open, capacity, typedFor, planner, planReads, planSaves, dated>>

NoPlan == [sprint |-> 0, cap |-> 0]
Empty(mount) == [mount |-> mount, base |-> "loading", sprints |-> {}, picked |-> 0, seq |-> 0,
                 plan |-> NoPlan, draft |-> NoPlan]

PlanningTypeOK ==
    /\ open \subseteq Sprint
    /\ typedFor \in Seq(Sprint) /\ capacity \in [Sprint -> 0..Len(typedFor)]
    /\ DOMAIN planner = DOMAIN Empty(0)
    /\ planner.sprints \subseteq Sprint /\ planner.base \in {"loading", "shown", "missing"}
    /\ {planner.picked, planner.plan.sprint, planner.draft.sprint} \subseteq Sprint \cup {0}
    /\ {planner.plan.cap, planner.draft.cap} \subseteq 0..Len(typedFor)
    /\ dated \in BOOLEAN

PlanningInit ==
    /\ open = Sprint
    /\ typedFor = << >> /\ capacity = [s \in Sprint |-> 0]
    /\ planner = Empty(0)
    /\ planReads = {} /\ planSaves = {} /\ dated = FALSE
-----------------------------------------------------------------------------
(* Loads. *)

UnusedBy(X) == CHOOSE k \in 0..Cardinality(X) : \A x \in X : x.n # k

\* The plan of s is asked for; what was shown and typed is gone.
RefreshPlanning(v, s) ==
    /\ planner' = [v EXCEPT !.seq = @ + 1, !.plan = NoPlan, !.draft = NoPlan]
    /\ planReads' = IF s = 0 THEN planReads
                    ELSE planReads \cup {[n |-> UnusedBy(planReads), mount |-> v.mount, seq |-> v.seq + 1,
                                          sprint |-> s, got |-> "nothing", cap |-> 0]}
    /\ dated' = (s # v.picked)

First(S) == IF S = {} THEN 0 ELSE CHOOSE s \in S : \A t \in S : s <= t

\* The board and its sprints come; the pick is kept if it is still one of them.
BaseArrives(listed) ==
    LET pick == IF planner.picked \in listed THEN planner.picked ELSE First(listed)
        v == [planner EXCEPT !.base = "shown", !.sprints = listed, !.picked = pick]
    IN /\ planner.base = "loading"
       /\ IF pick = planner.picked THEN planner' = v /\ UNCHANGED <<planReads, dated>>
          ELSE RefreshPlanning(v, pick)
       /\ UNCHANGED <<open, capacity, typedFor, planSaves>>

BaseFails ==
    /\ planner.base = "loading"
    /\ planner' = [planner EXCEPT !.base = "missing"]
    /\ UNCHANGED <<open, capacity, typedFor, planReads, planSaves, dated>>

PlanServed(q) ==
    /\ q.got = "nothing"
    /\ planReads' = (planReads \ {q}) \cup {[q EXCEPT !.got = "plan", !.cap = capacity[q.sprint]]}
    /\ UNCHANGED <<open, capacity, typedFor, planner, planSaves, dated>>

\* Slip: whichever answer comes is taken.
Mut_LatestPlan(q) == q.mount = planner.mount

LatestPlan(q) == q.mount = planner.mount /\ q.seq = planner.seq

PlanArrives(q) ==
    /\ q.got = "plan"
    /\ planReads' = planReads \ {q}
    /\ LET plan == [sprint |-> q.sprint, cap |-> q.cap]
       IN planner' = IF LatestPlan(q) THEN [planner EXCEPT !.plan = plan, !.draft = plan] ELSE planner
    /\ UNCHANGED <<open, capacity, typedFor, planSaves, dated>>

PlanFails(q) ==
    /\ planReads' = planReads \ {q}
    /\ dated' = (dated \/ LatestPlan(q))
    /\ UNCHANGED <<open, capacity, typedFor, planner, planSaves>>
-----------------------------------------------------------------------------
(* The user. *)

\* The page is left and opened again.
Remount ==
    /\ planner' = Empty(planner.mount + 1) /\ dated' = FALSE
    /\ UNCHANGED <<open, capacity, typedFor, planReads, planSaves>>

PickSprint(s) ==
    /\ planner.base = "shown" /\ s \in planner.sprints \ {planner.picked}
    /\ RefreshPlanning([planner EXCEPT !.picked = s], s)
    /\ UNCHANGED <<open, capacity, typedFor, planSaves>>

HasPlan == planner.base = "shown" /\ planner.plan # NoPlan

\* Into the field; emptying it is typing too.
TypeCapacity ==
    /\ HasPlan
    /\ typedFor' = Append(typedFor, planner.picked)
    /\ planner' = [planner EXCEPT !.draft.cap = Len(typedFor) + 1]
    /\ UNCHANGED <<open, capacity, planReads, planSaves, dated>>

EmptyCapacity ==
    /\ HasPlan
    /\ planner' = [planner EXCEPT !.draft.cap = 0]
    /\ UNCHANGED <<open, capacity, typedFor, planReads, planSaves, dated>>

\* Slip: the button is there whenever there is something to save.
Mut_SaveOffered == HasPlan

SaveOffered == HasPlan /\ planner.draft.sprint = planner.picked

SaveCapacity ==
    /\ SaveOffered
    /\ planSaves' = planSaves \cup {[n |-> UnusedBy(planSaves), mount |-> planner.mount, into |-> planner.draft.sprint,
                                     cap |-> planner.draft.cap, picked |-> planner.picked, answer |-> "none"]}
    /\ UNCHANGED <<open, capacity, typedFor, planner, planReads, dated>>

\* The server keeps the rows of those no capacity is sent for.
CapacityReplaced(w) ==
    /\ w.answer = "none"
    /\ capacity' = IF w.cap = 0 THEN capacity ELSE [capacity EXCEPT ![w.into] = w.cap]
    /\ \E how \in {"ok", "lost"} :
         /\ planSaves' = (planSaves \ {w}) \cup {[w EXCEPT !.answer = how]}
         /\ dated' = (dated \/ how = "lost" \/ w.mount # planner.mount)
    /\ UNCHANGED <<open, typedFor, planner, planReads>>

\* Which is the plan of the sprint that was picked at the press.
CapacitySaved(w) ==
    /\ w.answer = "ok"
    /\ planSaves' = planSaves \ {w}
    /\ IF w.mount = planner.mount THEN RefreshPlanning(planner, w.picked)
       ELSE UNCHANGED <<planner, planReads, dated>>
    /\ UNCHANGED <<open, capacity, typedFor>>

CapacityNotSaved(w) ==
    /\ w.answer \in {"none", "lost"}
    /\ planSaves' = planSaves \ {w}
    /\ UNCHANGED <<open, capacity, typedFor, planner, planReads, dated>>

\* Someone else closes a sprint, or saves a capacity.
OthersPlan(s) ==
    /\ \/ open' = open \ {s} /\ UNCHANGED <<capacity, typedFor, dated>>
       \/ /\ typedFor' = Append(typedFor, s) /\ capacity' = [capacity EXCEPT ![s] = Len(typedFor) + 1]
          /\ dated' = TRUE /\ UNCHANGED open
    /\ UNCHANGED <<planner, planReads, planSaves>>

PlanningUser ==
    \/ \E s \in Sprint : PickSprint(s) \/ OthersPlan(s)
    \/ TypeCapacity \/ EmptyCapacity \/ SaveCapacity \/ Remount

PlanningAnswers ==
    \/ BaseArrives(open) \/ BaseFails
    \/ \E q \in planReads : PlanServed(q) \/ PlanArrives(q) \/ PlanFails(q)
    \/ \E w \in planSaves : CapacityReplaced(w) \/ CapacitySaved(w) \/ CapacityNotSaved(w)
-----------------------------------------------------------------------------
(* Properties. *)

\* A capacity reaches no other sprint than the one that was picked when it was
\* typed, whatever was picked while answers were in flight.
CapacityWhereTyped == \A s \in Sprint : capacity[s] # 0 => typedFor[capacity[s]] = s

\* With nothing under way the plan shown is the server's and of the sprint that
\* is picked, unless others changed it, a load failed, an answer was lost, or
\* the answer to a save brought the plan back from which the pick had turned.
PlanSettles ==
    planReads = {} /\ planSaves = {} /\ ~dated /\ planner.base = "shown" =>
        planner.plan = IF planner.picked = 0 THEN NoPlan
                       ELSE [sprint |-> planner.picked, cap |-> capacity[planner.picked]]

PlanningRight == CapacityWhereTyped /\ PlanSettles
=============================================================================
