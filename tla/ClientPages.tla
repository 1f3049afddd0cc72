----------------------------- MODULE ClientPages -----------------------------
(***************************************************************************)
(* What a page works with besides the state all pages share (ClientShell): *)
(* the sections of the item dialog, the events, the audit trail and the    *)
(* planning of sprints, one of which a behaviour exercises.                *)
(***************************************************************************)
EXTENDS ItemSections, ClientEvents, ClientAudit, ClientPlanning

vars == <<part, inputs, sections, eventsState, audit, planning>>

Init ==
    /\ part \in Parts /\ inputs = 0
    /\ SectionsInit /\ EventsInit /\ AuditInit /\ PlanningInit
    /\ part # "events" => everPlanned = Event
    /\ part # "audit" => trail = << >>

\* What one part does leaves the others alone.
Only(name) ==
    /\ part = name
    /\ name # "sections" => UNCHANGED sections
    /\ name # "events" => UNCHANGED eventsState
    /\ name # "audit" => UNCHANGED audit
    /\ name # "planning" => UNCHANGED planning

Next ==
    \/ /\ UNCHANGED part
       /\ \/ Only("sections") /\ ByUser(SectionsUser)
          \/ Only("events") /\ ByUser(EventsUser)
          \/ Only("audit") /\ ByUser(AuditUser)
          \/ Only("planning") /\ ByUser(PlanningUser)
    \/ /\ UNCHANGED <<part, inputs>>
       /\ \/ Only("sections") /\ SectionsAnswers
          \/ Only("events") /\ EventsAnswers
          \/ Only("audit") /\ AuditAnswers
          \/ Only("planning") /\ PlanningAnswers

Spec == Init /\ [][Next]_vars

TypeOK ==
    /\ part \in Parts /\ inputs \in 0..MaxInputs[part]
    /\ SectionsTypeOK /\ EventsTypeOK /\ AuditTypeOK /\ PlanningTypeOK

\* The pages that load as they are left alone: the rows of the audit trail, and
\* the plan of a sprint with its capacity.
PagesRight == AuditRight /\ PlanningRight
=============================================================================
