----------------------- MODULE RequestAdmission_proofs -----------------------
(***************************************************************************)
(* Proofs about RequestAdmission: with any number of requests, outside     *)
(* sessions and worker threads, the slots keep the pool from deadlocking   *)
(* as soon as it has two connections.                                      *)
(***************************************************************************)
EXTENDS RequestAdmission, FiniteSetTheorems, TLAPS

\* At most as many requests as there are slots hold one, and only they hold a
\* request connection (TypeOK): there is always a connection they do not hold.
SlotsBound == Cardinality(Admitted) <= Slots

Inv == TypeOK /\ SlotsBound

LEMMA SlotsFacts == Slots \in Nat /\ Slots >= 1 /\ (PoolSize > 1 => Slots < PoolSize)
BY AdmissionAssumption DEF Slots, Reserved

LEMMA AdmittedFinite ==
    IsFiniteSet(Admitted) /\ Cardinality(Admitted) \in Nat
<1>1. Admitted \subseteq Request
  BY DEF Admitted
<1> QED BY <1>1, AdmissionAssumption, FS_Subset, FS_CardinalityType

-----------------------------------------------------------------------------
(* The invariant. *)

LEMMA InitInv == Init => Inv
<1> SUFFICES ASSUME Init PROVE Inv
  OBVIOUS
<1>1. TypeOK
  BY AdmissionAssumption DEF Init, TypeOK, Party
<1>2. Admitted = {}
  BY DEF Init, Admitted, Party
<1>3. SlotsBound
  BY <1>2, FS_EmptySet, SlotsFacts DEF SlotsBound
<1> QED BY <1>1, <1>3 DEF Inv

LEMMA NextType ==
    ASSUME TypeOK, [Next]_vars
    PROVE  TypeOK'
<1> USE AdmissionAssumption DEF TypeOK, Admitted, Party, Goto
<1>1. CASE UNCHANGED vars
  BY <1>1 DEF vars
<1>2. ASSUME NEW p \in Request, Arrive(p) PROVE TypeOK'
  BY <1>2 DEF Arrive
<1>3. ASSUME NEW p \in Request, Admit(p) PROVE TypeOK'
  BY <1>3 DEF Admit
<1>4. ASSUME NEW p \in Request, Enter(p) PROVE TypeOK'
  BY <1>4 DEF Enter
<1>5. ASSUME NEW p \in Request, Connect(p) PROVE TypeOK'
  BY <1>5 DEF Connect
<1>6. ASSUME NEW p \in Request, Leave(p) PROVE TypeOK'
  BY <1>6 DEF Leave
<1>7. ASSUME NEW p \in Request, Teardown(p) PROVE TypeOK'
  BY <1>7 DEF Teardown
<1>8. ASSUME NEW p \in Party, EnterTask(p) PROVE TypeOK'
  BY <1>8 DEF EnterTask
<1>9. ASSUME NEW p \in Party, ConnectTask(p) PROVE TypeOK'
  BY <1>9 DEF ConnectTask
<1>10. ASSUME NEW p \in Party, LeaveTask(p) PROVE TypeOK'
  BY <1>10 DEF LeaveTask
<1> QED
  <2> HIDE DEF TypeOK, Admitted, Goto
  <2> QED
    BY <1>1, <1>2, <1>3, <1>4, <1>5, <1>6, <1>7, <1>8, <1>9, <1>10
    DEF Next, Step

\* Only Admit adds to the requests that hold a slot, and it waits for one.
LEMMA NextSlots ==
    ASSUME Inv, [Next]_vars
    PROVE  SlotsBound'
<1> USE DEF Inv
<1>1. ASSUME NEW p \in Request, Admit(p) PROVE SlotsBound'
  <2>1. Admitted' = Admitted \cup {p} /\ p \notin Admitted
    BY <1>1 DEF Admit, Goto, Admitted, TypeOK, Party
  <2>2. Cardinality(Admitted') = Cardinality(Admitted) + 1
    BY <2>1, AdmittedFinite, FS_AddElement
  <2>3. Cardinality(Admitted) < Slots
    BY <1>1 DEF Admit
  <2>4. Slots' = Slots
    BY DEF Slots, Reserved
  <2> QED BY <2>2, <2>3, <2>4, AdmittedFinite, SlotsFacts DEF SlotsBound
<1>2. CASE Admitted' \subseteq Admitted
  <2>1. Cardinality(Admitted') <= Cardinality(Admitted)
    BY <1>2, AdmittedFinite, FS_Subset
  <2>2. Cardinality(Admitted') \in Nat
    BY <1>2, AdmittedFinite, FS_Subset, FS_CardinalityType
  <2> QED BY <2>1, <2>2, AdmittedFinite, SlotsFacts DEF SlotsBound, Slots, Reserved
<1>3. (\E p \in Request : Admit(p)) \/ Admitted' \subseteq Admitted
  <2> USE DEF Admitted, Goto, TypeOK, Party
  <2>1. CASE UNCHANGED vars
    BY <2>1 DEF vars
  <2>2. CASE \E p \in Request : Arrive(p)
    BY <2>2 DEF Arrive
  <2>3. ASSUME NEW p \in Request, Enter(p) \/ Connect(p) \/ Leave(p) \/ Teardown(p)
        PROVE  Admitted' \subseteq Admitted
    BY <2>3 DEF Enter, Connect, Leave, Teardown
  <2>4. ASSUME NEW p \in Party, EnterTask(p) \/ ConnectTask(p) \/ LeaveTask(p)
        PROVE  Admitted' \subseteq Admitted
    BY <2>4, AdmissionAssumption DEF EnterTask, ConnectTask, LeaveTask
  <2> QED BY <2>1, <2>2, <2>3, <2>4 DEF Next, Step
<1> QED BY <1>1, <1>2, <1>3

LEMMA Invariance == Spec => []Inv
<1>1. Inv /\ [Next]_vars => Inv'
  BY NextType, NextSlots DEF Inv
<1> QED BY <1>1, InitInv, PTL DEF Spec

-----------------------------------------------------------------------------
\* Every variable keeps its type: only admitted requests hold a request
\* connection, only running tasks another one.
THEOREM TypeCorrect == Spec => []TypeOK
<1>1. Inv => TypeOK
  BY DEF Inv
<1> QED BY <1>1, Invariance, PTL

\* What the invariant says of one state: if nothing under way could go on,
\* every worker thread would wait for a connection, so no other session would
\* hold one, and the admitted requests, fewer than the connections, would hold
\* them all.
LEMMA SlotsPreventDeadlock ==
    ASSUME Inv, PoolSize > 1
    PROVE  NoPoolDeadlock
<1> SUFFICES ASSUME NEW p \in Party, UnderWay(p),
                    \A q \in Party : UnderWay(q) => ~CanGoOn(q)
             PROVE  FALSE
  BY DEF NoPoolDeadlock
<1> USE DEF Inv
<1>1. ~FreeConnection
  <2>1. CASE InThread = {}
    <3>1. FreeThread
      BY <2>1, FS_EmptySet, AdmissionAssumption DEF FreeThread
    <3>2. stage[p] = "between"
      BY <2>1 DEF UnderWay, InThread, TypeOK
    <3> QED BY <3>1, <3>2 DEF CanGoOn
  <2>2. CASE InThread # {}
    BY <2>2 DEF InThread, UnderWay, CanGoOn
  <2> QED BY <2>1, <2>2
<1>2. extra = {}
  BY DEF TypeOK, UnderWay, CanGoOn, Party
<1>3. session \subseteq Admitted
  BY DEF TypeOK
<1>4. Cardinality(session) <= Cardinality(Admitted) /\ Cardinality(session) \in Nat
  BY <1>3, AdmittedFinite, FS_Subset, FS_CardinalityType
<1>5. Cardinality(session) < PoolSize
  BY <1>4, AdmittedFinite, SlotsFacts, AdmissionAssumption DEF SlotsBound
<1>6. Cardinality(extra) = 0
  BY <1>2, FS_EmptySet
<1> QED BY <1>1, <1>4, <1>5, <1>6, AdmissionAssumption DEF FreeConnection

\* The connection pool does not deadlock, whatever the number of requests,
\* outside sessions and threads, if it has more than one connection.
THEOREM NoDeadlock ==
    ASSUME PoolSize > 1
    PROVE  Spec => []NoPoolDeadlock
<1>1. Inv => NoPoolDeadlock
  BY SlotsPreventDeadlock
<1> QED BY <1>1, Invariance, PTL

==============================================================================
