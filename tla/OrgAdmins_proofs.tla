-------------------------- MODULE OrgAdmins_proofs --------------------------
(***************************************************************************)
(* Proofs about OrgAdmins, for any set of accounts and any number of       *)
(* concurrent requests.  An organization keeps an active admin as long as  *)
(* nobody is granted the admin role while a request that may have loaded   *)
(* the account without it is under way, and an admin deletes his own       *)
(* account, which takes no lock, while no other request runs.              *)
(***************************************************************************)
EXTENDS OrgAdmins, TLAPS

\* The requests the row locks are enough for.
Guarded == Overlapping = {}

\* The account has been created, and if it was loaded without the admin role it
\* is not an admin now.
Known(u, r) == role[u] # "unborn" /\ (r # "admin" => role[u] # "admin")

\* A request that runs asks for something.
Asked == \A t \in Tx : pc[t] # "idle" => req[t] \in Requests

\* The request is one that passed MayCall, and its caller is as loaded.
CallerKnown(t) ==
    /\ req[t] \in Requests
    /\ Sent(req[t])
    /\ Known(req[t].caller, callerRole[t])
    /\ req[t].op = "delete" => callerRole[t] = "admin"

\* The target is as loaded, and a manager's target is no admin.
TargetKnown(t) ==
    /\ Known(req[t].target, seenRole[t])
    /\ callerRole[t] # "admin" => seenRole[t] # "admin"

\* A request about to take an admin away holds the row of another one, or
\* counted another one and runs alone.
Covered(t) ==
    TakesAdmin(req[t], seenRole[t], seenActive[t])
        => \/ holds[t] \ {req[t].target} # {}
           \/ req[t].op = "leave" /\ OtherAdmins(req[t].target) # {}

Ready(t) ==
    /\ pc[t] # "idle" => CallerKnown(t)
    /\ pc[t] \in {"count", "lock", "write"} => TargetKnown(t)
    /\ pc[t] = "write" => Covered(t)

\* Nothing runs beside a request that is kept apart.
RunsAlone(t) == pc[t] # "idle" /\ Alone(req[t], callerRole[t])
Solo == \A t \in Tx : RunsAlone(t) => \A s \in Tx \ {t} : pc[s] = "idle"

Base == TypeOK /\ Asked /\ LockedAreAdmins

Inv ==
    /\ Base
    /\ AdminRemains
    /\ Solo
    /\ \A t \in Tx : Ready(t)

-----------------------------------------------------------------------------
(* Types. *)

LEMMA RequestFacts ==
    ASSUME NEW q \in Requests
    PROVE  /\ q.op \in {"update", "delete", "leave"}
           /\ q.caller \in User
           /\ q.target \in User
           /\ q.role \in Role \cup {Keep}
           /\ q.active \in BOOLEAN \cup {Keep}
           /\ q.op # "update" => q.role = Keep /\ q.active = Keep
BY DEF Requests

LEMMA InitType == Init => TypeOK
BY OrgAssumption DEF Init, TypeOK, Gone

LEMMA EndType ==
    ASSUME TypeOK, NEW t \in Tx, End(t)
    PROVE  /\ pc' \in [Tx -> {"idle", "load", "count", "lock", "write"}]
           /\ req' \in [Tx -> Requests \cup {NoRequest}]
           /\ callerRole' \in [Tx -> Role]
           /\ seenRole' \in [Tx -> Role]
           /\ seenActive' \in [Tx -> BOOLEAN]
           /\ counted' \in [Tx -> SUBSET User]
           /\ holds' \in [Tx -> SUBSET User]
BY OrgAssumption DEF End, TypeOK

\* Every step preserves the types.
LEMMA NextType ==
    ASSUME TypeOK, Asked, [Next]_vars
    PROVE  TypeOK'
<1>1. CASE UNCHANGED vars
  BY <1>1 DEF vars, rows, loaded, TypeOK
<1>2. ASSUME NEW t \in Tx, NEW q \in Requests, Begin(t, q) PROVE TypeOK'
  <2>1. role[q.caller] \in Role
    BY <1>2, RequestFacts DEF Begin, Exists, TypeOK
  <2> QED BY <1>2, <2>1 DEF Begin, Goto, rows, TypeOK
<1>3. ASSUME NEW t \in Tx, Load(t) PROVE TypeOK'
  <2>1. req[t] \in Requests
    BY <1>3 DEF Load, Asked
  <2>2. FoundRole(t) \in Role /\ FoundActive(t) \in BOOLEAN
    BY <1>3, <2>1, RequestFacts DEF Load, FoundRole, FoundActive, TypeOK, Gone
  <2> QED BY <1>3, <2>2 DEF Load, Goto, rows, TypeOK
<1>4. ASSUME NEW t \in Tx, CountAdmins(t) PROVE TypeOK'
  BY <1>4 DEF CountAdmins, Goto, rows, loaded, Admins, TypeOK
<1>5. ASSUME NEW t \in Tx, LockAdmins(t) PROVE TypeOK'
  BY <1>5 DEF LockAdmins, StillAdmins, Goto, rows, loaded, Admins, TypeOK
<1>6. ASSUME NEW t \in Tx, CountOthers(t) PROVE TypeOK'
  <2>1. CASE End(t)
    BY <1>6, <2>1, EndType DEF CountOthers, rows, TypeOK
  <2>2. CASE Goto(t, "write") /\ UNCHANGED <<req, loaded, counted, holds>>
    BY <1>6, <2>2 DEF CountOthers, Goto, rows, loaded, TypeOK
  <2> QED BY <1>6, <2>1, <2>2 DEF CountOthers
<1>7. ASSUME NEW t \in Tx, WriteUpdate(t) PROVE TypeOK'
  <2>1. req[t] \in Requests
    BY <1>7 DEF WriteUpdate, Asked
  <2>2. role' \in [User -> Role \cup Gone]
    BY <1>7, <2>1, RequestFacts DEF WriteUpdate, Written, TypeOK
  <2>3. active' \in [User -> BOOLEAN]
    BY <1>7, <2>1, RequestFacts DEF WriteUpdate, Written, TypeOK
  <2> QED BY <1>7, <2>2, <2>3, EndType DEF WriteUpdate, TypeOK
<1>8. ASSUME NEW t \in Tx, WriteDelete(t) PROVE TypeOK'
  <2>1. role' \in [User -> Role \cup Gone]
    BY <1>8 DEF WriteDelete, TypeOK, Gone
  <2> QED BY <1>8, <2>1, EndType DEF WriteDelete, TypeOK
<1>9. ASSUME NEW t \in Tx, RefuseLoad(t) \/ RefuseLast(t) \/ Fail(t)
      PROVE  TypeOK'
  BY <1>9, EndType DEF RefuseLoad, RefuseLast, Fail, rows, TypeOK
<1>10. ASSUME NEW c \in User, NEW u \in User, NEW r \in Role, NEW a \in BOOLEAN,
              CreateUser(c, u, r, a)
       PROVE  TypeOK'
  BY <1>10 DEF CreateUser, loaded, TypeOK
<1> QED
  BY <1>1, <1>2, <1>3, <1>4, <1>5, <1>6, <1>7, <1>8, <1>9, <1>10
  DEF Next, Step

-----------------------------------------------------------------------------
(* What one step may change. *)

Act(t) == Step(t) \/ Fail(t) \/ \E q \in Requests : Begin(t, q)

Same(s) ==
    /\ pc'[s] = pc[s] /\ req'[s] = req[s] /\ holds'[s] = holds[s]
    /\ callerRole'[s] = callerRole[s]
    /\ seenRole'[s] = seenRole[s] /\ seenActive'[s] = seenActive[s]

\* A request changes nothing of another request.
LEMMA ActLocal ==
    ASSUME TypeOK, NEW t \in Tx, Act(t), NEW s \in Tx \ {t}
    PROVE  Same(s)
<1>1. CASE End(t)
  BY <1>1 DEF End, Same, TypeOK
<1>2. CASE \E q \in Requests : Begin(t, q)
  BY <1>2 DEF Begin, Goto, Same, TypeOK
<1>3. CASE Load(t)
  BY <1>3 DEF Load, Goto, Same, TypeOK
<1>4. CASE CountAdmins(t)
  BY <1>4 DEF CountAdmins, Goto, loaded, Same, TypeOK
<1>5. CASE LockAdmins(t)
  BY <1>5 DEF LockAdmins, Goto, loaded, Same, TypeOK
<1>6. CASE CountOthers(t)
  BY <1>1, <1>6 DEF CountOthers, Goto, loaded, Same, TypeOK
<1> QED
  BY <1>1, <1>2, <1>3, <1>4, <1>5, <1>6
  DEF Act, Step, Fail, RefuseLoad, RefuseLast, WriteUpdate, WriteDelete

\* Only the two writes change an account, and only their target, whose row no
\* other request has locked.
Writes(t) == WriteUpdate(t) \/ WriteDelete(t)

LEMMA RowsChange ==
    ASSUME TypeOK, NEW t \in Tx, Act(t)
    PROVE  /\ ~Writes(t) => UNCHANGED rows
           /\ Writes(t) =>
                 /\ pc[t] = "write" /\ pc'[t] = "idle"
                 /\ MayWrite(t)
                 /\ \A u \in User \ {req[t].target} :
                       role'[u] = role[u] /\ active'[u] = active[u]
<1>1. CASE WriteUpdate(t)
  BY <1>1 DEF WriteUpdate, End, Writes, TypeOK
<1>2. CASE WriteDelete(t)
  BY <1>2 DEF WriteDelete, End, Writes, TypeOK
<1>3. CASE ~Writes(t)
  BY <1>3 DEF Act, Step, Writes, Begin, Load, RefuseLoad, CountAdmins,
              LockAdmins, RefuseLast, CountOthers, Fail
<1> QED BY <1>1, <1>2, <1>3 DEF Writes

LEMMA ActAsked ==
    ASSUME TypeOK, NEW t \in Tx, Act(t)
    PROVE  \/ pc'[t] = "idle"
           \/ \E q \in Requests : req'[t] = q
           \/ pc[t] # "idle" /\ req' = req
<1>1. CASE End(t)
  BY <1>1 DEF End, TypeOK
<1>2. CASE \E q \in Requests : Begin(t, q)
  BY <1>2 DEF Begin, TypeOK
<1> QED
  BY <1>1, <1>2
  DEF Act, Step, Load, RefuseLoad, CountAdmins, LockAdmins, RefuseLast,
      CountOthers, WriteUpdate, WriteDelete, Fail, loaded

LEMMA NextActs ==
    ASSUME Next
    PROVE  \/ \E t \in Tx : Act(t)
           \/ \E c, u \in User, r \in Role, a \in BOOLEAN :
                 CreateUser(c, u, r, a)
BY DEF Next, Act

LEMMA NextAsked ==
    ASSUME TypeOK, Asked, [Next]_vars
    PROVE  Asked'
<1>1. CASE UNCHANGED vars
  BY <1>1 DEF vars, Asked
<1>2. CASE \E c, u \in User, r \in Role, a \in BOOLEAN : CreateUser(c, u, r, a)
  BY <1>2 DEF CreateUser, Asked
<1>3. ASSUME NEW t \in Tx, Act(t), NEW s \in Tx, pc'[s] # "idle"
      PROVE  req'[s] \in Requests
  BY <1>3, ActAsked, ActLocal DEF Same, Asked
<1> QED BY <1>1, <1>2, <1>3, NextActs DEF Asked

-----------------------------------------------------------------------------
(* The row locks. *)

LEMMA NextLocks ==
    ASSUME TypeOK, LockedAreAdmins, [Next]_vars
    PROVE  LockedAreAdmins'
<1>1. CASE UNCHANGED vars
  BY <1>1 DEF vars, rows, LockedAreAdmins, Admins
<1>2. ASSUME NEW c \in User, NEW u \in User, NEW r \in Role, NEW a \in BOOLEAN,
             CreateUser(c, u, r, a)
      PROVE  LockedAreAdmins'
  <2>1. Admins \subseteq Admins'
    BY <1>2 DEF CreateUser, Admins, TypeOK
  <2> QED BY <1>2, <2>1 DEF CreateUser, LockedAreAdmins
<1>3. ASSUME NEW t \in Tx, Act(t) PROVE LockedAreAdmins'
  <2>1. \A s \in Tx \ {t} : holds'[s] = holds[s]
    BY <1>3, ActLocal DEF Same
  <2>2. ASSUME NEW s \in Tx \ {t} PROVE holds[s] \subseteq Admins'
    <3>1. CASE ~Writes(t)
      BY <1>3, <3>1, RowsChange DEF rows, Admins, LockedAreAdmins
    <3>2. CASE Writes(t)
      <4>1. req[t].target \notin holds[s]
        BY <1>3, <3>2, RowsChange DEF MayWrite, Free
      <4>2. \A u \in holds[s] : role'[u] = role[u] /\ active'[u] = active[u]
        BY <1>3, <3>2, <4>1, RowsChange DEF TypeOK
      <4> QED BY <4>2 DEF LockedAreAdmins, Admins
    <3> QED BY <3>1, <3>2
  <2>3. /\ holds'[t] \subseteq Admins'
        /\ \A s \in Tx \ {t} : holds'[s] \cap holds'[t] = {}
    <3>1. CASE LockAdmins(t)
      <4>1. holds'[t] = StillAdmins(t) /\ Admins' = Admins
        BY <3>1 DEF LockAdmins, rows, Admins, TypeOK
      <4>2. \A s \in Tx \ {t} : counted[t] \cap holds[s] = {}
        BY <3>1 DEF LockAdmins, Free
      <4> QED BY <2>1, <4>1, <4>2 DEF StillAdmins
    <3>2. CASE holds'[t] = {}
      BY <3>2
    <3>3. CASE holds'[t] = holds[t] /\ UNCHANGED rows
      BY <2>1, <3>3 DEF rows, Admins, LockedAreAdmins
    <3>4. LockAdmins(t) \/ holds'[t] = {} \/ (holds'[t] = holds[t] /\ UNCHANGED rows)
      BY <1>3 DEF Act, Step, Begin, Load, RefuseLoad, CountAdmins, RefuseLast,
                  CountOthers, WriteUpdate, WriteDelete, Fail, End, TypeOK
    <3> QED BY <3>1, <3>2, <3>3, <3>4
  <2>4. \A s \in Tx : holds'[s] \subseteq Admins'
    BY <2>1, <2>2, <2>3
  <2>5. ASSUME NEW s1 \in Tx, NEW s2 \in Tx \ {s1}
        PROVE  holds'[s1] \cap holds'[s2] = {}
    BY <2>1, <2>3 DEF LockedAreAdmins
  <2> QED BY <2>4, <2>5 DEF LockedAreAdmins
<1> QED BY <1>1, <1>2, <1>3, NextActs

-----------------------------------------------------------------------------
(* The loaded accounts. *)

\* While a request runs, no other request that runs is kept apart, and neither
\* is one that begins.
LEMMA NoneAlone ==
    ASSUME TypeOK, Solo, NEW t \in Tx, Act(t),
           NEW s \in Tx \ {t}, pc[s] # "idle"
    PROVE  ~RunsAlone(s) /\ ~RunsAlone(t)
<1>1. CASE \E q \in Requests : Begin(t, q)
  BY <1>1 DEF Begin, MayOverlap, RunsAlone
<1>2. CASE Step(t) \/ Fail(t)
  <2>1. pc[t] # "idle"
    BY <1>2 DEF Step, Load, RefuseLoad, CountAdmins, LockAdmins, RefuseLast,
                CountOthers, WriteUpdate, WriteDelete, Fail
  <2> QED BY <2>1 DEF Solo
<1> QED BY <1>1, <1>2 DEF Act

LEMMA NextSolo ==
    ASSUME TypeOK, Solo, [Next]_vars
    PROVE  Solo'
<1>1. CASE UNCHANGED vars
  BY <1>1 DEF vars, loaded, Solo, RunsAlone, Alone
<1>2. ASSUME NEW c \in User, NEW u \in User, NEW r \in Role, NEW a \in BOOLEAN,
             CreateUser(c, u, r, a)
      PROVE  Solo'
  BY <1>2 DEF CreateUser, loaded, Solo, RunsAlone, Alone
<1>3. ASSUME NEW t \in Tx, Act(t) PROVE Solo'
  <2>1. ASSUME NEW s \in Tx \ {t}
        PROVE  pc'[s] = pc[s] /\ (RunsAlone(s)' <=> RunsAlone(s))
    BY <1>3, <2>1, ActLocal DEF Same, RunsAlone, Alone
  <2>2. ASSUME NEW s \in Tx \ {t}, pc[s] # "idle"
        PROVE  ~RunsAlone(s)' /\ ~RunsAlone(t)'
    <3>1. ~RunsAlone(s) /\ ~RunsAlone(t)
      BY <1>3, <2>2, NoneAlone
    <3>2. CASE \E q \in Requests : Begin(t, q)
      BY <2>1, <2>2, <3>1, <3>2
      DEF Begin, MayOverlap, Goto, RunsAlone, Alone, TypeOK
    <3>3. CASE End(t)
      BY <2>1, <2>2, <3>1, <3>3 DEF End, RunsAlone, TypeOK
    <3>4. CASE pc[t] # "idle" /\ req' = req /\ callerRole' = callerRole
      BY <2>1, <2>2, <3>1, <3>4 DEF RunsAlone, Alone
    <3>5. \/ \E q \in Requests : Begin(t, q)
          \/ End(t)
          \/ pc[t] # "idle" /\ req' = req /\ callerRole' = callerRole
      BY <1>3 DEF Act, Step, Load, RefuseLoad, CountAdmins, LockAdmins,
                  RefuseLast, CountOthers, WriteUpdate, WriteDelete, Fail, loaded
    <3> QED BY <3>2, <3>3, <3>4, <3>5
  <2> QED BY <2>1, <2>2 DEF Solo, RunsAlone
<1> QED BY <1>1, <1>2, <1>3, NextActs

\* An account that is not an admin's does not become one, and a created account
\* stays created: what Known says of a loaded account stays true.
RolesKept == \A u \in User : \A r : Known(u, r) => Known(u, r)'

LEMMA ActKeepsRoles ==
    ASSUME Guarded, TypeOK, NEW t \in Tx, Ready(t), ~RunsAlone(t), Act(t)
    PROVE  RolesKept
<1>1. CASE ~Writes(t)
  BY <1>1, RowsChange DEF rows, RolesKept, Known
<1>2. CASE WriteDelete(t)
  BY <1>2 DEF WriteDelete, RolesKept, Known, TypeOK
<1>3. CASE WriteUpdate(t)
  <2>1. req[t] \in Requests /\ req[t].op = "update"
    BY <1>3 DEF WriteUpdate, Ready, CallerKnown
  <2>2. req[t].role \in Role \cup {Keep} /\ req[t].role # "admin"
    BY <1>3, <2>1, RequestFacts DEF Guarded, WriteUpdate, RunsAlone, Alone
  <2>3. "unborn" \notin Role
    BY OrgAssumption DEF Gone
  <2>4. role'[req[t].target] \in {req[t].role, role[req[t].target]} \ {Keep}
    BY <1>3, <2>1, RequestFacts, OrgAssumption
    DEF WriteUpdate, Written, Exists, TypeOK
  <2>5. \A u \in User \ {req[t].target} : role'[u] = role[u]
    BY <1>3, RowsChange DEF Writes
  <2> QED BY <2>2, <2>3, <2>4, <2>5 DEF RolesKept, Known
<1> QED BY <1>1, <1>2, <1>3 DEF Writes

LEMMA CreateKeepsRoles ==
    ASSUME TypeOK, NEW c \in User, NEW u \in User, NEW r \in Role,
           NEW a \in BOOLEAN, CreateUser(c, u, r, a)
    PROVE  RolesKept
BY OrgAssumption DEF CreateUser, RolesKept, Known, TypeOK, Gone

\* A request that stands still stays ready, if it need not count on admins whose
\* rows it does not hold, or no admin goes.
LEMMA ReadyStays ==
    ASSUME RolesKept, NEW s \in Tx, Ready(s), Same(s),
           Admins \subseteq Admins' \/ (Guarded /\ ~RunsAlone(s))
    PROVE  Ready(s)'
<1>1. ASSUME pc[s] # "idle" PROVE CallerKnown(s)'
  <2>1. CallerKnown(s)
    BY <1>1 DEF Ready
  <2>2. req[s].caller \in User
    BY <2>1, RequestFacts DEF CallerKnown
  <2> QED BY <2>1, <2>2 DEF CallerKnown, Same, RolesKept, Known, Sent
<1>2. ASSUME pc[s] \in {"count", "lock", "write"} PROVE TargetKnown(s)'
  <2>1. TargetKnown(s) /\ CallerKnown(s)
    BY <1>2 DEF Ready
  <2>2. req[s].target \in User
    BY <2>1, RequestFacts DEF CallerKnown
  <2> QED BY <2>1, <2>2 DEF TargetKnown, Same, RolesKept, Known
<1>3. ASSUME pc[s] = "write" PROVE Covered(s)'
  <2>1. Covered(s) /\ TargetKnown(s) /\ CallerKnown(s)
    BY <1>3 DEF Ready
  <2>2. CASE Admins \subseteq Admins'
    BY <2>1, <2>2 DEF Covered, TakesAdmin, OtherAdmins, Same
  <2>3. CASE Guarded /\ ~RunsAlone(s)
    <3>1. req[s].op = "leave" => callerRole[s] # "admin"
      BY <1>3, <2>3 DEF Guarded, RunsAlone, Alone
    <3>2. TakesAdmin(req[s], seenRole[s], seenActive[s]) => req[s].op # "leave"
      BY <2>1, <3>1 DEF TakesAdmin, TargetKnown
    <3> QED BY <2>1, <3>2 DEF Covered, TakesAdmin, Same
  <2> QED BY <2>2, <2>3
<1> QED BY <1>1, <1>2, <1>3 DEF Ready, Same

LEMMA ReadyBegin ==
    ASSUME TypeOK, NEW t \in Tx, NEW q \in Requests, Begin(t, q)
    PROVE  Ready(t)'
<1>1. /\ pc'[t] = "load" /\ req'[t] = q
      /\ callerRole'[t] = role[q.caller] /\ role' = role
  BY DEF Begin, Goto, rows, TypeOK
<1>2. Known(q.caller, role[q.caller])
  BY DEF Begin, Exists, Gone, Known
<1>3. q.op = "delete" => role[q.caller] = "admin"
  BY DEF Begin, MayCall
<1> QED BY <1>1, <1>2, <1>3 DEF Ready, CallerKnown, Begin, Known, Sent

LEMMA ReadyLoad ==
    ASSUME TypeOK, NEW t \in Tx, Ready(t), Load(t)
    PROVE  Ready(t)'
<1> DEFINE q == req[t]
<1>1. CallerKnown(t) /\ q \in Requests
  BY DEF Load, Ready, CallerKnown
<1>2. /\ pc'[t] = IF TakesAdmin(q, FoundRole(t), FoundActive(t))
                  THEN "count" ELSE "write"
      /\ req' = req /\ callerRole' = callerRole /\ role' = role
      /\ holds' = holds
      /\ seenRole'[t] = FoundRole(t) /\ seenActive'[t] = FoundActive(t)
  BY DEF Load, Goto, rows, TypeOK
<1>3. Known(q.target, FoundRole(t))
  BY <1>1 DEF Load, FoundRole, CallerKnown, Known, Gone
<1>4. callerRole[t] # "admin" => FoundRole(t) # "admin"
  <2>1. CASE q.op = "update"
    BY <2>1 DEF Load, Allowed, WithinRoleLimits
  <2>2. CASE q.op = "delete"
    BY <2>2, <1>1 DEF CallerKnown
  <2>3. CASE q.op = "leave"
    BY <2>3, <1>1 DEF CallerKnown, Sent, FoundRole
  <2> QED BY <2>1, <2>2, <2>3, <1>1, RequestFacts
<1>5. TargetKnown(t)'
  BY <1>2, <1>3, <1>4 DEF TargetKnown, Known
<1>6. CallerKnown(t)'
  BY <1>1, <1>2 DEF CallerKnown, Known, Sent
<1>7. pc'[t] = "write" => Covered(t)'
  BY <1>2 DEF Covered
<1> QED BY <1>2, <1>5, <1>6, <1>7 DEF Ready

\* The last-admin check ends in a request that holds another admin's row.
LEMMA ReadyCheck ==
    ASSUME TypeOK, NEW t \in Tx, Ready(t),
           CountAdmins(t) \/ LockAdmins(t)
    PROVE  Ready(t)'
<1>1. /\ req' = req /\ role' = role /\ callerRole' = callerRole
      /\ seenRole' = seenRole /\ seenActive' = seenActive
  BY DEF CountAdmins, LockAdmins, rows, loaded
<1>2. CallerKnown(t)' /\ TargetKnown(t)'
  BY <1>1 DEF CountAdmins, LockAdmins, Ready, CallerKnown, TargetKnown, Known,
              Sent
<1>3. pc'[t] = "write" => Covered(t)'
  BY <1>1 DEF CountAdmins, LockAdmins, Goto, Covered, TypeOK
<1> QED BY <1>2, <1>3 DEF Ready

LEMMA ActReady ==
    ASSUME TypeOK, NEW t \in Tx, Ready(t), Act(t)
    PROVE  Ready(t)'
<1>1. CASE End(t)
  BY <1>1 DEF End, Ready, TypeOK
<1>2. CASE CountOthers(t)
  <2>1. CallerKnown(t) /\ TargetKnown(t) /\ req[t].op = "leave"
    BY <1>2 DEF CountOthers, Ready
  <2>2. CASE ~End(t)
    <3>1. /\ req' = req /\ role' = role /\ callerRole' = callerRole
          /\ seenRole' = seenRole /\ seenActive' = seenActive
          /\ Admins' = Admins
          /\ OtherAdmins(req[t].caller) # {}
      BY <1>2, <2>2 DEF CountOthers, rows, loaded, Admins
    <3>2. CallerKnown(t)' /\ TargetKnown(t)'
      BY <2>1, <3>1 DEF CallerKnown, TargetKnown, Known, Sent
    <3>3. Covered(t)'
      BY <2>1, <3>1 DEF CallerKnown, Sent, Covered, OtherAdmins
    <3> QED BY <3>2, <3>3 DEF Ready
  <2> QED BY <1>1, <2>2
<1> QED
  BY <1>1, <1>2, ReadyBegin, ReadyLoad, ReadyCheck
  DEF Act, Step, Fail, RefuseLoad, RefuseLast, WriteUpdate, WriteDelete

LEMMA NextReady ==
    ASSUME Guarded, TypeOK, Solo, \A t \in Tx : Ready(t), [Next]_vars
    PROVE  (\A t \in Tx : Ready(t))'
<1>1. CASE UNCHANGED vars
  BY <1>1 DEF vars, rows, loaded, Ready, CallerKnown, TargetKnown, Covered,
              Known, Sent, TakesAdmin, OtherAdmins, Admins
<1>2. ASSUME NEW t \in Tx, Act(t), NEW s \in Tx PROVE Ready(s)'
  <2>1. CASE s = t
    BY <1>2, <2>1, ActReady
  <2>2. CASE s # t /\ pc[s] = "idle"
    BY <1>2, <2>2, ActLocal DEF Same, Ready
  <2>3. CASE s # t /\ pc[s] # "idle"
    <3>1. ~RunsAlone(s) /\ ~RunsAlone(t)
      BY <1>2, <2>3, NoneAlone
    <3> QED BY <1>2, <2>3, <3>1, ActLocal, ActKeepsRoles, ReadyStays
  <2> QED BY <2>1, <2>2, <2>3
<1>3. ASSUME NEW c \in User, NEW u \in User, NEW r \in Role, NEW a \in BOOLEAN,
             CreateUser(c, u, r, a), NEW s \in Tx
      PROVE  Ready(s)'
  <2>1. Admins \subseteq Admins'
    BY <1>3 DEF CreateUser, Admins, TypeOK
  <2>2. Same(s)
    BY <1>3 DEF CreateUser, loaded, Same
  <2> QED BY <1>3, <2>1, <2>2, CreateKeepsRoles, ReadyStays
<1> QED BY <1>1, <1>2, <1>3, NextActs

-----------------------------------------------------------------------------
(* The last admin. *)

\* A write takes an active admin away only when the check was made, and then
\* another one is left: it holds the row, which nobody else can have changed.
LEMMA WriteLeavesAdmin ==
    ASSUME TypeOK, AdminRemains, LockedAreAdmins, NEW t \in Tx,
           Ready(t), Act(t), Writes(t)
    PROVE  AdminRemains'
<1> DEFINE q == req[t]
<1>1. /\ CallerKnown(t) /\ TargetKnown(t) /\ Covered(t)
      /\ q \in Requests
  BY RowsChange DEF Ready, CallerKnown
<1>2. \A u \in User \ {q.target} : role'[u] = role[u] /\ active'[u] = active[u]
  BY RowsChange
<1>3. Admins \ {q.target} \subseteq Admins'
  BY <1>2 DEF Admins
<1>4. CASE TakesAdmin(q, seenRole[t], seenActive[t])
  BY <1>1, <1>3, <1>4 DEF Covered, LockedAreAdmins, OtherAdmins, AdminRemains
<1>5. CASE seenRole[t] # "admin"
  BY <1>1, <1>3, <1>5 DEF TargetKnown, Known, Admins, AdminRemains
<1>6. CASE /\ q.op = "update" /\ seenRole[t] = "admin"
           /\ ~TakesAdmin(q, seenRole[t], seenActive[t])
  <2>1. q.role \in {Keep, "admin"} /\ q.active # FALSE
    BY <1>6 DEF TakesAdmin
  <2>2. q.active \in {Keep, TRUE}
    BY <1>1, <2>1, RequestFacts
  <2>3. q.target \in User
    BY <1>1, RequestFacts
  <2>4. WriteUpdate(t)
    BY <1>6 DEF Writes, WriteDelete
  <2>5. role'[q.target] = role[q.target]
    BY <1>6, <2>1, <2>3, <2>4 DEF WriteUpdate, Written, TypeOK
  <2>6. active[q.target] => active'[q.target]
    BY <2>2, <2>3, <2>4 DEF WriteUpdate, Written, TypeOK
  <2>7. Admins \subseteq Admins'
    BY <1>2, <2>5, <2>6 DEF Admins
  <2> QED BY <2>7 DEF AdminRemains
<1>7. q.op # "update" /\ seenRole[t] = "admin"
        => TakesAdmin(q, seenRole[t], seenActive[t])
  BY DEF TakesAdmin
<1> QED BY <1>4, <1>5, <1>6, <1>7

LEMMA NextAdmins ==
    ASSUME Inv, [Next]_vars
    PROVE  AdminRemains'
<1> USE DEF Inv, Base
<1>1. CASE UNCHANGED vars
  BY <1>1 DEF vars, rows, AdminRemains, Admins
<1>2. ASSUME NEW t \in Tx, Act(t) PROVE AdminRemains'
  <2>1. CASE ~Writes(t)
    BY <1>2, <2>1, RowsChange DEF rows, AdminRemains, Admins
  <2> QED BY <1>2, <2>1, WriteLeavesAdmin
<1>3. ASSUME NEW c \in User, NEW u \in User, NEW r \in Role, NEW a \in BOOLEAN,
             CreateUser(c, u, r, a)
      PROVE  AdminRemains'
  <2>1. Admins \subseteq Admins'
    BY <1>3 DEF CreateUser, Admins, TypeOK
  <2> QED BY <2>1 DEF AdminRemains
<1> QED BY <1>1, <1>2, <1>3, NextActs

LEMMA BaseInvariance == Spec => []Base
<1>1. Init => Base
  BY InitType DEF Init, Base, Asked, LockedAreAdmins
<1>2. Base /\ [Next]_vars => Base'
  BY NextType, NextAsked, NextLocks DEF Base
<1> QED BY <1>1, <1>2, PTL DEF Spec

LEMMA Invariance ==
    ASSUME Guarded
    PROVE  Spec => []Inv
<1>1. Init /\ Base => Inv
  BY DEF Init, Inv, AdminRemains, Solo, RunsAlone, Ready
<1>2. Inv /\ Base' /\ [Next]_vars => Inv'
  <2> SUFFICES ASSUME Inv, Base', [Next]_vars PROVE Inv'
    OBVIOUS
  <2>1. Solo' /\ (\A t \in Tx : Ready(t))'
    BY NextSolo, NextReady DEF Inv, Base
  <2>2. AdminRemains'
    BY NextAdmins
  <2> QED BY <2>1, <2>2 DEF Inv
<1> QED BY <1>1, <1>2, BaseInvariance, PTL DEF Spec

-----------------------------------------------------------------------------
\* Every variable keeps its type.
THEOREM TypeCorrect == Spec => []TypeOK
<1>1. Base => TypeOK
  BY DEF Base
<1> QED BY <1>1, BaseInvariance, PTL

\* Whatever updates and deletions run at once, an organization that has an
\* active admin keeps one.
THEOREM AdminsRemain ==
    ASSUME Guarded
    PROVE  Spec => []AdminRemains
<1>1. Inv => AdminRemains
  BY DEF Inv
<1> QED BY <1>1, Invariance, PTL

\* A locked row is an active admin's, and locked once.
THEOREM LocksHold == Spec => []LockedAreAdmins
<1>1. Base => LockedAreAdmins
  BY DEF Base
<1> QED BY <1>1, BaseInvariance, PTL

-----------------------------------------------------------------------------
(* Managers, whatever overlaps. *)

\* What _check_manager_role_limits leaves of a request: a manager's target was
\* loaded without the admin role.
Limited(t) ==
    /\ pc[t] # "idle" =>
          Sent(req[t]) /\ (req[t].op = "delete" => callerRole[t] = "admin")
    /\ pc[t] \in {"count", "lock", "write"} /\ callerRole[t] # "admin" =>
          seenRole[t] # "admin"

LEMMA NextLimited ==
    ASSUME Base, \A t \in Tx : Limited(t), [Next]_vars, NEW s \in Tx
    PROVE  Limited(s)'
<1> USE DEF Base
<1>1. CASE UNCHANGED vars \/ Same(s)
  BY <1>1 DEF vars, loaded, Same, Limited, Sent
<1>2. CASE \E c, u \in User, r \in Role, a \in BOOLEAN : CreateUser(c, u, r, a)
  BY <1>2 DEF CreateUser, loaded, Limited, Sent
<1>3. ASSUME Act(s) PROVE Limited(s)'
  <2>1. CASE End(s)
    BY <2>1 DEF End, Limited, TypeOK
  <2>2. ASSUME NEW q \in Requests, Begin(s, q) PROVE Limited(s)'
    <3>1. /\ pc'[s] = "load" /\ req'[s] = q /\ callerRole'[s] = role[q.caller]
          /\ Sent(q)
      BY <2>2 DEF Begin, Goto, TypeOK
    <3>2. q.op = "delete" => role[q.caller] = "admin"
      BY <2>2 DEF Begin, MayCall
    <3> QED BY <3>1, <3>2 DEF Limited, Sent
  <2>3. CASE Load(s)
    <3>1. /\ req' = req /\ callerRole' = callerRole /\ seenRole'[s] = FoundRole(s)
          /\ req[s] \in Requests /\ pc[s] = "load"
      BY <2>3 DEF Load, Asked, TypeOK
    <3>2. Sent(req[s]) /\ (req[s].op = "delete" => callerRole[s] = "admin")
      BY <3>1 DEF Limited
    <3>3. callerRole[s] # "admin" => FoundRole(s) # "admin"
      <4>1. CASE req[s].op = "update"
        BY <2>3, <4>1 DEF Load, Allowed, WithinRoleLimits
      <4>2. CASE req[s].op = "delete"
        BY <3>2, <4>2
      <4>3. CASE req[s].op = "leave"
        BY <3>2, <4>3 DEF Sent, FoundRole
      <4> QED BY <3>1, <4>1, <4>2, <4>3, RequestFacts
    <3> QED BY <3>1, <3>2, <3>3 DEF Limited, Sent
  <2>4. CASE CountAdmins(s) \/ LockAdmins(s) \/ (CountOthers(s) /\ ~End(s))
    BY <2>4 DEF CountAdmins, LockAdmins, CountOthers, Goto, loaded, Limited, Sent, TypeOK
  <2> QED
    BY <1>3, <2>1, <2>2, <2>3, <2>4
    DEF Act, Step, Fail, RefuseLoad, RefuseLast, WriteUpdate, WriteDelete
<1>4. ASSUME NEW t \in Tx, Act(t) PROVE Limited(s)'
  BY <1>1, <1>3, <1>4, ActLocal
<1> QED BY <1>1, <1>2, <1>4, NextActs

\* The account a manager's request writes has not been given the admin role
\* since the request loaded it.
NotPromoted ==
    \A t \in Tx :
        /\ Writes(t) /\ callerRole[t] # "admin"
        /\ req[t].target # req[t].caller
        /\ role[req[t].target] = "admin"
        => seenRole[t] = "admin"

\* Whatever requests overlap, promotions and self-deletions included, no request
\* of a manager takes an admin away, unless the account was given the admin role
\* between the request's check of the target (_check_manager_role_limits) and
\* its write.
THEOREM ManagersSpare == Spec /\ [][NotPromoted]_vars => ManagersSpareAdmins
<1> DEFINE A == \A t \in Tx :
          pc[t] = "write" /\ pc'[t] = "idle" /\ callerRole[t] # "admin"
             => \A u \in Admins \ {req[t].caller} : u \in Admins'
           L == \A t \in Tx : Limited(t)
<1>1. Init => L
  BY DEF Init, Limited
<1>2. Base /\ L /\ [Next]_vars => L'
  BY NextLimited
<1>3. Base /\ L /\ [Next]_vars /\ [NotPromoted]_vars => [A]_vars
  <2> SUFFICES ASSUME Base, L, Next, NotPromoted, NEW t \in Tx,
                      pc[t] = "write", pc'[t] = "idle", callerRole[t] # "admin",
                      NEW u \in Admins \ {req[t].caller}
               PROVE  u \in Admins'
    OBVIOUS
  <2> USE DEF Base
  <2>1. CASE \E c, v \in User, r \in Role, a \in BOOLEAN : CreateUser(c, v, r, a)
    BY <2>1 DEF CreateUser
  <2>2. ASSUME NEW s \in Tx, Act(s) PROVE u \in Admins'
    <3>1. s = t
      BY <2>2, ActLocal DEF Same
    <3>2. CASE ~Writes(t)
      BY <2>2, <3>1, <3>2, RowsChange DEF rows, Admins
    <3>3. CASE Writes(t)
      <4>1. seenRole[t] # "admin"
        BY DEF Limited
      <4>2. \A v \in User \ {req[t].target} :
               role'[v] = role[v] /\ active'[v] = active[v]
        BY <2>2, <3>1, <3>3, RowsChange
      <4>3. u # req[t].target
        BY <3>3, <4>1 DEF NotPromoted, Admins
      <4> QED BY <4>2, <4>3 DEF Admins
    <3> QED BY <3>2, <3>3
  <2> QED BY <2>1, <2>2, NextActs
<1> QED BY <1>1, <1>2, <1>3, BaseInvariance, PTL DEF Spec, ManagersSpareAdmins

=============================================================================
