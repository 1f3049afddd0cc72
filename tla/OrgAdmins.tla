----------------------------- MODULE OrgAdmins -----------------------------
(***************************************************************************)
(* The accounts of one organization and the requests that change who       *)
(* administers it: app/routes/users.py (create, update, delete) and        *)
(* app/routes/dsar.py (delete my account).                                 *)
(*                                                                         *)
(* A request loads its caller, then its target, checks what it loaded,     *)
(* counts the active admins (users.py locks their rows, dsar.py does not)  *)
(* and writes.  Its transaction is READ COMMITTED, so each of these steps  *)
(* sees the others' commits, but what was loaded stays as it was loaded.   *)
(* Names, addresses, passwords and project tags are left out.              *)
(***************************************************************************)
EXTENDS FiniteSets

CONSTANTS
    User,          \* ids the organization's accounts may ever have
    Tx,            \* requests that may run at once
    Role,          \* the roles in use: admin, manager and those that neither is
    Keep,          \* a field the payload leaves out
    NoRequest,     \* no request
    Overlapping    \* the risky requests ("promotion": the admin role is granted
                   \* to an account, "leave": an admin deletes his own) that
                   \* run beside others; the rest run when nothing else does

Gone == {"unborn", "deleted"}

ASSUME OrgAssumption ==
    /\ {"admin", "manager"} \subseteq Role
    /\ Role \cap Gone = {}
    /\ Keep \notin Role
    /\ Keep \notin BOOLEAN
    /\ Overlapping \subseteq {"promotion", "leave"}

VARIABLES
    role,        \* users.role; an account that does not exist is in Gone
    active,      \* users.is_active
    pc,          \* where each request is
    req,         \* its operation, caller, target and payload
    callerRole,  \* the caller's role, as loaded
    seenRole,    \* the target's role and is_active, as loaded
    seenActive,
    counted,     \* the rows its FOR UPDATE statement found
    holds        \* the rows it has locked

rows == <<role, active>>
loaded == <<callerRole, seenRole, seenActive>>
vars == <<rows, pc, req, loaded, counted, holds>>

Exists(u) == role[u] \notin Gone
Admins == {u \in User : role[u] = "admin" /\ active[u]}

\* No other request holds u FOR UPDATE.
Free(u, t) == \A s \in Tx \ {t} : u \notin holds[s]

Requests ==
    [op : {"update"}, caller : User, target : User,
     role : Role \cup {Keep}, active : BOOLEAN \cup {Keep}]
    \cup
    [op : {"delete", "leave"}, caller : User, target : User,
     role : {Keep}, active : {Keep}]

ASSUME NoRequestAssumption == NoRequest \notin Requests

\* delete_my_account names nobody: its target is its caller.
Sent(q) == q.op = "leave" => q.caller = q.target

\* A request of a caller with role r that this run keeps apart from all others.
Alone(q, r) ==
    \/ q.op = "update" /\ q.role = "admin" /\ "promotion" \notin Overlapping
    \/ q.op = "leave" /\ r = "admin" /\ "leave" \notin Overlapping

Init ==
    /\ role \in [User -> Role \cup {"unborn"}]
    /\ active \in [User -> BOOLEAN]
    /\ Admins # {}
    /\ pc = [t \in Tx |-> "idle"]
    /\ req = [t \in Tx |-> NoRequest]
    /\ callerRole = [t \in Tx |-> "manager"]
    /\ seenRole = [t \in Tx |-> "manager"]
    /\ seenActive = [t \in Tx |-> FALSE]
    /\ counted = [t \in Tx |-> {}]
    /\ holds = [t \in Tx |-> {}]

\* The transaction ends: its locks are released, what it loaded is gone.
End(t) ==
    /\ pc' = [pc EXCEPT ![t] = "idle"]
    /\ counted' = [counted EXCEPT ![t] = {}]
    /\ holds' = [holds EXCEPT ![t] = {}]
    /\ req' = [req EXCEPT ![t] = NoRequest]
    /\ callerRole' = [callerRole EXCEPT ![t] = "manager"]
    /\ seenRole' = [seenRole EXCEPT ![t] = "manager"]
    /\ seenActive' = [seenActive EXCEPT ![t] = FALSE]

Goto(t, where) == pc' = [pc EXCEPT ![t] = where]

-----------------------------------------------------------------------------
(* The caller: get_current_user and the role a route requires. *)

MayCall(q) ==
    CASE q.op = "update" -> role[q.caller] \in {"admin", "manager"}
      [] q.op = "delete" -> role[q.caller] = "admin"
      [] q.op = "leave" -> TRUE

MayOverlap(t, q) ==
    \A s \in Tx \ {t} : pc[s] # "idle" =>
        ~Alone(q, role[q.caller]) /\ ~Alone(req[s], callerRole[s])

Begin(t, q) ==
    /\ pc[t] = "idle"
    /\ Sent(q)
    /\ Exists(q.caller) /\ active[q.caller]
    /\ MayCall(q)
    /\ MayOverlap(t, q)
    /\ req' = [req EXCEPT ![t] = q]
    /\ callerRole' = [callerRole EXCEPT ![t] = role[q.caller]]
    /\ Goto(t, "load")
    /\ UNCHANGED <<rows, seenRole, seenActive, counted, holds>>

-----------------------------------------------------------------------------
(* The target.  One's own account is in the session already, as loaded. *)

FoundRole(t) ==
    IF req[t].target = req[t].caller THEN callerRole[t] ELSE role[req[t].target]
FoundActive(t) ==
    IF req[t].target = req[t].caller THEN TRUE ELSE active[req[t].target]

\* Slip: only the role a manager grants is checked, not the one he touches.
Mut_WithinRoleLimits(t, q, r) == callerRole[t] # "admin" => q.role # "admin"

\* _check_manager_role_limits
WithinRoleLimits(t, q, r) ==
    callerRole[t] # "admin" => r # "admin" /\ q.role # "admin"

\* _check_self_edit_guardrails
WithinSelfEdit(q) ==
    q.caller = q.target => q.role \in {Keep, "admin"} /\ q.active # FALSE

Allowed(t, q, r) ==
    CASE q.op = "update" -> WithinRoleLimits(t, q, r) /\ WithinSelfEdit(q)
      [] q.op = "delete" -> q.caller # q.target
      [] q.op = "leave" -> TRUE

\* Whether the request takes an admin away, judged on the account as loaded.
TakesAdmin(q, r, a) ==
    /\ r = "admin"
    /\ q.op = "update" =>
          \/ q.role \notin {Keep, "admin"}
          \/ q.active = FALSE
          \/ q.active = Keep /\ ~a

Load(t) ==
    LET q == req[t] IN
    /\ pc[t] = "load"
    /\ FoundRole(t) \notin Gone
    /\ Allowed(t, q, FoundRole(t))
    /\ seenRole' = [seenRole EXCEPT ![t] = FoundRole(t)]
    /\ seenActive' = [seenActive EXCEPT ![t] = FoundActive(t)]
    /\ Goto(t, IF TakesAdmin(q, FoundRole(t), FoundActive(t))
               THEN "count" ELSE "write")
    /\ UNCHANGED <<rows, req, callerRole, counted, holds>>

RefuseLoad(t) ==
    /\ pc[t] = "load"
    /\ FoundRole(t) \in Gone \/ ~Allowed(t, req[t], FoundRole(t))
    /\ End(t)
    /\ UNCHANGED rows

-----------------------------------------------------------------------------
(* The last-admin check. *)

\* SELECT ... FOR UPDATE finds the active admins it can see ...
CountAdmins(t) ==
    /\ pc[t] = "count"
    /\ req[t].op # "leave"
    /\ counted' = [counted EXCEPT ![t] = Admins]
    /\ Goto(t, "lock")
    /\ UNCHANGED <<rows, req, loaded, holds>>

\* Slip: the rows found are not looked at again once they are locked.
Mut_StillAdmins(t) == counted[t]

\* ... waits for their rows, and keeps those that still are active admins.
StillAdmins(t) == counted[t] \cap Admins

LockAdmins(t) ==
    /\ pc[t] = "lock"
    /\ \A u \in counted[t] : Free(u, t)
    /\ StillAdmins(t) \ {req[t].target} # {}
    /\ holds' = [holds EXCEPT ![t] = StillAdmins(t)]
    /\ Goto(t, "write")
    /\ UNCHANGED <<rows, req, loaded, counted>>

RefuseLast(t) ==
    /\ pc[t] = "lock"
    /\ \A u \in counted[t] : Free(u, t)
    /\ StillAdmins(t) \subseteq {req[t].target}
    /\ End(t)
    /\ UNCHANGED rows

\* delete_my_account counts the other admins and locks nothing.
OtherAdmins(u) == Admins \ {u}

CountOthers(t) ==
    /\ pc[t] = "count"
    /\ req[t].op = "leave"
    /\ IF OtherAdmins(req[t].caller) # {}
         THEN Goto(t, "write") /\ UNCHANGED <<req, loaded, counted, holds>>
         ELSE End(t)
    /\ UNCHANGED rows

-----------------------------------------------------------------------------
(* The write and its commit. *)

\* Only a field that differs from the loaded value is written.
Written(new, seen, current) == IF new \in {Keep, seen} THEN current ELSE new

\* The row lock of the target, and the audit row's foreign key to the caller.
MayWrite(t) ==
    /\ Free(req[t].target, t)
    /\ req[t].op # "leave" => Exists(req[t].caller) /\ Free(req[t].caller, t)

WriteUpdate(t) ==
    LET q == req[t] IN
    /\ pc[t] = "write"
    /\ q.op = "update"
    /\ MayWrite(t)
    /\ Exists(q.target)
    /\ role' = [role EXCEPT ![q.target] = Written(q.role, seenRole[t], @)]
    /\ active' = [active EXCEPT ![q.target] = Written(q.active, seenActive[t], @)]
    /\ End(t)

WriteDelete(t) ==
    /\ pc[t] = "write"
    /\ req[t].op \in {"delete", "leave"}
    /\ MayWrite(t)
    /\ role' = [role EXCEPT ![req[t].target] = "deleted"]
    /\ End(t)
    /\ UNCHANGED active

\* create_user: only an admin may create an admin.
CreateUser(c, u, r, a) ==
    /\ Exists(c) /\ active[c]
    /\ role[c] \in {"admin", "manager"}
    /\ r = "admin" => role[c] = "admin"
    /\ role[u] = "unborn"
    /\ role' = [role EXCEPT ![u] = r]
    /\ active' = [active EXCEPT ![u] = a]
    /\ UNCHANGED <<pc, req, loaded, counted, holds>>

\* A timeout, a lost connection, a deadlock victim: the transaction rolls back.
Fail(t) ==
    /\ pc[t] # "idle"
    /\ End(t)
    /\ UNCHANGED rows

-----------------------------------------------------------------------------
Step(t) ==
    \/ Load(t) \/ RefuseLoad(t)
    \/ CountAdmins(t) \/ LockAdmins(t) \/ RefuseLast(t) \/ CountOthers(t)
    \/ WriteUpdate(t) \/ WriteDelete(t)

Next ==
    \/ \E t \in Tx : Step(t) \/ Fail(t) \/ \E q \in Requests : Begin(t, q)
    \/ \E c, u \in User, r \in Role, a \in BOOLEAN : CreateUser(c, u, r, a)

Spec == Init /\ [][Next]_vars

-----------------------------------------------------------------------------
TypeOK ==
    /\ role \in [User -> Role \cup Gone]
    /\ active \in [User -> BOOLEAN]
    /\ pc \in [Tx -> {"idle", "load", "count", "lock", "write"}]
    /\ req \in [Tx -> Requests \cup {NoRequest}]
    /\ callerRole \in [Tx -> Role]
    /\ seenRole \in [Tx -> Role]
    /\ seenActive \in [Tx -> BOOLEAN]
    /\ counted \in [Tx -> SUBSET User]
    /\ holds \in [Tx -> SUBSET User]

\* The organization keeps an active admin: no interleaving of demotions,
\* deactivations and deletions removes the last one.
AdminRemains == Admins # {}

\* The row locks do what _count_other_active_admins relies on: a row one
\* request has locked and judged an active admin is locked by no other request,
\* and stays an active admin until that request itself changes it.
LockedAreAdmins ==
    \A t \in Tx :
        /\ holds[t] \subseteq Admins
        /\ \A s \in Tx \ {t} : holds[s] \cap holds[t] = {}

\* Only an admin takes the admin role or an active admin's account away from
\* somebody else: a caller who was loaded as a manager never does.
ManagersSpareAdmins ==
    [][\A t \in Tx :
          pc[t] = "write" /\ pc'[t] = "idle" /\ callerRole[t] # "admin"
             => \A u \in Admins \ {req[t].caller} : u \in Admins']_vars

=============================================================================
