---------------------------- MODULE EmailDigest ----------------------------
(***************************************************************************)
(* The daily e-mail digest (app/jobs/email_digest.py) and the rows it      *)
(* mails: notifications written by app/notification_service.py.            *)
(*                                                                         *)
(* A run is one process or scheduler thread: it reads the un-mailed rows,  *)
(* claims them user by user with a guarded UPDATE, commits the claims,     *)
(* mails each user outside any transaction, and releases the rows of the   *)
(* users whose mail failed.  Several runs may overlap: host cron and the   *)
(* in-app scheduler both start one, and every web process schedules.       *)
(* Rendering, titles and the disabled back end are left out.               *)
(***************************************************************************)
EXTENDS Integers, FiniteSets

CONSTANTS
    Note,         \* notification rows that may come to exist
    User,         \* user ids: claims are taken in id order
    Owner,        \* the user each row belongs to
    Runner,       \* the digest runs that may overlap
    AnswersLost,  \* whether a mail may be accepted and still reported failed
    Switches,     \* whether the operator may change EMAIL_DIGEST_ENABLED
    MaxCrashes    \* bound on runs that die midway

ASSUME DigestAssumption ==
    /\ User \subseteq Nat
    /\ Owner \in [Note -> User]
    /\ AnswersLost \in BOOLEAN
    /\ Switches \in BOOLEAN
    /\ MaxCrashes \in Nat

VARIABLES
    stamp,        \* notifications.emailed_at of each row
    old,          \* rows older than the lookback window
    deliverable,  \* users that are active and have an address
    digestOn,     \* EMAIL_DIGEST_ENABLED
    pc,           \* where each run is
    rows,         \* the rows a run selected
    todo,         \* the users it has yet to look at
    claims,       \* the rows it stamped: uncommitted while pc = "claim"
    outbox,       \* the users it has yet to mail
    failed,       \* failed_ids: rows to release at the end
    crashes,      \* runs that died
    mailed,       \* history: rows that some mail carried
    twice,        \* history: rows that two mails carried
    dropped       \* history: rows a dying run had stamped and not mailed

run == <<rows, todo, claims, outbox, failed>>
history == <<mailed, twice, dropped>>
vars == <<stamp, old, deliverable, digestOn, pc, run, crashes, history>>

Init ==
    /\ stamp = [n \in Note |-> "absent"]
    /\ old = {}
    /\ deliverable = User
    /\ digestOn \in IF Switches THEN BOOLEAN ELSE {TRUE}
    /\ pc = [r \in Runner |-> "idle"]
    /\ rows = [r \in Runner |-> {}]
    /\ todo = [r \in Runner |-> {}]
    /\ claims = [r \in Runner |-> {}]
    /\ outbox = [r \in Runner |-> {}]
    /\ failed = [r \in Runner |-> {}]
    /\ crashes = 0
    /\ mailed = {}
    /\ twice = {}
    /\ dropped = {}

RowsOf(r, u) == {n \in rows[r] : Owner[n] = u}
First(u, users) == u \in users /\ \A v \in users : u <= v

\* Rows another run has updated and not committed: an UPDATE waits for them.
Locked(r) == UNION {claims[q] : q \in {q \in Runner \ {r} : pc[q] = "claim"}}

Mail(ns) ==
    /\ mailed' = mailed \cup ns
    /\ twice' = twice \cup (ns \cap mailed)

Restamp(ns, value) ==
    stamp' = [n \in Note |-> IF n \in ns THEN value ELSE stamp[n]]

-----------------------------------------------------------------------------
(* The world around the job. *)

\* A request commits a notification.  In digest mode its emailed_at is NULL;
\* otherwise the row is born stamped and the request hands its mail over itself
\* (how that mail fares is not the digest's business: it counts as mailed).
Notify(n) ==
    /\ stamp[n] = "absent"
    /\ stamp' = [stamp EXCEPT ![n] = IF digestOn THEN "null" ELSE "stamped"]
    /\ Mail(IF digestOn THEN {} ELSE {n})
    /\ UNCHANGED <<old, deliverable, digestOn, pc, run, crashes, dropped>>

Age(n) ==
    /\ stamp[n] # "absent"
    /\ n \notin old
    /\ old' = old \cup {n}
    /\ UNCHANGED <<stamp, deliverable, digestOn, pc, run, crashes, history>>

SwitchUser(u) ==
    /\ deliverable' = IF u \in deliverable THEN deliverable \ {u}
                                           ELSE deliverable \cup {u}
    /\ UNCHANGED <<stamp, old, digestOn, pc, run, crashes, history>>

SwitchMode ==
    /\ Switches
    /\ digestOn' = ~digestOn
    /\ UNCHANGED <<stamp, old, deliverable, pc, run, crashes, history>>

-----------------------------------------------------------------------------
(* One run of the digest. *)

\* Slip: the selection forgets emailed_at IS NULL.
Mut_Unmailed == {n \in Note : stamp[n] # "absent" /\ n \notin old}

Unmailed == {n \in Note : stamp[n] = "null" /\ n \notin old}

Start(r) ==
    /\ pc[r] = "idle"
    /\ digestOn
    /\ Unmailed # {}
    /\ rows' = [rows EXCEPT ![r] = Unmailed]
    /\ todo' = [todo EXCEPT ![r] = {Owner[n] : n \in Unmailed}]
    /\ pc' = [pc EXCEPT ![r] = "claim"]
    /\ UNCHANGED <<stamp, old, deliverable, digestOn, claims, outbox, failed,
                   crashes, history>>

\* No deliverable address: the rows stay un-stamped.
Skip(r, u) ==
    /\ pc[r] = "claim"
    /\ First(u, todo[r])
    /\ u \notin deliverable
    /\ todo' = [todo EXCEPT ![r] = @ \ {u}]
    /\ UNCHANGED <<stamp, old, deliverable, digestOn, pc, rows, claims, outbox,
                   failed, crashes, history>>

\* The rows the guarded UPDATE (emailed_at IS NULL) changes.
Claimable(r, u) == {n \in RowsOf(r, u) : stamp[n] = "null"}

\* One claimed row is enough for the mail to carry all the rows that were read.
Claim(r, u) ==
    /\ pc[r] = "claim"
    /\ First(u, todo[r])
    /\ u \in deliverable
    /\ RowsOf(r, u) \cap Locked(r) = {}
    /\ todo' = [todo EXCEPT ![r] = @ \ {u}]
    /\ claims' = [claims EXCEPT ![r] = @ \cup Claimable(r, u)]
    /\ outbox' = [outbox EXCEPT ![r] =
                     IF Claimable(r, u) = {} THEN @ ELSE @ \cup {u}]
    /\ UNCHANGED <<stamp, old, deliverable, digestOn, pc, rows, failed,
                   crashes, history>>

Commit(r) ==
    /\ pc[r] = "claim"
    /\ todo[r] = {}
    /\ Restamp(claims[r], "stamped")
    /\ pc' = [pc EXCEPT ![r] = "send"]
    /\ UNCHANGED <<old, deliverable, digestOn, run, crashes, history>>

\* email_service.deliver() for the next user of the outbox.
Sending(r, u) ==
    /\ pc[r] = "send"
    /\ First(u, outbox[r])
    /\ outbox' = [outbox EXCEPT ![r] = @ \ {u}]
    /\ UNCHANGED <<stamp, old, deliverable, digestOn, pc, rows, todo, claims,
                   crashes, dropped>>

Deliver(r, u) ==
    /\ Sending(r, u)
    /\ Mail(RowsOf(r, u))
    /\ UNCHANGED failed

\* Slip: failed_ids is assigned where it should be extended.
Mut_DeliveryFails(r, u) ==
    /\ Sending(r, u)
    /\ Mail({})
    /\ failed' = [failed EXCEPT ![r] = RowsOf(r, u)]

\* An SMTP or socket error.  After the message was accepted (a failing QUIT, a
\* timeout before the server's answer) the user has the mail all the same.
DeliveryFails(r, u) ==
    /\ Sending(r, u)
    /\ \E accepted \in {{}, IF AnswersLost THEN RowsOf(r, u) ELSE {}} :
          Mail(accepted)
    /\ failed' = [failed EXCEPT ![r] = @ \cup RowsOf(r, u)]

\* Slips: one failure releases the whole batch; a failure releases nothing.
Mut_ReleaseAll(r) == IF failed[r] = {} THEN {} ELSE claims[r]
Mut_ReleaseNone(r) == {}

\* The rows of the failed users are released by id, whatever their stamp.
Released(r) == failed[r]

Finish(r) ==
    /\ pc[r] = "send"
    /\ outbox[r] = {}
    /\ Released(r) \cap Locked(r) = {}
    /\ Restamp(Released(r), "null")
    /\ pc' = [pc EXCEPT ![r] = "idle"]
    /\ rows' = [rows EXCEPT ![r] = {}]
    /\ claims' = [claims EXCEPT ![r] = {}]
    /\ failed' = [failed EXCEPT ![r] = {}]
    /\ UNCHANGED <<old, deliverable, digestOn, todo, outbox, crashes, history>>

\* The process dies or deliver() raises: PostgreSQL rolls back what is not
\* committed, and what is stays stamped.
Crash(r) ==
    /\ pc[r] # "idle"
    /\ crashes < MaxCrashes
    /\ crashes' = crashes + 1
    /\ dropped' = dropped \cup
          IF pc[r] = "send" THEN claims[r] \ mailed ELSE {}
    /\ pc' = [pc EXCEPT ![r] = "idle"]
    /\ rows' = [rows EXCEPT ![r] = {}]
    /\ todo' = [todo EXCEPT ![r] = {}]
    /\ claims' = [claims EXCEPT ![r] = {}]
    /\ outbox' = [outbox EXCEPT ![r] = {}]
    /\ failed' = [failed EXCEPT ![r] = {}]
    /\ UNCHANGED <<stamp, old, deliverable, digestOn, mailed, twice>>

-----------------------------------------------------------------------------
World ==
    \/ \E n \in Note : Notify(n) \/ Age(n)
    \/ \E u \in User : SwitchUser(u)
    \/ SwitchMode

Step(r) ==
    \/ \E u \in User : Skip(r, u) \/ Claim(r, u)
                       \/ Deliver(r, u) \/ DeliveryFails(r, u)
    \/ Commit(r)
    \/ Finish(r)

Next == World \/ \E r \in Runner : Start(r) \/ Step(r) \/ Crash(r)

\* The schedule fires again and again, a run that is alive goes on, and the
\* mail server is not down for ever.
Fairness ==
    \A r \in Runner :
        /\ WF_vars(Start(r))
        /\ WF_vars(Step(r))
        /\ \A u \in User : SF_vars(Deliver(r, u))

Spec == Init /\ [][Next]_vars /\ Fairness

-----------------------------------------------------------------------------
\* What a run holds is about the rows it read; no run, no rows.
Held(r) ==
    /\ claims[r] \cup failed[r] \subseteq rows[r]
    /\ todo[r] \cup outbox[r] \subseteq {Owner[n] : n \in rows[r]}
    /\ pc[r] = "idle" => rows[r] = {}
    /\ pc[r] = "send" => todo[r] = {}

TypeOK ==
    /\ stamp \in [Note -> {"absent", "null", "stamped"}]
    /\ old \subseteq Note
    /\ deliverable \subseteq User
    /\ digestOn \in BOOLEAN
    /\ pc \in [Runner -> {"idle", "claim", "send"}]
    /\ rows \in [Runner -> SUBSET Note]
    /\ todo \in [Runner -> SUBSET User]
    /\ claims \in [Runner -> SUBSET Note]
    /\ outbox \in [Runner -> SUBSET User]
    /\ failed \in [Runner -> SUBSET Note]
    /\ crashes \in 0 .. MaxCrashes
    /\ mailed \subseteq Note
    /\ twice \subseteq Note
    /\ dropped \subseteq Note
    /\ \A r \in Runner : Held(r)

\* No row is mailed twice: what the module's docstring promises ("running
\* twice in a day never double-sends"), across retries, crashes and switches
\* between immediate mail and the digest.
AtMostOnce == twice = {}

\* A row that is stamped and was never mailed is in the hands of a run that
\* still has it to mail or release, or a run died with it: a failed send is
\* never just forgotten.
NoSilentLoss ==
    \A n \in Note :
        stamp[n] = "stamped" =>
            \/ n \in mailed \cup dropped
            \/ \E r \in Runner :
                  /\ pc[r] = "send"
                  /\ n \in claims[r]
                  /\ Owner[n] \in outbox[r] \/ n \in failed[r]

\* Rows are only released when nothing was sent: no row that a mail carried
\* becomes selectable again.
ReleasedWasNotSent ==
    [][\A n \in Note :
          stamp[n] = "stamped" /\ stamp'[n] = "null" => n \notin mailed]_vars

\* A row waiting for the digest, or stamped by a run that could not mail it, is
\* mailed in the end, as long as the digest stays on, unless it aged out, its
\* user cannot be reached or a crash dropped it.
EventuallyMailed ==
    \A n \in Note :
        stamp[n] # "absent" ~>
            \/ n \in mailed \cup old \cup dropped
            \/ Owner[n] \notin deliverable
            \/ ~digestOn

=============================================================================
