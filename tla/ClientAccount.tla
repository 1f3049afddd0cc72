---------------------------- MODULE ClientAccount ----------------------------
(***************************************************************************)
(* One person's account settings, opened on several devices at once        *)
(* (AccountModal.jsx: SecurityTab, NotificationsTab, ProfileTab; and       *)
(* ChangePasswordModal.jsx), with the server's handlers (routes/totp.py,   *)
(* routes/auth.py).  Authenticator secrets, sets of recovery codes,        *)
(* passwords and requested addresses are numbered as they are made.        *)
(***************************************************************************)
EXTENDS ClientParts

CONSTANTS
    Device,
    Channel,      \* kinds of notification
    TopicInputs   \* bound: what is done on each topic

ASSUME AccountAssumption == None \notin [Channel -> BOOLEAN]

VARIABLES
    topic,        \* the tab a behaviour is about, or the dialog for the password
    stored,       \* the account as stored
    deviceRows,         \* the devices with a session, the version and the change that made it
    minted,         \* how many secrets, code sets, passwords and addresses were made
    screens,      \* what each device shows
    requests,       \* the requests under way
    scanned,      \* the secrets the person's authenticator knows
    changedBy,    \* history: the device that last changed the password
    mixed,        \* history: a request wrote what another had written since it read, or
                  \* deleted sessions while another change of password was made
    doubtful      \* history, per device: its preferences were set elsewhere, two of
                  \* its own were under way at once, or an answer was lost

accountState == <<topic, stored, deviceRows, minted, screens, requests, scanned, changedBy, mixed, doubtful>>

Writes(op) == op \notin {"status", "preferences"}

Opened == [status |-> "unknown", enrolment |-> 0, recovery |-> 0, awaiting |-> FALSE,
           prefs |-> None]

Topics == {"security", "notifications", "profile", "password"}
Ops == {"status", "begin", "confirm", "disable", "regenerate", "password",
        "preferences", "toggle", "address", "proof"}

AccountTypeOK ==
    /\ topic \in Topics
    /\ stored.secret \in 0..minted /\ stored.on \in BOOLEAN /\ stored.codes \subseteq 1..minted
    /\ stored.ver \in 0..minted /\ stored.email \in 0..minted /\ stored.pending \subseteq 1..minted
    /\ stored.prefs \in [Channel -> BOOLEAN]
    /\ DOMAIN deviceRows \subseteq Device
    /\ \A d \in Device : screens[d].status \in {"unknown", "on", "off"}
    /\ \A c \in requests : c.op \in Ops /\ c.at \in {"sent", "read", "clearing", "done"}
    /\ scanned \subseteq 1..minted /\ changedBy \in Device \cup {None}

NewRequest(d, op, arg) ==
    [d |-> d, op |-> op, arg |-> arg, at |-> "sent", live |-> TRUE, saw |-> None, got |-> 0]

\* What a tab loads.
TabAsks(d) ==
    {NewRequest(d, op, 0) : op \in IF topic = "security" THEN {"status"}
                            ELSE IF topic = "notifications" THEN {"preferences"} ELSE {}}

Session(ver, made) == [ver |-> ver, made |-> made]

AccountInit ==
    /\ topic \in IF part = "account" THEN Topics ELSE {"password"}
    /\ stored = [secret |-> 0, on |-> FALSE, codes |-> {}, ver |-> 0, email |-> 0,
                 pending |-> {}, prefs |-> [k \in Channel |-> TRUE]]
    /\ deviceRows = [d \in Device |-> Session(0, 0)] /\ minted = 0
    /\ screens = [d \in Device |-> Opened] /\ requests = UNION {TabAsks(d) : d \in Device}
    /\ scanned = {}
    /\ changedBy = None /\ mixed = FALSE /\ doubtful = [d \in Device |-> FALSE]
-----------------------------------------------------------------------------
(* The screens. *)

SendCall(d, op, arg) == requests' = requests \cup {NewRequest(d, op, arg)}
Under(d, op) == \E c \in requests : c.d = d /\ c.op = op /\ c.live

\* The tab is turned to again and loaded; what it had asked is answered to nobody.
TurnToTab(d) ==
    /\ screens' = [screens EXCEPT ![d] = Opened]
    /\ requests' = {[c EXCEPT !.live = (@ /\ c.d # d)] :
                        c \in {q \in requests : Writes(q.op) \/ q.d # d}} \cup TabAsks(d)
    /\ doubtful' = [doubtful EXCEPT ![d] = \E c \in requests : c.op = "toggle"]
    /\ UNCHANGED <<topic, stored, deviceRows, minted, scanned, changedBy, mixed>>

\* The security tab: what is offered depends on the status as loaded.
PressSecurity(d, op) ==
    /\ topic = "security" /\ ~Under(d, op)
    /\ op = "begin" => screens[d].status = "off" /\ screens[d].enrolment = 0
    /\ op = "confirm" => screens[d].enrolment # 0
    /\ op \in {"disable", "regenerate"} => screens[d].status = "on"
    /\ SendCall(d, op, IF op = "confirm" THEN screens[d].enrolment ELSE 0)
    \* the code comes from the authenticator, which scanned the secret shown
    /\ scanned' = IF op = "confirm" THEN scanned \cup {screens[d].enrolment} ELSE scanned
    /\ UNCHANGED <<topic, stored, deviceRows, minted, screens, changedBy, mixed, doubtful>>
PutAway(d) ==
    /\ screens[d].enrolment # 0 \/ screens[d].recovery # 0
    /\ screens' \in {[screens EXCEPT ![d].enrolment = 0], [screens EXCEPT ![d].recovery = 0]}
    /\ UNCHANGED <<topic, stored, deviceRows, minted, requests, scanned, changedBy, mixed, doubtful>>

\* The dialog for the password, beside the tabs.
ChangePassword(d) ==
    /\ topic = "password" /\ ~Under(d, "password")
    /\ SendCall(d, "password", 0)
    /\ UNCHANGED <<topic, stored, deviceRows, minted, screens, scanned, changedBy, mixed, doubtful>>

\* A preference is shown changed before it is.
Flip(d, k) == [screens EXCEPT ![d].prefs[k] = ~@]
TogglePreference(d, k) ==
    /\ topic = "notifications" /\ screens[d].prefs # None
    /\ screens' = Flip(d, k)
    /\ SendCall(d, "toggle", <<k, ~screens[d].prefs[k]>>)
    /\ doubtful' = [e \in Device |-> doubtful[e] \/ e # d \/ Under(d, "toggle")]
    /\ UNCHANGED <<topic, stored, deviceRows, minted, scanned, changedBy, mixed>>

\* The address: a code is sent to it, which proves it.
RequestAddress(d) ==
    /\ topic = "profile" /\ ~screens[d].awaiting /\ ~Under(d, "address")
    /\ SendCall(d, "address", 0)
    /\ UNCHANGED <<topic, stored, deviceRows, minted, screens, scanned, changedBy, mixed, doubtful>>
ProveAddress(d, code) ==
    /\ topic = "profile" /\ screens[d].awaiting /\ ~Under(d, "proof")
    /\ SendCall(d, "proof", code)
    /\ UNCHANGED <<topic, stored, deviceRows, minted, screens, scanned, changedBy, mixed, doubtful>>
StartOver(d) ==
    /\ screens[d].awaiting
    /\ screens' = [screens EXCEPT ![d].awaiting = FALSE]
    /\ UNCHANGED <<topic, stored, deviceRows, minted, requests, scanned, changedBy, mixed, doubtful>>
-----------------------------------------------------------------------------
(* The server: a request reads the account, with its session, and writes what it
   changed of what it read. *)

\* Slip: an active secret is replaced.
Mut_Allowed(c, s) ==
    CASE c.op = "confirm" -> s.secret # 0 /\ ~s.on /\ c.arg = s.secret
      [] c.op = "regenerate" -> s.on
      [] c.op = "proof" -> c.arg \in s.pending /\ \A n \in s.pending : n <= c.arg
      [] OTHER -> TRUE

\* Whether the request is one the account as read allows.
Allowed(c, s) ==
    CASE c.op = "begin" -> ~s.on
      [] c.op = "confirm" -> s.secret # 0 /\ ~s.on /\ c.arg = s.secret
      [] c.op = "regenerate" -> s.on
      [] c.op = "proof" -> c.arg \in s.pending /\ \A n \in s.pending : n <= c.arg
      [] OTHER -> TRUE

Alive(d) == d \in DOMAIN deviceRows /\ deviceRows[d].ver = stored.ver

ReadsAccount(c) ==
    /\ c.at = "sent" /\ Alive(c.d) /\ Allowed(c, stored)
    /\ requests' = (requests \ {c}) \cup
          {[c EXCEPT !.at = IF Writes(c.op) THEN "read" ELSE "done", !.saw = stored]}
    /\ UNCHANGED <<topic, stored, deviceRows, minted, screens, scanned, changedBy, mixed, doubtful>>

\* A column is written only where it differs from what was read.
Disabled(saw) ==
    [stored EXCEPT !.codes = {}, !.secret = IF saw.secret = 0 THEN @ ELSE 0,
                   !.on = @ /\ ~saw.on]

\* Only one request waits.
Requested(saw, n) == [stored EXCEPT !.pending = (@ \ saw.pending) \cup {n}]

AccountAfter(c, n) ==
    CASE c.op = "begin" -> [stored EXCEPT !.secret = n]
      [] c.op = "confirm" -> [stored EXCEPT !.on = TRUE, !.codes = @ \cup {n}]
      [] c.op = "disable" -> Disabled(c.saw)
      [] c.op = "regenerate" -> [stored EXCEPT !.codes = (@ \ c.saw.codes) \cup {n}]
      [] c.op = "password" -> [stored EXCEPT !.ver = c.saw.ver + 1]
      [] c.op = "address" -> Requested(c.saw, n)
      [] c.op = "proof" -> [stored EXCEPT !.email = c.arg, !.pending = @ \ {c.arg}]
      [] c.op = "toggle" -> [stored EXCEPT !.prefs[c.arg[1]] = c.arg[2]]
      [] OTHER -> stored

Makes(op) == op \in {"begin", "confirm", "regenerate", "password", "address"}

\* A change of password deletes the sessions that are there when it looks, and
\* commits later.
SeesSessions(c) ==
    /\ c.at = "read" /\ c.op = "password"
    /\ requests' = (requests \ {c}) \cup {[c EXCEPT !.at = "clearing", !.got = minted]}
    /\ UNCHANGED <<topic, stored, deviceRows, minted, screens, scanned, changedBy, mixed, doubtful>>

\* Slip: the version alone signs the other devices out.
Mut_RowsAfter(c, n) == Put(deviceRows, c.d, Session(c.saw.ver + 1, n))

\* Every session it saw is deleted, and one made for the device that asked; what
\* another change made since stays.
RowsAfter(c, n) ==
    LET since == {e \in DOMAIN deviceRows : deviceRows[e].made > c.got}
    IN Put([e \in since |-> deviceRows[e]], c.d, Session(c.saw.ver + 1, n))

\* Whether another request wrote since this one looked.
Crosses(c) ==
    \/ c.op \in {"begin", "confirm", "disable", "regenerate", "address", "proof"} /\ stored # c.saw
    \/ c.op = "password" /\ minted # c.got

WritesAccount(c) ==
    /\ c.at = IF c.op = "password" THEN "clearing" ELSE "read"
    /\ minted' = IF Makes(c.op) THEN minted + 1 ELSE minted
    /\ stored' = AccountAfter(c, minted')
    /\ deviceRows' = IF c.op = "password" THEN RowsAfter(c, minted') ELSE deviceRows
    /\ changedBy' = IF c.op = "password" THEN c.d ELSE changedBy
    /\ mixed' = (mixed \/ Crosses(c))
    /\ requests' = (requests \ {c}) \cup
          {[c EXCEPT !.at = "done", !.saw = stored', !.got = IF Makes(c.op) THEN minted' ELSE 0]}
    /\ UNCHANGED <<topic, screens, scanned, doubtful>>
-----------------------------------------------------------------------------
(* The answers. *)

\* After a change of the second factor the status is read again.
Rereads(c) == IF c.op \in {"confirm", "disable", "regenerate"} THEN {NewRequest(c.d, "status", 0)} ELSE {}

ScreenAfter(c) ==
    LET s == screens[c.d] IN
    CASE c.op = "status" -> [s EXCEPT !.status = IF c.saw.on THEN "on" ELSE "off"]
      [] c.op = "begin" -> [s EXCEPT !.enrolment = c.got]
      [] c.op = "confirm" -> [s EXCEPT !.enrolment = 0, !.recovery = c.got]
      [] c.op = "regenerate" -> [s EXCEPT !.recovery = c.got]
      [] c.op = "address" -> [s EXCEPT !.awaiting = TRUE]
      [] c.op = "proof" -> [s EXCEPT !.awaiting = FALSE]
      [] c.op \in {"preferences", "toggle"} -> [s EXCEPT !.prefs = c.saw.prefs]
      [] OTHER -> s

AccountAnswers(c) ==
    /\ c.at = "done"
    /\ requests' = (requests \ {c}) \cup IF c.live THEN Rereads(c) ELSE {}
    /\ screens' = IF c.live THEN [screens EXCEPT ![c.d] = ScreenAfter(c)] ELSE screens
    /\ UNCHANGED <<topic, stored, deviceRows, minted, scanned, changedBy, mixed, doubtful>>

\* Slip: a preference that could not be set stays as it was shown.
Mut_AfterFailure(c) == screens

\* It is shown as it was.
AfterFailure(c) ==
    IF c.op = "toggle" /\ c.live THEN Flip(c.d, c.arg[1]) ELSE screens

\* The request is refused, is not carried out, or its answer is lost.
AccountFails(c) ==
    /\ c.at \in {"sent", "done"}
    /\ requests' = requests \ {c}
    /\ screens' = AfterFailure(c)
    /\ doubtful' = [doubtful EXCEPT ![c.d] = @ \/ c.at = "done"]
    /\ UNCHANGED <<topic, stored, deviceRows, minted, scanned, changedBy, mixed>>
-----------------------------------------------------------------------------
AccountUser ==
    inputs < TopicInputs[topic] /\
    \E d \in Device :
       \/ TurnToTab(d)
       \/ \E op \in {"begin", "confirm", "disable", "regenerate"} : PressSecurity(d, op)
       \/ ChangePassword(d) \/ RequestAddress(d) \/ StartOver(d) \/ PutAway(d)
       \/ \E k \in Channel : TogglePreference(d, k)
       \/ \E n \in 1..minted : ProveAddress(d, n)

AccountReplies ==
    \E c \in requests : \/ ReadsAccount(c) \/ SeesSessions(c) \/ WritesAccount(c)
                       \/ AccountAnswers(c) \/ AccountFails(c)
-----------------------------------------------------------------------------
(* Properties. *)

\* While the second factor is on, the authenticator of its owner knows the secret
\* and one set of recovery codes works, and none once it is off; unless two requests
\* were carried out across each other.
SecondFactorUsable ==
    ~mixed => /\ stored.on => stored.secret \in scanned
              /\ Cardinality(stored.codes) = IF stored.on THEN 1 ELSE 0

\* The same whatever requests cross: routes/totp.py says that an active secret is
\* never overwritten.
NeverLockedOut == stored.on => stored.secret \in scanned

\* "Changing it signs out every other device", though two devices change it at once;
\* unless one was carried out while the other deleted the sessions it had seen:
\* both then wrote the same version, and the session made first was not seen.
OthersSignedOut == ~mixed /\ changedBy # None => \A d \in Device : Alive(d) => d = changedBy

\* At rest, the preferences shown are those stored, though one could not be set.
PreferencesShown ==
    \A d \in Device :
       /\ screens[d].prefs # None /\ ~doubtful[d]
       /\ \A c \in requests : c.d = d => c.op \notin {"toggle", "preferences"}
       => screens[d].prefs = stored.prefs

\* Whichever of two devices did what, the account is the one its screens promise.
AccountRight == SecondFactorUsable /\ OthersSignedOut /\ PreferencesShown
=============================================================================
