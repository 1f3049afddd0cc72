---------------------------- MODULE ClientNotices ----------------------------
(***************************************************************************)
(* Notifications: the list and the badge of state/AppContext.jsx and       *)
(* shell/NotificationsBell.jsx, and their server, routes/notifications.py. *)
(*                                                                         *)
(* The list is loaded with its count, each by a request of its own.  A     *)
(* number (notifSeqRef) drops the answers of loads that were overtaken by  *)
(* another or by what the user did; counts that come without a list, from  *)
(* the session poll and from refreshes, carry no number.                   *)
(***************************************************************************)
EXTENDS ClientParts

CONSTANTS
    Notice,       \* the notifications, by arrival: 1, 2, ...
    ListLimit,    \* how many a list has at most (limit=50)
    MaxPopups     \* MAX_DESKTOP_NOTIFS_PER_POLL

ASSUME NoticesAssumption ==
    /\ Notice \subseteq Nat /\ IsFiniteSet(Notice) /\ MaxPopups \in Nat /\ ListLimit \in Nat
    /\ None \notin Notice /\ \A S \in SUBSET Notice : None # S

VARIABLES
    notes,      \* what the server has: none, unread, read or gone
    shown,      \* the list on the page
    badge,      \* the unread count on the page
    seq,        \* the number of the latest load or change
    loads,      \* loads under way
    counts,     \* counts asked for alone
    sends,      \* reads and dismissals under way
    open,       \* the bell's panel is open
    seen,       \* notifications that have been in a list; None before the first
    popups,     \* history: how often each was announced
    backlog,    \* history: the notifications there when the page was opened
    left,       \* history: those a list left out, for its limit, before one was shown
    behind,     \* history: the server changed, or an answer was dropped, since
                \* the latest load began
    short       \* history: how many were dismissed here since then

notices == <<notes, shown, badge, seq, loads, counts, sends, open, seen, popups, backlog, left, behind, short>>

NoList == [n \in {} |-> None]
Unasked == [list |-> None, count |-> None]

NoticesTypeOK ==
    /\ notes \in [Notice -> {"none", "unread", "read", "gone"}]
    /\ DOMAIN shown \subseteq Notice /\ \A n \in DOMAIN shown : shown[n] \in {"unread", "read"}
    /\ badge \in Nat /\ seq \in Nat
    /\ popups \in [Notice -> Nat] /\ short \in Nat

Unread == {n \in Notice : notes[n] = "unread"}

\* What the list of the notifications ns has: the newest, as many as the limit
\* has room for beside the given number of others.
There(ns) == {n \in Notice : ns[n] \in {"unread", "read"}}
Newest(ns, others) == {n \in There(ns) : Cardinality({m \in There(ns) : m > n}) + others < ListLimit}
ListOf(ns, others) == [n \in Newest(ns, others) |-> ns[n]]

\* A load: marked are the notifications the user had marked before it.
Load(number, marked) == [seq |-> number, list |-> None, count |-> None, marked |-> marked]

ReadHere == {n \in DOMAIN shown : shown[n] = "read"}

NoticesInit ==
    /\ backlog \in IF part = "notices" THEN {{}, {1}} ELSE {{}}
    /\ notes = [n \in Notice |-> IF n \in backlog THEN "unread" ELSE "none"]
    /\ shown = NoList /\ badge = 0
    /\ seq = 1 /\ loads = {Load(1, {})}
    /\ counts = {} /\ sends = {} /\ open = FALSE
    /\ seen = None
    /\ popups = [n \in Notice |-> 0]
    /\ left = {} /\ behind = FALSE /\ short = 0

\* A load begins.
Loads ==
    /\ seq' = seq + 1
    /\ loads' = loads \cup {Load(seq + 1, ReadHere)}
    /\ behind' = FALSE /\ short' = 0
-----------------------------------------------------------------------------
(* The server, and other people. *)

Arrives(n) ==
    /\ notes[n] = "none" /\ \A m \in Notice : m < n => notes[m] # "none"
    /\ notes' = [notes EXCEPT ![n] = "unread"]
    /\ behind' = TRUE
    /\ UNCHANGED <<shown, badge, seq, loads, counts, sends, open, seen, popups, backlog, left, short>>

\* Read or dismissed in another window.
ChangedElsewhere(n, to) ==
    /\ n \in There(notes) /\ notes[n] # to
    /\ notes' = [notes EXCEPT ![n] = to]
    /\ behind' = TRUE
    /\ UNCHANGED <<shown, badge, seq, loads, counts, sends, open, seen, popups, backlog, left, short>>

\* The two requests of a load are answered one at a time.
ListServed(q) ==
    /\ q.list = None
    /\ loads' = (loads \ {q}) \cup {[q EXCEPT !.list = ListOf(notes, 0)]}
    /\ left' = IF seen = None THEN left \cup (There(notes) \ Newest(notes, 0)) ELSE left
    /\ UNCHANGED <<notes, shown, badge, seq, counts, sends, open, seen, popups, backlog, behind, short>>

CountServed(q) ==
    /\ q.count = None
    /\ loads' = (loads \ {q}) \cup {[q EXCEPT !.count = Cardinality(Unread)]}
    /\ UNCHANGED <<notes, shown, badge, seq, counts, sends, open, seen, popups, backlog, left, behind, short>>

AloneServed(c) ==
    /\ c.count = None
    /\ counts' = (counts \ {c}) \cup {[c EXCEPT !.count = Cardinality(Unread)]}
    /\ UNCHANGED <<notes, shown, badge, seq, loads, sends, open, seen, popups, backlog, left, behind, short>>

\* What is gone cannot be read or dismissed.
Served(m) ==
    /\ m.answer = "none"
    /\ m.of # None => notes[m.of] # "gone"
    /\ notes' = [n \in Notice |->
                 IF n # m.of /\ ~(m.kind = "all" /\ n \in Unread) THEN notes[n]
                 ELSE IF m.kind = "dismiss" THEN "gone" ELSE "read"]
    \* a load that began after the change was made here may have missed it
    /\ behind' = (behind \/ seq # m.seq)
    /\ \E how \in {"ok", "failed"} : sends' = (sends \ {m}) \cup {[m EXCEPT !.answer = how]}
    /\ UNCHANGED <<shown, badge, seq, loads, counts, open, seen, popups, backlog, left, short>>

Refused(m) ==
    /\ m.answer = "none"
    /\ sends' = (sends \ {m}) \cup {[m EXCEPT !.answer = "failed"]}
    /\ UNCHANGED <<notes, shown, badge, seq, loads, counts, open, seen, popups, backlog, left, behind, short>>
-----------------------------------------------------------------------------
(* The page. *)

\* Slip: the first list is announced too.
Mut_Announced(list) ==
    LET new == {n \in DOMAIN list : list[n] = "unread" /\ (seen # None => n \notin seen)}
    IN {n \in new : Cardinality({m \in new : m > n}) < MaxPopups}

\* The newest of those that were in no list so far; none for the first list.
Announced(list) ==
    LET new == {n \in DOMAIN list : list[n] = "unread" /\ n \notin seen}
    IN IF seen = None THEN {} ELSE {n \in new : Cardinality({m \in new : m > n}) < MaxPopups}

\* Slip: only the first load is guarded.
Mut_Overtaken(q) == seen = None /\ q.seq # seq

Overtaken(q) == q.seq # seq

LoadArrives(q) ==
    /\ q.list # None /\ q.count # None
    /\ loads' = loads \ {q}
    /\ IF Overtaken(q) THEN UNCHANGED <<shown, badge, seen, popups>>
       ELSE /\ shown' = q.list
            /\ badge' = q.count
            /\ seen' = (IF seen = None THEN {} ELSE seen) \cup DOMAIN q.list
            /\ popups' = [n \in Notice |-> popups[n] + (IF n \in Announced(q.list) THEN 1 ELSE 0)]
    /\ UNCHANGED <<notes, seq, counts, sends, open, backlog, left, behind, short>>

LoadFails(q) ==
    /\ q.list = None
    /\ loads' = loads \ {q}
    /\ behind' = TRUE
    /\ UNCHANGED <<notes, shown, badge, seq, counts, sends, open, seen, popups, backlog, left, short>>

\* A count that rose since has the list loaded, if it is the session poll's.
CountArrives(c) ==
    /\ c.count # None
    /\ counts' = counts \ {c}
    /\ badge' = c.count
    /\ IF c.poll /\ c.count > badge THEN Loads ELSE UNCHANGED <<seq, loads, behind, short>>
    /\ UNCHANGED <<notes, shown, sends, open, seen, popups, backlog, left>>

CountFails(c) ==
    /\ c.count = None
    /\ counts' = counts \ {c}
    /\ UNCHANGED <<notes, shown, badge, seq, loads, sends, open, seen, popups, backlog, left, behind, short>>

SendDone(m) ==
    /\ m.answer # "none"
    /\ sends' = sends \ {m}
    /\ IF m.answer = "failed" THEN Loads ELSE UNCHANGED <<seq, loads, behind, short>>
    /\ UNCHANGED <<notes, shown, badge, counts, open, seen, popups, backlog, left>>

\* The session poll never overlaps itself; a refresh may.
AskCount(poll) ==
    /\ \A c \in counts : c.poll # poll
    /\ counts' = counts \cup {[poll |-> poll, count |-> None]}
    /\ UNCHANGED <<notes, shown, badge, seq, loads, sends, open, seen, popups, backlog, left, behind, short>>

\* The panel loads the list when it is opened, and every 15 seconds.
OpenPanel ==
    /\ open' = TRUE
    /\ Loads
    /\ UNCHANGED <<notes, shown, badge, counts, sends, seen, popups, backlog, left>>

ClosePanel ==
    /\ open /\ open' = FALSE
    /\ UNCHANGED <<notes, shown, badge, seq, loads, counts, sends, seen, popups, backlog, left, behind, short>>

Sends(kind, n) ==
    /\ sends' = sends \cup {[kind |-> kind, of |-> n, seq |-> seq', answer |-> "none"]}
    /\ behind' = (behind \/ loads # {})
    /\ UNCHANGED <<notes, loads, counts, seen, popups, backlog, left>>

\* Slip: the count is not kept above zero.
Mut_Less == badge - 1

Less == IF badge > 0 THEN badge - 1 ELSE 0

\* Slip: answers under way still count.
Mut_MarkRead(n) ==
    /\ open /\ n \in DOMAIN shown /\ shown[n] = "unread"
    /\ open' = FALSE
    /\ seq' = seq
    /\ shown' = [shown EXCEPT ![n] = "read"]
    /\ badge' = Less
    /\ Sends("read", n)
    /\ UNCHANGED short

\* A row is opened: the panel closes and what it is about is shown.
MarkRead(n) ==
    /\ open /\ n \in DOMAIN shown /\ shown[n] = "unread"
    /\ open' = FALSE
    /\ seq' = seq + 1
    /\ shown' = [shown EXCEPT ![n] = "read"]
    /\ badge' = Less
    /\ Sends("read", n)
    /\ UNCHANGED short

MarkAll ==
    /\ open /\ badge > 0
    /\ seq' = seq + 1
    /\ shown' = [n \in DOMAIN shown |-> "read"]
    /\ badge' = 0
    /\ Sends("all", None)
    /\ UNCHANGED <<open, short>>

\* The list is not filled up with an older one.
Dismiss(n) ==
    /\ open /\ n \in DOMAIN shown
    /\ seq' = seq + 1
    /\ shown' = [m \in DOMAIN shown \ {n} |-> shown[m]]
    /\ badge' = IF shown[n] = "unread" THEN Less ELSE badge
    /\ Sends("dismiss", n)
    /\ short' = short + 1
    /\ UNCHANGED open
-----------------------------------------------------------------------------
NoticesUser ==
    \/ \E n \in Notice : \/ Arrives(n) \/ MarkRead(n) \/ Dismiss(n)
                         \/ \E to \in {"read", "gone"} : ChangedElsewhere(n, to)
    \/ \E poll \in BOOLEAN : AskCount(poll)
    \/ OpenPanel \/ ClosePanel \/ MarkAll

NoticesAnswers ==
    \/ \E q \in loads : ListServed(q) \/ CountServed(q) \/ LoadArrives(q) \/ LoadFails(q)
    \/ \E c \in counts : AloneServed(c) \/ CountArrives(c) \/ CountFails(c)
    \/ \E m \in sends : Served(m) \/ Refused(m) \/ SendDone(m)
-----------------------------------------------------------------------------
(* Properties. *)

\* A notification is announced on the desktop once at most, however often and
\* in whatever order lists come and older ones move up into them, and never one
\* that was there to begin with, unless the first lists had no room for it.
AnnouncedOnce == \A n \in Notice : popups[n] <= IF n \in backlog \ left THEN 0 ELSE 1

\* With nothing under way and nothing changed since the latest load began, the
\* list is the server's, but for the rows that moved up for those dismissed: no
\* answer that was overtaken is on the page.
NewestListShown ==
    loads = {} /\ sends = {} /\ ~behind => shown = ListOf(notes, short)

\* The bell is right: it shows what the server has, and announced each once.
BellRight == AnnouncedOnce /\ NewestListShown

\* What the user marked read is shown unread again only by a load that began
\* after it, not by one that was under way.
UnreadByLaterLoad ==
    [][\A n \in DOMAIN shown \cap DOMAIN shown' :
         shown[n] = "read" /\ shown'[n] = "unread" =>
             \E q \in loads \ loads' : n \in q.marked]_<<shown, loads>>
=============================================================================
