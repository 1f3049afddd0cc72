------------------------------ MODULE ClientAudit ------------------------------
(***************************************************************************)
(* The audit trail's page, views/AuditView.jsx, over its server,           *)
(* routes/audit.py: newest entries first, a page at a time, by offset.     *)
(*                                                                         *)
(* A clean load replaces the list and "Load older" lengthens it.  Both use *)
(* one count of the rows loaded as the next offset, which every answer     *)
(* adds to, while the trail grows at its other end.                        *)
(***************************************************************************)
EXTENDS ClientParts, SequencesExt

CONSTANTS
    Topic,         \* what an entry may be about
    Sought,        \* what the filters may be set to
    PageOfAudit,   \* rows in a page (the code's 300)
    MaxTrail,      \* bound: entries there ever are
    MaxLoads       \* bound: loads under way when the user asks for another

ASSUME AuditAssumption ==
    PageOfAudit \in Nat \ {0} /\ {MaxTrail, MaxLoads} \subseteq Nat /\ Sought \subseteq Topic /\ None \notin Topic

VARIABLES
    trail,        \* the topics of the server's entries, oldest first
    auditPage,    \* the state of the view
    auditLoads,   \* loads under way
    mixed,        \* history: since the latest clean load loads were under way together,
                  \* or older rows were asked for under words not yet applied
    headed,       \* history: how long the trail was when the list was last loaded cleanly
    collapsed     \* history: a poll took back rows that had been paged to

audit == <<trail, auditPage, auditLoads, mixed, headed, collapsed>>

Everything == [topic |-> None, words |-> None]
Fresh0 == [filters |-> Everything, listed |-> << >>, drained |-> TRUE, loaded |-> FALSE, count |-> 0,
           lastWords |-> None, timer |-> FALSE, failed |-> FALSE]

AuditTypeOK ==
    /\ trail \in Seq(Topic) /\ Len(trail) <= MaxTrail
    /\ DOMAIN auditPage = DOMAIN Fresh0
    /\ {auditPage.filters.topic, auditPage.filters.words, auditPage.lastWords} \subseteq Sought \cup {None}
    /\ auditPage.listed \in Seq(1..MaxTrail) /\ auditPage.count \in Nat
    /\ headed \in 0..Len(trail)
    /\ {auditPage.drained, auditPage.loaded, auditPage.timer, auditPage.failed, mixed, collapsed} \subseteq BOOLEAN

\* The entries of t that the filters let through, newest first.
Newest(t, f) ==
    LET upto[n \in 0..Len(t)] ==
            IF n = 0 THEN << >>
            ELSE IF {f.topic, f.words} \subseteq {None, t[n]} THEN << n >> \o upto[n - 1] ELSE upto[n - 1]
    IN upto[Len(t)]
Matching(f) == Newest(trail, f)

AuditRead(f, offset) ==
    LET all == Matching(f) IN SubSeq(all, offset + 1, IF Len(all) < offset + PageOfAudit THEN Len(all) ELSE offset + PageOfAudit)
-----------------------------------------------------------------------------
(* Loads. *)

NextLoad == CHOOSE k \in 0..Cardinality(auditLoads) : \A q \in auditLoads : q.n # k

\* Slip: the count goes on.
Mut_CountFrom(v, clean) == v.count

\* Where the load begins: a clean one sets the count back.
CountFrom(v, clean) == IF clean THEN 0 ELSE v.count

\* A load of the page as v has it, which counts as one for the search too,
\* though it may lengthen a list that was loaded for other words.
FetchAudit(v, clean, by) ==
    LET from == CountFrom(v, clean)
    IN /\ auditPage' = [v EXCEPT !.lastWords = v.filters.words, !.count = from]
       /\ auditLoads' = auditLoads \cup {[n |-> NextLoad, filters |-> v.filters, clean |-> clean, by |-> by,
                                          offset |-> from, got |-> None, at |-> 0]}
       /\ mixed' = (auditLoads # {} \/ (~clean /\ (mixed \/ v.filters.words # v.lastWords)))
       /\ UNCHANGED <<trail, headed, collapsed>>

AuditInit ==
    /\ \E n \in 0..MaxTrail : trail \in [1..n -> Topic]
    /\ auditPage = Fresh0
    /\ auditLoads = {[n |-> 0, filters |-> Everything, clean |-> TRUE, by |-> "user", offset |-> 0, got |-> None, at |-> 0]}
    /\ mixed = FALSE /\ headed = 0 /\ collapsed = FALSE

AuditServed(q) ==
    /\ q.got = None
    /\ auditLoads' = (auditLoads \ {q}) \cup {[q EXCEPT !.got = AuditRead(q.filters, q.offset), !.at = Len(trail)]}
    /\ UNCHANGED <<trail, auditPage, mixed, headed, collapsed>>

\* The rows of got that are not among those seen, in their order.
Unseen(got, seen) ==
    LET upto[n \in 0..Len(got)] ==
            IF n = 0 THEN << >> ELSE IF got[n] \in seen THEN upto[n - 1] ELSE Append(upto[n - 1], got[n])
    IN upto[Len(got)]

\* A repeated row is left out: entries that were added have moved the others on.
AuditArrives(q) ==
    /\ q.got # None
    /\ auditLoads' = auditLoads \ {q}
    /\ auditPage' = [auditPage EXCEPT
           !.count = @ + Len(q.got), !.loaded = TRUE, !.drained = Len(q.got) < PageOfAudit,
           !.failed = @ /\ ~q.clean,
           !.listed = IF q.clean THEN q.got ELSE @ \o Unseen(q.got, Range(@))]
    /\ headed' = IF q.clean THEN q.at ELSE headed
    /\ collapsed' = (collapsed \/ (q.by = "poll" /\ Len(auditPage.listed) > PageOfAudit
                                    /\ ~mixed /\ ~auditPage.failed))
    /\ UNCHANGED <<trail, mixed>>

\* The list stays, and "Load older" goes.
AuditFails(q) ==
    /\ auditLoads' = auditLoads \ {q}
    /\ auditPage' = [auditPage EXCEPT !.drained = TRUE, !.loaded = TRUE, !.failed = TRUE]
    /\ UNCHANGED <<trail, mixed, headed, collapsed>>
-----------------------------------------------------------------------------
(* The user, the timers, and the entries others cause. *)

\* A choice among the filters that are applied at once.
ChooseTopic(t) ==
    /\ t # auditPage.filters.topic
    /\ FetchAudit([auditPage EXCEPT !.filters.topic = t], TRUE, "user")

\* The search waits for its timer, which typing sets back.
TypeWords(w) ==
    /\ w # auditPage.filters.words
    /\ auditPage' = [auditPage EXCEPT !.filters.words = w, !.timer = TRUE]
    /\ UNCHANGED <<trail, auditLoads, mixed, headed, collapsed>>

\* Unless a load took the words along meanwhile.
WordsTimer ==
    LET v == [auditPage EXCEPT !.timer = FALSE]
    IN /\ auditPage.timer
       /\ IF v.filters.words = v.lastWords
          THEN auditPage' = v /\ UNCHANGED <<trail, auditLoads, mixed, headed, collapsed>>
          ELSE FetchAudit(v, TRUE, "user")

ClearAudit ==
    FetchAudit([auditPage EXCEPT !.filters = Everything, !.timer = @ \/ auditPage.filters.words # None], TRUE, "user")

RefreshAudit == FetchAudit(auditPage, TRUE, "user")

LoadOlder == ~auditPage.drained /\ auditPage.listed # << >> /\ FetchAudit(auditPage, FALSE, "user")

\* Slip: the list is loaded afresh however long it is.
Mut_MayPoll == TRUE

\* Not when the user has paged back.
MayPoll == auditPage.count <= PageOfAudit

AuditPoll == MayPoll /\ FetchAudit(auditPage, TRUE, "poll")

EntryAdded(t) ==
    /\ Len(trail) < MaxTrail
    /\ trail' = Append(trail, t)
    /\ UNCHANGED <<auditPage, auditLoads, mixed, headed, collapsed>>

AuditUser ==
    /\ Cardinality(auditLoads) <= MaxLoads
    /\ \/ \E t \in Sought \cup {None} : ChooseTopic(t) \/ TypeWords(t)
       \/ \E t \in Topic : EntryAdded(t)
       \/ ClearAudit \/ RefreshAudit \/ LoadOlder \/ AuditPoll

AuditAnswers ==
    \/ \E q \in auditLoads : AuditServed(q) \/ AuditArrives(q) \/ AuditFails(q)
    \/ WordsTimer
-----------------------------------------------------------------------------
(* Properties. *)

AtRest == auditLoads = {} /\ ~auditPage.timer /\ ~mixed /\ ~auditPage.failed

\* However far the user pages while the trail grows, the rows are entries the
\* filters let through, each once; of those there were when the list was last
\* loaded cleanly none is left out between the newest and the last row, and they
\* are newest first; and no other is among them unless more came in since than
\* there are in a page.  Excepted is a list whose loads were under way together
\* or failed, and older rows asked for before a search was applied.
NoGap ==
    LET all == Range(Matching(auditPage.filters))
        listed == auditPage.listed
        rows == Range(listed)
    IN AtRest =>
        /\ rows \subseteq all /\ IsInjective(listed)
        /\ \A x \in all, y \in rows : y < x /\ x <= headed => x \in rows
        /\ \A m, n \in DOMAIN listed : m < n /\ listed[m] <= headed /\ listed[n] <= headed => listed[m] > listed[n]
        /\ Len(trail) <= headed + PageOfAudit => rows \subseteq 1..headed

\* The page says that the history ends only when all of it is shown, but for
\* what came in since the list was loaded cleanly.
EndIsTheEnd ==
    AtRest /\ auditPage.drained =>
        \A x \in Range(Matching(auditPage.filters)) : x <= headed => x \in Range(auditPage.listed)

\* The poll never takes back the rows the user has paged to, except as
\* above (a clean load that fails has set the count back).
PagesStay == ~collapsed

AuditRight == NoGap /\ EndIsTheEnd /\ PagesStay
=============================================================================
