-------------------------- MODULE ClientShell_proofs --------------------------
(***************************************************************************)
(* Proofs about ClientShell.  A step is a step of one part: what another   *)
(* part's invariant speaks of stays as it was, so each is proved from the  *)
(* actions of its own part.                                                *)
(***************************************************************************)
EXTENDS ClientShell, FiniteSetTheorems, WellFoundedInduction, TLAPS

(* What a step of the client is to each part.                              *)
LEMMA PartSteps ==
  ASSUME [Next]_vars
  PROVE  /\ NoticesUser \/ NoticesAnswers \/ UNCHANGED notices
         /\ ListUser \/ ListAnswers \/ Poll \/ UNCHANGED list
         /\ SleuthUser \/ SleuthAnswers \/ UNCHANGED sleuth
         /\ DirectoryUser \/ DirectoryAnswers \/ UNCHANGED directory
         /\ FormsUser \/ FormsAnswers \/ UNCHANGED formsState
         /\ ManagedUser \/ ManagedAnswers \/ UNCHANGED managed
         /\ AccessUser \/ AccessAnswers \/ UNCHANGED access
         /\ PushUser \/ PushAnswers \/ UNCHANGED push
         /\ AccountUser \/ AccountReplies \/ UNCHANGED accountState
  BY DEF Next, vars, Only, ByUser

-----------------------------------------------------------------------------
(* Notifications: the values.                                              *)

Lists == UNION {[D -> {"unread", "read"}] : D \in SUBSET Notice}
LoadRecords == [seq : Nat, list : Lists \cup {None}, count : Nat \cup {None},
                marked : SUBSET Notice]
CountRecords == [poll : BOOLEAN, count : Nat \cup {None}]
SendRecords == [kind : {"read", "all", "dismiss"}, of : Notice \cup {None}, seq : Nat,
                answer : {"none", "ok", "failed"}]

NoticesTypes ==
    /\ notes \in [Notice -> {"none", "unread", "read", "gone"}]
    /\ shown \in Lists
    /\ badge \in Nat /\ seq \in Nat
    /\ loads \subseteq LoadRecords /\ counts \subseteq CountRecords
    /\ sends \subseteq SendRecords
    /\ seen \in (SUBSET Notice) \cup {None}
    /\ popups \in [Notice -> Nat] /\ short \in Nat

(* The list the server answers with.                                       *)
LEMMA ListType ==
  ASSUME NEW ns \in [Notice -> {"none", "unread", "read", "gone"}], NEW s
  PROVE  ListOf(ns, s) \in Lists
  <1>1. Newest(ns, s) \subseteq Notice /\ \A n \in Newest(ns, s) : ns[n] \in {"unread", "read"}
    BY DEF Newest, There
  <1>2. ListOf(ns, s) \in [Newest(ns, s) -> {"unread", "read"}]
    BY <1>1 DEF ListOf
  <1> QED BY <1>1, <1>2 DEF Lists

(* A row dismissed from the list leaves the others: none moves up for it.  *)
LEMMA NewestShrinks ==
  ASSUME NEW ns \in [Notice -> {"none", "unread", "read", "gone"}], NEW after, NEW s \in Nat,
         NEW n \in Newest(ns, s), There(after) = There(ns) \ {n}
  PROVE  Newest(after, s + 1) = Newest(ns, s) \ {n}
  <1> DEFINE Above(k) == {m \in There(ns) : m > k}
             Rest(k) == {m \in There(after) : m > k}
  <1>1. /\ n \in There(ns) /\ There(ns) \subseteq Notice /\ Notice \subseteq Nat
        /\ IsFiniteSet(There(ns)) /\ ListLimit \in Nat
    BY NoticesAssumption, FS_Subset DEF Newest, There
  <1>2. ASSUME NEW k \in There(ns)
        PROVE  IsFiniteSet(Above(k)) /\ Cardinality(Above(k)) \in Nat
    BY <1>1, FS_Subset, FS_CardinalityType
  <1>3. ASSUME NEW k \in There(ns), k < n
        PROVE  Cardinality(Rest(k)) + (s + 1) = Cardinality(Above(k)) + s
    <2>1. Rest(k) = Above(k) \ {n} /\ n \in Above(k)
      BY <1>1, <1>3
    <2>2. Cardinality(Rest(k)) = Cardinality(Above(k)) - 1
      BY <1>2, <2>1, FS_RemoveElement
    <2>3. Cardinality(Above(k)) \in Nat
      BY <1>2
    <2> HIDE DEF Above, Rest
    <2> QED BY <2>2, <2>3
  <1>4. ASSUME NEW k \in There(ns), k > n
        PROVE  Cardinality(Rest(k)) + (s + 1) < ListLimit /\ Cardinality(Above(k)) + s < ListLimit
    <2>0. n \in Nat /\ k \in Nat /\ There(ns) \subseteq Nat
      BY <1>1
    <2>1. Rest(k) = Above(k) /\ Above(k) \subseteq Above(n) \ {k} /\ k \in Above(n)
      BY <1>4, <2>0
    <2>2. /\ Cardinality(Above(n) \ {k}) = Cardinality(Above(n)) - 1
          /\ IsFiniteSet(Above(n) \ {k})
      BY <1>1, <1>2, <2>1, FS_RemoveElement
    <2>3. Cardinality(Above(k)) <= Cardinality(Above(n) \ {k})
      BY <2>1, <2>2, FS_Subset
    <2>4. Cardinality(Above(n)) + s < ListLimit
      BY DEF Newest
    <2>5. Cardinality(Above(k)) \in Nat /\ Cardinality(Above(n)) \in Nat /\ Cardinality(Rest(k)) = Cardinality(Above(k))
      BY <1>1, <1>2, <2>1
    <2> HIDE DEF Above, Rest
    <2> QED BY <1>1, <2>2, <2>3, <2>4, <2>5
  <1>5. \A k \in There(after) : k \in There(ns) /\ (k < n \/ k > n)
    <2>1. \A k \in There(after) : k \in There(ns) /\ k # n
      OBVIOUS
    <2>2. n \in Nat /\ \A k \in There(ns) : k \in Nat
      BY <1>1
    <2> QED BY <2>1, <2>2
  <1>6. \A k : k \in Newest(after, s + 1) <=> k \in There(after) /\ Cardinality(Rest(k)) + (s + 1) < ListLimit
    BY <1>5, <1>1 DEF Newest, There
  <1>7. \A k : k \in Newest(ns, s) <=> k \in There(ns) /\ Cardinality(Above(k)) + s < ListLimit
    BY <1>1 DEF Newest, There
  <1> HIDE DEF Above, Rest
  <1> QED BY <1>3, <1>4, <1>5, <1>6, <1>7

LEMMA ListAttributes ==
  ASSUME NEW f \in Lists
  PROVE  /\ DOMAIN f \subseteq Notice
         /\ f \in [DOMAIN f -> {"unread", "read"}]
  BY DEF Lists

LEMMA ListMade ==
  ASSUME NEW D \in SUBSET Notice, NEW f \in [D -> {"unread", "read"}]
  PROVE  f \in Lists
  BY DEF Lists

LEMMA UnreadCounted == Cardinality(Unread) \in Nat
  BY NoticesAssumption, FS_Subset, FS_CardinalityType DEF Unread

LEMMA NoticesTypeStep ==
  ASSUME NoticesTypes, NoticesUser \/ NoticesAnswers
  PROVE  NoticesTypes'
  <1> USE DEF NoticesTypes
  <1>1. ASSUME NEW number \in Nat PROVE Load(number, ReadHere) \in LoadRecords
    BY <1>1, ListAttributes DEF Load, LoadRecords, ReadHere
  <1>2. ASSUME Loads PROVE seq' \in Nat /\ loads' \subseteq LoadRecords /\ short' \in Nat
    BY <1>1, <1>2 DEF Loads
  <1>3. CASE \E n \in Notice : \/ Arrives(n)
                               \/ \E to \in {"read", "gone"} : ChangedElsewhere(n, to)
    BY <1>3 DEF Arrives, ChangedElsewhere
  <1>4. CASE OpenPanel \/ ClosePanel
    BY <1>2, <1>4 DEF OpenPanel, ClosePanel
  <1>5. CASE \E poll_ \in BOOLEAN : AskCount(poll_)
    BY <1>5 DEF AskCount, CountRecords
  <1>6. ASSUME NEW kind_ \in {"read", "all", "dismiss"}, NEW n \in Notice \cup {None},
               seq' = seq + 1, Sends(kind_, n)
        PROVE  sends' \subseteq SendRecords /\ UNCHANGED <<notes, loads, counts, seen, popups, backlog, left>>
    BY <1>6 DEF Sends, SendRecords
  <1>7. Less \in Nat
    BY DEF Less
  <1>8. CASE \E n \in Notice : MarkRead(n)
    <2> PICK n \in Notice : MarkRead(n)
      BY <1>8
    <2>1. shown' \in Lists
      BY ListAttributes, ListMade DEF MarkRead
    <2> QED BY <1>6, <1>7, <2>1 DEF MarkRead
  <1>9. CASE MarkAll
    <2>1. shown' \in Lists
      BY <1>9, ListAttributes, ListMade DEF MarkAll
    <2> QED BY <1>6, <1>9, <2>1 DEF MarkAll
  <1>10. CASE \E n \in Notice : Dismiss(n)
    BY <1>10, ListAttributes, ListMade, <1>6, <1>7 DEF Dismiss
  <1>11. CASE \E q \in loads : ListServed(q) \/ CountServed(q) \/ LoadFails(q)
    BY <1>11, ListType, UnreadCounted DEF LoadRecords, ListServed, CountServed, LoadFails
  <1>12. CASE \E q \in loads : LoadArrives(q)
    BY <1>12, ListAttributes DEF LoadArrives, LoadRecords
  <1>13. CASE \E c \in counts : AloneServed(c) \/ CountArrives(c) \/ CountFails(c)
    BY <1>13, UnreadCounted, <1>2 DEF CountRecords, AloneServed, CountArrives, CountFails
  <1>14. CASE \E m \in sends : Served(m) \/ Refused(m) \/ SendDone(m)
    BY <1>14, <1>2 DEF SendRecords, Served, Refused, SendDone
  <1> QED BY <1>3, <1>4, <1>5, <1>8, <1>9, <1>10, <1>11, <1>12, <1>13, <1>14
        DEF NoticesUser, NoticesAnswers

-----------------------------------------------------------------------------
(* Notifications: the numbers.                                             *)

(* Loads and changes made here share one numbering: none has the number of *)
(* another.                                                                *)
Numbered ==
    /\ \A q \in loads : q.seq <= seq /\ \A p \in loads : p.seq = q.seq => p = q
    /\ \A m \in sends : m.seq <= seq /\ \A k \in sends : k.seq = m.seq => k = m
    /\ \A q \in loads, m \in sends : q.seq # m.seq

(* What the answers do to a load or a change under way.                    *)
LEMMA Answering ==
  ASSUME NoticesTypes
  PROVE  /\ \A q \in loads : \A l : [q EXCEPT !.list = l] = [seq |-> q.seq, list |-> l, count |-> q.count, marked |-> q.marked]
         /\ \A q \in loads : \A c : [q EXCEPT !.count = c] = [seq |-> q.seq, list |-> q.list, count |-> c, marked |-> q.marked]
         /\ \A m \in sends : \A a : [m EXCEPT !.answer = a] = [kind |-> m.kind, of |-> m.of, seq |-> m.seq, answer |-> a]
  BY DEF NoticesTypes, LoadRecords, SendRecords

LEMMA LoadAnswered ==
  ASSUME NoticesTypes, NEW q \in loads, ListServed(q) \/ CountServed(q)
  PROVE  \E p : /\ p.seq = q.seq /\ p.marked = q.marked
                /\ loads' = (loads \ {q}) \cup {p}
  <1>1. CASE ListServed(q)
    <2> DEFINE p == [q EXCEPT !.list = ListOf(notes, 0)]
    <2>1. p.seq = q.seq /\ p.marked = q.marked
      BY Answering
    <2>2. loads' = (loads \ {q}) \cup {p}
      BY <1>1 DEF ListServed
    <2> HIDE DEF p
    <2> QED BY <2>1, <2>2
  <1>2. CASE CountServed(q)
    <2> DEFINE p == [q EXCEPT !.count = Cardinality(Unread)]
    <2>1. p.seq = q.seq /\ p.marked = q.marked
      BY Answering
    <2>2. loads' = (loads \ {q}) \cup {p}
      BY <1>2 DEF CountServed
    <2> HIDE DEF p
    <2> QED BY <2>1, <2>2
  <1> QED BY <1>1, <1>2

LEMMA SendAnswered ==
  ASSUME NoticesTypes, NEW m \in sends, Served(m) \/ Refused(m)
  PROVE  \E how \in {"ok", "failed"} :
            sends' = (sends \ {m}) \cup {[kind |-> m.kind, of |-> m.of, seq |-> m.seq, answer |-> how]}
  <1>1. PICK how \in {"ok", "failed"} : sends' = (sends \ {m}) \cup {[m EXCEPT !.answer = how]}
    BY DEF Served, Refused
  <1>2. [m EXCEPT !.answer = how] = [kind |-> m.kind, of |-> m.of, seq |-> m.seq, answer |-> how]
    BY Answering
  <1> QED BY <1>1, <1>2

LEMMA NumberedStep ==
  ASSUME NoticesTypes, Numbered, NoticesUser \/ NoticesAnswers
  PROVE  Numbered'
  <1>0. /\ seq \in Nat
        /\ \A q \in loads : q.seq \in Nat
        /\ \A m \in sends : m.seq \in Nat
    BY DEF NoticesTypes, LoadRecords, SendRecords
  <1>1. ASSUME loads' \subseteq loads, sends' \subseteq sends, seq' = seq PROVE Numbered'
    BY <1>1 DEF Numbered
  <1>2. ASSUME Loads, sends' \subseteq sends PROVE Numbered'
    BY <1>0, <1>2 DEF Loads, Load, Numbered
  <1>3. ASSUME NEW k, NEW n, seq' = seq + 1, Sends(k, n) PROVE Numbered'
    BY <1>0, <1>3 DEF Sends, Numbered
  <1>4. ASSUME NEW q \in loads, ListServed(q) \/ CountServed(q) PROVE Numbered'
    BY <1>4, LoadAnswered DEF ListServed, CountServed, Numbered
  <1>5. ASSUME NEW m \in sends, Served(m) \/ Refused(m) PROVE Numbered'
    BY <1>5, SendAnswered DEF Served, Refused, Numbered
  <1>6. CASE NoticesUser
    BY <1>1, <1>2, <1>3, <1>6 DEF NoticesUser, Arrives, MarkRead, Dismiss, ChangedElsewhere, AskCount,
       OpenPanel, ClosePanel, MarkAll
  <1>7. ASSUME NEW q \in loads, ListServed(q) \/ CountServed(q) \/ LoadArrives(q) \/ LoadFails(q)
        PROVE  Numbered'
    BY <1>1, <1>4, <1>7 DEF LoadArrives, LoadFails
  <1>8. ASSUME NEW c \in counts, AloneServed(c) \/ CountArrives(c) \/ CountFails(c) PROVE Numbered'
    BY <1>1, <1>2, <1>8 DEF AloneServed, CountArrives, CountFails
  <1>9. ASSUME NEW m \in sends, Served(m) \/ Refused(m) \/ SendDone(m) PROVE Numbered'
    BY <1>1, <1>2, <1>5, <1>9 DEF SendDone
  <1> QED BY <1>6, <1>7, <1>8, <1>9 DEF NoticesAnswers

(* What the page shows read was marked when the load that may still be     *)
(* shown began.                                                            *)
Marked == \A q \in loads : q.seq = seq => ReadHere \subseteq q.marked

LEMMA MarkedStep ==
  ASSUME NoticesTypes, Numbered, Marked, NoticesUser \/ NoticesAnswers
  PROVE  Marked'
  <1>0. /\ seq \in Nat
        /\ \A q \in loads : q.seq \in Nat
    BY DEF NoticesTypes, LoadRecords
  <1>1. ASSUME loads' \subseteq loads, UNCHANGED <<seq, shown>> PROVE Marked'
    BY <1>1 DEF Marked, ReadHere
  <1>2. ASSUME Loads, shown' = shown PROVE Marked'
    BY <1>0, <1>2 DEF Loads, Load, Numbered, Marked, ReadHere
  <1>3. ASSUME NEW k, NEW n, seq' = seq + 1, Sends(k, n) PROVE Marked'
    BY <1>0, <1>3 DEF Sends, Numbered, Marked
  <1>4. ASSUME NEW q \in loads, ListServed(q) \/ CountServed(q) PROVE Marked'
    BY <1>4, LoadAnswered DEF ListServed, CountServed, Marked, ReadHere
  <1>5. ASSUME NEW q \in loads, LoadArrives(q) PROVE Marked'
    BY <1>1, <1>5 DEF LoadArrives, Overtaken, Numbered, Marked
  <1>6. CASE NoticesUser
    BY <1>1, <1>2, <1>3, <1>6 DEF NoticesUser, Arrives, MarkRead, Dismiss, ChangedElsewhere, AskCount,
       OpenPanel, ClosePanel, MarkAll
  <1>7. ASSUME NEW q \in loads, ListServed(q) \/ CountServed(q) \/ LoadArrives(q) \/ LoadFails(q)
        PROVE  Marked'
    BY <1>1, <1>4, <1>5, <1>7 DEF LoadFails
  <1>8. ASSUME NEW c \in counts, AloneServed(c) \/ CountArrives(c) \/ CountFails(c) PROVE Marked'
    BY <1>1, <1>2, <1>8 DEF AloneServed, CountArrives, CountFails
  <1>9. ASSUME NEW m \in sends, Served(m) \/ Refused(m) \/ SendDone(m) PROVE Marked'
    BY <1>1, <1>2, <1>9 DEF Served, Refused, SendDone
  <1> QED BY <1>6, <1>7, <1>8, <1>9 DEF NoticesAnswers

(* What was marked read turns unread only by a load that knew of it.       *)
LEMMA UnreadStep ==
  ASSUME NoticesTypes, Marked, NoticesUser \/ NoticesAnswers,
         NEW n \in DOMAIN shown \cap DOMAIN shown', shown[n] = "read", shown'[n] = "unread"
  PROVE  \E q \in loads \ loads' : n \in q.marked
  <1>1. CASE NoticesUser
    BY <1>1 DEF NoticesUser, Arrives, MarkRead, Dismiss, ChangedElsewhere, AskCount,
       OpenPanel, ClosePanel, MarkAll
  <1>2. CASE NoticesAnswers
    <2>1. PICK q \in loads : LoadArrives(q) /\ ~Overtaken(q)
      BY <1>2 DEF NoticesAnswers, ListServed, CountServed, LoadArrives, LoadFails, AloneServed,
         CountArrives, CountFails, Served, Refused, SendDone
    <2> QED BY <2>1 DEF LoadArrives, Overtaken, Marked, ReadHere
  <1> QED BY <1>1, <1>2

-----------------------------------------------------------------------------
(* Notifications: each is announced once.                                  *)

(* What was announced has been in a list, and is not new again.            *)
Once ==
    \A n \in Notice :
        popups[n] <= 1 /\ (popups[n] > 0 => seen # None /\ n \in seen)

(* What was there from the beginning and was left out of no list is in     *)
(* every one until it is gone: it is in the first, which announces         *)
(* nothing, or in none.                                                    *)
Unannounced ==
    \A n \in Notice \cap (backlog \ left) :
        /\ popups[n] = 0 /\ notes[n] # "none"
        /\ seen = None => \A q \in loads : q.list # None => n \in DOMAIN q.list \/ notes[n] = "gone"
        /\ seen # None /\ n \notin seen =>
              /\ notes[n] = "gone"
              /\ \A q \in loads : q.seq = seq /\ q.list # None => n \notin DOMAIN q.list

LEMMA NotesForward ==
  ASSUME NoticesTypes, NoticesUser \/ NoticesAnswers, NEW n \in Notice
  PROVE  /\ notes[n] # "none" => notes'[n] # "none"
         /\ notes[n] = "gone" => notes'[n] = "gone"
  <1>1. CASE NoticesUser
    BY <1>1 DEF NoticesTypes, NoticesUser, Arrives, MarkRead, Dismiss, ChangedElsewhere, AskCount,
       OpenPanel, ClosePanel, MarkAll, Sends, There
  <1>2. ASSUME NEW m \in sends, Served(m)
        PROVE  /\ notes[n] # "none" => notes'[n] # "none"
               /\ notes[n] = "gone" => notes'[n] = "gone"
    BY <1>2, NoticesAssumption DEF NoticesTypes, Served, Unread
  <1>3. CASE NoticesAnswers
    BY <1>2, <1>3 DEF NoticesAnswers, ListServed, CountServed, LoadArrives, LoadFails, AloneServed,
       CountArrives, CountFails, Refused, SendDone
  <1> QED BY <1>1, <1>3

LEMMA OnceStep ==
  ASSUME NoticesTypes, Once, NoticesUser \/ NoticesAnswers
  PROVE  Once'
  <1>1. ASSUME UNCHANGED <<popups, seen>> PROVE Once'
    BY <1>1 DEF Once
  <1>2. ASSUME NEW q \in loads, LoadArrives(q), ~Overtaken(q) PROVE Once'
    <2>1. /\ q.list \in Lists /\ DOMAIN q.list \subseteq Notice
          /\ seen' = (IF seen = None THEN {} ELSE seen) \cup DOMAIN q.list
          /\ \A n \in Notice : popups'[n] = popups[n] + (IF n \in Announced(q.list) THEN 1 ELSE 0)
      BY <1>2, ListAttributes DEF NoticesTypes, LoadRecords, LoadArrives
    <2>2. seen' # None
      BY <2>1, NoticesAssumption DEF NoticesTypes
    <2>3. ASSUME NEW n \in Announced(q.list) PROVE seen # None /\ n \in DOMAIN q.list /\ n \notin seen
      BY <2>3 DEF Announced
    <2> QED BY <2>1, <2>2, <2>3 DEF Once, NoticesTypes
  <1>3. CASE NoticesUser
    BY <1>1, <1>3 DEF NoticesUser, Arrives, MarkRead, Dismiss, ChangedElsewhere, AskCount,
       OpenPanel, ClosePanel, MarkAll, Sends
  <1>4. CASE NoticesAnswers
    BY <1>1, <1>2, <1>4 DEF NoticesAnswers, ListServed, CountServed, LoadArrives, LoadFails, AloneServed,
       CountArrives, CountFails, Served, Refused, SendDone
  <1> QED BY <1>3, <1>4

LEMMA UnannouncedStep ==
  ASSUME NoticesTypes, Numbered, Unannounced, NoticesUser \/ NoticesAnswers
  PROVE  Unannounced'
  <1>0. /\ seq \in Nat /\ \A q \in loads : q.seq \in Nat
        /\ notes \in [Notice -> {"none", "unread", "read", "gone"}]
        /\ popups \in [Notice -> Nat]
    BY DEF NoticesTypes, LoadRecords
  <1>1. backlog' = backlog /\ left \subseteq left'
    BY DEF NoticesUser, Arrives, MarkRead, Dismiss, ChangedElsewhere, AskCount, OpenPanel, ClosePanel,
       MarkAll, Sends, NoticesAnswers, ListServed, CountServed, LoadArrives, LoadFails, AloneServed,
       CountArrives, CountFails, Served, Refused, SendDone
  <1> SUFFICES ASSUME NEW n \in Notice \cap (backlog \ left), n \notin left'
               PROVE  /\ popups'[n] = 0
                      /\ seen' = None => \A q \in loads' : q.list # None => n \in DOMAIN q.list \/ notes'[n] = "gone"
                      /\ seen' # None /\ n \notin seen' =>
                            /\ notes'[n] = "gone"
                            /\ \A q \in loads' : q.seq = seq' /\ q.list # None => n \notin DOMAIN q.list
    BY <1>1, NotesForward DEF Unannounced
  <1> DEFINE Goal == /\ popups'[n] = 0
                     /\ seen' = None => \A q \in loads' : q.list # None => n \in DOMAIN q.list \/ notes'[n] = "gone"
                     /\ seen' # None /\ n \notin seen' =>
                            /\ notes'[n] = "gone"
                            /\ \A q \in loads' : q.seq = seq' /\ q.list # None => n \notin DOMAIN q.list
  <1>2. ASSUME UNCHANGED <<popups, seen, seq>>, loads' \subseteq loads PROVE Goal
    BY <1>2, NotesForward DEF Unannounced
  <1>3. ASSUME UNCHANGED <<popups, seen>>, Loads PROVE Goal
    BY <1>3, <1>0, NotesForward DEF Loads, Load, Numbered, Unannounced
  <1>4. ASSUME NEW k, NEW x, seq' = seq + 1, Sends(k, x), seen' = seen PROVE Goal
    <2>1. \A q \in loads : q.seq # seq'
      BY <1>0, <1>4 DEF Numbered
    <2> QED BY <1>4, <2>1, NotesForward DEF Unannounced, Sends
  <1>5. ASSUME NEW q \in loads, ListServed(q) PROVE Goal
    <2>1. loads' = (loads \ {q}) \cup
                   {[seq |-> q.seq, list |-> ListOf(notes, 0), count |-> q.count, marked |-> q.marked]}
      BY <1>5, Answering DEF ListServed
    <2>2. UNCHANGED <<notes, seq, seen, popups>>
      BY <1>5 DEF ListServed
    <2>3. DOMAIN ListOf(notes, 0) = Newest(notes, 0)
      BY DEF ListOf
    <2>4. notes[n] = "gone" => n \notin Newest(notes, 0)
      BY DEF Newest, There
    <2>5. seen = None => n \in Newest(notes, 0) \/ notes[n] = "gone"
      BY <1>0, <1>5 DEF ListServed, There, Unannounced
    <2> QED BY <2>1, <2>2, <2>3, <2>4, <2>5 DEF Unannounced
  <1>6. ASSUME NEW q \in loads, CountServed(q) PROVE Goal
    <2>1. loads' = (loads \ {q}) \cup
                   {[seq |-> q.seq, list |-> q.list, count |-> Cardinality(Unread), marked |-> q.marked]}
      BY <1>6, Answering DEF CountServed
    <2>2. UNCHANGED <<notes, seq, seen, popups>>
      BY <1>6 DEF CountServed
    <2>3. \A p \in loads' : \E o \in loads : p.seq = o.seq /\ p.list = o.list
      BY <2>1
    <2> QED BY <2>2, <2>3 DEF Unannounced
  <1>7. ASSUME NEW q \in loads, LoadArrives(q), ~Overtaken(q) PROVE Goal
    <2>1. /\ q.list # None /\ q.seq = seq /\ loads' = loads \ {q}
          /\ UNCHANGED <<notes, seq>>
          /\ seen' = (IF seen = None THEN {} ELSE seen) \cup DOMAIN q.list
          /\ popups'[n] = popups[n] + (IF n \in Announced(q.list) THEN 1 ELSE 0)
      BY <1>7 DEF LoadArrives, Overtaken
    <2>2. n \notin Announced(q.list)
      BY <2>1 DEF Announced, Unannounced
    <2>3. \A p \in loads' : p.seq # seq
      BY <2>1 DEF Numbered
    <2>4. popups'[n] = 0
      BY <1>0, <2>1, <2>2 DEF Unannounced
    <2>5. n \notin seen' => notes[n] = "gone"
      BY <2>1 DEF Unannounced
    <2>6. seen' # None
      BY <2>1, ListAttributes, NoticesAssumption DEF NoticesTypes, LoadRecords
    <2> QED BY <2>1, <2>3, <2>4, <2>5, <2>6 DEF Unannounced
  <1>8. CASE NoticesUser
    BY <1>2, <1>3, <1>4, <1>8 DEF NoticesUser, Arrives, MarkRead, Dismiss, ChangedElsewhere, AskCount,
       OpenPanel, ClosePanel, MarkAll, Sends
  <1>9. ASSUME NEW q \in loads, ListServed(q) \/ CountServed(q) \/ LoadArrives(q) \/ LoadFails(q) PROVE Goal
    BY <1>2, <1>5, <1>6, <1>7, <1>9 DEF LoadArrives, LoadFails
  <1>10. ASSUME NEW c \in counts, AloneServed(c) \/ CountArrives(c) \/ CountFails(c) PROVE Goal
    BY <1>2, <1>3, <1>10 DEF AloneServed, CountArrives, CountFails
  <1>11. ASSUME NEW m \in sends, Served(m) \/ Refused(m) \/ SendDone(m) PROVE Goal
    BY <1>2, <1>3, <1>11 DEF Served, Refused, SendDone
  <1> QED BY <1>8, <1>9, <1>10, <1>11 DEF NoticesAnswers

-----------------------------------------------------------------------------
(* Notifications: the newest list is shown.                                *)

(* The server's notifications once a change made here is carried out.      *)
NotesAfter(m) ==
    [n \in Notice |-> IF n # m.of /\ ~(m.kind = "all" /\ n \in Unread) THEN notes[n]
                      ELSE IF m.kind = "dismiss" THEN "gone" ELSE "read"]

(* How the list gets to be the server's.                                   *)
LoadComing == \E q \in loads : q.seq = seq
FailureKnown == \E m \in sends : m.answer = "failed"
OlderUnserved == \E m \in sends : m.answer = "none" /\ m.seq # seq
Promised == \E m \in sends : m.answer = "none" /\ m.seq = seq /\ shown = ListOf(NotesAfter(m), short)
Agreed == shown = ListOf(notes, short) /\ \A m \in sends : m.seq = seq => m.answer # "none"

(* Unless something was changed or lost: the newest load brings the list,  *)
(* or a failure will have it loaded, or an older change will be noticed    *)
(* when it is carried out, or the newest change brings the server to what  *)
(* the page shows, or the two agree.                                       *)
Reconciled == behind \/ LoadComing \/ FailureKnown \/ OlderUnserved \/ Promised \/ Agreed

(* What the newest load was answered is still so, and nothing has been     *)
(* dismissed since it began.                                               *)
NewestTrue ==
    ~behind => \A q \in loads : q.seq = seq => short = 0 /\ (q.list # None => q.list = ListOf(notes, 0))

LEMMA NewestTrueStep ==
  ASSUME NoticesTypes, Numbered, NewestTrue, NoticesUser \/ NoticesAnswers
  PROVE  NewestTrue'
  <1>0. seq \in Nat /\ \A q \in loads : q.seq \in Nat
    BY DEF NoticesTypes, LoadRecords
  <1>1. ASSUME loads' \subseteq loads, UNCHANGED <<notes, seq, short>>, behind => behind' PROVE NewestTrue'
    BY <1>1 DEF NewestTrue, ListOf, Newest, There
  <1>2. ASSUME Loads PROVE NewestTrue'
    BY <1>2, <1>0 DEF Loads, Load, Numbered, NewestTrue
  <1>3. ASSUME NEW k, NEW x, seq' = seq + 1, Sends(k, x) PROVE NewestTrue'
    BY <1>0, <1>3 DEF Sends, Numbered, NewestTrue
  <1>4. ASSUME NEW q \in loads, ListServed(q) PROVE NewestTrue'
    <2>1. loads' = (loads \ {q}) \cup
                   {[seq |-> q.seq, list |-> ListOf(notes, 0), count |-> q.count, marked |-> q.marked]}
      BY <1>4, Answering DEF ListServed
    <2>2. UNCHANGED <<notes, seq, behind, short>>
      BY <1>4 DEF ListServed
    <2>3. ListOf(notes, 0)' = ListOf(notes, 0)
      BY <2>2 DEF ListOf, Newest, There
    <2>4. \A p \in loads' : \/ p \in loads
                            \/ p.seq = q.seq /\ p.list = ListOf(notes, 0)
      BY <2>1
    <2> QED BY <2>2, <2>3, <2>4 DEF NewestTrue
  <1>5. ASSUME NEW q \in loads, CountServed(q) PROVE NewestTrue'
    <2>1. loads' = (loads \ {q}) \cup
                   {[seq |-> q.seq, list |-> q.list, count |-> Cardinality(Unread), marked |-> q.marked]}
      BY <1>5, Answering DEF CountServed
    <2>2. UNCHANGED <<notes, seq, behind, short>>
      BY <1>5 DEF CountServed
    <2>3. \A p \in loads' : \E o \in loads : p.seq = o.seq /\ p.list = o.list
      BY <2>1
    <2> QED BY <2>2, <2>3 DEF NewestTrue, ListOf, Newest, There
  <1>6. ASSUME NEW m \in sends, Served(m) PROVE NewestTrue'
    <2>1. behind' = (behind \/ seq # m.seq) /\ UNCHANGED <<seq, loads>>
      BY <1>6 DEF Served
    <2> QED BY <2>1 DEF NewestTrue, Numbered
  <1>7. CASE NoticesUser
    BY <1>1, <1>2, <1>3, <1>7 DEF NoticesUser, Arrives, MarkRead, Dismiss, ChangedElsewhere, AskCount,
       OpenPanel, ClosePanel, MarkAll, NewestTrue
  <1>8. ASSUME NEW q \in loads, ListServed(q) \/ CountServed(q) \/ LoadArrives(q) \/ LoadFails(q)
        PROVE  NewestTrue'
    BY <1>1, <1>4, <1>5, <1>8 DEF LoadArrives, LoadFails
  <1>9. ASSUME NEW c \in counts, AloneServed(c) \/ CountArrives(c) \/ CountFails(c) PROVE NewestTrue'
    BY <1>1, <1>2, <1>9 DEF AloneServed, CountArrives, CountFails
  <1>10. ASSUME NEW m \in sends, Served(m) \/ Refused(m) \/ SendDone(m) PROVE NewestTrue'
    BY <1>1, <1>2, <1>6, <1>10 DEF Refused, SendDone
  <1> QED BY <1>7, <1>8, <1>9, <1>10 DEF NoticesAnswers

LEMMA ReconciledLoads ==
  ASSUME Loads PROVE Reconciled'
  <1>1. Load(seq + 1, ReadHere) \in loads' /\ seq' = seq + 1
    BY DEF Loads
  <1>2. Load(seq + 1, ReadHere).seq = seq + 1
    BY DEF Load
  <1>3. LoadComing'
    BY <1>1, <1>2 DEF LoadComing
  <1> QED BY <1>3 DEF Reconciled

LEMMA PromiseStands ==
  ASSUME Promised, UNCHANGED <<notes, shown, seq, short>>, \A m \in sends : m.answer = "none" => m \in sends'
  PROVE  Promised'
  <1>1. PICK m \in sends : m.answer = "none" /\ m.seq = seq /\ shown = ListOf(NotesAfter(m), short)
    BY DEF Promised
  <1>2. ListOf(NotesAfter(m), short)' = ListOf(NotesAfter(m), short)
    BY DEF ListOf, Newest, There, NotesAfter, Unread
  <1>3. m \in sends' /\ m.answer = "none" /\ m.seq = seq' /\ shown' = ListOf(NotesAfter(m), short)'
    BY <1>1, <1>2
  <1> QED BY <1>3 DEF Promised

(* What has no part in it.                                                 *)
LEMMA ReconciledFrame ==
  ASSUME Reconciled, UNCHANGED <<notes, shown, seq, sends, loads, behind, short>>
  PROVE  Reconciled'
  <1>1. (LoadComing => LoadComing') /\ (FailureKnown => FailureKnown') /\ (OlderUnserved => OlderUnserved')
    BY DEF LoadComing, FailureKnown, OlderUnserved
  <1>2. Promised => Promised'
    BY PromiseStands
  <1>3. Agreed => Agreed'
    BY DEF Agreed, ListOf, Newest, There
  <1> QED BY <1>1, <1>2, <1>3 DEF Reconciled

(* A change made here: the page shows it first.                            *)
LEMMA ReconciledSends ==
  ASSUME NoticesTypes, Numbered, Reconciled, seq' = seq + 1,
         NEW k \in {"read", "all", "dismiss"}, NEW x, Sends(k, x),
         Agreed => shown' = ListOf(NotesAfter([kind |-> k, of |-> x, seq |-> seq + 1, answer |-> "none"]), short')
  PROVE  Reconciled'
  <1> DEFINE new == [kind |-> k, of |-> x, seq |-> seq + 1, answer |-> "none"]
  <1>1. /\ sends' = sends \cup {new} /\ behind' = (behind \/ loads # {}) /\ UNCHANGED <<notes, loads>>
        /\ new.answer = "none" /\ new.seq = seq'
    BY DEF Sends
  <1>2. seq \in Nat /\ \A m \in sends : m.seq \in Nat /\ m.seq # seq'
    BY DEF NoticesTypes, SendRecords, Numbered
  <1>3. CASE behind \/ LoadComing
    BY <1>1, <1>3 DEF Reconciled, LoadComing
  <1>4. CASE FailureKnown
    BY <1>1, <1>4 DEF Reconciled, FailureKnown
  <1>5. CASE OlderUnserved \/ Promised
    <2>1. OlderUnserved'
      BY <1>1, <1>2, <1>5 DEF OlderUnserved, Promised
    <2> QED BY <2>1 DEF Reconciled
  <1>6. CASE Agreed
    <2>1. PICK m : m = new
      OBVIOUS
    <2>2. m \in sends' /\ m.answer = "none" /\ m.seq = seq'
      BY <1>1, <2>1
    <2>3. shown' = ListOf(NotesAfter(m), short')
      BY <1>6, <2>1
    <2>4. NotesAfter(m)' = NotesAfter(m)
      BY <1>1 DEF NotesAfter, Unread
    <2>5. shown' = ListOf(NotesAfter(m)', short')
      BY <2>3, <2>4
    <2>6. Promised'
      BY <2>2, <2>5 DEF Promised, ListOf, Newest, There
    <2> QED BY <2>6 DEF Reconciled
  <1> QED BY <1>3, <1>4, <1>5, <1>6 DEF Reconciled

LEMMA ReconciledServed ==
  ASSUME NoticesTypes, Numbered, Reconciled, NEW m \in sends, Served(m)
  PROVE  Reconciled'
  <1>1. PICK how \in {"ok", "failed"} :
          sends' = (sends \ {m}) \cup {[kind |-> m.kind, of |-> m.of, seq |-> m.seq, answer |-> how]}
    BY SendAnswered
  <1>2. /\ m.answer = "none" /\ notes' = NotesAfter(m) /\ behind' = (behind \/ seq # m.seq)
        /\ UNCHANGED <<shown, seq, loads, short>>
    BY DEF Served, NotesAfter
  <1>3. CASE behind \/ seq # m.seq
    BY <1>2, <1>3 DEF Reconciled
  <1>4. CASE ~behind /\ seq = m.seq
    <2>1. ~LoadComing
      BY <1>4 DEF LoadComing, Numbered
    <2>2. CASE FailureKnown
      <3>1. FailureKnown'
        BY <1>1, <1>2, <2>2 DEF FailureKnown
      <3> QED BY <3>1 DEF Reconciled
    <2>3. CASE OlderUnserved
      <3>1. OlderUnserved'
        BY <1>1, <1>2, <1>4, <2>3 DEF OlderUnserved
      <3> QED BY <3>1 DEF Reconciled
    <2>4. CASE Promised
      BY <1>2, <1>4, <2>4, <1>1 DEF Promised, Numbered, Agreed, ListOf, Newest, There, Reconciled
    <2>5. CASE Agreed
      BY <1>2, <1>4, <2>5 DEF Agreed
    <2> QED BY <1>4, <2>1, <2>2, <2>3, <2>4, <2>5 DEF Reconciled
  <1> QED BY <1>3, <1>4

LEMMA ReconciledRefused ==
  ASSUME NoticesTypes, Reconciled, NEW m \in sends, Refused(m)
  PROVE  Reconciled'
  <1>1. \E k : k \in sends' /\ k.answer = "failed"
    <2> DEFINE k == [m EXCEPT !.answer = "failed"]
    <2>1. k \in sends'
      BY DEF Refused
    <2>2. k.answer = "failed"
      BY Answering
    <2> QED BY <2>1, <2>2
  <1> QED BY <1>1 DEF Reconciled, FailureKnown

LEMMA ReconciledDone ==
  ASSUME NoticesTypes, Reconciled, NEW m \in sends, SendDone(m)
  PROVE  Reconciled'
  <1>1. CASE m.answer = "failed"
    BY <1>1, ReconciledLoads DEF SendDone
  <1>2. CASE m.answer # "failed"
    <2>1. /\ m.answer # "none" /\ sends' = sends \ {m}
          /\ UNCHANGED <<notes, shown, seq, loads, behind, short>>
      BY <1>2 DEF SendDone
    <2>2. (LoadComing => LoadComing') /\ (behind => behind')
      BY <2>1 DEF LoadComing
    <2>3. FailureKnown => FailureKnown'
      BY <1>2, <2>1 DEF FailureKnown
    <2>4. OlderUnserved => OlderUnserved'
      BY <2>1 DEF OlderUnserved
    <2>5. Promised => Promised'
      BY <1>2, <2>1, PromiseStands
    <2>6. Agreed => Agreed'
      BY <2>1 DEF Agreed, ListOf, Newest, There
    <2> QED BY <2>2, <2>3, <2>4, <2>5, <2>6 DEF Reconciled
  <1> QED BY <1>1, <1>2

(* The answers to a load: only the newest is shown.                        *)
LEMMA ReconciledLoad ==
  ASSUME NoticesTypes, Numbered, NewestTrue, Reconciled, NEW q \in loads,
         ListServed(q) \/ CountServed(q) \/ LoadArrives(q) \/ LoadFails(q)
  PROVE  Reconciled'
  <1>1. CASE LoadFails(q)
    BY <1>1 DEF LoadFails, Reconciled
  <1>2. ASSUME UNCHANGED <<notes, shown, seq, sends, behind, short>>, LoadComing => LoadComing' PROVE Reconciled'
    BY <1>2, PromiseStands DEF FailureKnown, OlderUnserved, Agreed, ListOf, Newest, There, Reconciled
  <1>3. CASE ListServed(q) \/ CountServed(q)
    BY <1>3, LoadAnswered, <1>2 DEF ListServed, CountServed, LoadComing
  <1>4. CASE LoadArrives(q) /\ Overtaken(q)
    BY <1>4, <1>2 DEF LoadArrives, Overtaken, LoadComing
  <1>5. CASE LoadArrives(q) /\ ~Overtaken(q)
    <2>1. /\ UNCHANGED <<notes, seq, sends, behind, short>> /\ q.seq = seq /\ shown' = q.list /\ q.list # None
      BY <1>5 DEF LoadArrives, Overtaken
    <2>2. behind \/ (short = 0 /\ q.list = ListOf(notes, 0))
      BY <2>1 DEF NewestTrue
    <2>3. \A m \in sends : m.seq # seq
      BY <2>1 DEF Numbered
    <2>4. short = 0 /\ q.list = ListOf(notes, 0) => Agreed'
      BY <2>1, <2>3 DEF Agreed, ListOf, Newest, There
    <2> QED BY <2>1, <2>2, <2>4 DEF Reconciled
  <1> QED BY <1>1, <1>3, <1>4, <1>5

LEMMA ReconciledStep ==
  ASSUME NoticesTypes, Numbered, NewestTrue, Reconciled, NoticesUser \/ NoticesAnswers
  PROVE  Reconciled'
  <1>0. /\ shown \in Lists /\ DOMAIN shown \subseteq Notice /\ shown \in [DOMAIN shown -> {"unread", "read"}]
        /\ notes \in [Notice -> {"none", "unread", "read", "gone"}] /\ short \in Nat
    BY ListAttributes DEF NoticesTypes
  <1>1. ASSUME NEW n \in Notice, MarkRead(n) PROVE Reconciled'
    <2> DEFINE new == [kind |-> "read", of |-> n, seq |-> seq + 1, answer |-> "none"]
    <2>1. ASSUME Agreed PROVE shown' = ListOf(NotesAfter(new), short')
      BY <1>1, <2>1 DEF Agreed, MarkRead, ListOf, NotesAfter, There, Newest
    <2> QED BY <1>1, <2>1, ReconciledSends DEF MarkRead
  <1>2. CASE MarkAll
    <2> DEFINE new == [kind |-> "all", of |-> None, seq |-> seq + 1, answer |-> "none"]
    <2>1. ASSUME Agreed PROVE shown' = ListOf(NotesAfter(new), short')
      <3>1. shown = ListOf(notes, short)
        BY <2>1 DEF Agreed
      <3>2. \A k \in Notice : NotesAfter(new)[k] = IF notes[k] = "unread" THEN "read" ELSE notes[k]
        BY NoticesAssumption DEF NotesAfter, Unread
      <3>3. There(NotesAfter(new)) = There(notes)
        BY <3>2 DEF There
      <3>4. Newest(NotesAfter(new), short) = Newest(notes, short) /\ Newest(notes, short) \subseteq There(notes)
        BY <3>3 DEF Newest
      <3>5. \A k \in There(notes) : NotesAfter(new)[k] = "read"
        BY <1>0, <3>2 DEF There
      <3>6. ListOf(NotesAfter(new), short) = [k \in DOMAIN shown |-> "read"]
        BY <3>1, <3>4, <3>5 DEF ListOf
      <3> QED BY <1>2, <3>6 DEF MarkAll
    <2> QED BY <1>2, <2>1, ReconciledSends DEF MarkAll
  <1>3. ASSUME NEW n \in Notice, Dismiss(n) PROVE Reconciled'
    <2> DEFINE new == [kind |-> "dismiss", of |-> n, seq |-> seq + 1, answer |-> "none"]
    <2>1. ASSUME Agreed PROVE shown' = ListOf(NotesAfter(new), short')
      <3>1. shown = ListOf(notes, short) /\ n \in Newest(notes, short)
        BY <1>3, <2>1 DEF Agreed, Dismiss, ListOf
      <3>2. \A k \in Notice : NotesAfter(new)[k] = IF k = n THEN "gone" ELSE notes[k]
        BY DEF NotesAfter
      <3>3. There(NotesAfter(new)) = There(notes) \ {n}
        BY <3>2 DEF There
      <3>4. Newest(NotesAfter(new), short + 1) = Newest(notes, short) \ {n} /\ Newest(notes, short) \subseteq Notice
        BY <1>0, <3>1, <3>3, NewestShrinks DEF Newest, There
      <3>5. ListOf(NotesAfter(new), short + 1) = [k \in DOMAIN shown \ {n} |-> shown[k]]
        BY <3>1, <3>2, <3>4 DEF ListOf
      <3> QED BY <1>3, <3>5 DEF Dismiss
    <2> QED BY <1>3, <2>1, ReconciledSends DEF Dismiss
  <1>4. CASE NoticesUser
    BY <1>1, <1>2, <1>3, <1>4, ReconciledLoads, ReconciledFrame DEF NoticesUser, Arrives,
       ChangedElsewhere, AskCount, OpenPanel, ClosePanel, Reconciled
  <1>5. ASSUME NEW c \in counts, AloneServed(c) \/ CountArrives(c) \/ CountFails(c) PROVE Reconciled'
    BY <1>5, ReconciledLoads, ReconciledFrame DEF AloneServed, CountArrives, CountFails
  <1>6. CASE NoticesAnswers
    BY <1>5, <1>6, ReconciledLoad, ReconciledServed, ReconciledRefused, ReconciledDone DEF NoticesAnswers
  <1> QED BY <1>4, <1>6

(* The inductive invariant of the notifications.                           *)
NoticesInv ==
    NoticesTypes /\ Numbered /\ Marked /\ Once /\ Unannounced /\ NewestTrue /\ Reconciled

LEMMA NoticesInitially == Init => NoticesInv
  <1> SUFFICES ASSUME Init PROVE NoticesInv
    OBVIOUS
  <1>1. /\ notes = [n \in Notice |-> IF n \in backlog THEN "unread" ELSE "none"]
        /\ shown = NoList /\ badge = 0 /\ seq = 1 /\ loads = {Load(1, {})}
        /\ counts = {} /\ sends = {} /\ seen = None
        /\ popups = [n \in Notice |-> 0] /\ left = {} /\ behind = FALSE /\ short = 0
    BY DEF Init, NoticesInit
  <1>2. /\ Load(1, {}) \in LoadRecords
        /\ Load(1, {}).seq = 1 /\ Load(1, {}).list = None
    BY DEF Load, LoadRecords
  <1>3. NoList \in Lists /\ DOMAIN NoList = {}
    <2>1. NoList \in [{} -> {"unread", "read"}]
      BY DEF NoList
    <2> QED BY <2>1, ListMade
  <1>4. NoticesTypes
    BY <1>1, <1>2, <1>3 DEF NoticesTypes
  <1>5. Numbered /\ NewestTrue
    BY <1>1, <1>2 DEF Numbered, NewestTrue
  <1>6. Marked
    BY <1>1, <1>3 DEF Marked, ReadHere
  <1>7. Once /\ Unannounced
    BY <1>1, <1>2 DEF Once, Unannounced
  <1>8. LoadComing
    BY <1>1, <1>2 DEF LoadComing
  <1> QED BY <1>4, <1>5, <1>6, <1>7, <1>8 DEF NoticesInv, Reconciled

LEMMA NoticesStep ==
  ASSUME NoticesInv, [Next]_vars
  PROVE  NoticesInv'
  <1>1. CASE NoticesUser \/ NoticesAnswers
    BY <1>1, NoticesTypeStep, NumberedStep, MarkedStep, OnceStep, UnannouncedStep, NewestTrueStep,
       ReconciledStep DEF NoticesInv
  <1>2. CASE UNCHANGED notices
    <2>1. NoticesTypes' /\ Numbered' /\ Marked' /\ Once'
      BY <1>2 DEF notices, NoticesInv, NoticesTypes, Numbered, Marked, ReadHere, Once
    <2>2. Unannounced' /\ NewestTrue'
      BY <1>2 DEF notices, NoticesInv, Unannounced, NewestTrue, ListOf, Newest, There
    <2>3. Reconciled'
      BY <1>2, ReconciledFrame DEF notices, NoticesInv
    <2> QED BY <2>1, <2>2, <2>3 DEF NoticesInv
  <1> QED BY <1>1, <1>2, PartSteps

(* Every notification is announced once at most, none that was there       *)
(* before unless the first lists had no room for it, and at rest the list  *)
(* is the server's newest, less the rows that would have moved up for      *)
(* those dismissed since it was loaded, in whatever order notifications,   *)
(* loads and changes of the user's come.                                   *)
THEOREM Bell == Spec => []BellRight
  <1>1. NoticesInv => BellRight
    <2> SUFFICES ASSUME NoticesInv PROVE BellRight
      OBVIOUS
    <2>1. AnnouncedOnce
      BY DEF NoticesInv, AnnouncedOnce, Once, Unannounced, NoticesTypes
    <2>2. NewestListShown
      BY DEF NoticesInv, NewestListShown, Reconciled, LoadComing, FailureKnown, OlderUnserved, Promised,
         Agreed
    <2> QED BY <2>1, <2>2 DEF BellRight
  <1> QED BY <1>1, NoticesInitially, NoticesStep, PTL DEF Spec

-----------------------------------------------------------------------------
(* Projects and people: the values.                                        *)

VersionLists == UNION {[D -> 0..MaxVersion] : D \in SUBSET Project}
ReadAnswers == {None} \cup [projects : VersionLists, people : 0..MaxVersion]
ProjectReads == [of : {"projects"}, by : {"page", "poll"}, seq : Nat, changes : Nat, got : ReadAnswers]
PeopleReads == [of : {"people"}, by : {"page", "poll"}, got : ReadAnswers]
WriteRecords == [of : {"project", "person"}, kind : {"save", "delete", "members", "reset"},
                 id : Project \cup {None}, answer : {"none", "ok", "lost"}, ver : 0..MaxVersion]

DirectoryTypes ==
    /\ projects \in VersionLists /\ rail \in VersionLists
    /\ born \in Nat /\ people \in 0..MaxVersion /\ team \in 0..MaxVersion
    /\ loadSeq \in Nat /\ changeSeq \in Nat
    /\ reads \subseteq ProjectReads \cup PeopleReads
    /\ writes \subseteq WriteRecords
    /\ form \in [of : {"nothing", "project", "person"}, id : Project \cup {None}]
    /\ polling \in BOOLEAN /\ dropped \subseteq Project

LEMMA VersionAttributes ==
  ASSUME NEW f \in VersionLists
  PROVE  DOMAIN f \subseteq Project /\ f \in [DOMAIN f -> 0..MaxVersion]
  BY DEF VersionLists

LEMMA VersionsMade ==
  ASSUME NEW D \in SUBSET Project, NEW f \in [D -> 0..MaxVersion]
  PROVE  f \in VersionLists
  BY DEF VersionLists

(* A project is put in a list, or its version raised; it is taken out.     *)
LEMMA VersionChanges ==
  ASSUME NEW f \in VersionLists, NEW p \in Project, NEW v \in 0..MaxVersion
  PROVE  /\ Put(f, p, v) \in VersionLists
         /\ DOMAIN Put(f, p, v) = DOMAIN f \cup {p}
         /\ Put(f, p, v)[p] = v
         /\ \A q \in DOMAIN f \ {p} : Put(f, p, v)[q] = f[q]
         /\ [f EXCEPT ![p] = v] \in VersionLists
  BY VersionAttributes, VersionsMade DEF Put

LEMMA VersionDropped ==
  ASSUME NEW f \in VersionLists, NEW p
  PROVE  /\ Restrict(f, DOMAIN f \ {p}) \in VersionLists
         /\ DOMAIN Restrict(f, DOMAIN f \ {p}) = DOMAIN f \ {p}
         /\ \A q \in DOMAIN f \ {p} : Restrict(f, DOMAIN f \ {p})[q] = f[q]
  BY VersionAttributes, VersionsMade DEF Restrict

(* What the server's list goes through, whoever changes it: versions rise, *)
(* and what is new was not there before.                                   *)
Advance ==
    /\ born' \in {born, born + 1}
    /\ \A p \in DOMAIN projects' \cap DOMAIN projects : projects'[p] >= projects[p]
    /\ \A p \in DOMAIN projects' \ DOMAIN projects : p = born + 1 /\ born' = born + 1
    /\ UNCHANGED <<rail, dropped, reads, loadSeq, changeSeq>>

LEMMA OthersAdvance ==
  ASSUME DirectoryTypes, ChangedByOthers
  PROVE  Advance /\ DirectoryTypes'
  <1>0. projects \in VersionLists /\ DOMAIN projects \subseteq Project /\ projects \in [DOMAIN projects -> 0..MaxVersion]
        /\ MaxVersion \in Nat
    BY VersionAttributes, DirectoryAssumption DEF DirectoryTypes
  <1>1. UNCHANGED <<born, rail, team, loadSeq, changeSeq, reads, form, writes, polling, dropped>>
    BY DEF ChangedByOthers
  <1>2. CASE UNCHANGED projects
    BY <1>0, <1>2, <1>1 DEF ChangedByOthers, DirectoryTypes, Advance
  <1>3. CASE projects' # projects
    <2>1. PICK p \in DOMAIN projects :
            /\ \/ projects' = Restrict(projects, DOMAIN projects \ {p})
               \/ projects[p] < MaxVersion /\ projects' = [projects EXCEPT ![p] = projects[p] + 1]
            /\ UNCHANGED people
      BY <1>3 DEF ChangedByOthers
    <2>2. CASE projects' = Restrict(projects, DOMAIN projects \ {p})
      <3>1. projects' \in VersionLists /\ DOMAIN projects' = DOMAIN projects \ {p}
            /\ \A q \in DOMAIN projects \ {p} : projects'[q] = projects[q]
        BY <1>0, <2>2, VersionDropped
      <3>2. \A q \in DOMAIN projects : projects[q] \in Nat
        BY <1>0
      <3> QED BY <1>1, <2>1, <3>1, <3>2 DEF Advance, DirectoryTypes
    <2>3. CASE projects[p] < MaxVersion /\ projects' = [projects EXCEPT ![p] = projects[p] + 1]
      <3>1. projects[p] + 1 \in 0..MaxVersion
        BY <1>0, <2>3
      <3>2. projects' \in VersionLists
        BY <1>0, <2>3, <3>1, VersionChanges
      <3>3. \A q \in DOMAIN projects : projects'[q] >= projects[q]
        BY <1>0, <2>3
      <3>4. DOMAIN projects' = DOMAIN projects
        BY <2>3
      <3> QED BY <1>1, <2>1, <3>2, <3>3, <3>4 DEF Advance, DirectoryTypes
    <2> QED BY <2>1, <2>2, <2>3
  <1> QED BY <1>2, <1>3

LEMMA WriteAnswering ==
  ASSUME NEW w \in WriteRecords, NEW a, NEW i, NEW v
  PROVE  [w EXCEPT !.answer = a, !.id = i, !.ver = v]
           = [of |-> w.of, kind |-> w.kind, id |-> i, answer |-> a, ver |-> v]
  <1> DEFINE s == [w EXCEPT !.answer = a, !.id = i, !.ver = v]
             r == [of |-> w.of, kind |-> w.kind, id |-> i, answer |-> a, ver |-> v]
             R == [of : {w.of}, kind : {w.kind}, id : {i}, answer : {a}, ver : {v}]
  <1>1. s \in R /\ r \in R
    BY DEF WriteRecords
  <1>2. s.of = w.of /\ s.kind = w.kind /\ s.id = i /\ s.answer = a /\ s.ver = v
    BY DEF WriteRecords
  <1>3. r.of = w.of /\ r.kind = w.kind /\ r.id = i /\ r.answer = a /\ r.ver = v
    OBVIOUS
  <1> HIDE DEF s, r
  <1>4. s = r
    BY <1>1, <1>2, <1>3
  <1> QED BY <1>4 DEF s, r

(* A write that is served: what it answers is what the server has.         *)
LEMMA WriteAdvance ==
  ASSUME DirectoryTypes, \A p \in DOMAIN projects : p <= born, NEW w \in writes, WriteServed(w)
  PROVE  /\ Advance /\ DirectoryTypes'
         /\ \E x : /\ writes' = (writes \ {w}) \cup {x}
                   /\ x.of = "project" /\ x.kind = "save" =>
                         x.id \in Project /\ x.id <= born' /\ x.id \in DOMAIN projects' /\ x.ver = projects'[x.id]
  <1>0. /\ projects \in VersionLists /\ DOMAIN projects \subseteq Project
        /\ projects \in [DOMAIN projects -> 0..MaxVersion] /\ MaxVersion \in Nat
        /\ Project \subseteq Nat /\ born \in Nat /\ w \in WriteRecords
        /\ \A p \in DOMAIN projects : projects[p] \in Nat /\ projects[p] >= projects[p]
    BY VersionAttributes, DirectoryAssumption DEF DirectoryTypes
  <1>1. UNCHANGED <<rail, team, loadSeq, changeSeq, reads, form, polling, dropped>>
    BY DEF WriteServed
  <1> DEFINE Record(a, i, v) == [of |-> w.of, kind |-> w.kind, id |-> i, answer |-> a, ver |-> v]
             Result == /\ Advance /\ DirectoryTypes'
                       /\ \E x : /\ writes' = (writes \ {w}) \cup {x}
                                 /\ x.of = "project" /\ x.kind = "save" =>
                                      x.id \in Project /\ x.id <= born' /\ x.id \in DOMAIN projects' /\ x.ver = projects'[x.id]
  <1>2. ASSUME NEW a \in {"ok", "lost"}, NEW i \in Project \cup {None}, NEW v \in 0..MaxVersion,
               Answered(w, a, [id |-> i, ver |-> v]),
               Advance, projects' \in VersionLists, born' \in Nat, people' \in 0..MaxVersion,
               w.of = "project" /\ w.kind = "save" =>
                  i \in Project /\ i <= born' /\ i \in DOMAIN projects' /\ v = projects'[i]
        PROVE  Result
    <2>1. Record(a, i, v) \in WriteRecords
      BY <1>0, <1>2 DEF WriteRecords
    <2>2. writes' = (writes \ {w}) \cup {Record(a, i, v)}
      BY <1>0, WriteAnswering, <1>2 DEF Answered
    <2>3. DirectoryTypes'
      BY <1>1, <1>2, <2>1, <2>2 DEF DirectoryTypes
    <2>4. /\ Record(a, i, v).of = w.of /\ Record(a, i, v).kind = w.kind
          /\ Record(a, i, v).id = i /\ Record(a, i, v).ver = v
      OBVIOUS
    <2> HIDE DEF Record
    <2>5. \E x : /\ writes' = (writes \ {w}) \cup {x}
                 /\ x.of = "project" /\ x.kind = "save" =>
                       x.id \in Project /\ x.id <= born' /\ x.id \in DOMAIN projects' /\ x.ver = projects'[x.id]
      BY <1>2, <2>2, <2>4
    <2> QED BY <1>2, <2>3, <2>5
  <1> HIDE DEF Record
  <1>3. ASSUME NEW a \in {"ok", "lost"}, w.of = "person", people < MaxVersion, people' = people + 1,
               Answered(w, a, [id |-> None, ver |-> 0]), UNCHANGED <<projects, born>>
        PROVE  Result
    BY <1>0, <1>1, <1>3, <1>2 DEF Advance, DirectoryTypes
  <1>4. ASSUME NEW a \in {"ok", "lost"}, born + 1 \in Project, born' = born + 1,
               projects' = Put(projects, born + 1, 0),
               Answered(w, a, [id |-> born + 1, ver |-> 0]), UNCHANGED people
        PROVE  Result
    <2>1. 0 \in 0..MaxVersion /\ people' \in 0..MaxVersion
      BY <1>0, <1>4 DEF DirectoryTypes
    <2>2. born + 1 \notin DOMAIN projects
      BY <1>0
    <2>3. /\ projects' \in VersionLists /\ DOMAIN projects' = DOMAIN projects \cup {born + 1}
          /\ projects'[born + 1] = 0 /\ \A q \in DOMAIN projects : projects'[q] = projects[q]
      BY <1>0, <1>4, <2>1, <2>2, VersionChanges
    <2>4. Advance
      BY <1>0, <1>1, <1>4, <2>3 DEF Advance
    <2> QED BY <1>0, <1>2, <1>4, <2>1, <2>3, <2>4
  <1>5. ASSUME NEW a \in {"ok", "lost"}, w.id \in DOMAIN projects, projects[w.id] < MaxVersion,
               projects' = [projects EXCEPT ![w.id] = projects[w.id] + 1],
               Answered(w, a, [id |-> w.id, ver |-> projects[w.id] + 1]), UNCHANGED <<born, people>>
        PROVE  Result
    <2>1. projects[w.id] + 1 \in 0..MaxVersion /\ people' \in 0..MaxVersion /\ w.id \in Project
      BY <1>0, <1>5 DEF DirectoryTypes
    <2>2. projects' \in VersionLists
      BY <1>0, <1>5, <2>1, VersionChanges
    <2>3. /\ DOMAIN projects' = DOMAIN projects /\ projects'[w.id] = projects[w.id] + 1
          /\ \A q \in DOMAIN projects : projects'[q] >= projects[q]
      BY <1>0, <1>5
    <2>4. Advance
      BY <1>1, <1>5, <2>3 DEF Advance
    <2> QED BY <1>0, <1>2, <1>5, <2>1, <2>2, <2>3, <2>4
  <1>6. ASSUME NEW a \in {"ok", "lost"}, w.kind = "delete", w.id \in DOMAIN projects,
               projects' = Restrict(projects, DOMAIN projects \ {w.id}),
               Answered(w, a, [id |-> w.id, ver |-> 0]), UNCHANGED <<born, people>>
        PROVE  Result
    <2>1. 0 \in 0..MaxVersion /\ people' \in 0..MaxVersion /\ w.id \in Project
      BY <1>0, <1>6 DEF DirectoryTypes
    <2>2. /\ projects' \in VersionLists /\ DOMAIN projects' = DOMAIN projects \ {w.id}
          /\ \A q \in DOMAIN projects \ {w.id} : projects'[q] = projects[q]
      BY <1>0, <1>6, VersionDropped
    <2>3. Advance
      BY <1>0, <1>1, <1>6, <2>2 DEF Advance
    <2> QED BY <1>0, <1>2, <1>6, <2>1, <2>2, <2>3
  <1> HIDE DEF Result
  <1>7. Result
    BY <1>3, <1>4, <1>5, <1>6 DEF WriteServed
  <1> QED BY <1>7 DEF Result

-----------------------------------------------------------------------------
(* Projects and people: the invariant.                                     *)

ProjectLoads == {q \in reads : q.of = "projects"}

\* Loads have numbers of their own, none above the latest.
LoadsNumbered ==
    \A q \in ProjectLoads :
        /\ q.seq <= loadSeq /\ q.changes <= changeSeq
        /\ \A p \in ProjectLoads : p.seq = q.seq => p = q

\* The sidebar is behind the server, if anything, and what a load took out is gone.
RailBehind ==
    /\ \A p \in DOMAIN projects : p <= born
    /\ \A p \in DOMAIN rail : p <= born
    /\ \A p \in dropped : p <= born
    /\ \A p \in dropped : p \notin DOMAIN projects
    /\ \A p \in DOMAIN rail \cap DOMAIN projects : rail[p] <= projects[p]

\* What a load has read was the server's, ...
ReadBehind(g) ==
    /\ \A p \in DOMAIN g : p <= born
    /\ \A p \in DOMAIN g \cap DOMAIN projects : g[p] <= projects[p]

\* ... and if nothing has overtaken it, it is not behind what the sidebar shows.
ReadAhead(g) ==
    /\ \A p \in DOMAIN g \cap DOMAIN rail : g[p] >= rail[p]
    /\ \A p \in DOMAIN g \ DOMAIN rail : p \notin dropped
    /\ \A p \in DOMAIN rail \ DOMAIN g : p \notin DOMAIN projects

LoadedTrue ==
    \A q \in ProjectLoads : q.got # None =>
        ReadBehind(q.got.projects) /\ (~IsStale(q) => ReadAhead(q.got.projects))

\* What an answered save hands to the sidebar was the server's.
SavedBehind(w) ==
    w.of = "project" /\ w.kind = "save" /\ w.answer = "ok" =>
        /\ w.id \in Project /\ w.id <= born
        /\ w.id \in DOMAIN projects => w.ver <= projects[w.id]

SavedTrue == \A w \in writes : SavedBehind(w)

DirectoryInv == DirectoryTypes /\ LoadsNumbered /\ RailBehind /\ LoadedTrue /\ SavedTrue

\* It holds at first.
LEMMA DirectoryInitially == Init => DirectoryInv
  <1> SUFFICES ASSUME DirectoryInit PROVE DirectoryInv
    BY DEF Init
  <1>1. MaxVersion \in Nat /\ Project \subseteq Nat
    BY DirectoryAssumption
  <1>2. projects = [p \in {1} \cap Project |-> 0] /\ rail = projects /\ born = 1 /\ dropped = {}
        /\ reads = {} /\ writes = {}
    BY DEF DirectoryInit
  <1>3. projects \in [{1} \cap Project -> 0..MaxVersion]
    BY <1>1, <1>2
  <1>4. projects \in VersionLists
    BY <1>3, VersionsMade
  <1>5. DirectoryTypes
    <2>1. form \in [of : {"nothing", "project", "person"}, id : Project \cup {None}]
      BY DEF DirectoryInit, NoForm
    <2>2. people = 0 /\ team = 0 /\ polling = FALSE /\ loadSeq = 1 /\ changeSeq = 0
      BY DEF DirectoryInit
    <2>3. polling \in BOOLEAN
      BY <2>2
    <2> QED BY <1>1, <1>2, <1>4, <2>1, <2>2, <2>3 DEF DirectoryTypes
  <1>6. RailBehind
    BY <1>2 DEF RailBehind
  <1> QED BY <1>2, <1>5, <1>6 DEF DirectoryInv, LoadsNumbered, LoadedTrue, SavedTrue, ProjectLoads

(* What a project load is, and what it has.                                *)
LEMMA LoadAttributes ==
  ASSUME DirectoryTypes, NEW q \in ProjectLoads
  PROVE  /\ q \in ProjectReads /\ q.seq \in Nat /\ q.changes \in Nat
         /\ q.got # None => q.got.projects \in VersionLists
  BY DEF DirectoryTypes, ProjectLoads, ProjectReads, PeopleReads, ReadAnswers

(* When the server's list goes on, nothing is overtaken that was not.      *)
LEMMA AdvanceKeeps ==
  ASSUME DirectoryInv, Advance, DirectoryTypes'
  PROVE  /\ LoadsNumbered' /\ RailBehind' /\ LoadedTrue'
         /\ \A w \in writes : SavedBehind(w) => SavedBehind(w)'
  <1>1. /\ projects \in [DOMAIN projects -> Nat] /\ projects' \in [DOMAIN projects' -> Nat]
        /\ rail \in [DOMAIN rail -> Nat] /\ DOMAIN projects \subseteq Nat /\ DOMAIN projects' \subseteq Nat
        /\ DOMAIN rail \subseteq Nat /\ dropped \subseteq Nat /\ born \in Nat /\ born' \in Nat
    BY DirectoryAssumption, VersionAttributes DEF DirectoryInv, DirectoryTypes
  <1>2. /\ born' >= born
        /\ \A p \in DOMAIN projects' \cap DOMAIN projects : projects'[p] >= projects[p]
        /\ \A p \in DOMAIN projects' \ DOMAIN projects : p > born /\ p <= born'
        /\ rail' = rail /\ dropped' = dropped /\ reads' = reads /\ loadSeq' = loadSeq /\ changeSeq' = changeSeq
    BY <1>1 DEF Advance
  <1>3. LoadsNumbered'
    BY <1>2 DEF DirectoryInv, LoadsNumbered, ProjectLoads
  <1>4. RailBehind'
    BY <1>1, <1>2 DEF DirectoryInv, RailBehind
  <1>5. ASSUME NEW g \in VersionLists, ReadBehind(g)
        PROVE  ReadBehind(g)' /\ (ReadAhead(g) => ReadAhead(g)')
    <2>1. g \in [DOMAIN g -> Nat] /\ DOMAIN g \subseteq Nat
      BY VersionAttributes, DirectoryAssumption
    <2>2. ReadBehind(g)'
      BY <1>1, <1>2, <1>5, <2>1 DEF ReadBehind
    <2>3. \A p \in DOMAIN rail : p <= born
      BY DEF DirectoryInv, RailBehind
    <2>4. ASSUME ReadAhead(g) PROVE ReadAhead(g)'
      BY <1>1, <1>2, <2>3, <2>4 DEF ReadAhead
    <2> QED BY <2>2, <2>4
  <1>6. LoadedTrue'
    BY <1>2, LoadAttributes, <1>5 DEF ProjectLoads, IsStale, DirectoryInv, LoadedTrue
  <1>7. ASSUME NEW w \in writes, SavedBehind(w) PROVE SavedBehind(w)'
    <2>1. w \in WriteRecords /\ w.ver \in Nat
      BY DirectoryAssumption DEF DirectoryInv, DirectoryTypes, WriteRecords
    <2> QED BY <1>1, <1>2, <1>7, <2>1, DirectoryAssumption DEF SavedBehind
  <1> QED BY <1>3, <1>4, <1>6, <1>7

(* The steps of the directory that leave the server's list, the sidebar's  *)
(* and the loads of projects as they are.                                  *)
Aside ==
    /\ UNCHANGED <<projects, born, rail, dropped, loadSeq, changeSeq>>
    /\ ProjectLoads' = ProjectLoads

LEMMA AsideKeeps ==
  ASSUME DirectoryInv, Aside
  PROVE  /\ LoadsNumbered' /\ RailBehind' /\ LoadedTrue'
         /\ \A w : SavedBehind(w) => SavedBehind(w)'
  <1>1. LoadsNumbered' /\ RailBehind'
    BY DEF DirectoryInv, Aside, LoadsNumbered, RailBehind
  <1>2. \A g : (ReadBehind(g)' <=> ReadBehind(g)) /\ (ReadAhead(g)' <=> ReadAhead(g))
    BY DEF Aside, ReadBehind, ReadAhead
  <1>3. \A q : IsStale(q)' = IsStale(q)
    BY DEF Aside, IsStale
  <1>4. LoadedTrue'
    BY <1>2, <1>3 DEF DirectoryInv, Aside, LoadedTrue
  <1>5. \A w : SavedBehind(w) => SavedBehind(w)'
    BY DEF Aside, SavedBehind
  <1> QED BY <1>1, <1>4, <1>5

(* A load that is answered has what the server had.                        *)
LEMMA ServedKeeps ==
  ASSUME DirectoryInv, NEW q \in reads, ReadServed(q)
  PROVE  DirectoryInv'
  <1>1. /\ q.got = None /\ UNCHANGED <<projects, born, people, rail, team, loadSeq, changeSeq, form, writes, polling, dropped>>
        /\ reads' = (reads \ {q}) \cup {[q EXCEPT !.got = [projects |-> projects, people |-> people]]}
    BY DEF ReadServed
  <1>2. PICK g : g = [projects |-> projects, people |-> people]
    OBVIOUS
  <1>3. g \in ReadAnswers /\ g.projects = projects
    BY <1>2 DEF DirectoryInv, DirectoryTypes, ReadAnswers
  <1>4. PICK r : r = [q EXCEPT !.got = g]
    OBVIOUS
  <1>5. /\ q \in ProjectReads => r \in ProjectReads /\ r.of = "projects" /\ r.seq = q.seq /\ r.changes = q.changes /\ r.got = g
        /\ q \in PeopleReads => r \in PeopleReads /\ r.of = "people"
    BY <1>3, <1>4 DEF ProjectReads, PeopleReads
  <1>6. q \in ProjectReads \cup PeopleReads
    BY DEF DirectoryInv, DirectoryTypes
  <1>7. reads' = (reads \ {q}) \cup {r}
    BY <1>1, <1>2, <1>4
  <1>8. DirectoryTypes'
    BY <1>1, <1>5, <1>6, <1>7 DEF DirectoryInv, DirectoryTypes
  <1>9. RailBehind' /\ SavedTrue'
    BY <1>1 DEF DirectoryInv, RailBehind, SavedTrue, SavedBehind
  <1>10. /\ \A h : (ReadBehind(h)' <=> ReadBehind(h)) /\ (ReadAhead(h)' <=> ReadAhead(h))
         /\ \A p : IsStale(p)' = IsStale(p)
    BY <1>1 DEF ReadBehind, ReadAhead, IsStale
  <1>11. ReadBehind(projects) /\ ReadAhead(projects)
    BY VersionAttributes, DirectoryAssumption DEF DirectoryInv, DirectoryTypes, RailBehind, ReadBehind,
       ReadAhead
  <1>12. CASE q \in ProjectReads
    <2>1. q \in ProjectLoads /\ ProjectLoads' = (ProjectLoads \ {q}) \cup {r}
      BY <1>5, <1>7, <1>12 DEF ProjectLoads, ProjectReads
    <2>2. LoadsNumbered'
      BY <1>1, <1>5, <1>12, <2>1 DEF DirectoryInv, LoadsNumbered
    <2>3. IsStale(r) = IsStale(q)
      BY <1>5, <1>12 DEF IsStale
    <2>4. LoadedTrue'
      BY <1>3, <1>5, <1>10, <1>11, <1>12, <2>1 DEF DirectoryInv, LoadedTrue
    <2> QED BY <1>8, <1>9, <2>2, <2>4 DEF DirectoryInv
  <1>13. CASE q \in PeopleReads
    <2>1. ProjectLoads' = ProjectLoads
      BY <1>5, <1>7, <1>13 DEF ProjectLoads, PeopleReads
    <2>2. LoadsNumbered' /\ LoadedTrue'
      BY <1>1, <2>1, AsideKeeps DEF Aside
    <2> QED BY <1>8, <1>9, <2>2 DEF DirectoryInv
  <1> QED BY <1>6, <1>12, <1>13

(* A load that fails: the poll's other one goes on by itself.              *)
LEMMA FailedKeeps ==
  ASSUME DirectoryInv, NEW q \in reads, ReadFails(q)
  PROVE  DirectoryInv'
  <1> DEFINE Demoted(r) == IF r.by = "poll" /\ q.by = "poll" THEN [r EXCEPT !.by = "page"] ELSE r
  <1>1. /\ reads' = {Demoted(r) : r \in reads \ {q}}
        /\ polling' = (polling /\ q.by # "poll")
        /\ UNCHANGED <<projects, born, people, rail, team, loadSeq, changeSeq, form, writes, dropped>>
    BY DEF ReadFails
  <1>2. \A r \in ProjectReads : /\ Demoted(r) \in ProjectReads
                                /\ Demoted(r).seq = r.seq /\ Demoted(r).changes = r.changes /\ Demoted(r).got = r.got
    BY DEF ProjectReads
  <1>3. \A r \in PeopleReads : Demoted(r) \in PeopleReads
    BY DEF PeopleReads
  <1> HIDE DEF Demoted
  <1>4. reads' \subseteq ProjectReads \cup PeopleReads
    BY <1>1, <1>2, <1>3 DEF DirectoryInv, DirectoryTypes
  <1>5. DirectoryTypes'
    BY <1>1, <1>4 DEF DirectoryInv, DirectoryTypes
  <1>6. RailBehind' /\ SavedTrue'
    BY <1>1 DEF DirectoryInv, RailBehind, SavedTrue, SavedBehind
  <1>7. /\ \A h : (ReadBehind(h)' <=> ReadBehind(h)) /\ (ReadAhead(h)' <=> ReadAhead(h))
        /\ \A p : IsStale(p)' = IsStale(p)
    BY <1>1 DEF ReadBehind, ReadAhead, IsStale
  <1>8. \A p \in ProjectLoads' : \E r \in ProjectLoads :
            /\ r \in ProjectReads /\ p = Demoted(r) /\ p.seq = r.seq /\ p.changes = r.changes /\ p.got = r.got
    BY <1>1, <1>2, <1>3 DEF ProjectLoads, DirectoryInv, DirectoryTypes, ProjectReads, PeopleReads
  <1>9. LoadsNumbered'
    BY <1>1, <1>8 DEF LoadsNumbered, DirectoryInv
  <1>10. LoadedTrue'
    BY <1>7, <1>8 DEF LoadedTrue, IsStale, DirectoryInv
  <1> QED BY <1>5, <1>6, <1>9, <1>10 DEF DirectoryInv

(* A load is under way that has not been answered, and one that overtakes  *)
(* all others.                                                             *)
LEMMA BegunKeeps ==
  ASSUME DirectoryInv, NEW upTo \in Nat, NEW r \in ProjectReads,
         r.seq = loadSeq + 1, r.changes = upTo, r.got = None, upTo <= changeSeq',
         loadSeq' = loadSeq + 1, changeSeq' \in {changeSeq, changeSeq + 1},
         ProjectLoads' = ProjectLoads \cup {r}, UNCHANGED <<projects, born>>
  PROVE  LoadsNumbered' /\ LoadedTrue'
  <1>1. /\ loadSeq \in Nat /\ changeSeq \in Nat /\ loadSeq' \in Nat /\ changeSeq' \in Nat
        /\ \A q \in ProjectLoads : q.seq \in Nat /\ q.changes \in Nat /\ q.seq <= loadSeq /\ q.changes <= changeSeq
    BY LoadAttributes DEF DirectoryInv, DirectoryTypes, LoadsNumbered
  <1>2. \A q \in ProjectLoads : q.seq # loadSeq' /\ q.seq <= loadSeq' /\ q.changes <= changeSeq'
    BY <1>1
  <1>3. LoadsNumbered'
    BY <1>1, <1>2 DEF DirectoryInv, LoadsNumbered
  <1>4. \A q \in ProjectLoads : IsStale(q)'
    BY <1>2 DEF IsStale
  <1>5. LoadedTrue'
    <2>1. \A g : ReadBehind(g)' <=> ReadBehind(g)
      BY DEF ReadBehind
    <2> QED BY <1>4, <2>1 DEF DirectoryInv, LoadedTrue
  <1> QED BY <1>3, <1>5

(* What the two loads that the page begins are.                            *)
LEMMA LoadsMade ==
  ASSUME DirectoryTypes, NEW by \in {"page", "poll"}, NEW upTo \in Nat
  PROVE  /\ LoadProjects(by, upTo) \in ProjectReads
         /\ LoadProjects(by, upTo).of = "projects" /\ LoadProjects(by, upTo).seq = loadSeq + 1
         /\ LoadProjects(by, upTo).changes = upTo /\ LoadProjects(by, upTo).got = None
         /\ LoadUsers(by) \in PeopleReads /\ LoadUsers(by).of = "people"
  BY DEF DirectoryTypes, LoadProjects, LoadUsers, ProjectReads, PeopleReads, ReadAnswers

LEMMA PolledKeeps ==
  ASSUME DirectoryInv, DirectoryPoll
  PROVE  DirectoryInv'
  BY LoadsMade, BegunKeeps DEF DirectoryPoll, DirectoryInv, DirectoryTypes, ProjectLoads, RailBehind,
     SavedTrue, SavedBehind

(* A load of projects arrives: it is shown if nothing overtook it.         *)
LEMMA ArrivalKeeps ==
  ASSUME DirectoryInv, NEW q \in reads, ProjectsArrive(q)
  PROVE  DirectoryInv'
  <1>1. /\ q \in ProjectLoads /\ q.got # None /\ reads' = reads \ {q}
        /\ UNCHANGED <<projects, born, people, team, loadSeq, changeSeq, form, writes>>
        /\ polling' \in BOOLEAN
    BY DEF ProjectsArrive, PollEnds, ProjectLoads
  <1>2. ProjectLoads' = ProjectLoads \ {q}
    BY <1>1 DEF ProjectLoads
  <1>3. LoadsNumbered' /\ SavedTrue'
    BY <1>1, <1>2 DEF DirectoryInv, LoadsNumbered, SavedTrue, SavedBehind
  <1>4. \A g : ReadBehind(g)' <=> ReadBehind(g)
    BY <1>1 DEF ReadBehind
  <1>5. \A p : IsStale(p)' = IsStale(p)
    BY <1>1 DEF IsStale
  <1>6. CASE IsStale(q)
    <2>1. UNCHANGED <<rail, dropped>>
      BY <1>6 DEF ProjectsArrive
    <2>2. DirectoryTypes' /\ RailBehind'
      BY <1>1, <2>1 DEF DirectoryInv, DirectoryTypes, RailBehind
    <2>3. \A g : ReadAhead(g)' <=> ReadAhead(g)
      BY <1>1, <2>1 DEF ReadAhead
    <2>4. LoadedTrue'
      BY <1>2, <1>4, <1>5, <2>3 DEF DirectoryInv, LoadedTrue
    <2> QED BY <1>3, <2>2, <2>4 DEF DirectoryInv
  <1>7. CASE ~IsStale(q)
    <2>1. PICK g \in VersionLists : g = q.got.projects /\ ReadBehind(g) /\ ReadAhead(g)
      BY <1>1, <1>7, LoadAttributes DEF DirectoryInv, LoadedTrue
    <2>2. rail' = g /\ dropped' = dropped \cup (DOMAIN rail \ DOMAIN g)
      BY <1>7, <2>1 DEF ProjectsArrive
    <2>3. DOMAIN rail \subseteq Project
      BY VersionAttributes DEF DirectoryInv, DirectoryTypes
    <2>4. DirectoryTypes'
      BY <1>1, <2>1, <2>2, <2>3 DEF DirectoryInv, DirectoryTypes
    <2>5. RailBehind'
      BY <1>1, <2>1, <2>2 DEF DirectoryInv, RailBehind, ReadBehind, ReadAhead
    <2>6. \A p \in ProjectLoads' : IsStale(p)
      BY <1>1, <1>2, <1>7 DEF DirectoryInv, LoadsNumbered, IsStale
    <2>7. LoadedTrue'
      BY <1>2, <1>4, <1>5, <2>6 DEF DirectoryInv, LoadedTrue
    <2> QED BY <1>3, <2>4, <2>5, <2>7 DEF DirectoryInv
  <1> QED BY <1>6, <1>7

(* A project that was written: what was saved is put in the list, and the  *)
(* list is loaded.                                                         *)
LEMMA WrittenKeeps ==
  ASSUME DirectoryInv, NEW w \in writes, ProjectWritten(w)
  PROVE  DirectoryInv'
  <1>1. /\ w.of = "project" /\ w.answer = "ok" /\ writes' = writes \ {w}
        /\ loadSeq' = loadSeq + 1
        /\ reads' = reads \cup {LoadProjects("page", changeSeq')}
        /\ UNCHANGED <<projects, born, people, team, polling, dropped>>
    BY DEF ProjectWritten
  <1>2. w \in WriteRecords /\ w.ver \in 0..MaxVersion /\ loadSeq \in Nat /\ changeSeq \in Nat
    BY DEF DirectoryInv, DirectoryTypes, WriteRecords
  <1>3. changeSeq' \in {changeSeq, changeSeq + 1} /\ form' \in {form, NoForm}
    BY DEF ProjectWritten, UpsertProject
  <1>4. changeSeq' \in Nat /\ loadSeq' \in Nat
        /\ form' \in [of : {"nothing", "project", "person"}, id : Project \cup {None}]
    BY <1>1, <1>2, <1>3 DEF DirectoryInv, DirectoryTypes, NoForm
  <1>5. PICK r \in ProjectReads :
            /\ r.of = "projects" /\ r.seq = loadSeq + 1 /\ r.changes = changeSeq' /\ r.got = None
            /\ reads' = reads \cup {r}
    BY <1>1, <1>4, LoadsMade DEF DirectoryInv
  <1>6. ProjectLoads' = ProjectLoads \cup {r}
    BY <1>5 DEF ProjectLoads
  <1>7. LoadsNumbered' /\ LoadedTrue'
    <2>1. changeSeq' <= changeSeq'
      BY <1>4
    <2> QED BY <1>1, <1>3, <1>4, <1>5, <1>6, <2>1, BegunKeeps
  <1>8. SavedTrue'
    BY <1>1 DEF DirectoryInv, SavedTrue, SavedBehind
  <1>9. rail' \in VersionLists /\ RailBehind'
    <2>1. CASE w.kind = "save"
      <3>1. rail' = Put(rail, w.id, w.ver)
        BY <2>1 DEF ProjectWritten, UpsertProject
      <3>2. w.id \in Project /\ w.id <= born /\ (w.id \in DOMAIN projects => w.ver <= projects[w.id])
        BY <1>1, <2>1 DEF DirectoryInv, SavedTrue, SavedBehind
      <3>3. /\ rail' \in VersionLists /\ DOMAIN rail' = DOMAIN rail \cup {w.id} /\ rail'[w.id] = w.ver
            /\ \A p \in DOMAIN rail \ {w.id} : rail'[p] = rail[p]
        <4>1. rail \in VersionLists
          BY DEF DirectoryInv, DirectoryTypes
        <4>2. PICK i \in Project, v \in 0..MaxVersion : i = w.id /\ v = w.ver
          BY <1>2, <3>2
        <4>3. rail' = Put(rail, i, v)
          BY <3>1, <4>2
        <4>4. /\ rail' \in VersionLists /\ DOMAIN rail' = DOMAIN rail \cup {i} /\ rail'[i] = v
              /\ \A p \in DOMAIN rail \ {i} : rail'[p] = rail[p]
          <5>1. /\ Put(rail, i, v) \in VersionLists /\ DOMAIN Put(rail, i, v) = DOMAIN rail \cup {i}
                /\ Put(rail, i, v)[i] = v
            BY <4>1, <4>2, VersionChanges
          <5>2. \A p \in DOMAIN rail \ {i} : Put(rail, i, v)[p] = rail[p]
            BY DEF Put
          <5> QED BY <4>3, <5>1, <5>2
        <4> QED BY <4>2, <4>4
      <3> QED BY <1>1, <3>2, <3>3 DEF DirectoryInv, RailBehind
    <2>2. CASE w.kind # "save"
      <3>1. rail' = rail
        BY <2>2 DEF ProjectWritten
      <3> QED BY <1>1, <3>1 DEF DirectoryInv, DirectoryTypes, RailBehind
    <2> QED BY <2>1, <2>2
  <1>10. DirectoryTypes'
    BY <1>1, <1>5, <1>4, <1>9 DEF DirectoryInv, DirectoryTypes
  <1> QED BY <1>7, <1>8, <1>9, <1>10 DEF DirectoryInv

(* The steps that only concern people, forms, or writes under way.         *)
LEMMA AsideType ==
  ASSUME DirectoryInv, Aside, DirectoryTypes',
         \A w \in writes' : w \in writes \/ ~(w.answer = "ok")
  PROVE  DirectoryInv'
  BY AsideKeeps DEF DirectoryInv, SavedTrue, SavedBehind

LEMMA PeopleKeep ==
  ASSUME DirectoryInv, NEW q \in reads, PeopleArrive(q)
  PROVE  DirectoryInv'
  <1>1. /\ q.of = "people" /\ q.got # None /\ reads' = reads \ {q} /\ team' = q.got.people
        /\ polling' = (polling /\ (q.by # "poll" \/ \E r \in reads \ {q} : r.by = "poll"))
        /\ UNCHANGED <<projects, born, people, rail, loadSeq, changeSeq, form, writes, dropped>>
    BY DEF PeopleArrive, PollEnds
  <1>2. q \in ProjectReads \cup PeopleReads
    BY DEF DirectoryInv, DirectoryTypes
  <1>3. q.got.people \in 0..MaxVersion
    BY <1>1, <1>2 DEF ProjectReads, PeopleReads, ReadAnswers
  <1>4. polling' \in BOOLEAN
    BY <1>1
  <1>5. ProjectLoads' = ProjectLoads
    BY <1>1 DEF ProjectLoads
  <1>6. DirectoryTypes'
    BY <1>1, <1>3, <1>4 DEF DirectoryInv, DirectoryTypes
  <1> QED BY <1>1, <1>5, <1>6, AsideType DEF Aside

LEMMA UserWrittenKeeps ==
  ASSUME DirectoryInv, NEW w \in writes, UserWritten(w)
  PROVE  DirectoryInv'
  BY LoadsMade, AsideType DEF UserWritten, DirectoryInv, DirectoryTypes, ProjectLoads, NoForm, Aside

LEMMA FormsKeep ==
  ASSUME DirectoryInv,
         \/ \E id \in Project \cup {None} : OpenProjectForm(id)
         \/ OpenUserForm \/ CloseForm
  PROVE  DirectoryInv'
  <1>1. UNCHANGED <<projects, born, people, rail, team, loadSeq, changeSeq, reads, writes, polling, dropped>>
    BY DEF OpenProjectForm, OpenUserForm, CloseForm
  <1>2. form' \in [of : {"nothing", "project", "person"}, id : Project \cup {None}]
    BY DEF OpenProjectForm, OpenUserForm, CloseForm, NoForm
  <1>3. DirectoryTypes'
    BY <1>1, <1>2 DEF DirectoryInv, DirectoryTypes
  <1>4. ProjectLoads' = ProjectLoads
    BY <1>1 DEF ProjectLoads
  <1> QED BY <1>1, <1>3, <1>4, AsideType DEF Aside

LEMMA SentKeeps ==
  ASSUME DirectoryInv, NEW of \in {"project", "person"}, NEW what \in {"save", "delete", "members", "reset"},
         NEW id \in Project \cup {None}, Sent(Write(of, what, id))
  PROVE  DirectoryInv'
  BY DirectoryAssumption, AsideType DEF Write, WriteRecords, Sent, DirectoryInv, DirectoryTypes,
     ProjectLoads, Aside

LEMMA SubmitsKeep ==
  ASSUME DirectoryInv,
         \/ \E p \in Project : DeleteProject(p)
         \/ SubmitProject \/ SubmitUser \/ DeleteUser \/ ChangeMembers
  PROVE  DirectoryInv'
  BY SentKeeps DEF DirectoryInv, DirectoryTypes, DeleteProject, SubmitProject, SubmitUser, DeleteUser,
     ChangeMembers

LEMMA RefusedKeeps ==
  ASSUME DirectoryInv, NEW w \in writes, WriteRefused(w) \/ WriteFailed(w)
  PROVE  DirectoryInv'
  BY AsideType DEF WriteRefused, WriteFailed, DirectoryInv, DirectoryTypes, WriteRecords, ProjectLoads,
     Aside

(* What is served and what others change goes on from what there was.      *)
LEMMA ServerKeeps ==
  ASSUME DirectoryInv, ChangedByOthers \/ \E w \in writes : WriteServed(w)
  PROVE  DirectoryInv'
  <1>1. CASE ChangedByOthers
    <2>1. Advance /\ DirectoryTypes' /\ writes' = writes
      BY <1>1, OthersAdvance DEF DirectoryInv, ChangedByOthers
    <2> QED BY <2>1, AdvanceKeeps DEF DirectoryInv, SavedTrue
  <1>2. ASSUME NEW w \in writes, WriteServed(w) PROVE DirectoryInv'
    BY <1>2, WriteAdvance, VersionAttributes, DirectoryAssumption, AdvanceKeeps DEF DirectoryInv,
       RailBehind, DirectoryTypes, SavedBehind, SavedTrue
  <1> QED BY <1>1, <1>2

LEMMA DirectoryStep == DirectoryInv /\ [Next]_vars => DirectoryInv'
  <1> SUFFICES ASSUME DirectoryInv, [Next]_vars PROVE DirectoryInv'
    OBVIOUS
  <1>1. DirectoryUser \/ DirectoryAnswers \/ UNCHANGED directory
    BY PartSteps
  <1>2. CASE DirectoryUser
    BY <1>2, FormsKeep, SubmitsKeep, ServerKeeps, PolledKeeps, FailedKeeps DEF DirectoryUser
  <1>3. CASE DirectoryAnswers
    BY <1>3, ServedKeeps, ArrivalKeeps, PeopleKeep, ServerKeeps, RefusedKeeps, WrittenKeeps, UserWrittenKeeps DEF DirectoryAnswers
  <1>4. CASE UNCHANGED directory
    BY <1>4, AsideType DEF directory, DirectoryInv, DirectoryTypes, Aside, ProjectLoads
  <1> QED BY <1>1, <1>2, <1>3, <1>4

(* The loads of projects do not go back.                                   *)
LEMMA LoadsStep == DirectoryInv /\ [Next]_vars => [writes' = writes =>
         /\ \A p \in DOMAIN rail \cap DOMAIN rail' : rail'[p] >= rail[p]
         /\ \A p \in DOMAIN rail' \ DOMAIN rail : p \notin dropped]_<<rail, writes>>
  <1> SUFFICES ASSUME DirectoryInv, [Next]_vars, writes' = writes, rail' # rail
               PROVE  /\ \A p \in DOMAIN rail \cap DOMAIN rail' : rail'[p] >= rail[p]
                      /\ \A p \in DOMAIN rail' \ DOMAIN rail : p \notin dropped
    OBVIOUS
  <1>1. DirectoryUser \/ DirectoryAnswers \/ UNCHANGED directory
    BY PartSteps
  <1>2. ~DirectoryUser
    BY DEF DirectoryUser, OpenProjectForm, OpenUserForm, CloseForm, DeleteProject, SubmitProject, SubmitUser,
       DeleteUser, ChangeMembers, Sent, ChangedByOthers, DirectoryPoll, ReadFails
  <1>3. ~UNCHANGED directory
    BY DEF directory
  <1>4. PICK q \in reads : ProjectsArrive(q)
    <2>1. \A q \in reads : ~ReadServed(q) /\ ~PeopleArrive(q)
      BY DEF ReadServed, PeopleArrive
    <2>2. \A w \in writes : ~WriteServed(w) /\ ~WriteRefused(w) /\ ~WriteFailed(w) /\ ~ProjectWritten(w) /\ ~UserWritten(w)
      BY DEF WriteServed, WriteRefused, WriteFailed, ProjectWritten, UserWritten
    <2> QED BY <1>1, <1>2, <1>3, <2>1, <2>2 DEF DirectoryAnswers
  <1>5. q \in ProjectLoads /\ q.got # None /\ ~IsStale(q) /\ rail' = q.got.projects
    BY <1>4 DEF ProjectsArrive, ProjectLoads
  <1> QED BY <1>5 DEF DirectoryInv, LoadedTrue, ReadAhead

LEMMA UnreadKept == NoticesInv /\ [Next]_vars =>
    [\A n \in DOMAIN shown \cap DOMAIN shown' :
         shown[n] = "read" /\ shown'[n] = "unread" =>
             \E q \in loads \ loads' : n \in q.marked]_<<shown, loads>>
  BY PartSteps, UnreadStep DEF notices, NoticesInv

\* A load that was under way takes nothing back that the page showed meanwhile:
\* not a notification marked read, not a project that was saved or removed.
THEOREM LateLoads == Spec => LateLoadsTakeNothingBack
  <1>1. Spec => [](NoticesInv /\ DirectoryInv)
    BY NoticesInitially, NoticesStep, DirectoryInitially, DirectoryStep, PTL DEF Spec
  <1>2. Spec => UnreadByLaterLoad
    BY <1>1, UnreadKept, PTL DEF Spec, UnreadByLaterLoad
  <1>3. Spec => LoadsNeverGoBack
    BY <1>1, LoadsStep, PTL DEF Spec, LoadsNeverGoBack
  <1> QED BY <1>2, <1>3 DEF LateLoadsTakeNothingBack

-----------------------------------------------------------------------------
(* The list of work items.                                                 *)

RowLists == UNION {[D -> Row] : D \in SUBSET Item}
Looks == [filter : Filter, page : Nat]
Asked == [kind : {"rows", "figures"}, look : Looks, by : {"user", "poll"},
          got : {None} \cup [rows : RowLists, pages : Nat \ {0}]]
BulkActions == {NoBulk} \cup [phase : {"confirm", "sent", "read", "ok", "failed"}, action : {"delete", "close"}, picked : RowLists]

ListTypes ==
    /\ rows \in RowLists /\ listed \in RowLists
    /\ look \in Looks /\ pages \in Nat \ {0} /\ figures \in Filter
    /\ asks \subseteq Asked
    /\ poll \in {"idle", "running"} /\ hidden \in BOOLEAN
    /\ selected \subseteq DOMAIN listed
    /\ bulk \in BulkActions

\* Where a copy of a row has the server's version, it has what others changed,
\* unless two requests wrote it from the same version.
Behind(f) ==
    \A i \in (DOMAIN f \cap DOMAIN rows) \ overlapped :
        /\ f[i].ver <= rows[i].ver
        /\ f[i].ver = rows[i].ver => f[i].foreign = rows[i].foreign

\* What a bulk action has read is still so.
ReadStands ==
    bulk.phase = "read" =>
        \A i \in (DOMAIN bulk.picked \cap DOMAIN rows) \ overlapped :
            bulk.picked[i].ver = rows[i].ver /\ bulk.picked[i].foreign = rows[i].foreign

CopiesBehind ==
    /\ Behind(listed)
    /\ \A q \in asks : q.got # None => Behind(q.got.rows)
    /\ bulk.phase # "none" => Behind(bulk.picked)
    /\ ReadStands

ListInv == ListTypes /\ CopiesBehind /\ NothingOverwritten

LEMMA RowListAttributes ==
  ASSUME NEW f \in RowLists
  PROVE  /\ DOMAIN f \subseteq Item /\ f \in [DOMAIN f -> Row]
         /\ \A i \in DOMAIN f : f[i].ver \in Nat /\ f[i].foreign \in Nat
  BY DEF RowLists, Row

LEMMA RowListsMade ==
  ASSUME NEW D \in SUBSET Item, NEW f \in [D -> Row]
  PROVE  f \in RowLists
  BY DEF RowLists

LEMMA PagesMade == ListTypes => \A f : PagesOf(f) \in Nat \ {0}
  <1> SUFFICES ASSUME ListTypes PROVE \A f : PagesOf(f) \in Nat \ {0}
    OBVIOUS
  <1>1. ASSUME NEW n \in Nat, NEW k \in Nat \ {0} PROVE (n + k - 1) \div k \in Nat
    OBVIOUS
  <1>2. ASSUME NEW f PROVE Cardinality(Matching(f)) \in Nat
    <2>1. Matching(f) \subseteq Item
      BY RowListAttributes DEF Matching, ListTypes
    <2> QED BY <2>1, FS_Subset, FS_CardinalityType, ListAssumption
  <1> QED BY <1>1, <1>2, ListAssumption DEF PagesOf

(* What the server shows: its own rows.                                    *)
LEMMA ShowsRows ==
  ASSUME ListTypes, NEW l
  PROVE  /\ Shows(l).rows \in RowLists /\ Shows(l) = [rows |-> Shows(l).rows, pages |-> PagesOf(l.filter)]
         /\ Behind(Shows(l).rows)
  <1>1. OnPage(l) \subseteq DOMAIN rows
    BY DEF OnPage, Matching
  <1>2. rows \in [DOMAIN rows -> Row] /\ DOMAIN rows \subseteq Item /\ \A i \in DOMAIN rows : rows[i].ver \in Nat
    BY RowListAttributes DEF ListTypes
  <1>3. PICK f : f = [i \in OnPage(l) |-> rows[i]]
    OBVIOUS
  <1>4. f \in [OnPage(l) -> Row]
    BY <1>1, <1>2, <1>3
  <1>5. f \in RowLists
    BY <1>1, <1>2, <1>4, RowListsMade
  <1>6. Behind(f)
    BY <1>1, <1>2, <1>3 DEF Behind
  <1>7. Shows(l) = [rows |-> f, pages |-> PagesOf(l.filter)]
    BY <1>3 DEF Shows
  <1> QED BY <1>5, <1>6, <1>7

\* It holds at first.
LEMMA ListInitially == Init => ListInv
  <1> SUFFICES ASSUME ListInit PROVE ListInv
    BY DEF Init
  <1>1. /\ rows = [i \in Item |-> [open |-> TRUE, ver |-> 0, foreign |-> 0]]
        /\ look = [filter |-> "any", page |-> 1] /\ figures = "any" /\ asks = {}
        /\ listed = Shows(look).rows /\ pages = Shows(look).pages
        /\ poll = "idle" /\ hidden = FALSE /\ selected = {} /\ bulk = NoBulk /\ lost = {} /\ overlapped = {}
    BY DEF ListInit
  <1>2. rows \in [Item -> Row]
    BY <1>1 DEF Row
  <1>3. rows \in RowLists
    BY <1>2, RowListsMade
  <1>4. Shows(look).rows \in RowLists /\ Shows(look).pages \in Nat \ {0} /\ Behind(Shows(look).rows)
    <2>1. OnPage(look) \subseteq DOMAIN rows /\ Matching(look.filter) \subseteq Item
      BY <1>2 DEF OnPage, Matching
    <2>2. PICK f : f = [i \in OnPage(look) |-> rows[i]]
      OBVIOUS
    <2>3. Shows(look) = [rows |-> f, pages |-> PagesOf(look.filter)]
      BY <2>2 DEF Shows
    <2>4. f \in [OnPage(look) -> Row] /\ OnPage(look) \subseteq Item
      BY <1>2, <2>1, <2>2
    <2>5. f \in RowLists
      BY <2>4, RowListsMade
    <2>6. Behind(f)
      BY <1>2, <2>1, <2>2 DEF Behind, Row
    <2>7. PagesOf(look.filter) \in Nat \ {0}
      BY <2>1, FS_Subset, FS_CardinalityType, ListAssumption DEF PagesOf
    <2> QED BY <2>3, <2>5, <2>6, <2>7
  <1>5. look \in Looks /\ figures \in Filter
    BY <1>1 DEF Looks, Filter
  <1>6. hidden \in BOOLEAN
    BY <1>1
  <1>7. bulk \in BulkActions /\ bulk.phase = "none"
    BY <1>1 DEF BulkActions, NoBulk
  <1>8. ListTypes
    BY <1>1, <1>3, <1>4, <1>5, <1>6, <1>7 DEF ListTypes
  <1>9. CopiesBehind
    BY <1>1, <1>4, <1>7 DEF CopiesBehind, ReadStands
  <1> QED BY <1>1, <1>8, <1>9 DEF ListInv, NothingOverwritten

(* Rows change by new versions only, and copies of them stay behind.       *)
RowsGoOn ==
    /\ overlapped \subseteq overlapped'
    /\ DOMAIN rows' \subseteq DOMAIN rows
    /\ \A i \in DOMAIN rows' \ overlapped' :
          \/ rows'[i].ver = rows[i].ver /\ rows'[i].foreign = rows[i].foreign
          \/ rows'[i].ver > rows[i].ver

LEMMA StaysBehind ==
  ASSUME rows \in RowLists, rows' \in RowLists, RowsGoOn, NEW f \in RowLists, Behind(f)
  PROVE  Behind(f)'
  BY RowListAttributes DEF Behind, RowsGoOn

LEMMA AllStayBehind ==
  ASSUME ListInv, RowsGoOn, rows' \in RowLists, UNCHANGED <<listed, asks>>,
         bulk'.phase # "none" => bulk.phase # "none" /\ bulk'.picked = bulk.picked, ReadStands'
  PROVE  CopiesBehind'
  BY StaysBehind DEF ListInv, ListTypes, Asked, BulkActions, NoBulk, CopiesBehind, Behind

(* The steps that leave the server's rows alone.                           *)
LEMMA SameBehind ==
  ASSUME UNCHANGED <<rows, overlapped>>, NEW f
  PROVE  Behind(f)' <=> Behind(f)
  BY DEF Behind

(* What is looked at.                                                      *)
LEMMA AskMade ==
  ASSUME NEW what \in {"rows", "figures"}, NEW l \in Looks, NEW by \in {"user", "poll"}
  PROVE  Ask(what, l, by) \in Asked /\ Ask(what, l, by).got = None
  BY DEF Ask, Asked

LEMMA AsksKeep ==
  ASSUME ListInv, UNCHANGED <<rows, listed, pages, figures, bulk, lost, overlapped>>,
         look' \in Looks, asks' \subseteq Asked,
         \A q \in asks' : q \in asks \/ q.got = None,
         poll' \in {"idle", "running"}, hidden' \in BOOLEAN, selected' \subseteq DOMAIN listed
  PROVE  ListInv'
  <1>1. ListTypes'
    BY DEF ListInv, ListTypes
  <1>2. CopiesBehind'
    BY SameBehind DEF ListInv, CopiesBehind, ReadStands
  <1> QED BY <1>1, <1>2 DEF ListInv, NothingOverwritten

LEMMA LooksKeep ==
  ASSUME ListInv,
         \/ \E f \in Filter : SetFilter(f)
         \/ \E p \in 1..Cardinality(Item) : SetPage(p)
         \/ ComeBack \/ Poll
         \/ \E h \in BOOLEAN : Hide(h)
  PROVE  ListInv'
  <1>0. look \in Looks /\ asks \subseteq Asked /\ poll \in {"idle", "running"} /\ hidden \in BOOLEAN
        /\ selected \subseteq DOMAIN listed
    BY DEF ListInv, ListTypes
  <1>1. ASSUME NEW l \in Looks, LookAt(l) PROVE ListInv'
    BY AskMade, <1>1, <1>0, AsksKeep DEF LookAt
  <1>2. ASSUME NEW f \in Filter, SetFilter(f) PROVE ListInv'
    <2>1. [filter |-> f, page |-> 1] \in Looks
      BY DEF Looks
    <2> QED BY <1>1, <1>2, <2>1 DEF SetFilter
  <1>3. ASSUME NEW p \in 1..Cardinality(Item), SetPage(p) PROVE ListInv'
    BY <1>3, <1>0, <1>1 DEF SetPage, ListInv, ListTypes, Looks
  <1>4. ASSUME NEW by \in {"user", "poll"}
        PROVE  Both(look, by) \subseteq Asked /\ \A q \in Both(look, by) : q.got = None
    BY <1>0, AskMade DEF Both
  <1>5. CASE ComeBack
    BY <1>5, <1>0, <1>4, AsksKeep DEF ComeBack
  <1>6. CASE Poll
    BY <1>6, <1>0, <1>4, AsksKeep DEF Poll
  <1>7. ASSUME NEW h \in BOOLEAN, Hide(h) PROVE ListInv'
    BY <1>0, <1>7, AsksKeep DEF Hide
  <1> QED BY <1>2, <1>3, <1>5, <1>6, <1>7

(* Rows are shown as they came.                                            *)
LEMMA ShownKeeps ==
  ASSUME ListInv, NEW q \in asks, AskServed(q)
  PROVE  ListInv'
  BY ShowsRows, PagesMade, SameBehind DEF ListInv, ListTypes, Asked, AskServed, CopiesBehind,
     ReadStands, NothingOverwritten

LEMMA RowsArriveKeeps ==
  ASSUME ListInv, NEW q \in asks, RowsArrive(q)
  PROVE  ListInv'
  <1>0. look \in Looks /\ asks \subseteq Asked /\ poll \in {"idle", "running"} /\ selected \subseteq DOMAIN listed
    BY DEF ListInv, ListTypes
  <1>1. PICK g \in [rows : RowLists, pages : Nat \ {0}] : g = q.got /\ Behind(g.rows)
    BY <1>0 DEF RowsArrive, Asked, ListInv, CopiesBehind
  <1>2. PICK last : last = [look EXCEPT !.page = g.pages]
    OBVIOUS
  <1>3. last \in Looks
    BY <1>0, <1>1, <1>2 DEF Looks
  <1>4. /\ listed' = g.rows /\ pages' = g.pages /\ selected' = StillTicked(g.rows)
        /\ \/ look' = last /\ asks' = (asks \ {q}) \cup {Ask("rows", last, "user")}
           \/ look' = look /\ asks' = asks \ {q}
        /\ UNCHANGED <<rows, figures, hidden, bulk, lost, overlapped>>
    BY <1>1, <1>2 DEF RowsArrive
  <1>5. poll' \in {"idle", "running"}
    BY <1>0 DEF RowsArrive, Ends
  <1>6. selected' \subseteq DOMAIN listed'
    BY <1>0, <1>4 DEF StillTicked
  <1>7. look' \in Looks /\ asks' \subseteq Asked /\ \A r \in asks' : r \in asks \/ r.got = None
    BY <1>0, <1>3, <1>4, AskMade
  <1>8. ListTypes'
    BY <1>1, <1>4, <1>5, <1>6, <1>7 DEF ListInv, ListTypes
  <1>9. Behind(listed)'
    BY <1>1, <1>4 DEF Behind
  <1>10. /\ \A r \in asks' : r.got # None => Behind(r.got.rows)'
         /\ (bulk.phase # "none" => Behind(bulk.picked))' /\ ReadStands'
    BY <1>4, <1>7, SameBehind DEF ListInv, CopiesBehind, ReadStands
  <1> QED BY <1>4, <1>8, <1>9, <1>10 DEF ListInv, CopiesBehind, NothingOverwritten

LEMMA FiguresKeep ==
  ASSUME ListInv, NEW q \in asks, FiguresArrive(q)
  PROVE  ListInv'
  <1>0. q \in Asked /\ poll \in {"idle", "running"}
    BY DEF ListInv, ListTypes
  <1>1. /\ figures' = q.look.filter /\ asks' = asks \ {q}
        /\ UNCHANGED <<rows, look, listed, pages, hidden, selected, bulk, lost, overlapped>>
    BY DEF FiguresArrive
  <1>2. figures' \in Filter
    BY <1>0, <1>1 DEF Asked, Looks
  <1>3. poll' \in {"idle", "running"}
    BY <1>0 DEF FiguresArrive, Ends
  <1>4. ListTypes'
    BY <1>1, <1>2, <1>3 DEF ListInv, ListTypes
  <1>5. CopiesBehind'
    BY <1>1, SameBehind DEF ListInv, CopiesBehind, ReadStands
  <1> QED BY <1>1, <1>4, <1>5 DEF ListInv, NothingOverwritten

LEMMA AskFailsKeeps ==
  ASSUME ListInv, NEW q \in asks, AskFails(q)
  PROVE  ListInv'
  <1> DEFINE Demoted(r) == IF r.by = "poll" /\ q.by = "poll" THEN [r EXCEPT !.by = "user"] ELSE r
  <1>0. asks \subseteq Asked /\ poll \in {"idle", "running"}
    BY DEF ListInv, ListTypes
  <1>1. /\ asks' = {Demoted(r) : r \in asks \ {q}}
        /\ UNCHANGED <<rows, look, listed, pages, figures, hidden, selected, bulk, lost, overlapped>>
    BY DEF AskFails
  <1>2. poll' \in {"idle", "running"}
    BY <1>0 DEF AskFails
  <1>3. \A r \in Asked : Demoted(r) \in Asked /\ Demoted(r).got = r.got
    BY DEF Asked
  <1> HIDE DEF Demoted
  <1>4. asks' \subseteq Asked /\ \A p \in asks' : \E r \in asks : p.got = r.got
    BY <1>0, <1>1, <1>3
  <1>5. ListTypes'
    BY <1>1, <1>2, <1>4 DEF ListInv, ListTypes
  <1>6. CopiesBehind'
    BY <1>4, <1>1, SameBehind DEF ListInv, CopiesBehind, ReadStands
  <1> QED BY <1>1, <1>5, <1>6 DEF ListInv, NothingOverwritten

(* Ticks and bulk actions.                                                 *)
LEMMA TicksKeep ==
  ASSUME ListInv, ToggleAll \/ \E i \in Item : Toggle(i)
  PROVE  ListInv'
  BY AsksKeep DEF ListInv, ListTypes, Toggle, ToggleAll

LEMMA BulkAsked ==
  ASSUME ListInv, (\E action \in {"delete", "close"} : Apply(action)) \/ (\E yes \in BOOLEAN : Confirm(yes)) \/ BulkRefused
  PROVE  ListInv'
  <1>0. listed \in RowLists /\ selected \subseteq DOMAIN listed /\ bulk \in BulkActions
    BY DEF ListInv, ListTypes
  <1>1. UNCHANGED <<rows, look, listed, pages, figures, asks, poll, hidden, selected, lost, overlapped>>
    BY DEF Apply, Confirm, BulkRefused
  <1>2. bulk' \in BulkActions /\ (bulk.phase # "none" => Behind(bulk.picked))'
    <2>1. ASSUME NEW action \in {"delete", "close"}, Apply(action)
          PROVE  bulk' \in BulkActions /\ (bulk.phase # "none" => Behind(bulk.picked))'
      <3>1. PICK f : f = [i \in selected |-> listed[i]]
        OBVIOUS
      <3>2. listed \in [DOMAIN listed -> Row] /\ selected \subseteq Item
        BY <1>0, RowListAttributes
      <3>3. f \in [selected -> Row]
        BY <1>0, <3>1, <3>2
      <3>4. f \in RowLists
        BY <3>2, <3>3, RowListsMade
      <3>5. Behind(f)
        BY <1>0, <3>1 DEF ListInv, CopiesBehind, Behind
      <3>6. bulk' = [phase |-> IF action = "delete" THEN "confirm" ELSE "sent", action |-> action, picked |-> f]
        BY <2>1, <3>1 DEF Apply, Picked
      <3>7. bulk' \in BulkActions /\ bulk'.picked = f
        BY <3>4, <3>6 DEF BulkActions
      <3> QED BY <1>1, <3>5, <3>7 DEF Behind
    <2>2. ASSUME ~\E action \in {"delete", "close"} : Apply(action)
          PROVE  bulk' \in BulkActions /\ (bulk.phase # "none" => Behind(bulk.picked))'
      BY <2>2, <1>0, <1>1 DEF Confirm, BulkRefused, BulkActions, NoBulk, ListInv, CopiesBehind, Behind
    <2> QED BY <2>1, <2>2
  <1>3. ListTypes'
    BY <1>1, <1>2 DEF ListInv, ListTypes
  <1>4. CopiesBehind'
    <2>1. bulk'.phase # "read"
      BY <1>0 DEF Apply, Confirm, BulkRefused, NoBulk, BulkActions
    <2> QED BY <1>1, <1>2, <2>1, SameBehind DEF ListInv, CopiesBehind, ReadStands
  <1> QED BY <1>1, <1>3, <1>4 DEF ListInv, NothingOverwritten

LEMMA BulkDoneKeeps ==
  ASSUME ListInv, BulkDone
  PROVE  ListInv'
  <1>0. look \in Looks /\ asks \subseteq Asked /\ selected \subseteq DOMAIN listed
    BY DEF ListInv, ListTypes
  <1>1. /\ bulk' = NoBulk /\ UNCHANGED <<rows, look, listed, pages, figures, poll, hidden, lost, overlapped>>
        /\ \/ selected' = {} /\ asks' = asks \cup Both(look, "user")
           \/ UNCHANGED <<selected, asks>>
    BY DEF BulkDone
  <1>2. Both(look, "user") \subseteq Asked /\ \A q \in Both(look, "user") : q.got = None
    BY <1>0, AskMade DEF Both
  <1>3. asks' \subseteq Asked /\ selected' \subseteq DOMAIN listed /\ \A q \in asks' : q \in asks \/ q.got = None
    BY <1>0, <1>1, <1>2
  <1>4. bulk' \in BulkActions /\ bulk'.phase = "none"
    BY <1>1 DEF BulkActions, NoBulk
  <1>5. ListTypes'
    BY <1>1, <1>3, <1>4 DEF ListInv, ListTypes
  <1>6. CopiesBehind'
    BY <1>1, <1>3, <1>4, SameBehind DEF ListInv, CopiesBehind, ReadStands
  <1> QED BY <1>1, <1>5, <1>6 DEF ListInv, NothingOverwritten

(* A bulk action reads the rows that have the versions picked: what others *)
(* had changed in these was picked with them.                              *)
LEMMA BulkReadKeeps ==
  ASSUME ListInv, BulkRead
  PROVE  ListInv'
  <1>0. rows \in RowLists /\ bulk \in BulkActions /\ bulk.phase = "sent"
    BY DEF ListInv, ListTypes, BulkRead
  <1>1. rows \in [DOMAIN rows -> Row] /\ DOMAIN rows \subseteq Item
    BY <1>0, RowListAttributes
  <1>2. PICK f : f = [i \in Hit |-> rows[i]]
    OBVIOUS
  <1>3. Hit \subseteq DOMAIN rows
    BY DEF Hit
  <1>4. f \in RowLists /\ DOMAIN f = Hit /\ \A i \in Hit : f[i] = rows[i]
    BY <1>1, <1>2, <1>3, RowListsMade
  <1>5. /\ bulk' = [bulk EXCEPT !.phase = "read", !.picked = f]
        /\ lost' = lost \cup {i \in Hit : rows[i].foreign # bulk.picked[i].foreign}
        /\ UNCHANGED <<rows, look, listed, pages, figures, asks, poll, hidden, selected, overlapped>>
    BY <1>2 DEF BulkRead
  <1>6. bulk' \in BulkActions /\ bulk'.picked = f
    <2>1. PICK a, g : bulk = [phase |-> "sent", action |-> a, picked |-> g] /\ a \in {"delete", "close"}
      BY <1>0 DEF BulkActions, NoBulk
    <2>2. PICK b : b = [phase |-> "read", action |-> a, picked |-> f]
      OBVIOUS
    <2>3. PICK x : x = [bulk EXCEPT !.phase = "read", !.picked = f]
      OBVIOUS
    <2>4. x \in [phase : {"read"}, action : {a}, picked : {f}] /\ b \in [phase : {"read"}, action : {a}, picked : {f}]
      BY <2>1, <2>2, <2>3
    <2>5. x = b
      BY <2>4
    <2>6. bulk' = b
      BY <1>5, <2>3, <2>5
    <2> QED BY <1>4, <2>1, <2>2, <2>6 DEF BulkActions
  <1>7. Behind(bulk.picked)' /\ ReadStands'
    <2>1. \A i \in DOMAIN f : f[i] = rows'[i] /\ rows'[i].ver \in Nat
      BY <1>0, <1>3, <1>4, <1>5, RowListAttributes
    <2> QED BY <1>6, <2>1 DEF Behind, ReadStands
  <1>8. CopiesBehind'
    BY <1>5, <1>7, SameBehind DEF ListInv, CopiesBehind
  <1>9. \A i \in Hit \ overlapped : rows[i].foreign = bulk.picked[i].foreign
    BY <1>0 DEF Hit, ListInv, CopiesBehind, Behind
  <1>10. NothingOverwritten'
    BY <1>5, <1>9 DEF ListInv, NothingOverwritten
  <1>11. ListTypes'
    BY <1>5, <1>6 DEF ListInv, ListTypes
  <1> QED BY <1>8, <1>10, <1>11 DEF ListInv

(* It writes what it read: nobody wrote these meanwhile, or two requests   *)
(* wrote what had the same version.                                        *)
LEMMA BulkWrittenKeeps ==
  ASSUME ListInv, BulkWritten
  PROVE  ListInv'
  <1>0. rows \in RowLists /\ bulk \in BulkActions /\ bulk.phase = "read"
    BY DEF ListInv, ListTypes, BulkWritten
  <1>1. /\ rows \in [DOMAIN rows -> Row] /\ DOMAIN rows \subseteq Item /\ bulk.picked \in RowLists
        /\ \A i \in DOMAIN bulk.picked : bulk.picked[i].ver \in Nat
    BY <1>0, RowListAttributes DEF BulkActions, NoBulk
  <1>2. UNCHANGED <<look, listed, pages, figures, asks, poll, hidden, selected, overlapped>>
        /\ lost' = lost \cup {i \in Changing : rows[i].foreign # bulk.picked[i].foreign}
    BY DEF BulkWritten
  <1>3. PICK how \in {"ok", "failed"} : bulk' = [bulk EXCEPT !.phase = how]
    BY DEF BulkWritten
  <1>4. bulk' \in BulkActions /\ bulk'.picked = bulk.picked /\ bulk'.phase = how
    BY <1>0, <1>3 DEF BulkActions, NoBulk
  <1>5. \A i \in Changing \ overlapped : bulk.picked[i].ver = rows[i].ver /\ rows[i].foreign = bulk.picked[i].foreign
    BY <1>0 DEF Changing, ListInv, CopiesBehind, ReadStands
  <1>6. rows' \in RowLists /\ RowsGoOn
    <2>1. CASE rows' = [i \in DOMAIN rows \ Changing |-> rows[i]]
      BY <1>1, <1>2, <2>1, RowListsMade DEF RowsGoOn
    <2>2. CASE rows' = [i \in DOMAIN rows |->
                          IF i \in Changing
                          THEN [rows[i] EXCEPT !.open = FALSE, !.ver = bulk.picked[i].ver + 1] ELSE rows[i]]
      <3>1. ASSUME NEW r \in Row, NEW n \in Nat
            PROVE  [r EXCEPT !.open = FALSE, !.ver = n + 1] \in Row
                   /\ [r EXCEPT !.open = FALSE, !.ver = n + 1].ver = n + 1
        <4>1. PICK m : m = n + 1
          OBVIOUS
        <4>2. m \in Nat
          BY <4>1
        <4>3. [r EXCEPT !.open = FALSE, !.ver = m] \in Row /\ [r EXCEPT !.open = FALSE, !.ver = m].ver = m
          BY <4>2 DEF Row
        <4> QED BY <4>1, <4>3
      <3>2. \A i \in Changing : i \in DOMAIN bulk.picked
        BY DEF Changing
      <3>3. rows' \in [DOMAIN rows -> Row]
        BY <1>1, <2>2, <3>1, <3>2
      <3>4. rows' \in RowLists
        BY <1>1, <3>3, RowListsMade
      <3>5. \A i \in DOMAIN rows : rows'[i] = rows[i] \/ (i \in Changing /\ rows'[i].ver = bulk.picked[i].ver + 1)
        BY <1>1, <2>2, <3>1, <3>2
      <3>6. \A i \in DOMAIN rows : rows[i].ver \in Nat
        BY <1>0, RowListAttributes
      <3> QED BY <1>2, <1>5, <3>3, <3>4, <3>5, <3>6 DEF RowsGoOn
    <2> QED BY <2>1, <2>2 DEF BulkWritten
  <1>7. CopiesBehind'
    <2>1. ReadStands'
      BY <1>4 DEF ReadStands
    <2> QED BY <1>0, <1>2, <1>4, <1>6, <2>1, AllStayBehind
  <1>8. NothingOverwritten'
    BY <1>2, <1>5 DEF ListInv, NothingOverwritten
  <1>9. ListTypes'
    BY <1>2, <1>4, <1>6 DEF ListInv, ListTypes
  <1> QED BY <1>7, <1>8, <1>9 DEF ListInv

LEMMA ForeignKeeps ==
  ASSUME ListInv, NEW i \in Item, NEW base \in Nat, ForeignChange(i, base)
  PROVE  ListInv'
  <1>0. rows \in [DOMAIN rows -> Row] /\ DOMAIN rows \subseteq Item
    BY RowListAttributes DEF ListInv, ListTypes
  <1>1. /\ i \in DOMAIN rows
        /\ rows' = [rows EXCEPT ![i] = [open |-> ~rows[i].open, ver |-> base + 1, foreign |-> rows[i].foreign + 1]]
        /\ overlapped' = overlapped \cup
              (IF base # rows[i].ver \/ (bulk.phase = "read" /\ i \in DOMAIN bulk.picked) THEN {i} ELSE {})
        /\ UNCHANGED <<look, listed, pages, figures, asks, poll, hidden, selected, bulk, lost>>
    BY DEF ForeignChange
  <1>2. PICK r : r = [open |-> ~rows[i].open, ver |-> base + 1, foreign |-> rows[i].foreign + 1]
    OBVIOUS
  <1>3. r \in Row /\ (i \notin overlapped' => r.ver > rows[i].ver)
    BY <1>0, <1>1, <1>2 DEF Row
  <1>4. rows' = [rows EXCEPT ![i] = r]
    BY <1>1, <1>2
  <1>5. rows' \in [DOMAIN rows -> Row]
    BY <1>0, <1>3, <1>4
  <1>6. rows' \in RowLists /\ RowsGoOn
    <2>1. rows' \in RowLists
      BY <1>0, <1>5, RowListsMade
    <2> QED BY <1>0, <1>1, <1>3, <1>4, <2>1 DEF RowsGoOn
  <1>7. ReadStands'
    BY <1>1, <1>0, <1>4 DEF ListInv, CopiesBehind, ReadStands
  <1>8. CopiesBehind'
    BY <1>1, <1>6, <1>7, AllStayBehind
  <1>9. ListTypes'
    BY <1>1, <1>6 DEF ListInv, ListTypes
  <1>10. NothingOverwritten'
    BY <1>1 DEF ListInv, NothingOverwritten
  <1> QED BY <1>8, <1>9, <1>10 DEF ListInv

LEMMA ListStep == ListInv /\ [Next]_vars => ListInv'
  <1> SUFFICES ASSUME ListInv, [Next]_vars PROVE ListInv'
    OBVIOUS
  <1>1. ListUser \/ ListAnswers \/ Poll \/ UNCHANGED list
    BY PartSteps
  <1>2. CASE ListUser
    BY <1>2, LooksKeep, TicksKeep, BulkAsked, ForeignKeeps, AskFailsKeeps DEF ListUser
  <1>3. CASE ListAnswers
    BY <1>3, ShownKeeps, RowsArriveKeeps, FiguresKeep, BulkAsked, BulkReadKeeps, BulkWrittenKeeps, BulkDoneKeeps DEF ListAnswers
  <1>4. CASE Poll
    BY <1>4, LooksKeep
  <1>5. CASE UNCHANGED list
    BY <1>5, SameBehind DEF list, ListInv, ListTypes, CopiesBehind, ReadStands, NothingOverwritten
  <1> QED BY <1>1, <1>2, <1>3, <1>4, <1>5

-----------------------------------------------------------------------------
(* The assistant.                                                          *)

(* What is bounded has a greatest, and it is the one chosen.               *)
LEMMA Highest ==
  ASSUME NEW n \in Nat, NEW S \in SUBSET (0..n), S # {}
  PROVE  \E m \in S : \A k \in S : k <= m
  <1>1. PICK R : R = OpToRel(<, Nat)
    OBVIOUS
  <1>2. IsWellFoundedOn(R, Nat)
    BY <1>1, NatLessThanWellFounded
  <1>3. \A x, y \in Nat : y < x => <<y, x>> \in R
    BY <1>1 DEF OpToRel
  <1>4. PICK T : T = {n - k : k \in S}
    OBVIOUS
  <1>5. T \subseteq Nat /\ T # {}
    <2>1. PICK s \in S : TRUE
      OBVIOUS
    <2>2. n - s \in T
      BY <1>4, <2>1
    <2>3. \A k \in S : n - k \in Nat
      OBVIOUS
    <2> QED BY <1>4, <2>2, <2>3
  <1>6. PICK x \in T : \A y \in T : ~(<<y, x>> \in R)
    BY <1>2, <1>5, WFMin
  <1>7. PICK m \in S : x = n - m
    BY <1>4, <1>6
  <1>8. \A k \in S : n - k \in T /\ n - k \in Nat
    BY <1>4
  <1>9. \A k \in S : ~(n - k < x)
    BY <1>3, <1>5, <1>6, <1>8
  <1> QED BY <1>7, <1>9

LEMMA GreatestOf ==
  ASSUME NEW n \in Nat, NEW S \in SUBSET (0..n)
  PROVE  /\ Greatest(S) \in Nat
         /\ S = {} => Greatest(S) = Nothing
         /\ S # {} => Greatest(S) \in S /\ \A k \in S : k <= Greatest(S)
  <1>1. CASE S = {}
    BY <1>1 DEF Greatest, Nothing
  <1>2. CASE S # {}
    <2>1. \E m \in S : \A k \in S : k <= m
      BY <1>2, Highest
    <2>2. Greatest(S) \in S /\ \A k \in S : k <= Greatest(S)
      BY <1>2, <2>1 DEF Greatest
    <2>3. Greatest(S) \in Nat
      <3>1. \A k \in S : k \in Nat
        OBVIOUS
      <3> QED BY <1>2, <2>2, <3>1
    <2> QED BY <1>2, <2>2, <2>3
  <1> QED BY <1>1, <1>2

Lines == [from : {"welcome", "user", "bot", "error"}, card : Nat, used : BOOLEAN]
Messages == [text : Says, newest : Nat]
Requests == [text : Says, answer : {"none", "ok"}, card : Nat, newest : Nat]
Carried == [what : Nat, file : BOOLEAN, newest : Nat]

SleuthTypes ==
    /\ talk \in Seq(Lines) /\ talked \in BOOLEAN /\ opened \in BOOLEAN /\ unread \in Nat
    /\ request \in {None} \cup Requests /\ strays \subseteq Messages
    /\ made \in Nat /\ proposal \in 0..made /\ document \in 0..made
    /\ carried \in Seq(Carried) /\ astray \in BOOLEAN

\* Nothing is waiting that was carried out, nor a number to come.
CarriedApart ==
    /\ proposal = document => proposal = Nothing
    /\ \A i \in DOMAIN carried : carried[i].what <= made /\ carried[i].what \notin {proposal, document, Nothing}

\* A waiting proposal is the newest that the page shows or is about to show, if
\* it shows any.
ProposalSeen ==
    ~astray /\ proposal # Nothing =>
        /\ \A i \in DOMAIN talk : talk[i].card <= proposal
        /\ \/ \A i \in DOMAIN talk : talk[i].card = Nothing
           \/ \E i \in DOMAIN talk : talk[i].card = proposal
           \/ request # None /\ request.answer = "ok" /\ request.card = proposal
        /\ request # None => request.card \in {Nothing, proposal}
        /\ request # None /\ request.answer = "none" => request.newest \in {Nothing, proposal}

NoStrays == ~astray => strays = {}

\* The request that is being answered has no card yet.
NoCardYet == request # None /\ request.answer = "none" => request.card = Nothing

\* Every card is of something that was made.
CardsKnown ==
    /\ \A i \in DOMAIN talk : talk[i].card <= made
    /\ request # None => request.card <= made

SleuthInv == /\ SleuthTypes /\ CarriedApart /\ CarriedOutOnce /\ NewestConfirmed
             /\ ProposalSeen /\ NoStrays /\ NoCardYet /\ CardsKnown

\* It holds at first.
LEMMA SleuthInitially == Init => SleuthInv
  <1> SUFFICES ASSUME SleuthInit PROVE SleuthInv
    BY DEF Init
  <1>1. /\ talk = <<>> /\ talked = FALSE /\ request = None /\ opened = FALSE /\ unread = 0
        /\ strays = {} /\ made = 0 /\ proposal = 0 /\ document = 0
        /\ carried = <<>> /\ astray = FALSE
    BY DEF SleuthInit, Nothing
  <1>2. talked \in BOOLEAN /\ opened \in BOOLEAN /\ astray \in BOOLEAN
    BY <1>1
  <1>3. SleuthTypes
    BY <1>1, <1>2 DEF SleuthTypes
  <1> QED BY <1>1, <1>3 DEF SleuthInv, CarriedApart, CarriedOutOnce, NewestConfirmed, ProposalSeen, NoStrays,
             NoCardYet, CardsKnown, Nothing

(* What is carried out, is done by one message.                            *)
LEMMA CarriesOut ==
  ASSUME SleuthTypes, CarriedApart, CarriedOutOnce, NEW p \in {proposal, document}, p # Nothing,
         NEW m, m.newest \in Nat, CarryOut(p, m)
  PROVE  /\ carried' \in Seq(Carried) /\ DOMAIN carried' = 1..(Len(carried) + 1) /\ DOMAIN carried = 1..Len(carried)
         /\ \A i \in DOMAIN carried : carried'[i] = carried[i]
         /\ carried'[Len(carried) + 1].what = p
         /\ carried'[Len(carried) + 1].file = (p = document)
         /\ carried'[Len(carried) + 1].newest = m.newest
         /\ CarriedOutOnce'
  <1>1. PICK c : c = [what |-> p, file |-> p = document, newest |-> m.newest]
    OBVIOUS
  <1>2. p \in Nat /\ carried \in Seq(Carried)
    BY DEF SleuthTypes
  <1>3. (p = document) \in BOOLEAN
    OBVIOUS
  <1>4. c \in Carried /\ c.what = p /\ c.file = (p = document) /\ c.newest = m.newest
    BY <1>1, <1>2, <1>3 DEF Carried
  <1>5. carried' = Append(carried, c)
    BY <1>1 DEF CarryOut
  <1>6. /\ carried' \in Seq(Carried) /\ DOMAIN carried' = 1..(Len(carried) + 1) /\ DOMAIN carried = 1..Len(carried)
        /\ \A i \in DOMAIN carried : carried'[i] = carried[i]
        /\ carried'[Len(carried) + 1] = c /\ Len(carried) \in Nat
    BY <1>2, <1>4, <1>5
  <1>7. \A i \in DOMAIN carried : carried[i].what # p
    BY DEF CarriedApart
  <1>8. CarriedOutOnce'
    BY <1>6, <1>4, <1>7 DEF CarriedOutOnce
  <1> QED BY <1>4, <1>6, <1>8

(* What a message does on the server.                                      *)
LEMMA Execution ==
  ASSUME SleuthTypes, CarriedApart, CarriedOutOnce, NEW m, m.newest \in Nat, Executes(m)
  PROVE  /\ CarriedApart' /\ CarriedOutOnce'
         /\ made' \in Nat /\ proposal' \in 0..made' /\ document' \in 0..made' /\ carried' \in Seq(Carried)
         /\ made' >= made
         /\ \/ proposal' = proposal \/ proposal' = Nothing
            \/ m.text = "command" /\ proposal' = made' /\ made' = made + 1
         /\ m.text = "command" => proposal' = made' /\ made' = made + 1
         /\ \/ carried' = carried
            \/ /\ DOMAIN carried' = DOMAIN carried \cup {Len(carried) + 1}
               /\ \A i \in DOMAIN carried : carried'[i] = carried[i]
               /\ \/ carried'[Len(carried) + 1].file
                  \/ /\ carried'[Len(carried) + 1].what = proposal /\ proposal # Nothing
                     /\ carried'[Len(carried) + 1].newest = m.newest
  <1>0. /\ made \in Nat /\ proposal \in 0..made /\ document \in 0..made /\ carried \in Seq(Carried)
        /\ Len(carried) \in Nat /\ \A i \in DOMAIN carried : carried[i].what \in Nat
    <2>1. made \in Nat /\ proposal \in 0..made /\ document \in 0..made /\ carried \in Seq(Carried)
      BY DEF SleuthTypes
    <2>2. Len(carried) \in Nat /\ \A i \in DOMAIN carried : carried[i] \in Carried
      BY <2>1
    <2> QED BY <2>1, <2>2 DEF Carried
  <1>1. CASE ForDocument(m)
    <2>1. /\ document # Nothing /\ document' = Nothing /\ made' = made /\ proposal' = proposal /\ m.text # "command"
          /\ carried' = carried \/ CarryOut(document, m)
      BY <1>1 DEF ForDocument
    <2>2. CASE carried' = carried
      BY <1>0, <2>1, <2>2 DEF CarriedApart, CarriedOutOnce, Nothing
    <2>3. CASE CarryOut(document, m)
      <3>1. /\ carried' \in Seq(Carried) /\ DOMAIN carried' = 1..(Len(carried) + 1) /\ DOMAIN carried = 1..Len(carried)
            /\ \A i \in DOMAIN carried : carried'[i] = carried[i]
            /\ carried'[Len(carried) + 1].what = document
            /\ carried'[Len(carried) + 1].file = (document = document)
            /\ CarriedOutOnce'
        BY <2>1, <2>3, CarriesOut
      <3>2. DOMAIN carried' = DOMAIN carried \cup {Len(carried) + 1}
        BY <1>0, <3>1
      <3>3. carried'[Len(carried) + 1].file
        BY <3>1
      <3>4. CarriedApart'
        BY <1>0, <2>1, <3>1, <3>2 DEF CarriedApart, Nothing
      <3> QED BY <1>0, <2>1, <3>1, <3>2, <3>3, <3>4 DEF Nothing
    <2> QED BY <2>1, <2>2, <2>3
  <1>2. CASE ForProposal(m)
    <2>1. /\ document = Nothing /\ made' = made /\ document' = document /\ m.text # "command"
          /\ \/ proposal' = proposal /\ carried' = carried
             \/ /\ proposal # Nothing /\ proposal' = Nothing
                /\ carried' = carried \/ CarryOut(proposal, m)
      BY <1>2 DEF ForProposal, TakePending
    <2>2. CASE carried' = carried
      BY <1>0, <2>1, <2>2 DEF CarriedApart, CarriedOutOnce, Nothing
    <2>3. CASE proposal # Nothing /\ proposal' = Nothing /\ CarryOut(proposal, m)
      <3>1. /\ carried' \in Seq(Carried) /\ DOMAIN carried' = 1..(Len(carried) + 1) /\ DOMAIN carried = 1..Len(carried)
            /\ \A i \in DOMAIN carried : carried'[i] = carried[i]
            /\ carried'[Len(carried) + 1].what = proposal
            /\ carried'[Len(carried) + 1].newest = m.newest
            /\ CarriedOutOnce'
        BY <2>3, CarriesOut
      <3>2. DOMAIN carried' = DOMAIN carried \cup {Len(carried) + 1}
        BY <1>0, <3>1
      <3>3. CarriedApart'
        BY <1>0, <2>1, <2>3, <3>1, <3>2 DEF CarriedApart, Nothing
      <3> QED BY <1>0, <2>1, <2>3, <3>1, <3>2, <3>3 DEF Nothing
    <2> QED BY <2>1, <2>2, <2>3
  <1>3. CASE m.text = "command" /\ Propose /\ UNCHANGED <<document, carried>>
    BY <1>0, <1>3 DEF Propose, CarriedApart, CarriedOutOnce, Nothing
  <1>4. CASE m.text = "file" /\ made' = made + 1 /\ document' = made + 1 /\ UNCHANGED <<proposal, carried>>
    BY <1>0, <1>4 DEF CarriedApart, CarriedOutOnce, Nothing
  <1>5. CASE m.text # "command" /\ UNCHANGED <<made, proposal, document, carried>>
    BY <1>0, <1>5 DEF CarriedApart, CarriedOutOnce, Nothing
  <1> QED BY <1>1, <1>2, <1>3, <1>4, <1>5 DEF Executes

(* What a message does keeps to what was seen.                             *)
LEMMA ExecutionSeen ==
  ASSUME SleuthTypes, NewestConfirmed, NEW m,
         astray' = astray, ~astray => (proposal # Nothing => m.newest \in {Nothing, proposal}),
         carried' \in Seq(Carried),
         \/ carried' = carried
         \/ /\ DOMAIN carried' = DOMAIN carried \cup {Len(carried) + 1}
            /\ \A i \in DOMAIN carried : carried'[i] = carried[i]
            /\ \/ carried'[Len(carried) + 1].file
               \/ /\ carried'[Len(carried) + 1].what = proposal /\ proposal # Nothing
                  /\ carried'[Len(carried) + 1].newest = m.newest
  PROVE  NewestConfirmed'
  BY DEF NewestConfirmed

LEMMA StrayKeeps ==
  ASSUME SleuthInv, NEW m \in strays, StrayServed(m)
  PROVE  SleuthInv'
  <1>1. /\ strays' = strays \ {m} /\ Executes(m) /\ UNCHANGED <<talk, talked, request, opened, unread, astray>>
    BY DEF StrayServed
  <1>2. m.newest \in Nat /\ astray = TRUE
    BY DEF SleuthInv, SleuthTypes, Messages, NoStrays
  <1>3. /\ CarriedApart' /\ CarriedOutOnce'
        /\ made' \in Nat /\ proposal' \in 0..made' /\ document' \in 0..made' /\ carried' \in Seq(Carried)
        /\ made' >= made
    BY <1>1, <1>2, Execution DEF SleuthInv
  <1>4. SleuthTypes'
    BY <1>1, <1>3 DEF SleuthInv, SleuthTypes
  <1>5. CardsKnown'
    <2>1. /\ \A i \in DOMAIN talk : talk[i].card \in Nat /\ talk[i].card <= made
          /\ request # None => request.card \in Nat /\ request.card <= made
          /\ made \in Nat
      <3>1. talk \in Seq(Lines) /\ request \in {None} \cup Requests /\ made \in Nat
        BY DEF SleuthInv, SleuthTypes
      <3>2. \A i \in DOMAIN talk : talk[i] \in Lines
        BY <3>1
      <3> QED BY <3>1, <3>2 DEF SleuthInv, CardsKnown, Lines, Requests
    <2> QED BY <1>1, <1>3, <2>1 DEF CardsKnown
  <1> QED BY <1>1, <1>2, <1>3, <1>4, <1>5 DEF SleuthInv, NewestConfirmed, ProposalSeen, NoStrays, NoCardYet

LEMMA RequestServedKeeps ==
  ASSUME SleuthInv, RequestServed
  PROVE  SleuthInv'
  <1>0. /\ request \in Requests /\ request # None /\ request.answer = "none" /\ request.card = Nothing
        /\ request.newest \in Nat /\ made \in Nat /\ proposal \in 0..made
    BY DEF RequestServed, SleuthInv, SleuthTypes, Requests, NoCardYet
  <1>1. Executes(request) /\ UNCHANGED <<talk, talked, opened, unread, strays, astray>>
    BY DEF RequestServed
  <1>2. PICK c : c = IF request.text = "command" THEN made' ELSE Nothing
    OBVIOUS
  <1>3. request' = [request EXCEPT !.answer = "ok", !.card = c]
    BY <1>2 DEF RequestServed
  <1>4. /\ CarriedApart' /\ CarriedOutOnce'
        /\ made' \in Nat /\ proposal' \in 0..made' /\ document' \in 0..made' /\ carried' \in Seq(Carried)
        /\ made' >= made
        /\ \/ proposal' = proposal \/ proposal' = Nothing
           \/ request.text = "command" /\ proposal' = made' /\ made' = made + 1
        /\ request.text = "command" => proposal' = made' /\ made' = made + 1
    BY <1>0, <1>1, Execution DEF SleuthInv
  <1>5. c \in Nat /\ c <= made' /\ (c # Nothing => c = proposal')
    BY <1>2, <1>4 DEF Nothing
  <1>6. request' \in Requests /\ request'.answer = "ok" /\ request'.card = c
    BY <1>0, <1>3, <1>5 DEF Requests
  <1>7. SleuthTypes'
    BY <1>1, <1>4, <1>6 DEF SleuthInv, SleuthTypes
  <1>8. NewestConfirmed'
    BY <1>0, <1>1, Execution, <1>4, ExecutionSeen DEF SleuthInv, ProposalSeen
  <1>9. \A i \in DOMAIN talk : talk[i].card \in Nat /\ talk[i].card <= made
    <2>1. talk \in Seq(Lines)
      BY DEF SleuthInv, SleuthTypes
    <2>2. \A i \in DOMAIN talk : talk[i] \in Lines
      BY <2>1
    <2> QED BY <2>2 DEF SleuthInv, CardsKnown, Lines
  <1>10. ProposalSeen'
    <2> SUFFICES ASSUME ~astray, proposal' # Nothing
                 PROVE  /\ \A i \in DOMAIN talk : talk[i].card <= proposal'
                        /\ \/ \A i \in DOMAIN talk : talk[i].card = Nothing
                           \/ \E i \in DOMAIN talk : talk[i].card = proposal'
                           \/ request' # None /\ c = proposal'
                        /\ request' # None => c \in {Nothing, proposal'}
      BY <1>1, <1>6 DEF ProposalSeen
    <2>1. CASE proposal' = proposal
      BY <1>0, <1>5, <2>1 DEF SleuthInv, ProposalSeen
    <2>2. CASE request.text = "command" /\ proposal' = made' /\ made' = made + 1
      <3>1. c = proposal' /\ \A i \in DOMAIN talk : talk[i].card <= proposal'
        BY <1>0, <1>2, <1>9, <2>2
      <3>2. CASE request' # None
        BY <3>1, <3>2
      <3>3. CASE request' = None
        BY <1>6, <3>3, SleuthAssumption DEF Requests
      <3> QED BY <3>2, <3>3
    <2> QED BY <1>4, <2>1, <2>2
  <1>11. CardsKnown'
    BY <1>0, <1>1, <1>4, <1>5, <1>6, <1>9 DEF CardsKnown
  <1>12. NoStrays' /\ NoCardYet'
    BY <1>1, <1>6 DEF SleuthInv, NoStrays, NoCardYet
  <1> QED BY <1>4, <1>7, <1>8, <1>10, <1>11, <1>12 DEF SleuthInv

(* The panel: what becomes of the conversation.                            *)
LEMMA LinesAre ==
  ASSUME SleuthTypes
  PROVE  /\ talk \in Seq(Lines) /\ DOMAIN talk = 1..Len(talk) /\ Len(talk) \in Nat
         /\ \A i \in DOMAIN talk : talk[i] \in Lines /\ talk[i].card \in Nat
  <1>1. talk \in Seq(Lines)
    BY DEF SleuthTypes
  <1>2. DOMAIN talk = 1..Len(talk) /\ Len(talk) \in Nat /\ \A i \in DOMAIN talk : talk[i] \in Lines
    BY <1>1
  <1> QED BY <1>1, <1>2 DEF Lines

\* t goes on from the conversation: it shows its cards or none, and no others.
GoesOn(t) ==
    /\ t \in Seq(Lines)
    /\ \A i \in DOMAIN t : t[i].card = Nothing \/ \E j \in DOMAIN talk : talk[j].card = t[i].card
    /\ \/ \A i \in DOMAIN t : t[i].card = Nothing
       \/ \A j \in DOMAIN talk : \E i \in DOMAIN t : t[i].card = talk[j].card

LEMMA LineMade ==
  ASSUME NEW from \in {"welcome", "user", "bot", "error"}, NEW card \in Nat
  PROVE  Line(from, card) \in Lines /\ Line(from, card).card = card
  BY DEF Line, Lines

LEMMA LineAdded ==
  ASSUME NEW t \in Seq(Lines), NEW l \in Lines
  PROVE  /\ Append(t, l) \in Seq(Lines) /\ DOMAIN t = 1..Len(t) /\ Len(t) \in Nat
         /\ DOMAIN Append(t, l) = DOMAIN t \cup {Len(t) + 1}
         /\ \A i \in DOMAIN t : Append(t, l)[i] = t[i]
         /\ Append(t, l)[Len(t) + 1] = l
  OBVIOUS

LEMMA GoesOnAdding ==
  ASSUME NEW t, GoesOn(t), NEW from \in {"welcome", "user", "bot", "error"}
  PROVE  GoesOn(Append(t, Line(from, Nothing)))
  BY LineMade, LineAdded DEF Nothing, GoesOn

LEMMA WelcomeGoesOn == GoesOn(Welcome)
  BY LineMade DEF Nothing, GoesOn, Welcome

LEMMA SameGoesOn == SleuthTypes => GoesOn(talk)
  BY LinesAre DEF GoesOn

LEMMA TalkKeeps ==
  ASSUME SleuthInv, GoesOn(talk'),
         UNCHANGED <<strays, made, proposal, document, carried, astray>>,
         talked' \in BOOLEAN, opened' \in BOOLEAN, unread' \in Nat,
         \/ request' = request
         \/ \E text \in Says : request = None /\ request' = Request(text)
  PROVE  SleuthInv'
  <1>0. /\ talk' \in Seq(Lines) /\ DOMAIN talk' = 1..Len(talk') /\ \A i \in DOMAIN talk : talk[i].card \in Nat
        /\ made \in Nat /\ proposal \in 0..made
    BY LinesAre DEF SleuthInv, SleuthTypes, GoesOn
  <1>1. PICK S : S = {talk[i].card : i \in DOMAIN talk}
    OBVIOUS
  <1>2. S \in SUBSET (0..made)
    BY <1>0, <1>1 DEF SleuthInv, CardsKnown
  <1>3. Greatest(S) \in Nat
    BY <1>0, <1>2, GreatestOf
  <1>4. \/ request' = request
        \/ /\ request = None /\ request' \in Requests
           /\ request'.answer = "none" /\ request'.card = Nothing /\ request'.newest = Greatest(S)
    BY <1>1, <1>3 DEF Request, Requests, Nothing
  <1>5. SleuthTypes'
    BY <1>0, <1>4 DEF SleuthInv, SleuthTypes
  <1>6. ASSUME ~astray, proposal # Nothing, request = None PROVE Greatest(S) \in {Nothing, proposal}
    <2>1. /\ \A k \in S : k <= proposal
          /\ (\A k \in S : k = Nothing) \/ proposal \in S
      BY <1>1, <1>6 DEF SleuthInv, ProposalSeen
    <2>2. S = {} \/ (Greatest(S) \in S /\ \A k \in S : k <= Greatest(S))
      BY <1>0, <1>2, GreatestOf
    <2>3. CASE S = {}
      BY <1>0, <1>2, <2>3, GreatestOf
    <2>4. CASE Greatest(S) \in S /\ \A k \in S : k <= Greatest(S)
      BY <1>0, <1>2, <1>3, <2>1, <2>4
    <2> QED BY <2>2, <2>3, <2>4
  <1>7. ProposalSeen'
    <2> SUFFICES ASSUME ~astray, proposal # Nothing
                 PROVE  /\ \A i \in DOMAIN talk' : talk'[i].card <= proposal
                        /\ \/ \A i \in DOMAIN talk' : talk'[i].card = Nothing
                           \/ \E i \in DOMAIN talk' : talk'[i].card = proposal
                           \/ request' # None /\ request'.answer = "ok" /\ request'.card = proposal
                        /\ request' # None => request'.card \in {Nothing, proposal}
                        /\ request' # None /\ request'.answer = "none" => request'.newest \in {Nothing, proposal}
      BY DEF ProposalSeen
    <2>1. /\ \A i \in DOMAIN talk : talk[i].card <= proposal
          /\ \/ \A i \in DOMAIN talk : talk[i].card = Nothing
             \/ \E i \in DOMAIN talk : talk[i].card = proposal
             \/ request # None /\ request.answer = "ok" /\ request.card = proposal
          /\ request # None => request.card \in {Nothing, proposal}
          /\ request # None /\ request.answer = "none" => request.newest \in {Nothing, proposal}
      BY DEF SleuthInv, ProposalSeen
    <2>2. \A i \in DOMAIN talk' : talk'[i].card <= proposal
      BY <1>0, <2>1 DEF GoesOn, Nothing
    <2>3. \/ \A i \in DOMAIN talk' : talk'[i].card = Nothing
          \/ \E i \in DOMAIN talk' : talk'[i].card = proposal
          \/ request' # None /\ request'.answer = "ok" /\ request'.card = proposal
      BY <1>4, <2>1 DEF GoesOn
    <2>4. /\ request' # None => request'.card \in {Nothing, proposal}
          /\ request' # None /\ request'.answer = "none" => request'.newest \in {Nothing, proposal}
      BY <1>4, <1>6, <2>1
    <2> QED BY <2>2, <2>3, <2>4
  <1>8. CardsKnown'
    BY <1>0, <1>4 DEF SleuthInv, CardsKnown, GoesOn, Nothing
  <1>9. NoStrays' /\ NoCardYet'
    BY <1>4 DEF SleuthInv, NoStrays, NoCardYet
  <1>10. CarriedApart' /\ CarriedOutOnce' /\ NewestConfirmed'
    BY DEF SleuthInv, CarriedApart, CarriedOutOnce, NewestConfirmed
  <1> QED BY <1>5, <1>7, <1>8, <1>9, <1>10 DEF SleuthInv

LEMMA PanelGoesOn ==
  ASSUME SleuthInv, NEW lines, OpenPanelAt(lines), lines = <<>> \/ lines = <<Line("user", Nothing)>>
  PROVE  GoesOn(talk') /\ opened' \in BOOLEAN /\ talked' \in BOOLEAN /\ unread' \in Nat
  <1>1. PICK t : t = IF opened \/ talked THEN talk ELSE Welcome
    OBVIOUS
  <1>2. GoesOn(t)
    BY <1>1, WelcomeGoesOn, SameGoesOn DEF SleuthInv
  <1>3. t \in Seq(Lines)
    BY <1>2 DEF GoesOn
  <1>4. talk' = t \o lines
    BY <1>1 DEF OpenPanelAt
  <1>5. CASE lines = <<>>
    <2>1. talk' = t
      BY <1>3, <1>4, <1>5
    <2> QED BY <1>2, <2>1 DEF OpenPanelAt, SleuthInv, SleuthTypes
  <1>6. CASE lines = <<Line("user", Nothing)>>
    <2>1. t \o <<Line("user", Nothing)>> = Append(t, Line("user", Nothing))
      BY LineMade, <1>3 DEF Nothing
    <2>2. GoesOn(talk')
      BY <1>2, <1>4, <1>6, <2>1, GoesOnAdding
    <2>3. talked' \in BOOLEAN
      BY DEF OpenPanelAt
    <2> QED BY <2>2, <2>3 DEF OpenPanelAt, SleuthInv, SleuthTypes
  <1> QED BY <1>5, <1>6

LEMMA MessageGoesOn ==
  ASSUME SleuthInv, NEW t, GoesOn(t), NEW text \in Says, SendMessage(text, t)
  PROVE  /\ GoesOn(talk') /\ talked' \in BOOLEAN
         /\ request' = request \/ (request = None /\ request' = Request(text))
  BY GoesOnAdding DEF SendMessage, SleuthInv, SleuthTypes, InFlight

LEMMA PanelKeeps ==
  ASSUME SleuthInv,
         \/ OpenSleuth \/ CloseSleuth \/ ShowWelcome \/ FilePicked
         \/ \E text \in Says \ {"file"} : SendCurrent(text)
         \/ \E i \in DOMAIN talk, answer \in {"yes", "no"} : Choose(i, answer)
  PROVE  SleuthInv'
  <1>0. talked \in BOOLEAN /\ opened \in BOOLEAN /\ unread \in Nat /\ GoesOn(talk) /\ "file" \in Says
    BY SameGoesOn DEF SleuthInv, SleuthTypes, Says
  <1>1. CASE OpenSleuth
    BY <1>1, PanelGoesOn, TalkKeeps DEF OpenSleuth
  <1>2. CASE CloseSleuth
    BY <1>2, <1>0, TalkKeeps DEF CloseSleuth
  <1>3. CASE ShowWelcome
    BY <1>3, WelcomeGoesOn, <1>0, TalkKeeps DEF ShowWelcome
  <1>4. CASE FilePicked
    BY <1>4, <1>0, PanelGoesOn, TalkKeeps DEF FilePicked, InFlight
  <1>5. ASSUME NEW text \in Says, SendCurrent(text) PROVE SleuthInv'
    BY <1>5, <1>0, MessageGoesOn, TalkKeeps DEF SendCurrent
  <1>6. ASSUME NEW i \in DOMAIN talk, NEW answer \in {"yes", "no"}, Choose(i, answer) PROVE SleuthInv'
    <2>1. PICK t : t = [talk EXCEPT ![i].used = TRUE]
      OBVIOUS
    <2>2. UNCHANGED <<opened, unread, strays, made, proposal, document, carried, astray>> /\ SendMessage(answer, t)
      BY <1>6, <2>1 DEF Choose
    <2>3. GoesOn(t)
      <3>1. /\ talk \in Seq(Lines) /\ DOMAIN talk = 1..Len(talk) /\ Len(talk) \in Nat
            /\ \A j \in DOMAIN talk : talk[j] \in Lines
        BY LinesAre DEF SleuthInv
      <3>2. PICK l : l = [talk[i] EXCEPT !.used = TRUE]
        OBVIOUS
      <3>3. l \in Lines /\ l.card = talk[i].card
        BY <3>1, <3>2 DEF Lines
      <3>4. t = [talk EXCEPT ![i] = l]
        BY <2>1, <3>2
      <3>5. t \in Seq(Lines) /\ DOMAIN t = DOMAIN talk
        BY <3>1, <3>3, <3>4
      <3>6. \A j \in DOMAIN talk : t[j].card = talk[j].card
        BY <3>1, <3>3, <3>4
      <3> QED BY <3>5, <3>6 DEF GoesOn
    <2>4. answer \in Says
      BY DEF Says
    <2> QED BY <1>0, <2>2, <2>3, <2>4, MessageGoesOn, TalkKeeps
  <1> QED BY <1>1, <1>2, <1>3, <1>4, <1>5, <1>6

(* An answer arrives, or is given up on.                                   *)
LEMMA ShownLine ==
  ASSUME SleuthInv, NEW l \in Lines, l.card <= made, Shown(l)
  PROVE  /\ talk' \in Seq(Lines) /\ request' = None /\ unread' \in Nat
         /\ DOMAIN talk' = DOMAIN talk \cup {Len(talk) + 1}
         /\ \A i \in DOMAIN talk : talk'[i] = talk[i]
         /\ talk'[Len(talk) + 1] = l
         /\ \A i \in DOMAIN talk' : talk'[i].card <= made
  BY LineAdded DEF SleuthInv, SleuthTypes, Shown, CardsKnown

LEMMA AnswerKeeps ==
  ASSUME SleuthInv, AnswerArrives
  PROVE  SleuthInv'
  <1>1. PICK l : l = Line("bot", request.card)
    OBVIOUS
  <1>2. /\ request # None /\ request \in Requests /\ request.answer = "ok" /\ request.card \in Nat /\ request.card <= made
    BY DEF AnswerArrives, SleuthInv, SleuthTypes, Requests, CardsKnown
  <1>3. l \in Lines /\ l.card = request.card
    BY <1>1, <1>2, LineMade
  <1>4. Shown(l) /\ UNCHANGED <<talked, opened, strays, made, proposal, document, carried, astray>>
    BY <1>1 DEF AnswerArrives
  <1>5. /\ talk' \in Seq(Lines) /\ request' = None /\ unread' \in Nat
        /\ DOMAIN talk' = DOMAIN talk \cup {Len(talk) + 1}
        /\ \A i \in DOMAIN talk : talk'[i] = talk[i]
        /\ talk'[Len(talk) + 1] = l
        /\ \A i \in DOMAIN talk' : talk'[i].card <= made
    BY <1>2, <1>3, <1>4, ShownLine
  <1>6. SleuthTypes'
    BY <1>4, <1>5 DEF SleuthInv, SleuthTypes
  <1>7. ProposalSeen'
    BY <1>4, <1>5, <1>2, <1>3 DEF ProposalSeen, SleuthInv, SleuthTypes, Nothing
  <1>8. CarriedApart' /\ CarriedOutOnce' /\ NewestConfirmed' /\ NoStrays' /\ NoCardYet' /\ CardsKnown'
    BY <1>4, <1>5 DEF SleuthInv, CarriedApart, CarriedOutOnce, NewestConfirmed, NoStrays, NoCardYet, CardsKnown
  <1> QED BY <1>6, <1>7, <1>8 DEF SleuthInv

(* What makes the conversation go astray, or forgets.                      *)
LEMMA AstrayKeeps ==
  ASSUME SleuthInv, GiveUp \/ Forget \/ \E text \in {"command", "yes"} : Elsewhere(text)
  PROVE  SleuthInv'
  <1>1. CASE GiveUp
    <2>1. PICK l : l = Line("error", Nothing)
      OBVIOUS
    <2>2. l \in Lines /\ l.card = 0 /\ made \in Nat
      BY <2>1, LineMade DEF Nothing, SleuthInv, SleuthTypes
    <2>3. /\ Shown(l) /\ astray' = TRUE /\ UNCHANGED <<talked, opened, made, proposal, document, carried>>
          /\ strays' = strays \/ strays' = strays \cup {[text |-> request.text, newest |-> request.newest]}
          /\ request \in Requests
      BY <1>1, <2>1 DEF GiveUp, SleuthInv, SleuthTypes
    <2>4. /\ talk' \in Seq(Lines) /\ request' = None /\ unread' \in Nat
          /\ \A i \in DOMAIN talk' : talk'[i].card <= made
      BY <2>2, <2>3, ShownLine
    <2>5. strays' \subseteq Messages
      BY <2>3 DEF SleuthInv, SleuthTypes, Messages, Requests
    <2>6. astray' \in BOOLEAN
      BY <2>3
    <2>7. SleuthTypes'
      BY <2>3, <2>4, <2>5, <2>6 DEF SleuthInv, SleuthTypes
    <2> QED BY <2>3, <2>4, <2>7 DEF SleuthInv, CarriedApart, CarriedOutOnce, NewestConfirmed, ProposalSeen,
               NoStrays, NoCardYet, CardsKnown
  <1>2. CASE Forget
    <2>1. /\ proposal' \in {proposal, Nothing} /\ document' \in {document, Nothing}
          /\ UNCHANGED <<talk, talked, request, opened, unread, strays, made, carried, astray>>
      BY <1>2 DEF Forget
    <2>2. SleuthTypes'
      BY <2>1 DEF SleuthInv, SleuthTypes, Nothing
    <2>3. CarriedApart'
      BY <2>1 DEF SleuthInv, CarriedApart
    <2> QED BY <2>1, <2>2, <2>3 DEF SleuthInv, CarriedOutOnce, NewestConfirmed, ProposalSeen, NoStrays, NoCardYet, CardsKnown
  <1>3. ASSUME NEW text \in {"command", "yes"}, Elsewhere(text) PROVE SleuthInv'
    <2>1. /\ strays' = strays \cup {[text |-> text, newest |-> Nothing]} /\ astray' = TRUE
          /\ UNCHANGED <<talk, talked, request, opened, unread, made, proposal, document, carried>>
      BY <1>3 DEF Elsewhere
    <2>2. [text |-> text, newest |-> Nothing] \in Messages
      BY DEF Messages, Says, Nothing
    <2>3. astray' \in BOOLEAN
      BY <2>1
    <2>4. SleuthTypes'
      BY <2>1, <2>2, <2>3 DEF SleuthInv, SleuthTypes
    <2> QED BY <2>1, <2>4 DEF SleuthInv, CarriedApart, CarriedOutOnce, NewestConfirmed, ProposalSeen,
               NoStrays, NoCardYet, CardsKnown
  <1> QED BY <1>1, <1>2, <1>3

LEMMA SleuthStep == SleuthInv /\ [Next]_vars => SleuthInv'
  <1> SUFFICES ASSUME SleuthInv, [Next]_vars PROVE SleuthInv'
    OBVIOUS
  <1>1. SleuthUser \/ SleuthAnswers \/ UNCHANGED sleuth
    BY PartSteps
  <1>2. CASE SleuthUser
    BY <1>2, PanelKeeps, AstrayKeeps DEF SleuthUser
  <1>3. CASE SleuthAnswers
    BY <1>3, RequestServedKeeps, AnswerKeeps, StrayKeeps DEF SleuthAnswers
  <1>4. CASE UNCHANGED sleuth
    BY <1>4, SameGoesOn, TalkKeeps DEF sleuth, SleuthInv, SleuthTypes
  <1> QED BY <1>1, <1>2, <1>3, <1>4

\* What a yes carries out is what its user saw last, and that once: whatever
\* the panel and other pages send, and whichever answers are lost.
THEOREM SleuthConfirms == Spec => []ConfirmedRight
  <1>1. SleuthInv => ConfirmedRight
    BY DEF SleuthInv, ConfirmedRight
  <1> QED BY <1>1, SleuthInitially, SleuthStep, PTL DEF Spec

-----------------------------------------------------------------------------
(* Settings with a version: the values.                                    *)

RowRecords == [there : SUBSET Section, says : [Section -> Nat], ver : [Section -> Nat]]
FormRecords == [open : BOOLEAN, touched : BOOLEAN, seeded : Nat, ver : Nat]
SaveRecords == [s : Section, at : {"sent", "checked", "done", "refused"}, mine : BOOLEAN, says : Nat,
                ver : Nat \cup {None}, seen : Nat, base : Nat, copy : RowRecords \cup {None}]

FormsTypes ==
    /\ which \in {"board", "filters", "epics", "git"}
    /\ row \in RowRecords /\ changes \in Nat
    /\ page \in RowRecords \cup {None}
    /\ load \in {NoLoad, Asking} \cup [at : {"read"}, copy : RowRecords]
    /\ forms \in [Section -> FormRecords]
    /\ saves \subseteq SaveRecords /\ \A v \in saves : v.at = "done" => v.copy \in RowRecords
    /\ question \in Section \cup {None}
    /\ outdated \in BOOLEAN

(* A copy of the row is of an earlier time: a version of it that the       *)
(* server still has goes with what the server still says, unless requests  *)
(* that had read the same version have both written.                       *)
Calm == Section \ crossed
RowBehind(c) ==
    \A s \in Calm : c.ver[s] <= row.ver[s] /\ (c.ver[s] = row.ver[s] => c.says[s] = row.says[s])

FormsBehind ==
    /\ page # None => RowBehind(page)
    /\ load.at = "read" => RowBehind(load.copy)
    /\ \A v \in saves : v.at = "done" => RowBehind(v.copy)
    /\ which \in {"filters", "epics"} =>
         \A s \in Calm :
            /\ forms[s].ver <= row.ver[s]
            /\ forms[s].ver = row.ver[s] /\ forms[s].ver # 0 => forms[s].seeded = row.says[s]
    /\ \A v \in saves : v.at = "sent" /\ v.ver # None /\ v.s \in Calm =>
          v.ver <= row.ver[v.s] /\ (v.ver = row.ver[v.s] => v.seen = row.says[v.s])
    /\ \A v \in saves : v.at = "checked" /\ v.s \in Calm =>
          v.base = row.ver[v.s] /\ (v.ver # None => v.seen = row.says[v.s])

(* The forms of the board and of the Git settings are filled from the row  *)
(* the page holds.                                                         *)
FormsSeeded ==
    /\ page # None /\ which \in {"board", "git"} =>
         \A s \in SectionsOf : forms[s].open /\ forms[s].seeded = page.says[s]
    /\ \A s \in Section : forms[s].open => page # None /\ s \in SectionsOf
    /\ \A s \in Section : forms[s].touched => forms[s].open
    /\ question # None => question \in SectionsOf /\ page # None

(* The panel of the Git settings does one thing at a time.                 *)
GitAlone ==
    which = "git" =>
       /\ \A u, v \in saves : u.mine /\ v.mine => u = v
       /\ load.at # "no" \/ question # None => \A v \in saves : ~v.mine
       /\ question # None => load.at = "no"

(* What was stored while nothing is loaded is in an answer under way or on *)
(* the page.                                                               *)
DoneElsewhere == \E v \in saves : v.at = "done" /\ (which = "git" => ~v.mine)
PageFresh ==
    ~outdated /\ ~DoneElsewhere =>
       /\ load.at = "read" => load.copy = row
       /\ load.at = "no" =>
            /\ \A v \in saves : v.at = "done" => v.copy = row
            /\ (\E v \in saves : v.at = "done") \/ (page # None /\ page = row)

(* What a save writes was never there before: a section of the board that  *)
(* is again as the page holds it was not changed meanwhile.                *)
Coming(v) == v.at \in {"sent", "checked"}
SaysNew ==
    which = "board" =>
       /\ \A s, t \in Section : row.ver[s] = row.ver[t]
       /\ \A s \in Section : /\ row.says[s] <= changes
                             /\ page # None => page.says[s] <= changes
                             /\ load.at = "read" => load.copy.says[s] <= changes
       /\ \A v \in saves : Coming(v) =>
             /\ v.says <= changes
             /\ \A u \in saves : Coming(u) /\ u.says = v.says => u = v
             /\ \A s \in Section : /\ v.says # row.says[s]
                                   /\ page # None => v.says # page.says[s]
                                   /\ load.at = "read" => v.says # load.copy.says[s]
       /\ load.at = "read" /\ page # None =>
             \A s \in Section : page.says[s] = row.says[s] => load.copy.says[s] = page.says[s]

FormsInv ==
    /\ FormsTypes /\ FormsBehind /\ FormsSeeded /\ GitAlone /\ PageFresh /\ SaysNew
    /\ NothingClobbered

LEMMA FormsInitially == Init => FormsInv
  <1> SUFFICES ASSUME Init PROVE FormsInv
    OBVIOUS
  <1>1. /\ which \in {"board", "filters", "epics", "git"}
        /\ changes = 0 /\ page = None /\ load = Asking
        /\ forms = [s \in Section |-> Closed] /\ saves = {} /\ question = None
        /\ clobbered = {} /\ crossed = {} /\ outdated = FALSE
    BY DEF Init, FormsInit
  <1>2. \E there \in {Section, {1}}, first \in {0, 1} :
          /\ which = "board" => there = Section
          /\ row = [there |-> there, says |-> [s \in Section |-> 0],
                    ver |-> [s \in Section |-> IF s \in there THEN first ELSE 0]]
    BY DEF Init, FormsInit
  <1>3. /\ row \in RowRecords /\ \A s \in Section : row.says[s] = 0 /\ row.ver[s] \in Nat
        /\ which = "board" => \A s, t \in Section : row.ver[s] = row.ver[t]
    BY <1>2, FormsAssumption DEF RowRecords
  <1>4. FormsTypes
    BY <1>1, <1>3 DEF FormsTypes, FormRecords, Closed
  <1>5. load.at = "asked" /\ \A s \in Section : forms[s] = Closed
    BY <1>1 DEF Asking
  <1>6. FormsBehind
    BY <1>1, <1>3, <1>5 DEF FormsBehind, Closed, Calm
  <1>7. FormsSeeded /\ GitAlone /\ PageFresh
    BY <1>1, <1>5 DEF FormsSeeded, GitAlone, PageFresh, Closed
  <1>8. SaysNew
    BY <1>1, <1>3, <1>5 DEF SaysNew, RowRecords
  <1> QED BY <1>1, <1>4, <1>6, <1>7, <1>8 DEF FormsInv, NothingClobbered

(* What the values are made of.                                            *)
LEMMA RowAttributes ==
  ASSUME NEW c \in RowRecords
  PROVE  /\ c # None /\ c.there \in SUBSET Section
         /\ c.says \in [Section -> Nat] /\ c.ver \in [Section -> Nat]
         /\ \A s \in Section : c.says[s] \in Nat /\ c.ver[s] \in Nat
  BY FormsAssumption DEF RowRecords

LEMMA LoadAt ==
  ASSUME FormsTypes
  PROVE  /\ load.at \in {"no", "asked", "read"}
         /\ load.at = "read" => load.copy \in RowRecords
         /\ load.at = "no" <=> load = NoLoad
  BY DEF FormsTypes, NoLoad, Asking

LEMMA SaveAttributes ==
  ASSUME NEW v \in SaveRecords
  PROVE  /\ v.s \in Section /\ v.at \in {"sent", "checked", "done", "refused"} /\ v.mine \in BOOLEAN
         /\ v.says \in Nat /\ v.ver \in Nat \cup {None} /\ v.seen \in Nat /\ v.base \in Nat
         /\ v.copy \in RowRecords \cup {None}
  BY DEF SaveRecords

LEMMA FormAttributes ==
  ASSUME NEW c \in RowRecords, NEW s \in Section
  PROVE  /\ Seeded(c, s) \in FormRecords
         /\ Seeded(c, s).open = TRUE /\ Seeded(c, s).touched = FALSE
         /\ Seeded(c, s).seeded = c.says[s] /\ Seeded(c, s).ver = c.ver[s]
  BY RowAttributes DEF Seeded, FormRecords

LEMMA FormSections == SectionsOf \subseteq Section /\ (which = "git" => SectionsOf = {1}) /\ (which # "git" => SectionsOf = Section)
  BY FormsAssumption DEF SectionsOf

(* Nothing but what is loading, tested, asked about or outdated changes.   *)
LEMMA LoadingKeeps ==
  ASSUME FormsInv, RowFails \/ ToldOfChange \/ TestAnswered \/ TestConnection
  PROVE  FormsInv'
  <1>1. /\ load' \in {load, NoLoad, Asking} /\ (load' = load => outdated' = outdated)
        /\ (load' # load => (outdated' = TRUE /\ load.at # "no" /\ load' = NoLoad) \/ (outdated' = outdated /\ which # "git" /\ load' = Asking))
        /\ UNCHANGED <<which, row, changes, page, forms, saves, question, clobbered, crossed>>
    BY LoadAt DEF RowFails, ToldOfChange, TestAnswered, TestConnection, FormsInv
  <1>2. outdated' \in BOOLEAN
    BY <1>1 DEF FormsInv, FormsTypes
  <1>3. FormsTypes'
    BY <1>1, <1>2 DEF FormsInv, FormsTypes, NoLoad, Asking
  <1>4. load' = load \/ load'.at = "no" \/ load'.at = "asked"
    BY <1>1 DEF NoLoad, Asking
  <1>5. FormsBehind'
    BY <1>1, <1>4 DEF FormsInv, FormsBehind, RowBehind, Calm
  <1>6. FormsSeeded'
    BY <1>1 DEF FormsInv, FormsSeeded, SectionsOf
  <1>7. GitAlone'
    BY <1>1, LoadAt DEF FormsInv, GitAlone
  <1>8. PageFresh'
    BY <1>1, <1>4 DEF FormsInv, PageFresh, DoneElsewhere, NoLoad, Asking
  <1>9. SaysNew'
    BY <1>1, <1>4 DEF FormsInv, SaysNew
  <1> QED BY <1>1, <1>3, <1>5, <1>6, <1>7, <1>8, <1>9 DEF FormsInv, NothingClobbered

LEMMA RowReadKeeps ==
  ASSUME FormsInv, RowRead
  PROVE  FormsInv'
  <1>1. /\ load.at = "asked" /\ load'.at = "read" /\ load'.copy = row /\ outdated' = FALSE
        /\ load' = [at |-> "read", copy |-> row]
        /\ UNCHANGED <<which, row, changes, page, forms, saves, question, clobbered, crossed>>
    BY DEF RowRead
  <1>2. row \in RowRecords /\ outdated' \in BOOLEAN
    BY <1>1 DEF FormsInv, FormsTypes
  <1>3. FormsTypes'
    BY <1>1, <1>2 DEF FormsInv, FormsTypes
  <1>5. FormsBehind'
    BY <1>1, <1>2, RowAttributes DEF FormsInv, FormsBehind, RowBehind, Calm
  <1>6. FormsSeeded'
    BY <1>1 DEF FormsInv, FormsSeeded, SectionsOf
  <1>7. GitAlone'
    BY <1>1 DEF FormsInv, GitAlone
  <1>8. PageFresh'
    BY <1>1 DEF PageFresh
  <1>9. SaysNew'
    BY <1>1 DEF FormsInv, SaysNew
  <1> QED BY <1>1, <1>3, <1>5, <1>6, <1>7, <1>8, <1>9 DEF FormsInv, NothingClobbered

(* What RowArrives leaves in each form.                                    *)
LEMMA RowFills ==
  ASSUME FormsInv, RowArrives
  PROVE  /\ page' \in RowRecords /\ page' = load.copy /\ load' = NoLoad /\ load.at = "read"
         /\ UNCHANGED <<which, row, changes, saves, question, clobbered, crossed, outdated>>
         /\ \A s \in Section :
              forms'[s] = IF s \in SectionsOf /\ (which = "git" \/ (which = "board" /\ Refill(page', s)))
                          THEN Seeded(page', s) ELSE forms[s]
         /\ forms' \in [Section -> FormRecords]
  <1>1. /\ load.copy \in RowRecords /\ page' = load.copy /\ load' = NoLoad /\ load.at = "read"
        /\ forms' = [s \in Section |-> Filled(load.copy, s)]
        /\ UNCHANGED <<which, row, changes, saves, question, clobbered, crossed, outdated>>
    BY LoadAt DEF FormsInv, RowArrives
  <1>2. \A s \in Section : Filled(load.copy, s) = IF s \in SectionsOf /\ (which = "git" \/ (which = "board" /\ Refill(load.copy, s)))
                                 THEN Seeded(load.copy, s) ELSE forms[s]
    BY DEF Filled
  <1>3. \A s \in Section : Filled(load.copy, s) \in FormRecords
    <2>1. PICK c \in RowRecords : c = load.copy
      BY <1>1
    <2>2. \A s \in Section : Seeded(c, s) \in FormRecords /\ forms[s] \in FormRecords
      BY FormAttributes DEF FormsInv, FormsTypes
    <2> QED BY <1>2, <2>1, <2>2
  <1> QED BY <1>1, <1>2, <1>3

LEMMA RowArrivesKeeps ==
  ASSUME FormsInv, RowArrives
  PROVE  FormsInv'
  <1>1. /\ page' \in RowRecords /\ page' = load.copy /\ load' = NoLoad /\ load'.at = "no" /\ load.at = "read"
        /\ UNCHANGED <<which, row, changes, saves, question, clobbered, crossed, outdated>>
        /\ \A s \in Section :
              forms'[s] = IF s \in SectionsOf /\ (which = "git" \/ (which = "board" /\ Refill(page', s)))
                          THEN Seeded(page', s) ELSE forms[s]
        /\ forms' \in [Section -> FormRecords]
    BY RowFills DEF NoLoad
  <1>2. page' # None /\ \A s \in Section : /\ Seeded(page', s).open = TRUE /\ Seeded(page', s).touched = FALSE
                                           /\ Seeded(page', s).seeded = page'.says[s]
    BY <1>1, RowAttributes, FormAttributes
  <1>3. FormsTypes'
    BY <1>1 DEF FormsInv, FormsTypes
  <1>4. which \in {"filters", "epics"} => \A s \in Section : forms'[s] = forms[s]
    BY <1>1
  <1>5. FormsBehind'
    BY <1>1, <1>4 DEF FormsInv, FormsBehind, RowBehind, Calm
  <1>6. FormsSeeded'
    <2>1. SectionsOf' = SectionsOf /\ SectionsOf \subseteq Section
      BY <1>1, FormSections DEF SectionsOf
    <2>2. ASSUME NEW s \in SectionsOf, which \in {"board", "git"} PROVE forms'[s].open /\ forms'[s].seeded = page'.says[s]
      BY <1>1, <1>2, <2>1, <2>2 DEF Refill, FormsInv, FormsSeeded
    <2>3. ASSUME NEW s \in Section PROVE /\ forms'[s].open => s \in SectionsOf
                                         /\ forms'[s].touched => forms'[s].open
      BY <1>1, <1>2 DEF FormsInv, FormsSeeded
    <2>4. question' # None => question' \in SectionsOf
      BY <1>1 DEF FormsInv, FormsSeeded
    <2> QED BY <1>1, <1>2, <2>1, <2>2, <2>3, <2>4 DEF FormsSeeded
  <1>7. GitAlone'
    BY <1>1 DEF FormsInv, GitAlone
  <1>8. PageFresh'
    BY <1>1, <1>2 DEF PageFresh, DoneElsewhere, FormsInv, GitAlone
  <1>9. SaysNew'
    BY <1>1 DEF FormsInv, SaysNew
  <1> QED BY <1>1, <1>3, <1>5, <1>6, <1>7, <1>8, <1>9 DEF FormsInv, NothingClobbered

(* Only what the forms hold changes.                                       *)
LEMMA FormsFilledKeep ==
  ASSUME FormsInv, UNCHANGED <<which, row, changes, page, load, saves, clobbered, crossed, outdated>>,
         forms' \in [Section -> FormRecords],
         question' # None => question' \in SectionsOf /\ page # None,
         which = "git" /\ question' # None => load.at = "no" /\ \A v \in saves : ~v.mine,
         \A s \in Section :
            /\ forms'[s].touched => forms'[s].open
            /\ forms'[s].open => page # None /\ s \in SectionsOf
            /\ page # None /\ which \in {"board", "git"} /\ s \in SectionsOf => forms'[s].open /\ forms'[s].seeded = page.says[s]
            /\ which \in {"filters", "epics"} =>
                  \/ forms'[s].ver = 0
                  \/ forms'[s].ver = forms[s].ver /\ forms'[s].seeded = forms[s].seeded
                  \/ page # None /\ forms'[s].ver = page.ver[s] /\ forms'[s].seeded = page.says[s]
  PROVE  FormsInv'
  <1>1. question' \in Section \cup {None}
    BY FormSections
  <1>2. FormsTypes'
    BY <1>1 DEF FormsInv, FormsTypes
  <1>3. FormsBehind'
    <2>1. ASSUME NEW s \in Calm, which \in {"filters", "epics"}
          PROVE  /\ forms'[s].ver <= row.ver[s]
                 /\ forms'[s].ver = row.ver[s] /\ forms'[s].ver # 0 => forms'[s].seeded = row.says[s]
      <3>1. row.ver[s] \in Nat /\ s \in Section
        BY RowAttributes DEF FormsInv, FormsTypes, Calm
      <3> QED BY <2>1, <3>1 DEF FormsInv, FormsBehind, RowBehind, Calm
    <2> QED BY <2>1 DEF FormsInv, FormsBehind, RowBehind, Calm
  <1>4. FormsSeeded'
    BY FormSections DEF FormsInv, FormsSeeded, SectionsOf
  <1>5. GitAlone'
    BY DEF FormsInv, GitAlone
  <1>6. PageFresh'
    BY DEF FormsInv, PageFresh, DoneElsewhere
  <1>7. SaysNew'
    BY DEF FormsInv, SaysNew
  <1> QED BY <1>2, <1>3, <1>4, <1>5, <1>6, <1>7 DEF FormsInv, NothingClobbered

(* Drafts, typing and what is asked.                                       *)
LEMMA DraftsKeep ==
  ASSUME FormsInv, NEW s \in Section, OpenDraft(s) \/ CloseDraft(s) \/ TypeInto(s) \/ Asks(s)
  PROVE  FormsInv'
  <1>1. /\ UNCHANGED <<which, row, changes, page, load, saves, clobbered, crossed, outdated>>
        /\ forms \in [Section -> FormRecords] /\ \A t \in Section : forms[t] \in FormRecords
    BY DEF OpenDraft, CloseDraft, TypeInto, Asks, FormsInv, FormsTypes
  <1>2. /\ Closed \in FormRecords /\ [Closed EXCEPT !.open = TRUE] \in FormRecords
        /\ Closed.open = FALSE /\ Closed.touched = FALSE /\ Closed.ver = 0
        /\ [Closed EXCEPT !.open = TRUE].touched = FALSE /\ [Closed EXCEPT !.open = TRUE].ver = 0
    BY DEF Closed, FormRecords
  <1>3. page # None => page \in RowRecords
    BY DEF FormsInv, FormsTypes
  <1>4. CASE OpenDraft(s)
    <2>1. /\ which \in {"filters", "epics"} /\ page # None /\ question' = question
          /\ forms' = [t \in Section |->
                        IF t # s THEN Closed
                        ELSE IF s \in page.there THEN Seeded(page, s)
                        ELSE [Closed EXCEPT !.open = TRUE]]
      BY <1>4 DEF OpenDraft
    <2>2. PICK c \in RowRecords : c = page
      BY <1>3, <2>1
    <2>3. /\ Seeded(c, s) \in FormRecords /\ Seeded(c, s).touched = FALSE
          /\ Seeded(c, s).seeded = c.says[s] /\ Seeded(c, s).ver = c.ver[s]
      BY FormAttributes
    <2>4. forms' \in [Section -> FormRecords]
      BY <1>2, <2>1, <2>2, <2>3
    <2>5. \A t \in Section : forms'[t].touched = FALSE
      BY <1>2, <2>1, <2>2, <2>3
    <2>6. \A t \in Section : forms'[t].ver = 0 \/ (forms'[t].ver = page.ver[t] /\ forms'[t].seeded = page.says[t])
      BY <1>2, <2>1, <2>2, <2>3
    <2>7. question' # None => question' \in SectionsOf
      BY <2>1 DEF FormsInv, FormsSeeded
    <2> QED BY <1>1, <2>1, <2>4, <2>5, <2>6, <2>7, FormSections, FormsFilledKeep
  <1>5. CASE CloseDraft(s)
    BY <1>5, <1>1, <1>2, FormsFilledKeep DEF CloseDraft, FormsInv, FormsSeeded
  <1>6. CASE TypeInto(s)
    BY <1>6, <1>1, FormsFilledKeep DEF TypeInto, FormRecords, FormsInv, FormsSeeded, GitAlone
  <1>7. CASE Asks(s)
    BY <1>7, <1>1, FormsFilledKeep DEF Asks, Saving, FormsInv, FormsSeeded
  <1> QED BY <1>4, <1>5, <1>6, <1>7

LEMMA CancelsKeeps ==
  ASSUME FormsInv, Cancels
  PROVE  FormsInv'
  BY FormsFilledKeep DEF Cancels, FormsInv, FormsSeeded, FormsTypes

(* The server's row only grows in version where it is written, unless      *)
(* requests cross.                                                         *)
LEMMA RowGrows ==
  ASSUME FormsInv, row' \in RowRecords, crossed \subseteq crossed', UNCHANGED <<which, page>>,
         load' = load \/ load' = Asking, forms' = forms,
         \A s \in Calm' : row'.ver[s] >= row.ver[s] /\ (row'.ver[s] = row.ver[s] => row'.says[s] = row.says[s]),
         \A v \in saves' : \/ v \in saves /\ (v.at = "checked" /\ v.s \in Calm' => row'.ver[v.s] = row.ver[v.s])
                           \/ v.at = "refused"
                           \/ v.at = "done" /\ v.copy = row'
  PROVE  FormsBehind'
  <1>0. Calm' \subseteq Calm /\ Calm' \subseteq Section
    BY DEF Calm
  <1>1. \A s \in Section : /\ row.ver[s] \in Nat /\ row'.ver[s] \in Nat /\ row.says[s] \in Nat /\ row'.says[s] \in Nat
    BY RowAttributes DEF FormsInv, FormsTypes
  <1>2. ASSUME NEW c \in RowRecords, RowBehind(c)
        PROVE  \A s \in Calm' : c.ver[s] <= row'.ver[s] /\ (c.ver[s] = row'.ver[s] => c.says[s] = row'.says[s])
    BY <1>0, <1>1, <1>2, RowAttributes DEF RowBehind
  <1>3. page # None => RowBehind(page)'
    BY <1>2 DEF FormsInv, FormsTypes, FormsBehind, RowBehind
  <1>4. load'.at = "read" => RowBehind(load.copy)' /\ load' = load
    BY LoadAt, <1>2 DEF FormsInv, FormsBehind, Asking, RowBehind
  <1>5. ASSUME NEW v \in saves', v.at = "done" PROVE RowBehind(v.copy)'
    BY <1>5, <1>2, <1>0, <1>1 DEF FormsInv, FormsTypes, FormsBehind, RowBehind
  <1>6. which \in {"filters", "epics"} =>
         \A s \in Calm' :
            /\ forms[s].ver <= row'.ver[s]
            /\ forms[s].ver = row'.ver[s] /\ forms[s].ver # 0 => forms[s].seeded = row'.says[s]
    <2>1. \A s \in Section : forms[s].ver \in Nat
      BY DEF FormsInv, FormsTypes, FormRecords
    <2> QED BY <1>0, <1>1, <2>1 DEF FormsInv, FormsBehind
  <1>7. ASSUME NEW v \in saves', v.at = "sent", v.ver # None, v.s \in Calm'
        PROVE  v.ver <= row'.ver[v.s] /\ (v.ver = row'.ver[v.s] => v.seen = row'.says[v.s])
    <2>1. v \in saves /\ v.s \in Section /\ v.ver \in Nat
      BY <1>7, SaveAttributes DEF FormsInv, FormsTypes
    <2> QED BY <1>0, <1>1, <1>7, <2>1 DEF FormsInv, FormsBehind
  <1>8. ASSUME NEW v \in saves', v.at = "checked", v.s \in Calm'
        PROVE  v.base = row'.ver[v.s] /\ (v.ver # None => v.seen = row'.says[v.s])
    BY <1>0, <1>8 DEF FormsInv, FormsBehind
  <1> QED BY <1>3, <1>4, <1>5, <1>6, <1>7, <1>8 DEF FormsBehind

LEMMA RowOf ==
  ASSUME NEW a, NEW f, NEW g, NEW c \in [there : {a}, says : {f}, ver : {g}]
  PROVE  c = [there |-> a, says |-> f, ver |-> g]
  OBVIOUS

(* What writing a section does to the row.                                 *)
LEMMA RowWritten ==
  ASSUME FormsTypes, NEW s \in Section, NEW n \in Nat, NEW b \in Nat
  PROVE  /\ Written(s, n, b) \in RowRecords
         /\ \A t \in Section : /\ Written(s, n, b).ver[t] = IF t \in SameRow(s) THEN b + 1 ELSE row.ver[t]
                               /\ Written(s, n, b).says[t] = IF t = s THEN n ELSE row.says[t]
  <1> DEFINE f == [row.says EXCEPT ![s] = n]
             g == [t \in Section |-> IF t \in SameRow(s) THEN b + 1 ELSE row.ver[t]]
             w == [there |-> row.there \cup {s}, says |-> f, ver |-> g]
  <1>1. /\ row.there \in SUBSET Section /\ row.says \in [Section -> Nat]
        /\ \A t \in Section : row.ver[t] \in Nat /\ row.says[t] \in Nat
    BY RowAttributes DEF FormsTypes
  <1>3. f \in [Section -> Nat] /\ g \in [Section -> Nat]
    BY <1>1
  <1>4. \A t \in Section : f[t] = IF t = s THEN n ELSE row.says[t]
    BY <1>1
  <1>5. \A t \in Section : g[t] = IF t \in SameRow(s) THEN b + 1 ELSE row.ver[t]
    OBVIOUS
  <1>6. Written(s, n, b) = w
    <2> DEFINE x == Written(s, n, b)
               R == [there : {row.there \cup {s}}, says : {f}, ver : {g}]
    <2>1. x \in R
      BY DEF Written, FormsTypes, RowRecords
    <2> HIDE DEF x, f, g
    <2> QED BY <2>1, RowOf DEF x
  <1> HIDE DEF f, g
  <1>7. w \in RowRecords /\ w.ver = g /\ w.says = f
    BY <1>1, <1>3 DEF RowRecords
  <1> QED BY <1>4, <1>5, <1>6, <1>7

(* A write that crosses none raises the version that the server has, and no *)
(* save of its row is prepared.                                            *)
LEMMA WriteGrows ==
  ASSUME FormsInv, NEW s \in Section, NEW b \in Nat, NEW others, crossed' = crossed \cup Crossing(s, others, b),
         NEW t \in Section, t \in Calm', t \in SameRow(s)
  PROVE  b = row.ver[t] /\ \A v \in others : v.at = "checked" => v.s \notin SameRow(s)
  BY DEF Crossing, Calm, SameRow, FormsInv, SaysNew

LEMMA SaveAnswering ==
  ASSUME NEW v \in SaveRecords, NEW c
  PROVE  [v EXCEPT !.at = "done", !.copy = c]
           = [s |-> v.s, at |-> "done", mine |-> v.mine, says |-> v.says, ver |-> v.ver, seen |-> v.seen, base |-> v.base, copy |-> c]
  <1> DEFINE x == [v EXCEPT !.at = "done", !.copy = c]
             r == [s |-> v.s, at |-> "done", mine |-> v.mine, says |-> v.says, ver |-> v.ver, seen |-> v.seen, base |-> v.base, copy |-> c]
             R == [s : {v.s}, at : {"done"}, mine : {v.mine}, says : {v.says}, ver : {v.ver}, seen : {v.seen}, base : {v.base}, copy : {c}]
  <1>1. x \in R /\ r \in R
    BY DEF SaveRecords
  <1> HIDE DEF x, r
  <1>2. x = r
    BY <1>1
  <1> QED BY <1>2 DEF x, r

(* What checking a save leaves of it.                                      *)
LEMMA SaveChecking ==
  ASSUME FormsInv, NEW v \in saves, SaveChecked(v)
  PROVE  /\ UNCHANGED <<which, row, changes, page, load, forms, question, tests, clobbered, crossed, outdated>> /\ v.at = "sent"
         /\ \E w \in SaveRecords :
              /\ saves' = (saves \ {v}) \cup {w}
              /\ w.mine = v.mine /\ w.s = v.s /\ w.says = v.says /\ w.ver = v.ver /\ w.seen = v.seen
              /\ (w.at = "refused" \/ (w.at = "checked" /\ w.base = row.ver[v.s] /\ Accepts(v)))
  <1>1. /\ v \in SaveRecords /\ v.s \in Section /\ row.ver[v.s] \in Nat
        /\ UNCHANGED <<which, row, changes, page, load, forms, question, tests, clobbered, crossed, outdated>> /\ v.at = "sent"
    BY SaveAttributes, RowAttributes DEF SaveChecked, FormsInv, FormsTypes
  <1>2. PICK r : r = [v EXCEPT !.at = "refused"]
    OBVIOUS
  <1>3. PICK c : c = [v EXCEPT !.at = "checked", !.base = row.ver[v.s]]
    OBVIOUS
  <1>4. r \in SaveRecords /\ r.mine = v.mine /\ r.s = v.s /\ r.says = v.says /\ r.ver = v.ver /\ r.seen = v.seen /\ r.at = "refused"
    BY <1>1, <1>2 DEF SaveRecords
  <1>5. /\ c \in SaveRecords /\ c.mine = v.mine /\ c.s = v.s /\ c.says = v.says /\ c.ver = v.ver /\ c.seen = v.seen
        /\ c.at = "checked" /\ c.base = row.ver[v.s]
    BY <1>1, <1>3 DEF SaveRecords
  <1>6. saves' = (saves \ {v}) \cup {IF Accepts(v) THEN c ELSE r}
    BY <1>2, <1>3 DEF SaveChecked
  <1> QED BY <1>1, <1>4, <1>5, <1>6

LEMMA SaveCheckedKeeps ==
  ASSUME FormsInv, NEW v \in saves, SaveChecked(v)
  PROVE  FormsInv'
  <1>1. UNCHANGED <<which, row, changes, page, load, forms, question, tests, clobbered, crossed, outdated>> /\ v.at = "sent"
    BY SaveChecking
  <1>2. PICK w \in SaveRecords :
              /\ saves' = (saves \ {v}) \cup {w}
              /\ w.mine = v.mine /\ w.s = v.s /\ w.says = v.says /\ w.ver = v.ver /\ w.seen = v.seen
              /\ (w.at = "refused" \/ (w.at = "checked" /\ w.base = row.ver[v.s] /\ Accepts(v)))
    BY SaveChecking
  <1>3. FormsTypes'
    BY <1>1, <1>2 DEF FormsInv, FormsTypes
  <1>4. FormsBehind'
    BY <1>1, <1>2 DEF Accepts, FormsInv, FormsBehind, RowBehind, Calm
  <1>5. FormsSeeded'
    BY <1>1 DEF FormsInv, FormsSeeded, SectionsOf
  <1>6. GitAlone'
    BY <1>1, <1>2 DEF FormsInv, GitAlone
  <1>7. PageFresh'
    <2>1. \A u : u.at = "done" => (u \in saves' <=> u \in saves)
      BY <1>1, <1>2
    <2> QED BY <1>1, <2>1 DEF FormsInv, PageFresh, DoneElsewhere
  <1>8. SaysNew'
    BY <1>1, <1>2 DEF Coming, FormsInv, SaysNew
  <1> QED BY <1>1, <1>3, <1>4, <1>5, <1>6, <1>7, <1>8 DEF FormsInv, NothingClobbered

(* What writing a save leaves of it and of the row.                        *)
LEMMA SaveWriting ==
  ASSUME FormsInv, NEW v \in saves, SaveWritten(v)
  PROVE  /\ UNCHANGED <<which, changes, page, load, forms, question, tests, outdated>> /\ v.at = "checked"
         /\ row' \in RowRecords
         /\ \A t \in Section : /\ row'.says[t] \in {row.says[t], v.says}
                               /\ (row'.ver[t] <= row.ver[t] + 1 \/ row'.ver[t] <= v.base + 1)
                               /\ which = "board" => row'.ver[t] = row'.ver[v.s]
         /\ crossed \subseteq crossed'
         /\ clobbered' \subseteq clobbered \cup crossed'
         /\ \A t \in Calm' : /\ row'.ver[t] \in row.ver[t]..row.ver[t] + 1
                             /\ row'.ver[t] = row.ver[t] => row'.says[t] = row.says[t]
         /\ \A u \in saves \ {v} : u.at = "checked" /\ u.s \in Calm' => row'.ver[u.s] = row.ver[u.s]
         /\ \E w \in SaveRecords :
              /\ saves' = (saves \ {v}) \cup {w}
              /\ w.mine = v.mine /\ w.s = v.s
              /\ \/ w.at = "done" /\ w.copy = row'
                 \/ w.at = "refused" /\ row' = row
  <1>1. /\ v \in SaveRecords /\ v.s \in Section /\ v.says \in Nat /\ v.base \in Nat /\ row \in RowRecords
        /\ UNCHANGED <<which, changes, page, load, forms, question, tests, outdated>> /\ v.at = "checked"
        /\ \A u \in saves : u.s \in Section
    BY SaveAttributes DEF SaveWritten, FormsInv, FormsTypes
  <1>2. \A t \in Section : row.ver[t] \in Nat /\ row.says[t] \in Nat
    BY <1>1, RowAttributes
  <1>3. which = "board" => \A t \in Section : row.ver[t] = row.ver[v.s]
    BY <1>1 DEF FormsInv, SaysNew
  <1>4. CASE which = "git" /\ v.base = 0 /\ row.ver[v.s] # 0
    <2>1. saves' = (saves \ {v}) \cup {[v EXCEPT !.at = "refused"]} /\ UNCHANGED <<row, clobbered, crossed>>
      BY <1>4 DEF SaveWritten
    <2>2. /\ [v EXCEPT !.at = "refused"] \in SaveRecords /\ [v EXCEPT !.at = "refused"].at = "refused"
          /\ [v EXCEPT !.at = "refused"].mine = v.mine /\ [v EXCEPT !.at = "refused"].s = v.s
      BY <1>1 DEF SaveRecords
    <2>3. \A t \in Section : row.ver[t] \in row.ver[t]..row.ver[t] + 1 /\ row.ver[t] <= row.ver[t] + 1
      BY <1>2
    <2>4. Calm' \subseteq Section
      BY DEF Calm
    <2>5. \A t \in Section : /\ row'.says[t] \in {row.says[t], v.says}
                             /\ (row'.ver[t] <= row.ver[t] + 1 \/ row'.ver[t] <= v.base + 1)
                             /\ which = "board" => row'.ver[t] = row'.ver[v.s]
      BY <1>3, <2>1, <2>3
    <2>6. \A t \in Calm' : /\ row'.ver[t] \in row.ver[t]..row.ver[t] + 1
                           /\ row'.ver[t] = row.ver[t] => row'.says[t] = row.says[t]
      BY <2>1, <2>3, <2>4
    <2> QED BY <1>1, <2>1, <2>2, <2>5, <2>6
  <1>5. CASE ~(which = "git" /\ v.base = 0 /\ row.ver[v.s] # 0)
    <2>1. /\ row' = (IF Another(v) THEN row ELSE Written(v.s, v.says, Base(v)))
          /\ saves' = (saves \ {v}) \cup {[v EXCEPT !.at = "done", !.copy = row']}
          /\ clobbered' = clobbered \cup (IF v.ver # None /\ row.says[v.s] # v.seen THEN {v.s} ELSE {})
          /\ crossed' = crossed \cup Crossing(v.s, saves \ {v}, Base(v))
      BY <1>5 DEF SaveWritten
    <2>2. Base(v) \in Nat /\ Base(v) \in {row.ver[v.s], v.base} /\ v.s \in SameRow(v.s) /\ Calm' \subseteq Section
      BY <1>1, <1>2 DEF Base, SameRow, Calm
    <2>3. /\ row' \in RowRecords
          /\ \A t \in Section : /\ (row'.says[t] = row.says[t] \/ (t = v.s /\ row'.says[t] = v.says /\ row'.ver[t] = Base(v) + 1))
                                /\ (row'.ver[t] = row.ver[t] \/ (t \in SameRow(v.s) /\ row'.ver[t] = Base(v) + 1))
                                /\ which = "board" => row'.ver[t] = row'.ver[v.s]
      <3>1. CASE Another(v)
        BY <1>1, <1>3, <2>1, <3>1
      <3>2. CASE ~Another(v)
        BY <2>1, <3>2, <1>1, <2>2, RowWritten DEF FormsInv, SameRow
      <3> QED BY <3>1, <3>2
    <2>4. ASSUME NEW t \in Calm', t \in SameRow(v.s)
          PROVE  Base(v) = row.ver[t] /\ \A u \in saves \ {v} : u.at = "checked" => u.s \notin SameRow(v.s)
      BY <1>1, <2>1, <2>2, <2>4, WriteGrows
    <2>5. \A t \in Calm' : /\ row'.ver[t] \in row.ver[t]..row.ver[t] + 1
                           /\ row'.ver[t] = row.ver[t] => row'.says[t] = row.says[t]
      BY <1>2, <2>2, <2>3, <2>4
    <2>6. \A u \in saves \ {v} : u.at = "checked" /\ u.s \in Calm' => row'.ver[u.s] = row.ver[u.s]
      BY <1>1, <2>3, <2>4
    <2>7. crossed \subseteq crossed' /\ clobbered' \subseteq clobbered \cup crossed'
      BY <2>1, <1>1 DEF Calm, FormsInv, FormsBehind
    <2>8. PICK w : w = [s |-> v.s, at |-> "done", mine |-> v.mine, says |-> v.says, ver |-> v.ver, seen |-> v.seen, base |-> v.base, copy |-> row']
      OBVIOUS
    <2>9. saves' = (saves \ {v}) \cup {w}
      BY <1>1, <2>1, <2>8, SaveAnswering
    <2>10. w \in SaveRecords /\ w.mine = v.mine /\ w.s = v.s /\ w.at = "done" /\ w.copy = row'
      BY <1>1, <2>3, <2>8, SaveAttributes DEF SaveRecords
    <2>11. \A t \in Section : /\ row'.says[t] \in {row.says[t], v.says}
                              /\ (row'.ver[t] <= row.ver[t] + 1 \/ row'.ver[t] <= v.base + 1)
      BY <2>2, <2>3, <1>1, <1>3, <1>2 DEF SameRow
    <2> QED BY <1>1, <2>3, <2>5, <2>6, <2>7, <2>9, <2>10, <2>11
  <1> QED BY <1>4, <1>5

LEMMA SaveWrittenKeeps ==
  ASSUME FormsInv, NEW v \in saves, SaveWritten(v)
  PROVE  FormsInv'
  <1>1. PICK w \in SaveRecords :
          /\ saves' = (saves \ {v}) \cup {w}
          /\ w.mine = v.mine
          /\ \/ w.at = "done" /\ w.copy = row'
             \/ w.at = "refused" /\ row' = row
    BY SaveWriting
  <1>2. /\ UNCHANGED <<which, changes, page, load, forms, question, outdated>> /\ v.at = "checked"
        /\ row' \in RowRecords
        /\ \A t \in Section : row'.says[t] \in {row.says[t], v.says} /\ (which = "board" => row'.ver[t] = row'.ver[v.s])
        /\ crossed \subseteq crossed' /\ clobbered' \subseteq clobbered \cup crossed'
        /\ \A u \in saves \ {v} : u.at = "checked" /\ u.s \in Calm' => row'.ver[u.s] = row.ver[u.s]
    BY SaveWriting
  <1>3. v \in SaveRecords /\ v.s \in Section /\ row \in RowRecords
    BY SaveAttributes DEF FormsInv, FormsTypes
  <1>4. FormsTypes'
    BY <1>1, <1>2 DEF FormsInv, FormsTypes
  <1>5. FormsBehind'
    <2>1. \A t \in Calm' : t \in Section /\ row.ver[t] \in Nat
      BY <1>3, RowAttributes DEF Calm
    <2>2. \A t \in Calm' : row'.ver[t] >= row.ver[t] /\ (row'.ver[t] = row.ver[t] => row'.says[t] = row.says[t])
      BY <2>1, SaveWriting
    <2> QED BY <1>1, <1>2, <2>2, RowGrows
  <1>6. FormsSeeded'
    BY <1>2 DEF FormsInv, FormsSeeded, SectionsOf
  <1>7. GitAlone'
    BY <1>1, <1>2 DEF FormsInv, GitAlone
  <1>8. PageFresh'
    <2>1. SUFFICES ASSUME ~outdated, ~DoneElsewhere'
                   PROVE  /\ load.at = "read" => load.copy = row'
                          /\ load.at = "no" =>
                               /\ \A u \in saves' : u.at = "done" => u.copy = row'
                               /\ (\E u \in saves' : u.at = "done") \/ (page # None /\ page = row')
      BY <1>2 DEF PageFresh
    <2>2. ~DoneElsewhere
      BY <1>1, <1>2, <1>3, <2>1 DEF DoneElsewhere
    <2>3. CASE w.at = "done" /\ w.copy = row'
      BY <1>1, <1>2, <2>1, <2>3, <2>2 DEF DoneElsewhere, FormsInv, GitAlone
    <2>4. CASE w.at = "refused" /\ row' = row
      BY <1>1, <1>2, <2>4, <2>1, <2>2 DEF FormsInv, PageFresh
    <2> QED BY <1>1, <2>3, <2>4
  <1>9. SaysNew'
    BY <1>1, <1>2, <1>3 DEF Coming, SaysNew, FormsInv
  <1>10. NothingClobbered'
    BY <1>2 DEF FormsInv, NothingClobbered
  <1> QED BY <1>4, <1>5, <1>6, <1>7, <1>8, <1>9, <1>10 DEF FormsInv

(* Someone else saves.                                                     *)
LEMMA OthersSaveKeeps ==
  ASSUME FormsInv, NEW s \in Section, NEW b \in Nat, OthersSave(s, b)
  PROVE  FormsInv'
  <1>1. /\ changes' = changes + 1 /\ row' = Written(s, changes + 1, b) /\ outdated' = TRUE
        /\ crossed' = crossed \cup Crossing(s, saves, b)
        /\ UNCHANGED <<which, page, load, forms, saves, question, clobbered>>
    BY DEF OthersSave
  <1>2. changes \in Nat /\ changes' \in Nat /\ outdated' \in BOOLEAN
    BY <1>1 DEF FormsInv, FormsTypes
  <1>3. /\ row' \in RowRecords
        /\ \A t \in Section : /\ row'.ver[t] = IF t \in SameRow(s) THEN b + 1 ELSE row.ver[t]
                              /\ row'.says[t] = IF t = s THEN changes + 1 ELSE row.says[t]
    BY <1>1, <1>2, RowWritten DEF FormsInv
  <1>4. FormsTypes'
    BY <1>1, <1>2, <1>3 DEF FormsInv, FormsTypes
  <1>5. FormsBehind'
    <2>1. \A t \in Section : row.ver[t] \in Nat
      BY RowAttributes DEF FormsInv, FormsTypes
    <2>2. /\ s \in SameRow(s) /\ Calm' \subseteq Section
          /\ \A t \in Calm' : t \in SameRow(s) => b = row.ver[t] /\ \A v \in saves : v.at = "checked" => v.s \notin SameRow(s)
      BY <1>1, WriteGrows DEF Calm, SameRow
    <2>3. \A t \in Calm' : row'.ver[t] >= row.ver[t] /\ (row'.ver[t] = row.ver[t] => row'.says[t] = row.says[t])
      BY <1>3, <2>1, <2>2
    <2>4. \A v \in saves : v.at = "checked" /\ v.s \in Calm' => row'.ver[v.s] = row.ver[v.s]
      BY <1>3, <2>2
    <2> QED BY <1>1, <1>3, <2>3, <2>4, RowGrows
  <1>6. FormsSeeded'
    BY <1>1 DEF FormsInv, FormsSeeded, SectionsOf
  <1>7. GitAlone'
    BY <1>1 DEF FormsInv, GitAlone
  <1>8. PageFresh'
    BY <1>1 DEF PageFresh
  <1>9. SaysNew'
    <2>1. SUFFICES ASSUME which = "board" PROVE SaysNew'
      BY <1>1 DEF SaysNew
    <2>2. \A t \in Section : /\ row.says[t] \in Nat
                             /\ page # None => page.says[t] \in Nat
                             /\ load.at = "read" => load.copy.says[t] \in Nat
      BY RowAttributes, LoadAt DEF FormsInv, FormsTypes
    <2>3. \A v \in saves : v.says \in Nat
      BY SaveAttributes DEF FormsInv, FormsTypes
    <2>4. \A t \in Section : /\ row'.says[t] <= changes'
                             /\ page # None => page.says[t] <= changes' /\ page.says[t] # changes + 1
                             /\ load.at = "read" => load.copy.says[t] <= changes'
      BY <1>1, <1>2, <1>3, <2>1, <2>2 DEF FormsInv, SaysNew
    <2>5. \A v \in saves : Coming(v) => v.says <= changes' /\ v.says # changes + 1
      BY <1>1, <1>2, <2>1, <2>3 DEF FormsInv, SaysNew
    <2>6. \A v \in saves : Coming(v) => \A t \in Section : v.says # row'.says[t]
      BY <1>3, <2>1, <2>5 DEF FormsInv, SaysNew
    <2>7. load.at = "read" /\ page # None =>
             \A t \in Section : page.says[t] = row'.says[t] => load.copy.says[t] = page.says[t]
      BY <1>3, <2>1, <2>4 DEF FormsInv, SaysNew
    <2>8. \A t, u \in Section : row'.ver[t] = row'.ver[u]
      BY <1>3, <2>1 DEF SameRow
    <2> QED BY <1>1, <2>1, <2>4, <2>5, <2>6, <2>7, <2>8 DEF FormsInv, SaysNew
  <1> QED BY <1>1, <1>4, <1>5, <1>6, <1>7, <1>8, <1>9 DEF FormsInv, NothingClobbered

(* A filter is deleted, an epic archived.                                  *)
LEMMA RowRemoved ==
  ASSUME FormsInv, NEW b \in Nat, ConfirmsRemoval(b)
  PROVE  /\ row' \in RowRecords /\ crossed \subseteq crossed' /\ Calm' \subseteq Section
         /\ \A t \in Section : row'.ver[t] <= row.ver[t] + 1 /\ row'.says[t] = row.says[t]
         /\ \A t \in Calm' : row'.ver[t] >= row.ver[t]
         /\ \A w \in saves' : /\ \/ w \in saves /\ (w.at = "checked" /\ w.s \in Calm' => row'.ver[w.s] = row.ver[w.s])
                                 \/ w \in SaveRecords /\ w.at = "refused"
                              /\ \E v \in saves : w.s = v.s
  <1>1. /\ row \in RowRecords /\ \A t \in Section : row.ver[t] \in Nat
        /\ \A v \in saves : v \in SaveRecords /\ v.s \in Section
        /\ which \in {"filters", "epics"} /\ question \in Section /\ b <= row.ver[question]
    BY RowAttributes, SaveAttributes DEF ConfirmsRemoval, FormsInv, FormsTypes, RowRecords
  <1>2. CASE which = "filters"
    <2>1. row' = [row EXCEPT !.there = @ \ {question}] /\ crossed' = crossed
      BY <1>2 DEF ConfirmsRemoval
    <2>2. row' \in RowRecords /\ row'.ver = row.ver /\ row'.says = row.says
      BY <1>1, <2>1 DEF RowRecords
    <2>3. ASSUME NEW w \in saves'
          PROVE  (w \in saves \/ (w \in SaveRecords /\ w.at = "refused")) /\ \E v \in saves : w.s = v.s
      BY <1>2, <1>1 DEF ConfirmsRemoval, SaveRecords
    <2> QED BY <1>1, <2>1, <2>2, <2>3 DEF Calm
  <1>3. CASE which # "filters"
    <2>1. row' = [row EXCEPT !.ver[question] = b + 1] /\ saves' = saves /\ crossed' = crossed \cup Crossing(question, saves, b)
      BY <1>3 DEF ConfirmsRemoval
    <2>2. /\ row' \in RowRecords /\ row'.says = row.says
          /\ \A t \in Section : row'.ver[t] = IF t = question THEN b + 1 ELSE row.ver[t]
      BY <1>1, <2>1, RowAttributes DEF RowRecords
    <2>3. SameRow(question) = {question}
      BY <1>1 DEF SameRow
    <2>4. question \in Calm' => b = row.ver[question] /\ \A v \in saves : v.at = "checked" => v.s # question
      BY <1>1, <2>1, <2>3, WriteGrows
    <2> QED BY <1>1, <2>1, <2>2, <2>4 DEF Calm
  <1> QED BY <1>2, <1>3

LEMMA RemovalKeeps ==
  ASSUME FormsInv, NEW b \in Nat, ConfirmsRemoval(b)
  PROVE  FormsInv'
  <1>1. /\ question' = None /\ which \in {"filters", "epics"} /\ changes' = changes + 1
        /\ load' = Asking /\ load'.at = "asked"
        /\ UNCHANGED <<which, page, forms, clobbered, outdated>>
    BY DEF ConfirmsRemoval, Asking
  <1>2. changes' \in Nat /\ \A t \in Section : row.ver[t] \in Nat
    BY <1>1, RowAttributes DEF FormsInv, FormsTypes
  <1>3. /\ row' \in RowRecords /\ crossed \subseteq crossed' /\ Calm' \subseteq Section
        /\ \A t \in Calm' : row'.ver[t] >= row.ver[t] /\ row'.says[t] = row.says[t]
        /\ \A w \in saves' : \/ w \in saves /\ (w.at = "checked" /\ w.s \in Calm' => row'.ver[w.s] = row.ver[w.s])
                             \/ w \in SaveRecords /\ w.at = "refused"
    BY RowRemoved
  <1>4. FormsTypes'
    BY <1>1, <1>2, <1>3 DEF FormsInv, FormsTypes
  <1>5. FormsBehind'
    BY <1>1, <1>3, RowGrows
  <1>6. FormsSeeded'
    BY <1>1 DEF FormsInv, FormsSeeded, SectionsOf
  <1>7. GitAlone' /\ SaysNew'
    BY <1>1 DEF GitAlone, SaysNew
  <1>8. PageFresh'
    BY <1>1 DEF PageFresh
  <1> QED BY <1>1, <1>3, <1>4, <1>5, <1>6, <1>7, <1>8 DEF FormsInv, NothingClobbered

(* A form is sent.                                                         *)
LEMMA SendsFormKeeps ==
  ASSUME FormsInv, NEW s \in SectionsOf, SendsForm(s), page # None, question' = None,
         which = "git" => load.at = "no" /\ \A v \in saves : ~v.mine,
         UNCHANGED <<which, row, page, load, forms, clobbered, crossed, outdated>>
  PROVE  FormsInv'
  <1>1. PICK w : w = [s |-> s, at |-> "sent", mine |-> TRUE, says |-> changes + 1,
                      ver |-> VersionSent(s), seen |-> forms[s].seeded, base |-> 0, copy |-> None]
    OBVIOUS
  <1>2. saves' = saves \cup {w} /\ changes' = changes + 1
    BY <1>1 DEF SendsForm
  <1>3. /\ s \in Section /\ changes \in Nat /\ page \in RowRecords
        /\ which \in {"board", "filters", "epics", "git"}
        /\ \A t \in Section : forms[t].seeded \in Nat /\ forms[t].ver \in Nat
    BY FormSections DEF FormsInv, FormsTypes, FormRecords
  <1>4. page.ver[s] \in Nat /\ page.says[s] \in Nat
    BY <1>3, RowAttributes
  <1>5. VersionSent(s) \in Nat \cup {None}
    BY <1>3, <1>4 DEF VersionSent
  <1>6. w \in SaveRecords
    BY <1>1, <1>3, <1>5 DEF SaveRecords
  <1>7. w.s = s /\ w.at = "sent" /\ w.mine = TRUE /\ w.says = changes + 1 /\ w.ver = VersionSent(s) /\ w.seen = forms[s].seeded
    BY <1>1
  <1>8. FormsTypes'
    BY <1>2, <1>3, <1>6, <1>7 DEF FormsInv, FormsTypes
  <1>9. w.ver # None /\ s \in Calm => w.ver <= row.ver[s] /\ (w.ver = row.ver[s] => w.seen = row.says[s])
    <2>1. SUFFICES ASSUME w.ver # None, s \in Calm PROVE w.ver <= row.ver[s] /\ (w.ver = row.ver[s] => w.seen = row.says[s])
      OBVIOUS
    <2>2. CASE which \in {"board", "git"}
      BY <1>7, <2>1, <2>2, <1>3 DEF VersionSent, FormsInv, FormsSeeded, FormsBehind, RowBehind
    <2>3. CASE which \in {"filters", "epics"}
      <3>1. w.ver = forms[s].ver /\ forms[s].ver # 0
        BY <1>7, <2>1, <2>3 DEF VersionSent
      <3> QED BY <1>3, <1>7, <2>1, <2>3, <3>1 DEF FormsInv, FormsBehind
    <2> QED BY <1>3, <2>2, <2>3
  <1>10. FormsBehind'
    BY <1>2, <1>7, <1>9 DEF FormsInv, FormsBehind, RowBehind, Calm
  <1>11. FormsSeeded'
    BY DEF FormsInv, FormsSeeded, SectionsOf
  <1>12. GitAlone'
    BY <1>2 DEF FormsInv, GitAlone
  <1>13. PageFresh'
    BY <1>2, <1>7 DEF FormsInv, PageFresh, DoneElsewhere
  <1>14. SaysNew'
    <2>1. SUFFICES ASSUME which = "board" PROVE SaysNew'
      BY DEF SaysNew
    <2>2. \A t \in Section : /\ row.says[t] \in Nat /\ page.says[t] \in Nat
                             /\ load.at = "read" => load.copy.says[t] \in Nat
      BY <1>3, RowAttributes, LoadAt DEF FormsInv, FormsTypes
    <2>3. \A v \in saves : v.says \in Nat
      BY SaveAttributes DEF FormsInv, FormsTypes
    <2>4. \A t \in Section : /\ row.says[t] <= changes' /\ row.says[t] # changes + 1
                             /\ page.says[t] <= changes' /\ page.says[t] # changes + 1
                             /\ load.at = "read" => load.copy.says[t] <= changes' /\ load.copy.says[t] # changes + 1
      BY <1>2, <1>3, <2>1, <2>2 DEF FormsInv, SaysNew
    <2>5. \A v \in saves : Coming(v) => v.says <= changes' /\ v.says # changes + 1
      BY <1>2, <1>3, <2>1, <2>3 DEF FormsInv, SaysNew
    <2>6. ASSUME NEW v \in saves', Coming(v)
          PROVE  /\ v.says <= changes'
                 /\ \A u \in saves' : Coming(u) /\ u.says = v.says => u = v
                 /\ \A t \in Section : /\ v.says # row.says[t] /\ v.says # page.says[t]
                                       /\ load.at = "read" => v.says # load.copy.says[t]
      <3>1. CASE v = w
        BY <1>2, <1>3, <1>7, <2>4, <2>5, <3>1
      <3>2. CASE v \in saves
        BY <1>2, <1>3, <1>7, <2>1, <2>5, <2>6, <3>2 DEF FormsInv, SaysNew
      <3> QED BY <1>2, <3>1, <3>2
    <2> QED BY <2>1, <2>4, <2>6 DEF FormsInv, SaysNew
  <1> QED BY <1>8, <1>10, <1>11, <1>12, <1>13, <1>14 DEF FormsInv, NothingClobbered

LEMMA SubmitsFormKeep ==
  ASSUME FormsInv, (\E s \in Section : SaveForm(s)) \/ ConfirmsInForm
  PROVE  FormsInv'
  <1>1. ASSUME NEW s \in Section, SaveForm(s) PROVE FormsInv'
    BY <1>1, SendsFormKeeps DEF SaveForm, FormsInv, FormsSeeded, Saving
  <1>2. CASE ConfirmsInForm
    <2>1. /\ question # None /\ question' = None /\ question \in SectionsOf /\ question \in Section /\ page # None
          /\ UNCHANGED <<which, row, page, load, clobbered, crossed, outdated>>
      BY <1>2, FormSections DEF ConfirmsInForm, FormsInv, FormsSeeded
    <2>2. PICK s \in SectionsOf : s = question
      BY <2>1
    <2>3. CASE which = "git" /\ SendsForm(question) /\ UNCHANGED forms
      <3>1. load.at = "no" /\ \A v \in saves : ~v.mine
        BY <2>1, <2>3 DEF FormsInv, GitAlone
      <3> QED BY <2>1, <2>2, <2>3, <3>1, SendsFormKeeps
    <2>4. CASE /\ which = "board" /\ forms' = [forms EXCEPT ![question].touched = TRUE]
               /\ UNCHANGED <<saves, changes>>
      <3>1. s \in Section /\ page.there \subseteq Section /\ forms \in [Section -> FormRecords]
            /\ \A t \in Section : forms[t] \in FormRecords
        BY <2>1, <2>2, RowAttributes DEF FormsInv, FormsTypes
      <3>2. PICK f : f = [forms[s] EXCEPT !.touched = TRUE]
        OBVIOUS
      <3>3. f \in FormRecords /\ f.touched = TRUE /\ f.open = forms[s].open /\ f.seeded = forms[s].seeded /\ f.ver = forms[s].ver
        BY <3>1, <3>2 DEF FormRecords
      <3>4. \A t \in Section : forms'[t] = IF t = s THEN f ELSE forms[t]
        BY <2>2, <2>4, <3>1, <3>2
      <3>5. forms' \in [Section -> FormRecords]
        BY <2>2, <2>4, <3>1, <3>2, <3>3
      <3>6. forms[s].open
        BY <2>1, <2>2, <2>4 DEF FormsInv, FormsSeeded
      <3> QED BY <2>1, <2>4, <3>3, <3>4, <3>5, <3>6, FormsFilledKeep DEF FormsInv, FormsSeeded
    <2> QED BY <1>2, <2>3, <2>4 DEF ConfirmsInForm
  <1> QED BY <1>1, <1>2

(* The panel is left: what is under way is no longer its own.              *)
LEMMA ReopenKeeps ==
  ASSUME FormsInv, Reopen
  PROVE  FormsInv'
  <1> DEFINE Aside2(v) == [v EXCEPT !.mine = FALSE]
  <1>1. /\ question = None /\ question' = None /\ saves' = {Aside2(v) : v \in saves}
        /\ UNCHANGED <<which, row, changes, clobbered, crossed, outdated>>
    BY DEF Reopen
  <1>2. \A v \in SaveRecords : /\ Aside2(v) \in SaveRecords /\ Aside2(v).mine = FALSE
                               /\ Aside2(v).s = v.s /\ Aside2(v).at = v.at /\ Aside2(v).says = v.says
                               /\ Aside2(v).ver = v.ver /\ Aside2(v).seen = v.seen /\ Aside2(v).base = v.base /\ Aside2(v).copy = v.copy
    BY DEF SaveRecords
  <1> HIDE DEF Aside2
  <1>3. saves \subseteq SaveRecords
    BY DEF FormsInv, FormsTypes
  <1>4. \A w \in saves' : \E v \in saves : w = Aside2(v)
    BY <1>1
  <1>5. \A v \in saves : Aside2(v) \in saves'
    BY <1>1
  <1>6. CASE which = "board"
    <2>1. /\ page # None /\ forms' = [s \in Section |-> Seeded(page, s)] /\ page' = page /\ load' = load
      BY <1>6 DEF Reopen
    <2>2. PICK c \in RowRecords : c = page
      BY <2>1 DEF FormsInv, FormsTypes
    <2>3. /\ forms' \in [Section -> FormRecords]
          /\ \A s \in Section : forms'[s].touched = FALSE /\ forms'[s].open = TRUE /\ forms'[s].seeded = page.says[s]
      BY <2>1, <2>2, FormAttributes
    <2>4. FormsTypes'
      BY <1>1, <1>2, <1>3, <1>4, <2>1, <2>3 DEF FormsInv, FormsTypes
    <2>5. FormsBehind'
      <3>1. \A w \in saves' : w.at = "done" => RowBehind(w.copy)'
        BY <1>1, <1>2, <1>3, <1>4 DEF FormsInv, FormsBehind, RowBehind, Calm
      <3>2. \A w \in saves' : w.s \in Calm =>
              /\ w.at = "sent" /\ w.ver # None => w.ver <= row.ver[w.s] /\ (w.ver = row.ver[w.s] => w.seen = row.says[w.s])
              /\ w.at = "checked" => w.base = row.ver[w.s] /\ (w.ver # None => w.seen = row.says[w.s])
        BY <1>2, <1>3, <1>4 DEF FormsInv, FormsBehind
      <3>3. (page # None => RowBehind(page)') /\ (load.at = "read" => RowBehind(load.copy)')
        BY <1>1, <2>1 DEF FormsInv, FormsBehind, RowBehind, Calm
      <3> QED BY <1>1, <1>6, <2>1, <3>1, <3>2, <3>3 DEF FormsBehind, Calm
    <2>6. FormsSeeded'
      BY <1>1, <1>6, <2>1, <2>3, FormSections DEF FormsSeeded, SectionsOf
    <2>7. GitAlone'
      BY <1>1, <1>6 DEF GitAlone
    <2>8. PageFresh'
      <3>1. DoneElsewhere' <=> DoneElsewhere
        BY <1>1, <1>2, <1>3, <1>4, <1>5, <1>6 DEF DoneElsewhere
      <3>2. ~DoneElsewhere => (\A v \in saves : v.at # "done") /\ (\A v \in saves' : v.at # "done")
        BY <1>2, <1>3, <1>4, <1>6 DEF DoneElsewhere
      <3> QED BY <1>1, <2>1, <3>1, <3>2 DEF FormsInv, PageFresh
    <2>9. SaysNew'
      <3>1. ASSUME NEW w \in saves', Coming(w)
            PROVE  /\ w.says <= changes
                   /\ \A u \in saves' : Coming(u) /\ u.says = w.says => u = w
                   /\ \A s \in Section : /\ w.says # row.says[s]
                                         /\ page # None => w.says # page.says[s]
                                         /\ load.at = "read" => w.says # load.copy.says[s]
        <4>1. PICK v \in saves : w = Aside2(v)
          BY <1>4
        <4>2. Coming(v) /\ v.says = w.says
          BY <1>2, <1>3, <3>1, <4>1 DEF Coming
        <4>3. ASSUME NEW u \in saves', Coming(u), u.says = w.says PROVE u = w
          <5>1. PICK x \in saves : u = Aside2(x)
            BY <1>4
          <5>2. Coming(x) /\ x.says = v.says
            BY <1>2, <1>3, <4>2, <4>3, <5>1 DEF Coming
          <5>3. x = v
            BY <1>6, <4>2, <5>2 DEF FormsInv, SaysNew
          <5> QED BY <4>1, <5>1, <5>3
        <4> QED BY <1>6, <4>2, <4>3 DEF FormsInv, SaysNew
      <3> QED BY <1>1, <2>1, <3>1 DEF FormsInv, SaysNew
    <2> QED BY <1>1, <2>4, <2>5, <2>6, <2>7, <2>8, <2>9 DEF FormsInv, NothingClobbered
  <1>7. CASE which # "board"
    <2>1. /\ forms' = [s \in Section |-> Closed] /\ page' = None /\ load' = Asking /\ load'.at = "asked"
      BY <1>7 DEF Reopen, Asking
    <2>2. /\ forms' \in [Section -> FormRecords]
          /\ \A s \in Section : forms'[s].touched = FALSE /\ forms'[s].open = FALSE /\ forms'[s].ver = 0
      BY <2>1 DEF Closed, FormRecords
    <2>3. FormsTypes'
      BY <1>1, <1>2, <1>3, <1>4, <2>1, <2>2 DEF FormsInv, FormsTypes
    <2>4. FormsBehind'
      <3>1. \A w \in saves' : w.at = "done" => RowBehind(w.copy)'
        BY <1>1, <1>2, <1>3, <1>4 DEF FormsInv, FormsBehind, RowBehind, Calm
      <3>2. \A w \in saves' : w.s \in Calm =>
              /\ w.at = "sent" /\ w.ver # None => w.ver <= row.ver[w.s] /\ (w.ver = row.ver[w.s] => w.seen = row.says[w.s])
              /\ w.at = "checked" => w.base = row.ver[w.s] /\ (w.ver # None => w.seen = row.says[w.s])
        BY <1>2, <1>3, <1>4 DEF FormsInv, FormsBehind
      <3>3. \A s \in Section : row.ver[s] \in Nat
        BY RowAttributes DEF FormsInv, FormsTypes
      <3> QED BY <1>1, <2>1, <2>2, <3>1, <3>2, <3>3 DEF FormsBehind, Calm
    <2>5. FormsSeeded'
      BY <1>1, <2>1, <2>2 DEF FormsSeeded
    <2>6. GitAlone'
      BY <1>1, <1>2, <1>3, <1>4 DEF GitAlone
    <2>7. PageFresh'
      BY <2>1 DEF PageFresh
    <2>8. SaysNew'
      BY <1>1, <1>7 DEF SaysNew
    <2> QED BY <1>1, <2>3, <2>4, <2>5, <2>6, <2>7, <2>8 DEF FormsInv, NothingClobbered
  <1> QED BY <1>6, <1>7

(* A save that is over leaves what the others are.                         *)
LEMMA SaveOver ==
  ASSUME FormsInv, NEW v \in saves, saves' = saves \ {v},
         UNCHANGED <<which, row, changes, forms, page, question, clobbered, crossed>>,
         \/ load' = load /\ outdated' = TRUE
         \/ load' = load /\ outdated' = outdated /\ v.at = "refused"
         \/ load' = Asking /\ outdated' = outdated /\ (which = "git" => v.mine)
  PROVE  FormsInv'
  <1>1. (load' = load \/ load'.at = "asked") /\ outdated' \in BOOLEAN
    <2>1. load' = load \/ load'.at = "asked"
      BY DEF Asking
    <2>2. outdated' = TRUE \/ outdated' = outdated
      OBVIOUS
    <2>3. outdated' \in BOOLEAN
      BY <2>2 DEF FormsInv, FormsTypes
    <2> QED BY <2>1, <2>3
  <1>2. FormsTypes'
    BY <1>1 DEF FormsInv, FormsTypes
  <1>3. FormsBehind'
    BY <1>1 DEF FormsInv, FormsBehind, RowBehind, Calm
  <1>4. FormsSeeded'
    BY DEF FormsInv, FormsSeeded, SectionsOf
  <1>5. GitAlone'
    <2>1. SUFFICES ASSUME which = "git" PROVE GitAlone'
      BY DEF GitAlone
    <2>2. CASE load' = load
      BY <2>1, <2>2 DEF FormsInv, GitAlone
    <2>3. CASE v.mine
      <3>1. (\A u \in saves' : ~u.mine) /\ question = None
        BY <2>1, <2>3 DEF FormsInv, GitAlone
      <3> QED BY <3>1 DEF GitAlone
    <2> QED BY <2>1, <2>2, <2>3
  <1>6. PageFresh'
    BY <1>1 DEF DoneElsewhere, FormsInv, PageFresh, Asking
  <1>7. SaysNew'
    BY <1>1 DEF FormsInv, SaysNew
  <1> QED BY <1>2, <1>3, <1>4, <1>5, <1>6, <1>7 DEF FormsInv, NothingClobbered

(* A save that succeeded is answered.                                      *)
LEMMA SaveAnsweredKeeps ==
  ASSUME FormsInv, NEW v \in saves, SaveAnswered(v)
  PROVE  FormsInv'
  <1>1. v.at = "done" /\ saves' = saves \ {v} /\ UNCHANGED <<which, row, changes, question, clobbered, crossed>>
    BY DEF SaveAnswered
  <1>2. v.copy \in RowRecords /\ v \in SaveRecords
    BY <1>1 DEF FormsInv, FormsTypes
  <1>3. forms \in [Section -> FormRecords] /\ \A s \in Section : forms[s] \in FormRecords
    BY DEF FormsInv, FormsTypes
  <1>4. CASE which # "git"
    <2>1. /\ load' = Asking /\ load'.at = "asked" /\ UNCHANGED <<page, outdated>>
          /\ forms' = (IF which = "board" \/ ~v.mine THEN forms ELSE [s \in Section |-> Closed])
      BY <1>4 DEF SaveAnswered, AfterSave, Asking
    <2>2. CASE which = "board" \/ ~v.mine
      BY <1>1, <1>4, <2>1, <2>2, SaveOver
    <2>3. CASE which # "board" /\ v.mine
      <3>1. /\ forms' = [s \in Section |-> Closed] /\ forms' \in [Section -> FormRecords]
            /\ \A s \in Section : forms'[s].open = FALSE /\ forms'[s].touched = FALSE /\ forms'[s].ver = 0
        BY <2>1, <2>3 DEF Closed, FormRecords
      <3>2. \A s \in Section : row.ver[s] \in Nat
        BY RowAttributes DEF FormsInv, FormsTypes
      <3>3. FormsTypes'
        BY <1>1, <2>1, <3>1 DEF FormsInv, FormsTypes
      <3>4. FormsBehind'
        BY <1>1, <2>1, <3>1, <3>2 DEF FormsInv, FormsBehind, RowBehind, Calm
      <3>5. FormsSeeded'
        BY <1>1, <1>4, <2>1, <2>3, <3>1 DEF FormsInv, FormsSeeded, SectionsOf
      <3>6. GitAlone' /\ SaysNew'
        BY <1>1, <1>4, <2>3 DEF GitAlone, SaysNew
      <3>7. PageFresh'
        BY <2>1 DEF PageFresh
      <3> QED BY <1>1, <3>3, <3>4, <3>5, <3>6, <3>7 DEF FormsInv, NothingClobbered
    <2> QED BY <2>2, <2>3
  <1>5. CASE which = "git" /\ ~v.mine
    <2>1. load' = load /\ outdated' = TRUE /\ UNCHANGED <<page, forms>>
      BY <1>5, <1>2 DEF SaveAnswered
    <2> QED BY <1>1, <2>1, SaveOver
  <1>6. CASE which = "git" /\ v.mine
    <2>1. PICK c \in RowRecords : c = v.copy
      BY <1>2
    <2>2. /\ load' = load /\ page' = c /\ forms' = [forms EXCEPT ![1] = Seeded(c, 1)]
          /\ outdated' => outdated
      BY <1>6, <2>1 DEF SaveAnswered
    <2>3. outdated' = outdated
      BY <1>6, <2>1 DEF SaveAnswered, FormsInv, FormsTypes
    <2>4. /\ 1 \in Section /\ SectionsOf = {1} /\ SectionsOf' = {1}
          /\ Seeded(c, 1) \in FormRecords /\ Seeded(c, 1).open = TRUE /\ Seeded(c, 1).touched = FALSE
          /\ Seeded(c, 1).seeded = c.says[1]
      BY <1>1, <1>6, FormsAssumption, FormAttributes DEF SectionsOf
    <2>5. forms' \in [Section -> FormRecords] /\ \A s \in Section : forms'[s] = IF s = 1 THEN Seeded(c, 1) ELSE forms[s]
      BY <1>3, <2>2, <2>4
    <2>6. page' # None /\ load.at = "no" /\ question = None /\ \A u \in saves' : ~u.mine
      BY <1>1, <1>6, <2>1, <2>2, RowAttributes DEF FormsInv, GitAlone
    <2>7. FormsTypes'
      BY <1>1, <2>1, <2>2, <2>3, <2>5 DEF FormsInv, FormsTypes
    <2>8. FormsBehind'
      BY <1>1, <1>6, <2>1, <2>2, <2>6 DEF FormsInv, FormsBehind, RowBehind, Calm
    <2>9. FormsSeeded'
      BY <2>2, <2>4, <2>5, <1>1, <2>6 DEF FormsInv, FormsSeeded
    <2>10. GitAlone'
      BY <1>1, <2>2, <2>6 DEF GitAlone
    <2>11. PageFresh'
      <3>1. SUFFICES ASSUME ~outdated, ~DoneElsewhere'
                     PROVE  (\A u \in saves' : u.at # "done") /\ page' = row
        BY <1>1, <2>2, <2>3, <2>6 DEF PageFresh
      <3>2. \A u \in saves' : u.at # "done"
        BY <1>1, <2>6, <3>1 DEF DoneElsewhere
      <3>3. ~DoneElsewhere
        BY <1>1, <1>6, <3>2 DEF DoneElsewhere
      <3>4. v.copy = row
        BY <1>1, <2>6, <3>1, <3>3 DEF FormsInv, PageFresh
      <3> QED BY <2>1, <2>2, <3>2, <3>4
    <2>12. SaysNew'
      BY <1>1, <1>6 DEF SaysNew
    <2> QED BY <1>1, <2>7, <2>8, <2>9, <2>10, <2>11, <2>12 DEF FormsInv, NothingClobbered
  <1> QED BY <1>4, <1>5, <1>6

LEMMA SaveEndsKeep ==
  ASSUME FormsInv, NEW v \in saves, SaveRefused(v) \/ SaveLost(v)
  PROVE  FormsInv'
  BY SaveOver DEF SaveRefused, SaveLost

LEMMA BasesCount == FormsInv => Bases \subseteq Nat
  BY RowAttributes DEF Bases, FormsInv, FormsTypes

LEMMA FormsStep == FormsInv /\ [Next]_vars => FormsInv'
  <1> SUFFICES ASSUME FormsInv, [Next]_vars PROVE FormsInv'
    OBVIOUS
  <1>1. FormsUser \/ FormsAnswers \/ UNCHANGED formsState
    BY PartSteps
  <1>0. Bases \subseteq Nat
    BY BasesCount
  <1>2. CASE FormsUser
    BY <1>0, <1>2, DraftsKeep, SubmitsFormKeep, OthersSaveKeeps, ReopenKeeps, LoadingKeeps DEF FormsUser
  <1>3. CASE FormsAnswers
    BY <1>0, <1>3, RowReadKeeps, RowArrivesKeeps, LoadingKeeps, SubmitsFormKeep, RemovalKeeps, CancelsKeeps,
       SaveCheckedKeeps, SaveWrittenKeeps, SaveAnsweredKeeps, SaveEndsKeep DEF FormsAnswers
  <1>4. CASE UNCHANGED formsState
    BY <1>4, FormsFilledKeep DEF formsState, FormsInv, FormsSeeded, FormsTypes, GitAlone
  <1> QED BY <1>1, <1>2, <1>3, <1>4

LEMMA SettingsHold == FormsInv => SettingsRight
  BY DEF SettingsRight, OwnSavesShown, FormsInv, NoLoad, DoneElsewhere, PageFresh

\* No bulk edit of the list and no form of the settings writes over what its user
\* never saw, unless two requests that had read the same version of a row both wrote
\* it (`overlapped`, `crossed`): the version is compared on a row read without a
\* lock.  At rest the settings' page shows what is stored.  This holds whatever is
\* saved by others meanwhile, in whichever order loads and saves are answered.
THEOREM UnseenIsKept == Spec => []NothingUnseenOverwritten
  <1>1. ListInv /\ FormsInv => NothingUnseenOverwritten
    BY SettingsHold DEF ListInv, NothingUnseenOverwritten
  <1> QED BY <1>1, ListInitially, ListStep, FormsInitially, FormsStep, PTL DEF Spec

-----------------------------------------------------------------------------
(* Forms: how many changes there were.                                     *)

(* What is stored was written by a change that was counted, and each save  *)
(* that is yet to be served will be one.                                   *)
Pending(S) == {v.says : v \in {u \in S : Coming(u)}}
FormsBounded ==
    /\ \A v \in saves : v.s \in SectionsOf /\ (Coming(v) => v.says \in 1..changes)
    /\ \A u, v \in saves : Coming(u) /\ Coming(v) /\ u.says = v.says => u = v
    /\ \A v \in saves : v.at = "checked" => v.base + Cardinality(Pending(saves)) <= changes + 1
    /\ \A s \in Section : row.says[s] <= changes /\ row.ver[s] + Cardinality(Pending(saves)) <= changes + 1
    /\ tests.typed \/ tests.testing => which = "git"

LEMMA BoundedInitially == Init => FormsBounded
  <1> SUFFICES ASSUME Init PROVE FormsBounded
    OBVIOUS
  <1>1. FormsInit
    BY DEF Init
  <1>2. changes = 0 /\ saves = {} /\ tests = NoTest
    BY <1>1 DEF FormsInit
  <1>3. \E there \in {Section, {1}}, first \in {0, 1} :
          row = [there |-> there, says |-> [s \in Section |-> 0],
                 ver |-> [s \in Section |-> IF s \in there THEN first ELSE 0]]
    BY <1>1 DEF FormsInit
  <1>4. \A s \in Section : row.says[s] = 0 /\ row.ver[s] \in {0, 1}
    BY <1>3
  <1>5. Pending(saves) = {} /\ Cardinality({}) = 0
    BY <1>2, FS_EmptySet DEF Pending
  <1> QED BY <1>2, <1>4, <1>5 DEF FormsBounded, NoTest

LEMMA PendingCounted ==
  ASSUME FormsTypes, FormsBounded, NEW S \in SUBSET Pending(saves)
  PROVE  /\ IsFiniteSet(S) /\ Cardinality(S) \in Nat /\ Cardinality(S) <= Cardinality(Pending(saves))
         /\ Cardinality(Pending(saves)) \in Nat /\ IsFiniteSet(Pending(saves)) /\ Pending(saves) \subseteq 1..changes
  <1>0. changes \in Int
    BY DEF FormsTypes
  <1>1. Pending(saves) \subseteq 1..changes /\ IsFiniteSet(1..changes)
    BY <1>0, FS_Interval DEF Pending, FormsBounded
  <1>2. IsFiniteSet(Pending(saves))
    BY <1>1, FS_Subset
  <1> QED BY <1>1, <1>2, FS_Subset, FS_CardinalityType

(* No save is begun: those under way are some of those there were, and the *)
(* row goes on by no more than is counted.                                 *)
LEMMA BoundedKept ==
  ASSUME FormsTypes, FormsBounded, UNCHANGED which, row \in RowRecords, row' \in RowRecords, changes' \in {changes, changes + 1},
         tests' \in {tests, NoTest} \/ which = "git",
         \A w \in saves' : /\ w.s \in SectionsOf /\ (Coming(w) => \E v \in saves : Coming(v) /\ v.says = w.says)
                           /\ w.at = "checked" => \/ w.base \in {row.ver[s] : s \in Section}
                                                  \/ \E v \in saves : v.at = "checked" /\ w.base = v.base,
         \A u, w \in saves' : Coming(u) /\ Coming(w) /\ u.says = w.says => u = w,
         NEW n \in {0, 1}, n + Cardinality(Pending(saves')) <= (changes' - changes) + Cardinality(Pending(saves)),
         \A s \in Section : row'.says[s] <= changes',
         \A s \in Section : row'.ver[s] <= row.ver[s] + n \/ \E v \in saves : v.at = "checked" /\ row'.ver[s] <= v.base + n
  PROVE  FormsBounded'
  <1>1. changes \in Nat /\ \A s \in Section : row.ver[s] \in Nat /\ row'.ver[s] \in Nat
    BY RowAttributes DEF FormsTypes
  <1>2. Pending(saves') \subseteq Pending(saves)
    BY DEF Pending
  <1>3. Cardinality(Pending(saves')) \in Nat /\ Cardinality(Pending(saves)) \in Nat /\ \A v \in saves : v.base \in Nat
    BY <1>2, PendingCounted, SaveAttributes DEF FormsTypes
  <1>4. \A s \in Section : row'.says[s] <= changes' /\ row'.ver[s] + Cardinality(Pending(saves')) <= changes' + 1
    BY <1>1, <1>3 DEF FormsBounded
  <1>5. \A w \in saves' : w.s \in SectionsOf /\ (Coming(w) => w.says \in 1..changes')
    BY <1>1 DEF FormsBounded
  <1>6. (tests.typed \/ tests.testing => which = "git")'
    BY DEF FormsBounded, NoTest
  <1>7. SectionsOf' = SectionsOf
    BY DEF SectionsOf
  <1>8. \A w \in saves' : w.at = "checked" => w.base + Cardinality(Pending(saves')) <= changes' + 1
    BY <1>1, <1>3 DEF FormsBounded
  <1> QED BY <1>4, <1>5, <1>6, <1>7, <1>8 DEF FormsBounded, Pending, Coming

(* The row stays, and no save is begun.                                    *)
LEMMA BoundedLeft ==
  ASSUME FormsInv, FormsBounded, UNCHANGED <<which, row, changes>>, tests' \in {tests, NoTest} \/ which = "git",
         saves' \subseteq saves
  PROVE  FormsBounded'
  <1>1. row \in RowRecords /\ FormsTypes /\ \A s \in Section : row.ver[s] \in Nat
    BY RowAttributes DEF FormsInv, FormsTypes
  <1>2. Pending(saves') \subseteq Pending(saves)
    BY DEF Pending
  <1>3. 0 + Cardinality(Pending(saves')) <= (changes' - changes) + Cardinality(Pending(saves))
    BY <1>1, <1>2, PendingCounted DEF FormsTypes
  <1> QED BY <1>1, <1>3, BoundedKept DEF FormsBounded
LEMMA SendsFormBounded ==
  ASSUME FormsInv, FormsBounded, NEW s \in SectionsOf, SendsForm(s), UNCHANGED <<which, row, tests>>
  PROVE  FormsBounded'
  <1>1. PICK w : /\ w.s = s /\ w.at = "sent" /\ w.says = changes + 1
                 /\ saves' = saves \cup {w} /\ changes' = changes + 1
    BY DEF SendsForm
  <1>2. /\ changes \in Nat /\ FormsTypes /\ \A t \in Section : row.ver[t] \in Nat /\ row.says[t] \in Nat
    BY RowAttributes DEF FormsInv, FormsTypes
  <1>3. Pending(saves') = Pending(saves) \cup {changes + 1}
    BY <1>1 DEF Pending, Coming
  <1>4. /\ Cardinality(Pending(saves)) \in Nat /\ Cardinality(Pending(saves')) = Cardinality(Pending(saves)) + 1
    <2>1. IsFiniteSet(Pending(saves)) /\ Cardinality(Pending(saves)) \in Nat /\ changes + 1 \notin Pending(saves)
      BY <1>2, PendingCounted
    <2> QED BY <1>3, <2>1, FS_AddElement
  <1>5. \A t \in Section : row'.says[t] <= changes' /\ row'.ver[t] + Cardinality(Pending(saves')) <= changes' + 1
    BY <1>1, <1>2, <1>4 DEF FormsBounded
  <1>6. \A v \in saves' : v.s \in SectionsOf /\ (Coming(v) => v.says \in 1..changes')
    BY <1>1, <1>2 DEF FormsBounded
  <1>7. \A u, v \in saves' : Coming(u) /\ Coming(v) /\ u.says = v.says => u = v
    BY <1>1, <1>2 DEF FormsBounded
  <1>8. \A v \in saves' : v.at = "checked" => v.base + Cardinality(Pending(saves')) <= changes' + 1
    BY <1>1, <1>2, <1>4, SaveAttributes DEF FormsBounded, FormsTypes
  <1> QED BY <1>5, <1>6, <1>7, <1>8 DEF FormsBounded, Pending, SectionsOf, Coming

LEMMA SaveCheckedBounded ==
  ASSUME FormsInv, FormsBounded, NEW v \in saves, SaveChecked(v)
  PROVE  FormsBounded'
  <1>1. PICK w \in SaveRecords :
              /\ saves' = (saves \ {v}) \cup {w} /\ w.s = v.s /\ w.says = v.says
              /\ (w.at = "refused" \/ (w.at = "checked" /\ w.base = row.ver[v.s]))
    BY SaveChecking
  <1>2. UNCHANGED <<which, row, changes, tests>> /\ v.at = "sent" /\ v.s \in Section
    BY SaveChecking, SaveAttributes DEF FormsInv, FormsTypes
  <1>3. FormsTypes /\ row \in RowRecords /\ changes \in Nat /\ \A s \in Section : row.ver[s] \in Nat
    BY RowAttributes DEF FormsInv, FormsTypes
  <1>4. /\ \A u \in saves' : /\ u.s \in SectionsOf /\ (Coming(u) => \E x \in saves : Coming(x) /\ x.says = u.says)
                             /\ u.at = "checked" => \/ u.base \in {row.ver[s] : s \in Section}
                                                    \/ \E x \in saves : x.at = "checked" /\ u.base = x.base
        /\ \A t, u \in saves' : Coming(t) /\ Coming(u) /\ t.says = u.says => t = u
    BY <1>1, <1>2 DEF FormsBounded, Coming
  <1>5. Pending(saves') \subseteq Pending(saves)
    BY <1>4 DEF Pending
  <1>6. 0 + Cardinality(Pending(saves')) <= (changes' - changes) + Cardinality(Pending(saves))
    BY <1>2, <1>3, <1>5, PendingCounted
  <1>7. \A t \in Section : row'.says[t] <= changes' /\ row'.ver[t] <= row.ver[t] + 0
    BY <1>2, <1>3 DEF FormsBounded
  <1> QED BY <1>2, <1>3, <1>4, <1>6, <1>7, BoundedKept

LEMMA SaveWrittenBounded ==
  ASSUME FormsInv, FormsBounded, NEW v \in saves, SaveWritten(v)
  PROVE  FormsBounded'
  <1>1. PICK w \in SaveRecords :
          saves' = (saves \ {v}) \cup {w} /\ w.s = v.s /\ w.at \in {"done", "refused"}
    BY SaveWriting
  <1>2. /\ UNCHANGED <<which, changes, tests>> /\ row' \in RowRecords /\ v.at = "checked"
        /\ \A t \in Section : /\ row'.says[t] \in {row.says[t], v.says}
                              /\ (row'.ver[t] <= row.ver[t] + 1 \/ row'.ver[t] <= v.base + 1)
    BY SaveWriting
  <1>3. FormsTypes /\ row \in RowRecords /\ changes \in Nat /\ \A t \in Section : row.ver[t] \in Nat
    BY RowAttributes DEF FormsInv, FormsTypes
  <1>4. Pending(saves') = Pending(saves) \ {v.says} /\ v.says \in Pending(saves)
    BY <1>1, <1>2 DEF Pending, FormsBounded, Coming
  <1>5. Cardinality(Pending(saves)) \in Nat /\ Cardinality(Pending(saves')) = Cardinality(Pending(saves)) - 1
    BY <1>3, <1>4, PendingCounted, FS_RemoveElement
  <1>6. 1 + Cardinality(Pending(saves')) <= (changes' - changes) + Cardinality(Pending(saves))
    BY <1>2, <1>3, <1>5
  <1>7. \A t \in Section : row'.says[t] <= changes'
    BY <1>2, <1>3, RowAttributes DEF FormsBounded, Coming
  <1>8. \A t \in Section : row'.ver[t] <= row.ver[t] + 1 \/ \E u \in saves : u.at = "checked" /\ row'.ver[t] <= u.base + 1
    BY <1>2, <1>3
  <1>9. /\ \A u \in saves' : u.s \in SectionsOf /\ (u.at \in {"sent", "checked"} => u \in saves)
        /\ \A t, u \in saves' : Coming(t) /\ Coming(u) /\ t.says = u.says => t = u
    BY <1>1, <1>2 DEF FormsBounded, Coming
  <1>10. \A u \in saves' : /\ u.s \in SectionsOf /\ (Coming(u) => \E x \in saves : Coming(x) /\ x.says = u.says)
                           /\ u.at = "checked" => \/ u.base \in {row.ver[s] : s \in Section}
                                                  \/ \E x \in saves : x.at = "checked" /\ u.base = x.base
    BY <1>9 DEF Coming
  <1> QED BY <1>2, <1>3, <1>6, <1>7, <1>8, <1>9, <1>10, BoundedKept

LEMMA OthersBounded ==
  ASSUME FormsInv, FormsBounded, NEW b \in Nat, ConfirmsRemoval(b) \/ \E s \in Section : OthersSave(s, b)
  PROVE  FormsBounded'
  <1>1. UNCHANGED <<which, tests>> /\ changes' = changes + 1 /\ FormsTypes /\ row \in RowRecords /\ changes \in Nat
    BY DEF ConfirmsRemoval, OthersSave, FormsInv, FormsTypes
  <1>2. \A t \in Section : row.ver[t] \in Nat /\ row.says[t] \in Nat /\ row.says[t] <= changes
    BY <1>1, RowAttributes DEF FormsBounded
  <1>3. /\ row' \in RowRecords /\ \A t \in Section : row'.says[t] <= changes' /\ row'.ver[t] <= row.ver[t] + 1
        /\ \A w \in saves' : w.s \in SectionsOf /\ (w.at \in {"sent", "checked"} => w \in saves)
    <2>1. CASE ConfirmsRemoval(b)
      BY <2>1, RowRemoved, <1>1, <1>2 DEF FormsBounded
    <2>2. ASSUME NEW s \in Section, OthersSave(s, b)
          PROVE  row' \in RowRecords /\ saves' = saves /\ \A t \in Section : row'.says[t] <= changes' /\ row'.ver[t] <= row.ver[t] + 1
      <3>1. row' = Written(s, changes + 1, b) /\ saves' = saves /\ b <= row.ver[s]
        BY <1>1, <2>2 DEF OthersSave
      <3>2. \A t \in SameRow(s) : t \in Section => row.ver[t] = row.ver[s]
        BY DEF SameRow, FormsInv, SaysNew
      <3>3. /\ row' \in RowRecords
            /\ \A t \in Section : /\ row'.ver[t] = IF t \in SameRow(s) THEN b + 1 ELSE row.ver[t]
                                  /\ row'.says[t] = IF t = s THEN changes + 1 ELSE row.says[t]
        BY <1>1, <3>1, RowWritten
      <3> QED BY <1>1, <1>2, <3>1, <3>2, <3>3
    <2> QED BY <2>1, <2>2 DEF FormsBounded
  <1>4. /\ \A w \in saves' : /\ w.s \in SectionsOf /\ (Coming(w) => \E v \in saves : Coming(v) /\ v.says = w.says)
                             /\ w.at = "checked" => \/ w.base \in {row.ver[s] : s \in Section}
                                                    \/ \E v \in saves : v.at = "checked" /\ w.base = v.base
        /\ \A u, w \in saves' : Coming(u) /\ Coming(w) /\ u.says = w.says => u = w
    BY <1>3 DEF Coming, FormsBounded
  <1>5. Pending(saves') \subseteq Pending(saves)
    BY <1>4 DEF Pending
  <1>6. 1 + Cardinality(Pending(saves')) <= (changes' - changes) + Cardinality(Pending(saves))
    BY <1>1, <1>5, PendingCounted
  <1> QED BY <1>1, <1>3, <1>4, <1>6, BoundedKept

LEMMA ReopenBounded ==
  ASSUME FormsInv, FormsBounded, Reopen
  PROVE  FormsBounded'
  <1> DEFINE Closing(v) == [v EXCEPT !.mine = FALSE]
  <1>1. UNCHANGED <<which, row, changes>> /\ tests' = NoTest /\ saves' = {Closing(v) : v \in saves}
    BY DEF Reopen
  <1>2. FormsTypes /\ row \in RowRecords /\ changes \in Nat /\ saves \subseteq SaveRecords
    BY DEF FormsInv, FormsTypes
  <1>3. \A v \in saves : Closing(v).s = v.s /\ Closing(v).at = v.at /\ Closing(v).says = v.says /\ Closing(v).base = v.base
    BY <1>2 DEF SaveRecords
  <1> HIDE DEF Closing
  <1>4. /\ \A w \in saves' : /\ w.s \in SectionsOf /\ (Coming(w) => \E v \in saves : Coming(v) /\ v.says = w.says)
                             /\ w.at = "checked" => \/ w.base \in {row.ver[s] : s \in Section}
                                                    \/ \E v \in saves : v.at = "checked" /\ w.base = v.base
        /\ \A u, w \in saves' : Coming(u) /\ Coming(w) /\ u.says = w.says => u = w
    BY <1>1, <1>3 DEF FormsBounded, Coming
  <1>5. Pending(saves') \subseteq Pending(saves)
    BY <1>4 DEF Pending
  <1>6. 0 + Cardinality(Pending(saves')) <= (changes' - changes) + Cardinality(Pending(saves))
    BY <1>1, <1>2, <1>5, PendingCounted
  <1>7. \A t \in Section : row'.says[t] <= changes' /\ row'.ver[t] <= row.ver[t] + 0
    BY <1>1, <1>2, RowAttributes DEF FormsBounded
  <1> QED BY <1>1, <1>2, <1>4, <1>6, <1>7, BoundedKept

LEMMA BoundedStep == FormsInv /\ FormsBounded /\ [Next]_vars => FormsBounded'
  <1> SUFFICES ASSUME FormsInv, FormsBounded, [Next]_vars PROVE FormsBounded'
    OBVIOUS
  <1>0. Bases \subseteq Nat
    BY BasesCount
  <1>1. CASE UNCHANGED formsState
    BY <1>1, BoundedLeft DEF formsState
  <1>2. CASE FormsUser
    <2>1. ASSUME NEW s \in Section, OpenDraft(s) \/ CloseDraft(s) \/ TypeInto(s) \/ Asks(s) PROVE FormsBounded'
      BY <2>1, BoundedLeft DEF OpenDraft, CloseDraft, TypeInto, Asks
    <2>2. ASSUME NEW s \in Section, SaveForm(s) PROVE FormsBounded'
      BY <2>2, SendsFormBounded DEF SaveForm, FormsInv, FormsSeeded
    <2>3. CASE ToldOfChange \/ TestConnection
      BY <2>3, BoundedLeft DEF ToldOfChange, TestConnection
    <2> QED BY <1>0, <1>2, <2>1, <2>2, <2>3, OthersBounded, ReopenBounded DEF FormsUser
  <1>3. CASE FormsAnswers
    <2>1. CASE RowRead \/ RowArrives \/ RowFails \/ Cancels
      BY <2>1, BoundedLeft DEF RowRead, RowArrives, RowFails, Cancels
    <2>2. CASE TestAnswered
      BY <2>2, BoundedLeft DEF TestAnswered, FormsBounded
    <2>3. CASE ConfirmsInForm
      BY <2>3, SendsFormBounded, BoundedLeft DEF ConfirmsInForm, FormsInv, FormsSeeded
    <2>4. ASSUME NEW v \in saves, SaveAnswered(v) \/ SaveRefused(v) \/ SaveLost(v) PROVE FormsBounded'
      BY <2>4, BoundedLeft DEF SaveAnswered, SaveRefused, SaveLost
    <2> QED BY <1>0, <1>3, <2>1, <2>2, <2>3, <2>4, OthersBounded, SaveCheckedBounded, SaveWrittenBounded DEF FormsAnswers
  <1> QED BY <1>1, <1>2, <1>3, PartSteps

-----------------------------------------------------------------------------
(* What is typed into the board's settings.                                *)

(* Only a load takes what was typed away, unless the user does.            *)
LEMMA AnswersKeepTyped ==
  ASSUME FormsInv, which = "board", FormsAnswers, NEW s \in Section, forms[s].touched, ~forms'[s].touched
  PROVE  RowArrives
  <1>1. ASSUME NEW v \in saves, SaveAnswered(v) PROVE forms' = forms
    BY <1>1 DEF SaveAnswered
  <1>2. ASSUME ConfirmsInForm PROVE forms'[s].touched
    BY <1>2 DEF ConfirmsInForm, FormsInv, FormsTypes, FormRecords
  <1>3. ASSUME \/ RowRead \/ RowFails \/ TestAnswered \/ Cancels \/ \E b \in Bases : ConfirmsRemoval(b)
               \/ \E v \in saves : SaveChecked(v) \/ SaveWritten(v) \/ SaveRefused(v) \/ SaveLost(v)
        PROVE  forms' = forms
    BY <1>3 DEF RowRead, RowFails, TestAnswered, ConfirmsRemoval, Cancels, SaveChecked, SaveWritten, SaveRefused, SaveLost
  <1> QED BY <1>1, <1>2, <1>3 DEF FormsAnswers

(* A load takes it away only for what the server says now.                 *)
LEMMA LoadTakesTyped ==
  ASSUME FormsInv, which = "board", RowArrives, NEW s \in Section, forms[s].touched, ~forms'[s].touched
  PROVE  row.says[s] # forms[s].seeded
  BY RowFills DEF FormsInv, FormsSeeded, Refill, SaysNew

(* What the user does is counted.                                          *)
LEMMA FormsSteps ==
  ASSUME [Next]_vars, inputs \in Nat, inputs' = inputs
  PROVE  FormsAnswers \/ UNCHANGED formsState
  BY DEF Next, vars, Only, ByUser

LEMMA InputsCount == Init => inputs \in Nat
  BY DEF Init
LEMMA InputsGrow == inputs \in Nat /\ [Next]_vars => (inputs \in Nat)'
  BY DEF Next, vars, ByUser

\* Unless the panel is left, what is typed into a section of the board and not yet
\* saved is dropped only once that section says something else on the server than
\* when it was filled: whatever is saved of the other section, and however late
\* loads are answered.
THEOREM TypedIsKept == Spec => UnsavedKept
  <1>1. ASSUME FormsInv, inputs \in Nat, [Next]_vars
        PROVE  [\A s \in Section :
                  which = "board" /\ forms[s].touched /\ ~forms'[s].touched /\ inputs' = inputs =>
                     row.says[s] # forms[s].seeded]_forms
    BY <1>1, AnswersKeepTyped, LoadTakesTyped, FormsSteps DEF formsState
  <1> QED BY <1>1, FormsInitially, FormsStep, InputsCount, InputsGrow, PTL DEF Spec, UnsavedKept
-----------------------------------------------------------------------------
(* The lists managed in place: what is where.                              *)
SecretRecords == [row : Entry, secret : Nat]
OpRecords == [op : Operations[kind], row : Entry, seen : States(kind),
              answer : {"none", "ok", "lost", "refused"}, secret : Nat]
FetchRecords == [by : {"page", "poll"}, got : [Entry -> States(kind)] \cup {None}, then : SecretRecords \cup {None}]
QuestionRecords == [op : {op \in Operations[kind] : op.confirmed}, row : Entry, seen : States(kind)]

ManagedTypes ==
    /\ kind \in DOMAIN Operations
    /\ entries \in [Entry -> States(kind)] /\ secrets \in [Entry -> Nat]
    /\ roster \in [Entry -> States(kind)] \cup {None}
    /\ asked \in QuestionRecords \cup {None}
    /\ ops \subseteq OpRecords /\ fetches \subseteq FetchRecords
    /\ notice \in SecretRecords \cup {None}
    /\ ticking \in BOOLEAN /\ unsure \in BOOLEAN /\ foreign \subseteq Entry

(* Unless others changed something, the only load under way is from after  *)
(* the last change, or what changed is still to be told and loaded.        *)
OpChanged(o) == o.answer \in {"ok", "lost"} /\ o.op.to # "same"
RowsComing ==
    ~unsure =>
       /\ \A f, g \in fetches : f = g
       /\ \/ \E o \in ops : OpChanged(o)
          \/ fetches = {} /\ roster = entries
          \/ \E f \in fetches : f.got = None \/ f.got = entries

(* A secret that was made again is on its way to the page: with the answer *)
(* to the operation, then with the load that shows it.                     *)
Remade(o, e) == o.row = e /\ o.op.secret /\ o.answer \in {"ok", "lost"}
Carries(f, e) == f.then # None /\ f.then.row = e
SecretsFollowed ==
    \A e \in Entry \ foreign :
       /\ \A o \in ops : Remade(o, e) /\ (\A p \in ops : Remade(p, e) => p = o) => o.secret = secrets[e]
       /\ (\A p \in ops : ~Remade(p, e)) =>
             /\ \A f \in fetches : Carries(f, e) => f.then.secret = secrets[e]
             /\ notice # None /\ notice.row = e /\ (\A f \in fetches : ~Carries(f, e)) => notice.secret = secrets[e]

ManagedInv == ManagedTypes /\ RowsComing /\ SecretsFollowed

(* The states of a list's rows, and what its operations leave and load.    *)
LEMMA StatesOffered ==
  ASSUME NEW k, NEW op \in Operations[k]
  PROVE  (\A s \in op.from : s \in States(k)) /\ (\A s \in op.accepts : s \in States(k))
  BY DEF States

LEMMA WebhookOperations ==
  ASSUME NEW op \in Webhooks
  PROVE  op.to \in {"active", "paused", "none", "same"} /\ (op.loads \/ op.to = "same")
  <1>1. /\ [Create("create", "active") EXCEPT !.secret = TRUE].to = "active"
        /\ [Create("create", "active") EXCEPT !.secret = TRUE].loads = TRUE
    BY DEF Create, Op
  <1>2. [Op("rotate", {"active", "paused"}, "same", {"active", "paused"}, TRUE)
            EXCEPT !.secret = TRUE, !.loads = FALSE].to = "same"
    BY DEF Op
  <1>3. CASE op \in {Op("pause", {"active"}, "paused", {"active", "paused"}, FALSE),
                     Op("resume", {"paused"}, "active", {"active", "paused"}, FALSE),
                     Op("test", {"active", "paused"}, "same", {"active", "paused"}, FALSE),
                     Op("delete", {"active", "paused"}, "none", {"active", "paused"}, TRUE)}
    BY <1>3 DEF Op
  <1> QED BY <1>1, <1>2, <1>3 DEF Webhooks

LEMMA OperationsMade ==
  ASSUME NEW k \in DOMAIN Operations, NEW op \in Operations[k]
  PROVE  /\ op.to = "same" \/ op.to \in States(k)
         /\ op.loads \/ op.to = "same"
  <1>1. k \in {"members", "fields", "invitations", "webhooks", "sessions", "releases",
               "components", "labels", "views"}
    BY DEF Operations
  <1>2. CASE k = "members"
    <2>1. Operations[k] = Members
      BY <1>2 DEF Operations
    <2>2. op.to \in {"member", "lead", "none"} /\ op.loads = TRUE
      BY <2>1 DEF Members, Op, Create
    <2>3. "member" \in States(k)
      BY <2>1, StatesOffered DEF Members, Op, Create
    <2>4. "lead" \in States(k)
      BY <2>1, StatesOffered DEF Members, Op, Create
    <2>5. "none" \in States(k)
      <3>1. PICK other \in Operations[k] : other = Create("add", "member") /\ "none" \in other.from
        BY <2>1 DEF Members, Op, Create
      <3> QED BY <3>1, StatesOffered
    <2> QED BY <2>2, <2>3, <2>4, <2>5
  <1>3. CASE k = "fields"
    <2>1. Operations[k] = Fields
      BY <1>3 DEF Operations
    <2>2. op.to \in {"field", "none"} /\ op.loads = TRUE
      BY <2>1 DEF Fields, Op, Create
    <2>3. "field" \in States(k)
      BY <2>1, StatesOffered DEF Fields, Op, Create
    <2>4. "none" \in States(k)
      BY <2>1, StatesOffered DEF Fields, Op, Create
    <2> QED BY <2>2, <2>3, <2>4
  <1>4. CASE k = "invitations"
    <2>1. Operations[k] = Invitations
      BY <1>4 DEF Operations
    <2>2. op.to \in {"pending", "revoked"} /\ op.loads = TRUE
      BY <2>1 DEF Invitations, Op, Create
    <2>3. "pending" \in States(k)
      BY <2>1, StatesOffered DEF Invitations, Op, Create
    <2>4. "revoked" \in States(k)
      BY <2>1, StatesOffered DEF Invitations, Op, Create
    <2> QED BY <2>2, <2>3, <2>4
  <1>5. CASE k = "sessions"
    BY <1>5 DEF Operations, Sessions, Op, Create, States
  <1>6. CASE k = "releases"
    <2>1. Operations[k] = Releases
      BY <1>6 DEF Operations
    <2>2. op.to \in {"unreleased", "released", "archived"} /\ op.loads = TRUE
      BY <2>1 DEF Releases, Op, Create
    <2>3. "unreleased" \in States(k)
      BY <2>1, StatesOffered DEF Releases, Op, Create
    <2>4. "released" \in States(k)
      BY <2>1, StatesOffered DEF Releases, Op, Create
    <2>5. "archived" \in States(k)
      BY <2>1, StatesOffered DEF Releases, Op, Create
    <2> QED BY <2>2, <2>3, <2>4, <2>5
  <1>7. CASE k = "components"
    <2>1. Operations[k] = Components
      BY <1>7 DEF Operations
    <2>2. op.to \in {"component", "archived"} /\ op.loads = TRUE
      BY <2>1 DEF Components, Op, Create
    <2>3. "component" \in States(k)
      BY <2>1, StatesOffered DEF Components, Op, Create
    <2>4. "archived" \in States(k)
      BY <2>1, StatesOffered DEF Components, Op, Create
    <2> QED BY <2>2, <2>3, <2>4
  <1>8. CASE k = "labels"
    <2>1. Operations[k] = Labels
      BY <1>8 DEF Operations
    <2>2. op.to \in {"label", "none"} /\ op.loads = TRUE
      BY <2>1 DEF Labels, Op, Create
    <2>3. "label" \in States(k)
      BY <2>1, StatesOffered DEF Labels, Op, Create
    <2>4. "none" \in States(k)
      BY <2>1, StatesOffered DEF Labels, Op, Create
    <2> QED BY <2>2, <2>3, <2>4
  <1>9. CASE k = "views"
    <2>1. Operations[k] = Views
      BY <1>9 DEF Operations
    <2>2. op.to \in {"mine", "none"} /\ op.loads = TRUE
      BY <2>1 DEF Views, Op, Create
    <2>3. "mine" \in States(k)
      BY <2>1, StatesOffered DEF Views, Op, Create
    <2>4. "none" \in States(k)
      BY <2>1, StatesOffered DEF Views, Op, Create
    <2> QED BY <2>2, <2>3, <2>4
  <1>10. CASE k = "webhooks"
    <2>1. Operations[k] = Webhooks
      BY <1>10 DEF Operations
    <2>2. op.to \in {"active", "paused", "none", "same"} /\ (op.loads \/ op.to = "same")
      BY <2>1, WebhookOperations
    <2>3. "active" \in States(k)
      BY <2>1, StatesOffered DEF Webhooks, Op, Create
    <2>4. "paused" \in States(k)
      BY <2>1, StatesOffered DEF Webhooks, Op, Create
    <2>5. "none" \in States(k)
      <3>1. PICK other \in Operations[k] : other = [Create("create", "active") EXCEPT !.secret = TRUE]
        BY <2>1 DEF Webhooks
      <3>2. "none" \in other.from
        BY <3>1 DEF Create, Op
      <3> QED BY <3>2, StatesOffered
    <2> QED BY <2>2, <2>3, <2>4, <2>5
  <1> QED BY <1>1, <1>2, <1>3, <1>4, <1>5, <1>6, <1>7, <1>8, <1>9, <1>10

LEMMA SecretShown == \A e \in Entry, n \in Nat : [row |-> e, secret |-> n] \in SecretRecords /\ [row |-> e, secret |-> n] # None
  BY ManagedAssumption DEF SecretRecords

LEMMA OpAttributes ==
  ASSUME NEW o \in OpRecords
  PROVE  /\ o.op \in Operations[kind] /\ o.row \in Entry /\ o.seen \in States(kind)
         /\ o.answer \in {"none", "ok", "lost", "refused"} /\ o.secret \in Nat
  BY DEF OpRecords

LEMMA FetchAttributes ==
  ASSUME NEW f \in FetchRecords
  PROVE  /\ f.by \in {"page", "poll"} /\ f.got \in [Entry -> States(kind)] \cup {None}
         /\ f.then \in SecretRecords \cup {None}
  BY DEF FetchRecords

LEMMA FetchMade ==
  ASSUME NEW by \in {"page", "poll"}, NEW s \in SecretRecords \cup {None}
  PROVE  Fetch(by, s) \in FetchRecords /\ Fetch(by, s).got = None /\ Fetch(by, s).then = s
  BY DEF Fetch, FetchRecords

LEMMA ManagedTypesKept ==
  ASSUME ManagedInv, kind' = kind, entries' \in [Entry -> States(kind)], secrets' \in [Entry -> Nat],
         roster' \in [Entry -> States(kind)] \cup {None}, asked' \in QuestionRecords \cup {None},
         ops' \subseteq OpRecords, fetches' \subseteq FetchRecords, notice' \in SecretRecords \cup {None},
         ticking' \in BOOLEAN, unsure' \in BOOLEAN, foreign' \subseteq Entry
  PROVE  ManagedTypes'
  BY DEF ManagedInv, ManagedTypes, OpRecords, FetchRecords, QuestionRecords

(* An entry that is not there is in a state of every list.                 *)
LEMMA NothingListed ==
  ASSUME NEW k \in DOMAIN Operations
  PROVE  "none" \in States(k)
  <1>1. ASSUME NEW op \in Operations[k], "none" \in op.from PROVE "none" \in States(k)
    BY <1>1, StatesOffered
  <1>2. ASSUME NEW op \in Operations[k], op.to = "none" PROVE "none" \in States(k)
    BY <1>2, OperationsMade
  <1>3. k \in {"members", "fields", "invitations", "webhooks", "sessions", "releases",
               "components", "labels", "views"}
    BY DEF Operations
  <1>4. CASE k = "members"
    <2>1. PICK op \in Operations[k] : op = Create("add", "member")
      BY <1>4 DEF Operations, Members
    <2> QED BY <1>1, <2>1 DEF Create, Op
  <1>5. CASE k = "fields"
    <2>1. PICK op \in Operations[k] : op = Create("add", "field")
      BY <1>5 DEF Operations, Fields
    <2> QED BY <1>1, <2>1 DEF Create, Op
  <1>6. CASE k = "invitations"
    <2>1. PICK op \in Operations[k] : op = Create("send", "pending")
      BY <1>6 DEF Operations, Invitations
    <2> QED BY <1>1, <2>1 DEF Create, Op
  <1>7. CASE k = "webhooks"
    BY <1>7, <1>2 DEF Operations, Webhooks, Op
  <1>8. CASE k = "sessions"
    BY <1>8 DEF States
  <1>9. CASE k = "releases"
    <2>1. PICK op \in Operations[k] : op = Create("create", "unreleased")
      BY <1>9 DEF Operations, Releases
    <2> QED BY <1>1, <2>1 DEF Create, Op
  <1>10. CASE k = "components"
    <2>1. PICK op \in Operations[k] : op = Create("create", "component")
      BY <1>10 DEF Operations, Components
    <2> QED BY <1>1, <2>1 DEF Create, Op
  <1>11. CASE k = "labels"
    <2>1. PICK op \in Operations[k] : op = Create("create", "label")
      BY <1>11 DEF Operations, Labels
    <2> QED BY <1>1, <2>1 DEF Create, Op
  <1>12. CASE k = "views"
    <2>1. PICK op \in Operations[k] : op = Create("save", "mine")
      BY <1>12 DEF Operations, Views
    <2> QED BY <1>1, <2>1 DEF Create, Op
  <1> QED BY <1>3, <1>4, <1>5, <1>6, <1>7, <1>8, <1>9, <1>10, <1>11, <1>12

LEMMA ManagedInitially == Init => ManagedInv
  <1> SUFFICES ASSUME Init PROVE ManagedInv
    OBVIOUS
  <1>1. /\ kind \in DOMAIN Operations /\ entries \in [Entry -> States(kind)] /\ secrets = [e \in Entry |-> 0]
        /\ roster = None /\ asked = None /\ ops = {} /\ notice = None
        /\ fetches = {Fetch("page", None)} /\ ticking = FALSE /\ unsure = FALSE /\ foreign = {}
    BY NothingListed DEF Init, ManagedInit, Operations
  <1>2. PICK f \in FetchRecords : f = Fetch("page", None) /\ f.got = None /\ f.then = None
    BY FetchMade
  <1>3. ManagedTypes
    BY <1>1, <1>2 DEF ManagedTypes
  <1>4. RowsComing
    BY <1>1, <1>2 DEF RowsComing
  <1>5. SecretsFollowed
    BY <1>1, <1>2 DEF SecretsFollowed, Carries
  <1> QED BY <1>3, <1>4, <1>5 DEF ManagedInv

(* An operation is carried out.                                            *)
LEMMA OpServedKeeps ==
  ASSUME ManagedInv, NEW o \in ops, OpServed(o)
  PROVE  ManagedInv'
  <1>1. /\ kind' = kind /\ o.answer = "none"
        /\ entries' = (IF o.op.to = "same" THEN entries ELSE [entries EXCEPT ![o.row] = o.op.to])
        /\ secrets' = (IF o.op.secret THEN [secrets EXCEPT ![o.row] = secrets[o.row] + 1] ELSE secrets)
        /\ UNCHANGED <<roster, asked, fetches, notice, ticking, unsure, foreign>>
    BY DEF OpServed
  <1>2. PICK how \in {"ok", "lost"} :
          ops' = (ops \ {o}) \cup {[o EXCEPT !.answer = how, !.secret = secrets'[o.row]]}
    BY DEF OpServed
  <1>3. o \in OpRecords /\ o.op \in Operations[kind] /\ o.row \in Entry /\ kind \in DOMAIN Operations
    BY OpAttributes DEF ManagedInv, ManagedTypes
  <1>4. entries' \in [Entry -> States(kind)]
    BY <1>1, <1>3, OperationsMade DEF ManagedInv, ManagedTypes
  <1>5. secrets' \in [Entry -> Nat]
    BY <1>1, <1>3 DEF ManagedInv, ManagedTypes
  <1>6. PICK n \in Nat : n = secrets'[o.row]
    BY <1>3, <1>5
  <1> DEFINE d == [o EXCEPT !.answer = how, !.secret = n]
  <1>7. d \in [op : {o.op}, row : {o.row}, seen : {o.seen}, answer : {how}, secret : {n}]
    BY <1>3 DEF OpRecords
  <1>8. ops' = (ops \ {o}) \cup {d}
    BY <1>2, <1>6
  <1> HIDE DEF d
  <1>9. d.op = o.op /\ d.row = o.row /\ d.answer = how /\ d.secret = n
    BY <1>7
  <1>10. d \in OpRecords
    BY <1>3, <1>7, OpAttributes DEF OpRecords
  <1>11. ManagedTypes'
    BY <1>1, <1>4, <1>5, <1>8, <1>10, ManagedTypesKept DEF ManagedInv, ManagedTypes
  <1>12. RowsComing'
    <2>1. CASE o.op.to = "same"
      BY <1>1, <1>8, <2>1 DEF OpChanged, ManagedInv, RowsComing
    <2>2. CASE o.op.to # "same"
      <3>1. d \in ops' /\ OpChanged(d)
        BY <1>2, <1>8, <1>9, <2>2 DEF OpChanged
      <3> QED BY <1>1, <3>1 DEF ManagedInv, RowsComing
    <2> QED BY <2>1, <2>2
  <1>13. SecretsFollowed'
    <2>1. ASSUME NEW e \in Entry \ foreign
          PROVE  /\ \A p \in ops' : Remade(p, e) /\ (\A q \in ops' : Remade(q, e) => q = p) => p.secret = secrets'[e]
                 /\ (\A p \in ops' : ~Remade(p, e)) =>
                       /\ \A f \in fetches : Carries(f, e) => f.then.secret = secrets'[e]
                       /\ notice # None /\ notice.row = e /\ (\A f \in fetches : ~Carries(f, e)) => notice.secret = secrets'[e]
      <3>1. ~Remade(o, e)
        BY <1>1 DEF Remade
      <3>2. CASE o.row = e /\ o.op.secret
        <4>1. Remade(d, e) /\ d \in ops' /\ d.secret = secrets'[e]
          BY <1>2, <1>6, <1>8, <1>9, <3>2 DEF Remade
        <4> QED BY <4>1
      <3>3. CASE ~(o.row = e /\ o.op.secret)
        <4>1. ~Remade(d, e) /\ secrets'[e] = secrets[e]
          BY <1>1, <1>3, <1>9, <3>3 DEF Remade, ManagedInv, ManagedTypes
        <4>2. /\ \A p \in ops' : Remade(p, e) => p \in ops
              /\ \A p \in ops : Remade(p, e) => p \in ops'
          BY <1>8, <3>1, <4>1
        <4> QED BY <2>1, <4>1, <4>2 DEF ManagedInv, SecretsFollowed
      <3> QED BY <3>2, <3>3
    <2> QED BY <1>1, <2>1 DEF SecretsFollowed, Remade, Carries
  <1> QED BY <1>11, <1>12, <1>13 DEF ManagedInv

(* What changes no row and makes no secret.                                *)
LEMMA OpRefusedKeeps ==
  ASSUME ManagedInv, NEW o \in ops, OpRefused(o)
  PROVE  ManagedInv'
  <1>1. /\ o.answer = "none" /\ ops' = (ops \ {o}) \cup {[o EXCEPT !.answer = "refused"]}
        /\ UNCHANGED <<kind, entries, secrets, roster, asked, fetches, notice, ticking, unsure, foreign>>
    BY DEF OpRefused
  <1>2. o \in OpRecords
    BY DEF ManagedInv, ManagedTypes
  <1> DEFINE d == [o EXCEPT !.answer = "refused"]
  <1>3. d \in OpRecords /\ d.answer = "refused"
    BY <1>2 DEF OpRecords
  <1>4. ops' = (ops \ {o}) \cup {d}
    BY <1>1
  <1> HIDE DEF d
  <1>5. ManagedTypes'
    BY <1>1, <1>3, <1>4, ManagedTypesKept DEF ManagedInv, ManagedTypes
  <1>6. RowsComing'
    <2>1. \A p \in ops : OpChanged(p) => p \in ops'
      BY <1>1, <1>4 DEF OpChanged
    <2> QED BY <1>1, <2>1 DEF ManagedInv, RowsComing
  <1>7. SecretsFollowed'
    BY <1>1, <1>3, <1>4 DEF Remade, ManagedInv, SecretsFollowed, Carries
  <1> QED BY <1>5, <1>6, <1>7 DEF ManagedInv

LEMMA FetchServedKeeps ==
  ASSUME ManagedInv, NEW f \in fetches, FetchServed(f)
  PROVE  ManagedInv'
  <1>1. /\ f.got = None /\ fetches' = (fetches \ {f}) \cup {[f EXCEPT !.got = entries]}
        /\ UNCHANGED <<kind, entries, secrets, roster, asked, ops, notice, ticking, unsure, foreign>>
    BY DEF FetchServed
  <1>2. f \in FetchRecords /\ entries \in [Entry -> States(kind)]
    BY DEF ManagedInv, ManagedTypes
  <1> DEFINE d == [f EXCEPT !.got = entries]
  <1>3. d \in FetchRecords /\ d.got = entries /\ d.then = f.then
    BY <1>2 DEF FetchRecords
  <1>4. fetches' = (fetches \ {f}) \cup {d}
    BY <1>1
  <1> HIDE DEF d
  <1>5. ManagedTypes'
    BY <1>1, <1>3, <1>4, ManagedTypesKept DEF ManagedInv, ManagedTypes
  <1>6. RowsComing'
    BY <1>1, <1>4, <1>3 DEF RowsComing, OpChanged, ManagedInv
  <1>7. SecretsFollowed'
    BY <1>3, <1>4, <1>1 DEF Carries, ManagedInv, SecretsFollowed, Remade
  <1> QED BY <1>5, <1>6, <1>7 DEF ManagedInv

LEMMA OthersKeep ==
  ASSUME ManagedInv, NEW e \in Entry, NEW s \in States(kind), ByOthers(e, s)
  PROVE  ManagedInv'
  BY ManagedTypesKept DEF ByOthers, ManagedInv, ManagedTypes, RowsComing, SecretsFollowed, Remade,
     Carries

(* The person asks for something.                                          *)
LEMMA AskedKeeps ==
  ASSUME ManagedInv, ops \subseteq ops', \A o \in ops' : o \in ops \/ (o \in OpRecords /\ o.answer = "none"),
         asked' \in QuestionRecords \cup {None},
         UNCHANGED <<kind, entries, secrets, roster, fetches, notice, ticking, unsure, foreign>>
  PROVE  ManagedInv'
  BY ManagedTypesKept DEF ManagedInv, ManagedTypes, RowsComing, OpChanged, Remade, SecretsFollowed,
     Carries

LEMMA PressKeeps ==
  ASSUME ManagedInv, NEW e \in Entry, NEW op \in Operations[kind], Press(op, e)
  PROVE  ManagedInv'
  <1>1. roster \in [Entry -> States(kind)]
    BY DEF Press, ManagedInv, ManagedTypes
  <1>2. PICK s \in States(kind) : s = roster[e]
    BY <1>1
  <1>3. UNCHANGED <<kind, entries, secrets, roster, fetches, notice, ticking, unsure, foreign>>
    BY DEF Press
  <1>4. CASE op.confirmed
    BY <1>2, <1>4, <1>3, AskedKeeps DEF Press, QuestionRecords
  <1>5. CASE ~op.confirmed
    BY <1>2, <1>5, <1>3, AskedKeeps DEF OpRecords, Press, SendsOp, ManagedInv, ManagedTypes
  <1> QED BY <1>4, <1>5

LEMMA YesOrNoKeeps ==
  ASSUME ManagedInv, NEW yes \in BOOLEAN, Answer(yes)
  PROVE  ManagedInv'
  BY AskedKeeps DEF Answer, ManagedInv, ManagedTypes, QuestionRecords, OpRecords

(* A load begins.                                                          *)
LEMMA FetchesComing ==
  ASSUME ManagedInv, NEW f \in FetchRecords, f.got = None, Fetches(f)
  PROVE  RowsComing' /\ fetches' \subseteq FetchRecords /\ unsure' \in BOOLEAN
  BY DEF Fetches, RowsComing, ManagedInv, ManagedTypes

LEMMA RefreshKeeps ==
  ASSUME ManagedInv, NEW by \in {"page", "poll"}, RefreshSessions(by)
  PROVE  ManagedInv'
  BY FetchMade, FetchesComing, ManagedTypesKept DEF RefreshSessions, ManagedInv, ManagedTypes, Fetches,
     Carries, SecretsFollowed, Remade

(* The answer to an operation comes.                                       *)
LEMMA OpDoneKeeps ==
  ASSUME ManagedInv, NEW o \in ops, OpDone(o)
  PROVE  ManagedInv'
  <1> DEFINE fails == o.answer # "ok"
             alone == foreign' = foreign \/ foreign' = foreign \cup {o.row}
  <1>1. o \in OpRecords /\ o.op \in Operations[kind] /\ o.row \in Entry /\ o.secret \in Nat /\ kind \in DOMAIN Operations
    BY OpAttributes DEF ManagedInv, ManagedTypes
  <1>2. PICK secret \in SecretRecords \cup {None} :
           /\ secret = IF o.op.secret THEN Secret(o) ELSE None
           /\ o.op.secret => secret # None /\ secret.row = o.row /\ secret.secret = o.secret
    <2>1. Secret(o) \in SecretRecords /\ Secret(o) # None /\ Secret(o).row = o.row /\ Secret(o).secret = o.secret
      BY <1>1, SecretShown DEF Secret
    <2> QED BY <2>1
  <1>3. /\ o.answer # "none" /\ ops' = ops \ {o}
        /\ UNCHANGED <<kind, entries, secrets, asked, ticking>>
        /\ foreign' = IF \/ o.answer = "lost" \/ \E p \in ops \ {o} : p.row = o.row
                         \/ \E f \in fetches : f.then # None /\ f.then.row = o.row
                      THEN foreign \cup {o.row} ELSE foreign
    BY DEF OpDone
  <1>4. foreign \subseteq foreign' /\ foreign' \subseteq Entry
    BY <1>1, <1>3 DEF ManagedInv, ManagedTypes
  <1>5. ASSUME NEW e \in Entry \ foreign', o.row = e
        PROVE  /\ o.answer # "lost" /\ (\A p \in ops \ {o} : p.row # e) /\ (\A f \in fetches : ~Carries(f, e))
    BY <1>3, <1>5 DEF Carries
  <1>6. ASSUME NEW e \in Entry \ foreign', Remade(o, e) PROVE o.secret = secrets[e] /\ o.op.secret /\ o.row = e
    BY <1>4, <1>5, <1>6 DEF ManagedInv, SecretsFollowed, Remade
  <1>7. ASSUME NEW e \in Entry \ foreign', ~Remade(o, e)
        PROVE  /\ \A p \in ops' : Remade(p, e) /\ (\A q \in ops' : Remade(q, e) => q = p) => p.secret = secrets[e]
               /\ (\A p \in ops' : ~Remade(p, e)) =>
                     /\ \A f \in fetches : Carries(f, e) => f.then.secret = secrets[e]
                     /\ notice # None /\ notice.row = e /\ (\A f \in fetches : ~Carries(f, e)) => notice.secret = secrets[e]
    BY <1>4, <1>3, <1>7 DEF ManagedInv, SecretsFollowed
  <1>8. CASE fails \/ ~o.op.loads
    <2>1. /\ ShowSecret(IF fails THEN None ELSE secret)
          /\ unsure' = (unsure \/ o.answer = "lost")
          /\ UNCHANGED <<roster, fetches>>
      BY <1>2, <1>8 DEF OpDone
    <2>2. notice' \in SecretRecords \cup {None} /\ unsure' \in BOOLEAN
      BY <2>1, <1>2 DEF ShowSecret, ManagedInv, ManagedTypes
    <2>3. ManagedTypes'
      BY <1>3, <1>4, <2>1, <2>2, ManagedTypesKept DEF ManagedInv, ManagedTypes
    <2>4. RowsComing'
      BY <1>3, <2>1, <1>1, <1>8, OperationsMade DEF RowsComing, OpChanged, ManagedInv
    <2>5. SecretsFollowed'
      <3>1. ASSUME NEW e \in Entry \ foreign'
            PROVE  /\ \A p \in ops' : Remade(p, e) /\ (\A q \in ops' : Remade(q, e) => q = p) => p.secret = secrets[e]
                   /\ (\A p \in ops' : ~Remade(p, e)) =>
                         /\ \A f \in fetches : Carries(f, e) => f.then.secret = secrets[e]
                         /\ notice' # None /\ notice'.row = e /\ (\A f \in fetches : ~Carries(f, e)) => notice'.secret = secrets[e]
        <4>1. CASE Remade(o, e)
          <5>1. o.secret = secrets[e] /\ o.op.secret /\ o.row = e
            BY <1>6, <4>1
          <5>2. /\ \A p \in ops' : ~Remade(p, e)
                /\ \A f \in fetches : ~Carries(f, e)
            BY <1>3, <1>5, <5>1 DEF Remade
          <5>3. o.answer = "ok"
            BY <1>5, <4>1, <5>1 DEF Remade
          <5>4. notice' = secret
            BY <1>2, <2>1, <5>1, <5>3 DEF ShowSecret
          <5> QED BY <1>2, <5>1, <5>2, <5>4
        <4>2. CASE ~Remade(o, e)
          BY <1>2, <2>1, <4>2, <1>7 DEF ShowSecret, Remade
        <4> QED BY <4>1, <4>2
      <3> QED BY <1>3, <2>1, <3>1 DEF SecretsFollowed, Remade, Carries
    <2> QED BY <2>3, <2>4, <2>5 DEF ManagedInv
  <1>9. CASE ~(fails \/ ~o.op.loads)
    <2>1. Fetches(Fetch("page", secret)) /\ roster' = Blanked /\ notice' = notice
      BY <1>2, <1>9 DEF OpDone
    <2>2. PICK n \in FetchRecords : n = Fetch("page", secret) /\ n.got = None /\ n.then = secret
      BY <1>2, FetchMade
    <2>3. RowsComing' /\ fetches' \subseteq FetchRecords /\ unsure' \in BOOLEAN /\ fetches' = fetches \cup {n}
      BY <2>1, <2>2, FetchesComing DEF Fetches
    <2>4. ManagedTypes'
      BY <2>1, <1>3, <1>4, <2>3, ManagedTypesKept DEF Blanked, ManagedInv, ManagedTypes
    <2>5. SecretsFollowed'
      <3>1. ASSUME NEW e \in Entry \ foreign'
            PROVE  /\ \A p \in ops' : Remade(p, e) /\ (\A q \in ops' : Remade(q, e) => q = p) => p.secret = secrets[e]
                   /\ (\A p \in ops' : ~Remade(p, e)) =>
                         /\ \A f \in fetches' : Carries(f, e) => f.then.secret = secrets[e]
                         /\ notice # None /\ notice.row = e /\ (\A f \in fetches' : ~Carries(f, e)) => notice.secret = secrets[e]
        <4>1. CASE Remade(o, e)
          <5>1. o.secret = secrets[e] /\ o.op.secret /\ o.row = e
            BY <1>6, <4>1
          <5>2. /\ \A p \in ops' : ~Remade(p, e)
                /\ \A f \in fetches : ~Carries(f, e)
            BY <1>3, <1>5, <5>1 DEF Remade
          <5>3. Carries(n, e) /\ n.then.secret = secrets[e]
            BY <1>2, <2>2, <5>1 DEF Carries
          <5> QED BY <2>3, <5>2, <5>3
        <4>2. CASE ~Remade(o, e)
          <5>1. ~Carries(n, e)
            BY <1>2, <1>9, <2>2, <4>2 DEF Carries, Remade
          <5> QED BY <1>7, <2>3, <4>2, <5>1
        <4> QED BY <4>1, <4>2
      <3> QED BY <1>3, <2>1, <3>1 DEF SecretsFollowed, Remade, Carries
    <2> QED BY <2>3, <2>4, <2>5 DEF ManagedInv
  <1> QED BY <1>8, <1>9

(* A load comes, or fails; what it carries is shown.                       *)
LEMMA LoadShown ==
  ASSUME ManagedInv, NEW f \in fetches, fetches' = fetches \ {f}, ShowSecret(f.then),
         UNCHANGED <<secrets, ops, foreign>>
  PROVE  SecretsFollowed' /\ notice' \in SecretRecords \cup {None}
  <1>1. f \in FetchRecords /\ f.then \in SecretRecords \cup {None}
    BY FetchAttributes DEF ManagedInv, ManagedTypes
  <1>2. notice' = (IF f.then = None THEN notice ELSE f.then)
    BY DEF ShowSecret
  <1>3. ASSUME NEW e \in Entry \ foreign, \A p \in ops : ~Remade(p, e)
        PROVE  /\ \A g \in fetches' : Carries(g, e) => g.then.secret = secrets[e]
               /\ notice' # None /\ notice'.row = e /\ (\A g \in fetches' : ~Carries(g, e)) => notice'.secret = secrets[e]
    <2>1. \A g \in fetches : Carries(g, e) => g.then.secret = secrets[e]
      BY <1>3 DEF ManagedInv, SecretsFollowed
    <2>2. CASE f.then = None
      BY <2>2, <1>2, <1>3, <2>1 DEF Carries, ManagedInv, SecretsFollowed
    <2>3. CASE f.then # None
      BY <1>2, <2>1, <2>3 DEF Carries
    <2> QED BY <2>1, <2>2, <2>3
  <1>4. SecretsFollowed'
    BY <1>3 DEF ManagedInv, SecretsFollowed, Remade, Carries
  <1> QED BY <1>1, <1>2, <1>4 DEF ManagedInv, ManagedTypes

LEMMA LoadsComeKeep ==
  ASSUME ManagedInv, NEW f \in fetches, FetchArrives(f) \/ FetchFails(f)
  PROVE  ManagedInv'
  <1>1. /\ fetches' = fetches \ {f} /\ ShowSecret(f.then)
        /\ ticking' = (ticking /\ f.by # "poll")
        /\ UNCHANGED <<kind, entries, secrets, asked, ops, foreign>>
    BY DEF FetchArrives, FetchFails
  <1>2. f \in FetchRecords /\ f.got \in [Entry -> States(kind)] \cup {None}
    BY FetchAttributes DEF ManagedInv, ManagedTypes
  <1>3. SecretsFollowed' /\ notice' \in SecretRecords \cup {None}
    BY <1>1, LoadShown
  <1>4. ticking' \in BOOLEAN
    BY <1>1
  <1>5. CASE FetchArrives(f)
    <2>1. f.got # None /\ roster' = f.got /\ unsure' = unsure
      BY <1>5 DEF FetchArrives
    <2>2. ManagedTypes'
      BY <1>1, <1>2, <1>3, <1>4, <2>1, ManagedTypesKept DEF ManagedInv, ManagedTypes
    <2>3. RowsComing'
      BY <1>1, <2>1 DEF RowsComing, OpChanged, ManagedInv
    <2> QED BY <1>3, <2>2, <2>3 DEF ManagedInv
  <1>6. CASE FetchFails(f)
    <2>1. unsure' = TRUE /\ roster' = (IF roster = None THEN [e \in Entry |-> "none"] ELSE roster)
      BY <1>6 DEF FetchFails
    <2>2. "none" \in States(kind)
      BY NothingListed DEF ManagedInv, ManagedTypes
    <2>3. ManagedTypes'
      BY <1>1, <1>3, <1>4, <2>1, <2>2, ManagedTypesKept DEF ManagedInv, ManagedTypes
    <2>4. RowsComing'
      BY <2>1 DEF RowsComing
    <2> QED BY <1>3, <2>3, <2>4 DEF ManagedInv
  <1> QED BY <1>5, <1>6

LEMMA SecretSavedKeeps ==
  ASSUME ManagedInv, SecretSaved
  PROVE  ManagedInv'
  <1>1. notice' = None /\ UNCHANGED <<kind, entries, secrets, roster, asked, ops, fetches, ticking, unsure, foreign>>
    BY DEF SecretSaved
  <1>2. ManagedTypes'
    BY <1>1, ManagedTypesKept DEF ManagedInv, ManagedTypes
  <1>3. RowsComing'
    BY <1>1 DEF ManagedInv, RowsComing, OpChanged
  <1>4. SecretsFollowed'
    BY <1>1 DEF ManagedInv, SecretsFollowed, Remade, Carries
  <1> QED BY <1>2, <1>3, <1>4 DEF ManagedInv

LEMMA ManagedStep == ManagedInv /\ [Next]_vars => ManagedInv'
  <1> SUFFICES ASSUME ManagedInv, [Next]_vars PROVE ManagedInv'
    OBVIOUS
  <1>1. CASE UNCHANGED managed
    <2>1. UNCHANGED <<kind, entries, secrets, roster, asked, ops, fetches, notice, ticking, unsure, foreign>>
      BY <1>1 DEF managed
    <2>2. ManagedTypes'
      BY <2>1, ManagedTypesKept DEF ManagedInv, ManagedTypes
    <2>3. RowsComing'
      BY <2>1 DEF ManagedInv, RowsComing, OpChanged
    <2>4. SecretsFollowed'
      BY <2>1 DEF ManagedInv, SecretsFollowed, Remade, Carries
    <2> QED BY <2>2, <2>3, <2>4 DEF ManagedInv
  <1>2. CASE ManagedUser
    BY <1>2, PressKeeps, OthersKeep, RefreshKeeps, LoadsComeKeep, SecretSavedKeeps DEF ManagedUser
  <1>3. CASE ManagedAnswers
    BY <1>3, OpServedKeeps, OpRefusedKeeps, OpDoneKeeps, FetchServedKeeps, LoadsComeKeep, YesOrNoKeeps DEF ManagedAnswers
  <1> QED BY <1>1, <1>2, <1>3, PartSteps

(* A list managed in place shows the server's rows once nothing is under   *)
(* way, unless others changed them, and a signing secret on the page is    *)
(* the one in force.                                                       *)
THEOREM ManagedShown == Spec => []ManagedRight
  <1>1. ManagedInv => ManagedRight
    <2> SUFFICES ASSUME ManagedInv PROVE ManagedRight
      OBVIOUS
    <2>1. ManagedListRight
      BY DEF ManagedInv, RowsComing, ManagedListRight
    <2>2. SecretInForce
      BY DEF SecretInForce, ManagedInv, ManagedTypes, SecretRecords, SecretsFollowed, Remade, Carries
    <2> QED BY <2>1, <2>2 DEF ManagedRight
  <1> QED BY <1>1, ManagedInitially, ManagedStep, PTL DEF Spec

-----------------------------------------------------------------------------
(* Pushed notifications: the values.                                       *)

RunRecords == [at : {"idle", "library", "token", "keep", "send", "sent", "wait"},
               attempt : 0..Attempts, token : 0..tokens]
LeavingRecords == [at : {"no", "delete", "withdraw", "forget", "leave"}, token : 0..tokens]

PushTypes ==
    /\ signedIn \in Person \cup {None}
    /\ tokens \in Nat /\ works \in {0, tokens} /\ kept \in 0..tokens
    /\ targets \in [1..tokens -> Person \cup {None}]
    /\ ready \in BOOLEAN /\ missed \in BOOLEAN
    /\ run \in RunRecords /\ leaving \in LeavingRecords

(* How far an attempt and a logout have come.                              *)
RunHolds ==
    /\ run.at \in {"keep", "send", "sent"} => run.token \in 1..tokens
    /\ run.at = "wait" => run.attempt < Attempts
    /\ leaving.at = "withdraw" => leaving.token # 0
    /\ leaving = Staying \/ leaving.at # "no"

(* An attempt that has its token has the one that works, or nothing is     *)
(* registered for that.                                                    *)
NewestWorks ==
    run.at \in {"keep", "send", "sent"} /\ run.token # works /\ works # 0 => targets[works] = None

(* What is sent is remembered, unless the user is logging out.             *)
SentIsKept == leaving = Staying /\ run.at \in {"send", "sent"} => kept = run.token

(* What is registered for the token that works is registered for who is    *)
(* signed in, and a logout withdraws it: it is what the browser remembers. *)
Withdrawable ==
    ~missed /\ works # 0 /\ targets[works] # None =>
        /\ signedIn = targets[works]
        /\ leaving = Staying => kept = works
        /\ leaving.at \in {"delete", "withdraw"} => leaving.token = works
        /\ leaving.at \notin {"forget", "leave"}

PushInv == PushTypes /\ RunHolds /\ NewestWorks /\ SentIsKept /\ Withdrawable

LEMMA PushInitially == Init => PushInv
  <1> SUFFICES ASSUME Init PROVE PushInv
    OBVIOUS
  <1>1. /\ signedIn = None /\ tokens = 0 /\ works = 0 /\ kept = 0 /\ targets = << >>
        /\ ready = FALSE /\ run = Idle /\ leaving = Staying /\ missed = FALSE
    BY DEF Init, PushInit
  <1>2. targets \in [1..tokens -> Person \cup {None}]
    BY <1>1
  <1>3. Idle \in [at : {"idle"}, attempt : {0}, token : {0}] /\ Staying \in [at : {"no"}, token : {0}]
    BY DEF Idle, Staying
  <1>4. run \in RunRecords /\ leaving \in LeavingRecords /\ run.at = "idle" /\ leaving.at = "no"
    BY <1>1, <1>3, PushAssumption DEF RunRecords, LeavingRecords
  <1>5. ready \in BOOLEAN /\ missed \in BOOLEAN
    BY <1>1
  <1>6. PushTypes
    BY <1>1, <1>2, <1>4, <1>5 DEF PushTypes
  <1> QED BY <1>1, <1>4, <1>6 DEF PushInv, RunHolds, NewestWorks, SentIsKept, Withdrawable

(* What an attempt and a logout are made of.                               *)
LEMMA RunAttributes ==
  ASSUME PushTypes
  PROVE  /\ run.at \in {"idle", "library", "token", "keep", "send", "sent", "wait"}
         /\ run.attempt \in 0..Attempts /\ run.token \in 0..tokens
         /\ leaving.at \in {"no", "delete", "withdraw", "forget", "leave"} /\ leaving.token \in 0..tokens
  BY DEF PushTypes, RunRecords, LeavingRecords

LEMMA RunsMade ==
  ASSUME PushTypes
  PROVE  /\ Idle.at = "idle" /\ Started.at = "library" /\ Staying.at = "no" /\ Staying.token = 0
         /\ Idle \in RunRecords /\ Started \in RunRecords /\ Staying \in LeavingRecords
         /\ \A n \in 1..Attempts : /\ [Started EXCEPT !.attempt = n] \in RunRecords
                                   /\ [Started EXCEPT !.attempt = n].at = "library"
         /\ \A a \in {"library", "token", "keep", "send", "sent", "wait"} :
              /\ [run EXCEPT !.at = a] \in RunRecords /\ [run EXCEPT !.at = a].at = a
              /\ [run EXCEPT !.at = a].token = run.token /\ [run EXCEPT !.at = a].attempt = run.attempt
         /\ \A a \in {"withdraw", "forget", "leave"} :
              /\ [leaving EXCEPT !.at = a] \in LeavingRecords /\ [leaving EXCEPT !.at = a].at = a
              /\ [leaving EXCEPT !.at = a].token = leaving.token
  BY PushAssumption DEF PushTypes, Idle, Started, Staying, RunRecords, LeavingRecords

(* Only how far the attempt has come changes.                              *)
LEMMA RunKeeps ==
  ASSUME PushInv, run' \in RunRecords, ready' \in BOOLEAN,
         UNCHANGED <<signedIn, tokens, works, kept, targets, leaving, missed>>,
         run'.at \in {"idle", "library", "token", "wait"},
         run'.at = "wait" => run'.attempt < Attempts
  PROVE  PushInv'
  <1>1. PushTypes'
    BY DEF PushInv, PushTypes, RunRecords, LeavingRecords
  <1>2. RunHolds' /\ NewestWorks' /\ SentIsKept' /\ Withdrawable'
    BY DEF PushInv, RunHolds, NewestWorks, SentIsKept, Withdrawable, Staying
  <1> QED BY <1>1, <1>2 DEF PushInv

LEMMA AttemptsKeep ==
  ASSUME PushInv, Online \/ LibraryLoads \/ AttemptFails \/ TriesAgain
  PROVE  PushInv'
  <1>1. /\ UNCHANGED <<signedIn, tokens, works, kept, targets, leaving, missed>>
        /\ ready' = TRUE \/ ready' = ready
    BY DEF Online, LibraryLoads, AttemptFails, TriesAgain
  <1>2. ready' \in BOOLEAN
    BY <1>1 DEF PushInv, PushTypes
  <1>3. run.attempt \in 0..Attempts /\ (run.at = "wait" => run.attempt + 1 \in 1..Attempts)
    BY RunAttributes, PushAssumption DEF PushInv, RunHolds
  <1>4. \/ run' = Started \/ run' = Idle
        \/ run' = [run EXCEPT !.at = "token"]
        \/ run' = [run EXCEPT !.at = "wait"] /\ run.attempt < Attempts
        \/ run' = [Started EXCEPT !.attempt = run.attempt + 1] /\ run.at = "wait"
    BY DEF Online, LibraryLoads, AttemptFails, TriesAgain
  <1>5. run' \in RunRecords /\ run'.at \in {"idle", "library", "token", "wait"}
        /\ (run'.at = "wait" => run'.attempt < Attempts)
    <2>1. PushTypes
      BY DEF PushInv
    <2>2. CASE run' = Started \/ run' = Idle
      BY <2>1, <2>2, RunsMade
    <2>3. CASE run' = [run EXCEPT !.at = "token"]
      BY <2>1, <2>3, RunsMade
    <2>4. CASE run' = [run EXCEPT !.at = "wait"] /\ run.attempt < Attempts
      BY <2>1, <2>4, RunsMade
    <2>5. CASE run' = [Started EXCEPT !.attempt = run.attempt + 1] /\ run.at = "wait"
      BY <1>3, <2>1, <2>5, RunsMade
    <2> QED BY <1>4, <2>2, <2>3, <2>4, <2>5
  <1> QED BY <1>1, <1>2, <1>5, RunKeeps

LEMMA ListIsFunction ==
  ASSUME NEW S, NEW s \in Seq(S)
  PROVE  s \in [1..Len(s) -> S]
  OBVIOUS

(* A token is made: nothing is registered for it.                          *)
LEMMA TokenMade ==
  ASSUME PushTypes, targets' = Append(targets, None), tokens' = tokens + 1
  PROVE  /\ targets' \in [1..tokens' -> Person \cup {None}]
         /\ targets'[tokens'] = None
         /\ \A t \in 1..tokens : targets'[t] = targets[t]
  <1>1. tokens \in Nat /\ targets \in [1..tokens -> Person \cup {None}]
    BY DEF PushTypes
  <1>2. targets \in Seq(Person \cup {None}) /\ Len(targets) = tokens
    BY <1>1
  <1>3. PICK x \in Person \cup {None} : x = None
    OBVIOUS
  <1>4. Append(targets, x) \in Seq(Person \cup {None}) /\ Len(Append(targets, x)) = tokens + 1
    BY <1>2
  <1>5. targets' \in Seq(Person \cup {None}) /\ Len(targets') = tokens'
    BY <1>3, <1>4
  <1>6. targets' \in [1..tokens' -> Person \cup {None}]
    BY <1>5, ListIsFunction
  <1>7. Append(targets, x)[tokens + 1] = x /\ \A t \in 1..tokens : Append(targets, x)[t] = targets[t]
    BY <1>1, <1>2
  <1> QED BY <1>3, <1>6, <1>7

(* The token that comes is the one that works.                             *)
LEMMA TokenKeeps ==
  ASSUME PushInv, TokenComes \/ Rotates
  PROVE  PushInv'
  <1>1. /\ UNCHANGED <<signedIn, kept, leaving, missed, ready>>
        /\ \/ UNCHANGED <<tokens, works, targets>> /\ works # 0
           \/ tokens' = tokens + 1 /\ works' = tokens' /\ targets' = Append(targets, None)
        /\ \/ run' = run /\ works' = tokens'
           \/ run' = [run EXCEPT !.at = "keep", !.token = works']
    BY DEF TokenComes, Rotates
  <1>2. tokens \in Nat /\ works \in {0, tokens} /\ tokens' \in Nat /\ works' = tokens' /\ works' # 0 /\ tokens <= tokens'
    BY <1>1 DEF PushInv, PushTypes
  <1>3. /\ targets' \in [1..tokens' -> Person \cup {None}]
        /\ targets'[works'] = (IF works' = works THEN targets[works] ELSE None)
    BY <1>1, <1>2, TokenMade DEF PushInv, PushTypes
  <1>4. /\ \A x \in RunRecords : x \in RunRecords'
        /\ leaving \in LeavingRecords'
    BY <1>2 DEF PushInv, PushTypes, RunRecords, LeavingRecords
  <1>5. CASE run' = run
    BY <1>1, <1>2, <1>3, <1>4, <1>5 DEF PushInv, PushTypes, RunHolds, Staying, NewestWorks,
       Withdrawable, SentIsKept
  <1>6. CASE run' = [run EXCEPT !.at = "keep", !.token = works']
    <2>1. run' \in RunRecords' /\ run'.at = "keep" /\ run'.token = works'
      <3>1. run' \in [at : {"keep"}, attempt : {run.attempt}, token : {works'}]
        BY <1>6 DEF PushInv, PushTypes, RunRecords
      <3>2. run.attempt \in 0..Attempts /\ works' \in 0..tokens'
        BY <1>2, RunAttributes DEF PushInv
      <3> QED BY <3>1, <3>2 DEF RunRecords
    <2>2. PushTypes'
      BY <1>1, <1>2, <1>3, <1>4, <2>1 DEF PushInv, PushTypes
    <2>3. RunHolds' /\ NewestWorks' /\ SentIsKept'
      BY <1>1, <1>2, <2>1 DEF PushInv, RunHolds, NewestWorks, SentIsKept, Staying
    <2>4. Withdrawable'
      BY <1>1, <1>2, <1>3 DEF PushInv, Withdrawable, Staying
    <2> QED BY <2>2, <2>3, <2>4 DEF PushInv
  <1> QED BY <1>1, <1>5, <1>6

LEMMA KeepTokenKeeps ==
  ASSUME PushInv, KeepToken
  PROVE  PushInv'
  <1>1. /\ run.at = "keep" /\ kept' = run.token /\ run' = [run EXCEPT !.at = "send"]
        /\ UNCHANGED <<signedIn, tokens, works, targets, ready, leaving, missed>>
    BY DEF KeepToken, Keeps
  <1>2. run' \in RunRecords /\ run'.at = "send" /\ run'.token = run.token /\ run'.attempt = run.attempt
    BY <1>1, RunsMade DEF PushInv
  <1>3. run.token \in 1..tokens
    BY <1>1 DEF PushInv, RunHolds
  <1>4. PushTypes'
    BY <1>1, <1>2, <1>3 DEF PushInv, PushTypes, RunRecords, LeavingRecords
  <1>5. RunHolds' /\ NewestWorks' /\ SentIsKept'
    BY <1>1, <1>2, <1>3 DEF PushInv, RunHolds, NewestWorks, SentIsKept, Staying
  <1>6. Withdrawable'
    BY <1>1, <1>3 DEF PushInv, NewestWorks, Withdrawable, Staying
  <1> QED BY <1>4, <1>5, <1>6 DEF PushInv

(* A token is registered for who is signed in.                             *)
LEMMA RegisteringKeeps ==
  ASSUME PushInv, RegisterServed \/ Registered
  PROVE  PushInv'
  <1>1. /\ UNCHANGED <<signedIn, tokens, works, kept, ready, leaving>>
        /\ \/ /\ run.at = "send" /\ targets' = [targets EXCEPT ![run.token] = signedIn]
              /\ run' = [run EXCEPT !.at = "sent"] /\ missed' = (missed \/ leaving # Staying)
           \/ UNCHANGED <<targets, missed>> /\ run' = Idle
    BY DEF RegisterServed, Registered, Keeps
  <1>2. CASE UNCHANGED <<targets, missed>> /\ run' = Idle
    BY <1>1, <1>2, RunsMade, RunKeeps DEF PushInv, PushTypes
  <1>3. CASE /\ run.at = "send" /\ targets' = [targets EXCEPT ![run.token] = signedIn]
             /\ run' = [run EXCEPT !.at = "sent"] /\ missed' = (missed \/ leaving # Staying)
    <2>1. run' \in RunRecords /\ run'.at = "sent" /\ run'.token = run.token /\ run'.attempt = run.attempt
      BY <1>3, RunsMade DEF PushInv
    <2>2. run.token \in 1..tokens /\ signedIn \in Person \cup {None} /\ targets \in [1..tokens -> Person \cup {None}]
      BY <1>3 DEF PushInv, PushTypes, RunHolds
    <2>3. /\ targets' \in [1..tokens -> Person \cup {None}]
          /\ \A t \in 1..tokens : targets'[t] = IF t = run.token THEN signedIn ELSE targets[t]
      BY <1>3, <2>2
    <2>4. missed' \in BOOLEAN
      BY <1>3 DEF PushInv, PushTypes
    <2>5. tokens \in Nat /\ works \in {0, tokens}
      BY DEF PushInv, PushTypes
    <2>6. PushTypes'
      BY <1>1, <2>1, <2>3, <2>4 DEF PushInv, PushTypes, RunRecords, LeavingRecords
    <2>7. RunHolds' /\ NewestWorks' /\ SentIsKept'
      BY <1>1, <1>3, <2>1, <2>2, <2>3, <2>5 DEF PushInv, RunHolds, NewestWorks, SentIsKept, Staying
    <2>8. Withdrawable'
      <3>1. SUFFICES ASSUME ~missed, leaving = Staying, works # 0, targets'[works] # None
                     PROVE  signedIn = targets'[works] /\ kept = works
        <4>1. ~missed' => ~missed /\ leaving = Staying
          BY <1>3
        <4>2. leaving = Staying => leaving.at = "no"
          BY DEF Staying
        <4>3. leaving' = leaving /\ works' = works /\ kept' = kept /\ signedIn' = signedIn
          BY <1>1
        <4> QED BY <4>1, <4>2, <4>3 DEF Withdrawable
      <3>2. CASE run.token = works
        BY <1>3, <2>2, <2>3, <3>1, <3>2 DEF PushInv, SentIsKept
      <3>3. CASE run.token # works
        BY <1>3, <2>3, <2>5, <3>1, <3>3 DEF PushInv, NewestWorks
      <3> QED BY <3>2, <3>3
    <2> QED BY <2>6, <2>7, <2>8 DEF PushInv
  <1> QED BY <1>1, <1>2, <1>3

(* The page starts again, and what it had sent may still arrive.           *)
LEMMA BootsKeep ==
  ASSUME PushInv, NEW p \in Person, Boots(p)
  PROVE  PushInv'
  <1>1. /\ leaving = Staying /\ ready' = FALSE
        /\ (IF signedIn = None THEN signedIn' = p ELSE UNCHANGED signedIn)
        /\ run' \in {Started, Idle}
        /\ \/ targets' = targets
           \/ run.at = "send" /\ targets' = [targets EXCEPT ![run.token] = signedIn]
        /\ UNCHANGED <<tokens, works, kept, leaving, missed>>
    BY DEF Boots
  <1>2. signedIn' \in Person \cup {None} /\ ready' \in BOOLEAN
    BY <1>1 DEF PushInv, PushTypes
  <1>3. run' \in RunRecords /\ run'.at \in {"idle", "library"}
    BY <1>1, RunsMade DEF PushInv
  <1>4. tokens \in Nat /\ works \in {0, tokens} /\ signedIn \in Person \cup {None}
    BY DEF PushInv, PushTypes
  <1>5. /\ targets' \in [1..tokens -> Person \cup {None}]
        /\ works # 0 => targets'[works] = targets[works] \/ (run.at = "send" /\ run.token = works /\ targets'[works] = signedIn)
    BY <1>4, <1>1 DEF PushInv, PushTypes, RunHolds
  <1>6. PushTypes'
    BY <1>1, <1>2, <1>3, <1>5 DEF PushInv, PushTypes, RunRecords, LeavingRecords
  <1>7. RunHolds' /\ NewestWorks' /\ SentIsKept'
    BY <1>1, <1>3 DEF PushInv, RunHolds, NewestWorks, SentIsKept, Staying
  <1>8. Withdrawable'
    BY <1>1, <1>5 DEF Withdrawable, Staying, PushInv, SentIsKept
  <1> QED BY <1>6, <1>7, <1>8 DEF PushInv

(* Logging out, step by step.                                              *)
LEMMA LeavingKeeps ==
  ASSUME PushInv, LogsOut \/ GivesUpToken \/ Withdraws \/ WithdrawFails \/ Forgets \/ Leaves
  PROVE  PushInv'
  <1>1. /\ tokens \in Nat /\ works \in {0, tokens} /\ kept \in 0..tokens /\ PushTypes
        /\ targets \in [1..tokens -> Person \cup {None}] /\ missed \in BOOLEAN
        /\ leaving.token \in 0..tokens
    BY RunAttributes DEF PushInv, PushTypes
  <1>2. CASE LogsOut
    <2>1. /\ leaving = Staying /\ leaving' = [at |-> "delete", token |-> kept]
          /\ missed' = (missed \/ run # Idle)
          /\ UNCHANGED <<signedIn, tokens, works, kept, targets, ready, run>>
      BY <1>2 DEF LogsOut
    <2>2. leaving' \in LeavingRecords /\ leaving'.at = "delete" /\ leaving'.token = kept
      BY <1>1, <2>1 DEF LeavingRecords
    <2>3. missed' \in BOOLEAN
      BY <2>1 DEF PushInv, PushTypes
    <2>4. PushTypes'
      BY <2>1, <2>2, <2>3 DEF PushInv, PushTypes, RunRecords, LeavingRecords
    <2>5. RunHolds' /\ NewestWorks' /\ SentIsKept' /\ Withdrawable'
      BY <2>1, <2>2 DEF PushInv, RunHolds, NewestWorks, SentIsKept, Withdrawable, Staying
    <2> QED BY <2>4, <2>5 DEF PushInv
  <1>3. CASE GivesUpToken
    <2>1. /\ leaving.at = "delete" /\ works' \in {0, works}
          /\ leaving' = [leaving EXCEPT !.at = IF leaving.token # 0 THEN "withdraw" ELSE "forget"]
          /\ UNCHANGED <<signedIn, tokens, kept, targets, ready, run, missed>>
      BY <1>3 DEF GivesUpToken
    <2>2. /\ leaving' \in LeavingRecords /\ leaving'.token = leaving.token
          /\ leaving'.at = IF leaving.token # 0 THEN "withdraw" ELSE "forget"
      BY <1>1, <2>1, RunsMade
    <2>3. PushTypes'
      BY <1>1, <2>1, <2>2 DEF PushInv, PushTypes, RunRecords, LeavingRecords
    <2>4. RunHolds' /\ NewestWorks' /\ SentIsKept' /\ Withdrawable'
      BY <1>1, <2>1, <2>2 DEF PushInv, RunHolds, NewestWorks, SentIsKept, Withdrawable, Staying
    <2> QED BY <2>3, <2>4 DEF PushInv
  <1>4. CASE Withdraws
    <2>1. /\ leaving.at = "withdraw" /\ leaving' = [leaving EXCEPT !.at = "forget"]
          /\ targets' = (IF targets[leaving.token] = signedIn
                         THEN [targets EXCEPT ![leaving.token] = None] ELSE targets)
          /\ UNCHANGED <<signedIn, tokens, works, kept, ready, run, missed>>
      BY <1>4 DEF Withdraws, WithdrawFor
    <2>2. leaving' \in LeavingRecords /\ leaving'.token = leaving.token /\ leaving'.at = "forget"
      BY <1>1, <2>1, RunsMade
    <2>3. leaving.token \in 1..tokens
      BY <1>1, <2>1 DEF PushInv, RunHolds
    <2>4. /\ targets' \in [1..tokens -> Person \cup {None}]
          /\ \A t \in 1..tokens : targets'[t] = (IF t = leaving.token /\ targets[t] = signedIn THEN None ELSE targets[t])
      BY <1>1, <2>1, <2>3
    <2>5. PushTypes'
      BY <1>1, <2>1, <2>2, <2>4 DEF PushInv, PushTypes, RunRecords, LeavingRecords
    <2>6. RunHolds' /\ NewestWorks' /\ SentIsKept'
      BY <1>1, <2>1, <2>2, <2>4 DEF PushInv, RunHolds, NewestWorks, SentIsKept, Staying
    <2>7. ~missed /\ works # 0 => targets'[works] = None
      BY <1>1, <2>1, <2>4 DEF PushInv, Withdrawable
    <2> QED BY <2>1, <2>5, <2>6, <2>7 DEF PushInv, Withdrawable
  <1>5. CASE WithdrawFails
    <2>1. /\ leaving.at = "withdraw" /\ leaving' = [leaving EXCEPT !.at = "forget"] /\ missed' = TRUE
          /\ UNCHANGED <<signedIn, tokens, works, kept, targets, ready, run>>
      BY <1>5 DEF WithdrawFails
    <2>2. leaving' \in LeavingRecords /\ leaving'.token = leaving.token /\ leaving'.at = "forget"
      BY <1>1, <2>1, RunsMade
    <2>3. missed' \in BOOLEAN
      BY <2>1
    <2>4. PushTypes'
      BY <1>1, <2>1, <2>2, <2>3 DEF PushInv, PushTypes, RunRecords, LeavingRecords
    <2>5. RunHolds' /\ NewestWorks' /\ SentIsKept' /\ Withdrawable'
      BY <2>1, <2>2 DEF PushInv, RunHolds, NewestWorks, SentIsKept, Withdrawable, Staying
    <2> QED BY <2>4, <2>5 DEF PushInv
  <1>6. CASE Forgets
    <2>1. /\ leaving.at = "forget" /\ leaving' = [leaving EXCEPT !.at = "leave"] /\ kept' = 0
          /\ UNCHANGED <<signedIn, tokens, works, targets, ready, run, missed>>
      BY <1>6 DEF Forgets
    <2>2. leaving' \in LeavingRecords /\ leaving'.token = leaving.token /\ leaving'.at = "leave"
      BY <1>1, <2>1, RunsMade
    <2>3. PushTypes'
      BY <1>1, <2>1, <2>2 DEF PushInv, PushTypes, RunRecords, LeavingRecords
    <2>4. RunHolds' /\ NewestWorks' /\ SentIsKept' /\ Withdrawable'
      BY <2>1, <2>2 DEF PushInv, RunHolds, NewestWorks, SentIsKept, Withdrawable, Staying
    <2> QED BY <2>3, <2>4 DEF PushInv
  <1>7. CASE Leaves
    <2>1. /\ leaving.at = "leave" /\ signedIn' = None /\ leaving' = Staying /\ ready' = FALSE /\ run' = Idle
          /\ UNCHANGED <<tokens, works, kept, targets, missed>>
      BY <1>7 DEF Leaves
    <2>2. ready' \in BOOLEAN
      BY <2>1
    <2>3. PushTypes'
      BY <1>1, <2>1, <2>2, RunsMade DEF PushInv, PushTypes, RunRecords, LeavingRecords
    <2>4. RunHolds' /\ NewestWorks' /\ SentIsKept'
      BY <1>1, <2>1, RunsMade DEF PushInv, RunHolds, NewestWorks, SentIsKept
    <2>5. Withdrawable'
      BY <2>1 DEF PushInv, Withdrawable
    <2> QED BY <2>3, <2>4, <2>5 DEF PushInv
  <1> QED BY <1>2, <1>3, <1>4, <1>5, <1>6, <1>7

LEMMA PushStep == PushInv /\ [Next]_vars => PushInv'
  <1> SUFFICES ASSUME PushInv, [Next]_vars PROVE PushInv'
    OBVIOUS
  <1>1. PushUser \/ PushAnswers \/ UNCHANGED push
    BY PartSteps
  <1>2. CASE PushUser
    BY <1>2, BootsKeep, AttemptsKeep, LeavingKeeps, TokenKeeps DEF PushUser
  <1>3. CASE PushAnswers
    BY <1>3, AttemptsKeep, TokenKeeps, KeepTokenKeeps, RegisteringKeeps, LeavingKeeps DEF PushAnswers
  <1>4. CASE UNCHANGED push
    BY <1>4 DEF push, PushInv, PushTypes, RunRecords, LeavingRecords, RunHolds, NewestWorks, SentIsKept,
                Withdrawable, Staying
  <1> QED BY <1>1, <1>2, <1>3, <1>4

LEMMA BrowserIsShared == PushInv => SharedBrowserSafe
  BY DEF PushInv, Withdrawable, SharedBrowserSafe

-----------------------------------------------------------------------------
(* The pages before one is signed in: the values.                          *)

Passwords == Account \X Nat
LinkRecords == [for : {"reset", "verify", "invite"}, account : Account, n : Nat]
AccountRecords == [state : {"none", "unconfirmed", "active", "deleted"}, password : Passwords,
                   version : Nat, second : BOOLEAN]
GrantRecords == [account : Account, version : Nat, password : Passwords, coded : BOOLEAN]
Whats == {"login", "totp", "forgot", "reset", "accept", "resend", "signup", "verify", "preview", "delete"}
PageNames == {"login", "reset", "verify", "accept", "signup", "delete", "app"}
ViewNames == {"form", "code", "forgot", "done", "waiting", "checking", "failed", "organization", "you",
              "password", "sent", "items"}
TabRecords == [at : PageNames, view : ViewNames, link : LinkRecords \cup {None},
               pending : GrantRecords \cup {None}, busy : SUBSET Whats,
               typed : (Account \X Passwords) \cup {None}]
CallRecords == [tab : Tab \cup {None}, what : Whats, account : Account, password : Passwords \cup {None},
                link : LinkRecords \cup {None}, of : Account, pending : GrantRecords \cup {None},
                seen : AccountRecords \cup {None}, answer : {None, "ok", "code", "sent"},
                gives : GrantRecords \cup {None}]

AccessTypes ==
    /\ account \in [Account -> AccountRecords]
    /\ mailed \subseteq LinkRecords /\ IsFiniteSet(mailed) /\ usable \subseteq mailed
    /\ used \in [mailed -> Nat]
    /\ sessions \subseteq GrantRecords /\ cookie \in GrantRecords \cup {None}
    /\ tabs \in [Tab -> TabRecords] /\ calls \subseteq CallRecords
    /\ \A g \in overtaken : g.account \in Account /\ ~g.coded

(* A password is its account's own; who has no account has the first.      *)
AccountsOwn ==
    \A a \in Account :
       /\ account[a].password[1] = a
       /\ account[a].state = "none" => account[a].password = <<a, 0>> /\ ~account[a].second

(* No two links are the same, and one that is usable was not used.         *)
LinksFresh ==
    \A l \in mailed : l.n < Cardinality(mailed) /\ used[l] <= 1 /\ (l \in usable => used[l] = 0)

(* What was granted was granted for the password of its version, or to a   *)
(* sign-in that a reset overtook.                                          *)
Granted(g) ==
    /\ g.version <= account[g.account].version
    /\ g.version = account[g.account].version =>
         g.password = account[g.account].password \/ [g EXCEPT !.coded = FALSE] \in overtaken
SessionGood(s) == Granted(s) /\ (account[s.account].second => s.coded)
SessionsGood == \A s \in sessions : SessionGood(s)

(* What a tab shows was mailed and granted.                                *)
TabGood(p) ==
    /\ p.at = "reset" => p.link \in mailed /\ p.link.for = "reset"
    /\ p.pending # None => Granted(p.pending)
TabsGood == \A t \in Tab : TabGood(tabs[t])

(* An account as it was read.                                              *)
Snapshot(s, a) ==
    /\ s.version <= account[a].version
    /\ s.version = account[a].version => s.password = account[a].password
    /\ s.second = account[a].second /\ s.password[1] = a
    /\ s.state # "none" => account[a].state # "none"

(* What is sent says whose it is; and while a link for a new password is   *)
(* usable nobody has set another since the account was read.               *)
CallGood(c) ==
    /\ c.password # None => c.password[1] = c.account
    /\ c.what \in {"accept", "signup"} => c.password = <<c.account, 0>>
    /\ c.what = "reset" => c.link \in mailed /\ c.link.for = "reset" /\ c.link.account = c.account /\ c.password # None
    /\ c.what # "delete" => c.of = c.account
    /\ c.seen # None => Snapshot(c.seen, c.of)
    /\ c.what = "reset" /\ c.seen # None /\ c.link \in usable => c.seen.version = account[c.account].version
    /\ c.what = "totp" => c.pending # None /\ c.pending.account = c.account /\ Granted(c.pending)
    /\ c.answer = "code" /\ c.gives # None => Granted(c.gives)
CallsGood == \A c \in calls : CallGood(c)

AccessInv ==
    /\ AccessTypes /\ AccountsOwn /\ LinksFresh /\ SessionsGood /\ TabsGood /\ CallsGood
    /\ DeletesOwn

(* What the values are made of.                                            *)
LEMMA AccountAttributes ==
  ASSUME NEW s \in AccountRecords
  PROVE  /\ s.state \in {"none", "unconfirmed", "active", "deleted"} /\ s.password \in Passwords
         /\ s.version \in Nat /\ s.second \in BOOLEAN
  BY DEF AccountRecords

LEMMA GrantAttributes ==
  ASSUME NEW g \in GrantRecords
  PROVE  g.account \in Account /\ g.version \in Nat /\ g.password \in Passwords /\ g.coded \in BOOLEAN
  BY DEF GrantRecords

LEMMA TabAttributes ==
  ASSUME NEW p \in TabRecords
  PROVE  /\ p.at \in PageNames /\ p.view \in ViewNames /\ p.link \in LinkRecords \cup {None}
         /\ p.pending \in GrantRecords \cup {None} /\ p.busy \in SUBSET Whats
         /\ p.typed \in (Account \X Passwords) \cup {None}
  BY DEF TabRecords

LEMMA CallAttributes ==
  ASSUME NEW c \in CallRecords
  PROVE  /\ c.tab \in Tab \cup {None} /\ c.what \in Whats /\ c.account \in Account
         /\ c.password \in Passwords \cup {None} /\ c.link \in LinkRecords \cup {None} /\ c.of \in Account
         /\ c.pending \in GrantRecords \cup {None} /\ c.seen \in AccountRecords \cup {None}
         /\ c.answer \in {None, "ok", "code", "sent"} /\ c.gives \in GrantRecords \cup {None}
  BY DEF CallRecords

LEMMA PasswordMade ==
  ASSUME NEW a \in Account, NEW n \in Nat
  PROVE  <<a, n>> \in Passwords /\ <<a, n>> # None /\ <<a, n>>[1] = a
  BY AccessAssumption DEF Passwords

(* What is made of them.                                                   *)
LEMMA TabsMade ==
  ASSUME NEW p \in TabRecords
  PROVE  /\ \A b \in SUBSET Whats : /\ [p EXCEPT !.busy = b] \in TabRecords
                                    /\ [p EXCEPT !.busy = b].at = p.at /\ [p EXCEPT !.busy = b].link = p.link
                                    /\ [p EXCEPT !.busy = b].pending = p.pending
         /\ \A v \in ViewNames : /\ [p EXCEPT !.view = v] \in TabRecords
                                 /\ [p EXCEPT !.view = v].at = p.at /\ [p EXCEPT !.view = v].link = p.link
                                 /\ [p EXCEPT !.view = v].pending = p.pending
         /\ \A x \in Account \X Passwords :
                                 /\ [p EXCEPT !.typed = x] \in TabRecords
                                 /\ [p EXCEPT !.typed = x].at = p.at /\ [p EXCEPT !.typed = x].link = p.link
                                 /\ [p EXCEPT !.typed = x].pending = p.pending
  BY DEF TabRecords

LEMMA CodeTab ==
  ASSUME NEW p \in TabRecords, NEW g \in GrantRecords \cup {None}
  PROVE  /\ [p EXCEPT !.pending = g, !.view = "code"] \in TabRecords
         /\ [p EXCEPT !.pending = g, !.view = "code"].at = p.at
         /\ [p EXCEPT !.pending = g, !.view = "code"].link = p.link
         /\ [p EXCEPT !.pending = g, !.view = "code"].pending = g
  <1> DEFINE x == [p EXCEPT !.pending = g, !.view = "code"]
  <1>1. x \in [at : {p.at}, view : {"code"}, link : {p.link}, pending : {g}, busy : {p.busy}, typed : {p.typed}]
    BY DEF TabRecords
  <1> HIDE DEF x
  <1>2. x.at = p.at /\ x.link = p.link /\ x.pending = g
    BY <1>1
  <1>3. x \in TabRecords
    BY <1>1, TabAttributes DEF TabRecords, ViewNames
  <1> QED BY <1>2, <1>3 DEF x

LEMMA PageMade ==
  ASSUME NEW at \in PageNames, NEW view \in ViewNames, NEW link \in LinkRecords \cup {None}
  PROVE  /\ Page(at, view, link) \in TabRecords /\ Page(at, view, link).at = at
         /\ Page(at, view, link).link = link /\ Page(at, view, link).pending = None
  BY DEF Page, TabRecords

LEMMA CallsSaid ==
  ASSUME NEW c \in CallRecords, NEW how \in {"ok", "code", "sent"}, NEW g \in GrantRecords \cup {None}
  PROVE  \E d \in CallRecords :
           /\ d = Said(c, how, g)
           /\ d.of = c.of /\ d.seen = c.seen /\ d.what = c.what /\ d.account = c.account /\ d.password = c.password
           /\ d.link = c.link /\ d.pending = c.pending /\ d.answer = how /\ d.gives = g
  <1> DEFINE d == [c EXCEPT !.answer = how, !.gives = g]
  <1>1. d \in [tab : {c.tab}, what : {c.what}, account : {c.account}, password : {c.password},
               link : {c.link}, of : {c.of}, pending : {c.pending}, seen : {c.seen}, answer : {how}, gives : {g}]
    BY DEF CallRecords
  <1> HIDE DEF d
  <1>2. /\ d.tab = c.tab /\ d.of = c.of /\ d.seen = c.seen /\ d.what = c.what /\ d.account = c.account /\ d.password = c.password
        /\ d.link = c.link /\ d.pending = c.pending /\ d.answer = how /\ d.gives = g
    BY <1>1
  <1>3. d \in CallRecords
    BY <1>1, CallAttributes DEF CallRecords
  <1> QED BY <1>2, <1>3 DEF d, Said

LEMMA CallsLeft ==
  ASSUME NEW c \in CallRecords, NEW t \in Tab \cup {None}
  PROVE  \E d \in CallRecords :
           /\ d = [c EXCEPT !.tab = t]
           /\ d.of = c.of /\ d.seen = c.seen /\ d.what = c.what /\ d.account = c.account /\ d.password = c.password
           /\ d.link = c.link /\ d.pending = c.pending /\ d.answer = c.answer /\ d.gives = c.gives
  <1> DEFINE d == [c EXCEPT !.tab = t]
  <1>1. d \in [tab : {t}, what : {c.what}, account : {c.account}, password : {c.password},
               link : {c.link}, of : {c.of}, pending : {c.pending}, seen : {c.seen}, answer : {c.answer}, gives : {c.gives}]
    BY DEF CallRecords
  <1> HIDE DEF d
  <1>2. /\ d.tab = t /\ d.of = c.of /\ d.seen = c.seen /\ d.what = c.what /\ d.account = c.account /\ d.password = c.password
        /\ d.link = c.link /\ d.pending = c.pending /\ d.answer = c.answer /\ d.gives = c.gives
    BY <1>1
  <1>3. d \in CallRecords
    BY <1>1, CallAttributes DEF CallRecords
  <1> QED BY <1>2, <1>3 DEF d

LEMMA CallMade ==
  ASSUME NEW t \in Tab, tabs \in [Tab -> TabRecords], NEW what \in Whats, NEW a \in Account,
         NEW p \in Passwords \cup {None}, NEW l \in LinkRecords \cup {None}
  PROVE  \E d \in CallRecords :
           /\ d = Call(t, what, a, p, l)
           /\ d.what = what /\ d.account = a /\ d.password = p /\ d.link = l /\ d.of = a
           /\ d.pending = (IF what = "totp" THEN tabs[t].pending ELSE None)
           /\ d.seen = None /\ d.answer = None
  <1> DEFINE d == Call(t, what, a, p, l)
  <1>1. tabs[t] \in TabRecords
    OBVIOUS
  <1>2. (IF what = "totp" THEN tabs[t].pending ELSE None) \in GrantRecords \cup {None}
    BY <1>1, TabAttributes
  <1>3. /\ d.what = what /\ d.account = a /\ d.password = p /\ d.link = l /\ d.of = a
        /\ d.pending = (IF what = "totp" THEN tabs[t].pending ELSE None)
        /\ d.seen = None /\ d.answer = None
    BY DEF Call
  <1>4. d \in CallRecords
    BY <1>2 DEF Call, CallRecords
  <1> QED BY <1>3, <1>4

LEMMA AccessInitially == Init => AccessInv
  <1> SUFFICES ASSUME Init PROVE AccessInv
    OBVIOUS
  <1> DEFINE one == CHOOSE a \in Account : TRUE
             Plain(a, state, second) == [state |-> state, password |-> <<a, 0>>, version |-> 0, second |-> second]
  <1>1. one \in Account
    BY AccessAssumption
  <1>2. PICK state \in {"active", "unconfirmed", "none"}, second \in BOOLEAN, for \in {"reset", "verify", "invite"} :
          /\ state = "none" => second = FALSE
          /\ account = [a \in Account |-> IF a = one THEN Plain(a, state, second) ELSE Plain(a, "active", FALSE)]
          /\ mailed = {[for |-> for, account |-> one, n |-> 0]}
          /\ usable = mailed /\ used = [l \in mailed |-> 0]
          /\ sessions = {} /\ cookie = None /\ calls = {} /\ deletions = {} /\ overtaken = {}
          /\ tabs = [t \in Tab |-> Page("login", "form", None)]
    <2>1. AccessInit
      BY DEF Init
    <2>2. PICK start \in IF part # "access" THEN {<<"active", FALSE, "reset">>}
                         ELSE {<<"active", FALSE, "reset">>, <<"active", TRUE, "reset">>,
                               <<"unconfirmed", FALSE, "verify">>, <<"none", FALSE, "invite">>} :
          /\ account = [a \in Account |-> IF a = one THEN Plain(a, start[1], start[2]) ELSE Plain(a, "active", FALSE)]
          /\ mailed = {[for |-> start[3], account |-> one, n |-> 0]}
          /\ usable = mailed /\ used = [l \in mailed |-> 0]
          /\ sessions = {} /\ cookie = None /\ calls = {} /\ deletions = {} /\ overtaken = {}
          /\ tabs = [t \in Tab |-> Page("login", "form", None)]
      BY <2>1 DEF AccessInit
    <2>3. /\ start[1] \in {"active", "unconfirmed", "none"} /\ start[2] \in BOOLEAN
          /\ start[3] \in {"reset", "verify", "invite"} /\ (start[1] = "none" => start[2] = FALSE)
      <3>1. start \in {<<"active", FALSE, "reset">>, <<"active", TRUE, "reset">>,
                       <<"unconfirmed", FALSE, "verify">>, <<"none", FALSE, "invite">>}
        OBVIOUS
      <3>2. CASE start = <<"active", FALSE, "reset">>
        BY <3>2
      <3>3. CASE start = <<"active", TRUE, "reset">>
        BY <3>3
      <3>4. CASE start = <<"unconfirmed", FALSE, "verify">>
        BY <3>4
      <3>5. CASE start = <<"none", FALSE, "invite">>
        BY <3>5
      <3> QED BY <3>1, <3>2, <3>3, <3>4, <3>5
    <2> QED BY <2>2, <2>3
  <1>3. PICK l : l = [for |-> for, account |-> one, n |-> 0]
    OBVIOUS
  <1>4. l \in LinkRecords /\ l.n = 0 /\ mailed = {l}
    BY <1>1, <1>2, <1>3 DEF LinkRecords
  <1>5. \A a \in Account : /\ Plain(a, state, second) \in AccountRecords /\ Plain(a, "active", FALSE) \in AccountRecords
                           /\ Plain(a, state, second).password = <<a, 0>> /\ Plain(a, "active", FALSE).password = <<a, 0>>
                           /\ Plain(a, state, second).state = state /\ Plain(a, "active", FALSE).state = "active"
                           /\ Plain(a, state, second).second = second
    BY DEF AccountRecords, Passwords
  <1> HIDE DEF Plain, one
  <1>6. account \in [Account -> AccountRecords]
    BY <1>2, <1>5
  <1>7. IsFiniteSet(mailed) /\ Cardinality(mailed) = 1
    BY <1>4, FS_Singleton
  <1>8. \A t \in Tab : tabs[t] = Page("login", "form", None)
    BY <1>2
  <1>9. /\ Page("login", "form", None) \in TabRecords /\ Page("login", "form", None).at = "login"
        /\ Page("login", "form", None).pending = None
    BY PageMade DEF PageNames, ViewNames
  <1>10. AccessTypes
    BY <1>2, <1>4, <1>6, <1>7, <1>9 DEF AccessTypes
  <1>11. AccountsOwn
    <2>1. ASSUME NEW a \in Account
          PROVE  account[a].password = <<a, 0>> /\ (account[a].state = "none" => ~account[a].second)
      <3>1. CASE a = one
        BY <1>2, <3>1, <1>5
      <3>2. CASE a # one
        <4>1. account[a] = Plain(a, "active", FALSE)
          BY <1>2, <3>2
        <4> QED BY <1>5, <4>1
      <3> QED BY <3>1, <3>2
    <2> QED BY <2>1, PasswordMade DEF AccountsOwn
  <1>12. LinksFresh
    BY <1>2, <1>4, <1>7 DEF LinksFresh
  <1>13. SessionsGood /\ CallsGood /\ DeletesOwn
    BY <1>2 DEF SessionsGood, CallsGood, DeletesOwn
  <1>14. TabsGood
    BY <1>8, <1>9 DEF TabsGood, TabGood
  <1> QED BY <1>10, <1>11, <1>12, <1>13, <1>14 DEF AccessInv

(* What the pages do by themselves.                                        *)
LEMMA PagesTurn ==
  ASSUME AccessInv, UNCHANGED <<account, mailed, usable, used, sessions, deletions, overtaken>>,
         cookie' \in GrantRecords \cup {None}, tabs' \in [Tab -> TabRecords],
         \A t \in Tab : TabGood(tabs'[t]), calls' \subseteq CallRecords, \A c \in calls' : CallGood(c)
  PROVE  AccessInv'
  <1>1. AccessTypes'
    BY DEF AccessInv, AccessTypes
  <1>2. AccountsOwn' /\ LinksFresh' /\ DeletesOwn'
    BY DEF AccessInv, AccountsOwn, LinksFresh, DeletesOwn
  <1>3. SessionsGood'
    BY DEF AccessInv, SessionsGood, SessionGood, Granted
  <1>4. TabsGood'
    <2>1. \A t \in Tab : TabGood(tabs[t])' <=> TabGood(tabs'[t])
      BY DEF TabGood, Granted
    <2> QED BY <2>1 DEF TabsGood
  <1>5. CallsGood'
    BY DEF CallsGood, CallGood, Snapshot, Granted
  <1> QED BY <1>1, <1>2, <1>3, <1>4, <1>5 DEF AccessInv

(* Accounts grow: a version goes with one password.                        *)
AccountsGrow ==
    \A a \in Account :
       /\ account'[a].version >= account[a].version
       /\ account'[a].version = account[a].version => account'[a].password = account[a].password
       /\ account'[a].second = account[a].second
       /\ account[a].state # "none" => account'[a].state # "none"

(* A call and what is left of it when it was carried out.                  *)
SameCall(c, b) ==
    /\ c.what = b.what /\ c.account = b.account /\ c.password = b.password /\ c.link = b.link
    /\ c.of = b.of /\ c.pending = b.pending /\ c.seen = b.seen

(* What the server does.                                                   *)
LEMMA ServerLeaves ==
  ASSUME AccessInv, AccountsGrow, account' \in [Account -> AccountRecords], AccountsOwn', LinksFresh',
         mailed' \subseteq LinkRecords, IsFiniteSet(mailed'), usable' \subseteq mailed', used' \in [mailed' -> Nat],
         mailed \subseteq mailed', \A l \in mailed : l \in usable' => l \in usable,
         \A l \in mailed : l.for = "reset" /\ l \in usable' =>
             account'[l.account].version = account[l.account].version,
         sessions' \subseteq GrantRecords, \A s \in sessions' : s \in sessions \/ SessionGood(s)',
         calls' \subseteq CallRecords,
         \A c \in calls' : \E b \in calls :
             SameCall(c, b) /\ (c = b \/ (c.answer = "code" /\ c.gives # None => Granted(c.gives)')),
         \A d \in deletions' : d \in deletions \/ d[1] = d[2],
         overtaken \subseteq overtaken', \A g \in overtaken' : g.account \in Account /\ ~g.coded,
         UNCHANGED <<cookie, tabs>>
  PROVE  AccessInv'
  <1>1. AccessTypes'
    BY DEF AccessInv, AccessTypes
  <1>2. DeletesOwn'
    BY DEF AccessInv, DeletesOwn
  <1>3. \A a \in Account : /\ account[a].version \in Nat /\ account'[a].version \in Nat
                           /\ account[a].second \in BOOLEAN
    BY AccountAttributes DEF AccessInv, AccessTypes
  <1>4. ASSUME NEW g \in GrantRecords, Granted(g) PROVE Granted(g)'
    <2>1. g.account \in Account /\ g.version \in Nat
      BY GrantAttributes
    <2> QED BY <1>3, <1>4, <2>1 DEF Granted, AccountsGrow
  <1>5. ASSUME NEW s \in sessions' PROVE SessionGood(s)'
    <2>1. CASE s \in sessions
      BY <2>1, GrantAttributes, <1>4 DEF AccessInv, AccessTypes, SessionsGood, SessionGood,
         AccountsGrow
    <2> QED BY <2>1
  <1>6. TabsGood'
    <2>1. ASSUME NEW t \in Tab PROVE TabGood(tabs[t])'
      BY <1>4, TabAttributes DEF AccessInv, AccessTypes, TabsGood, TabGood
    <2> QED BY <2>1 DEF TabsGood
  <1>7. ASSUME NEW c \in calls' PROVE CallGood(c)'
    <2>1. PICK b \in calls :
            SameCall(c, b) /\ (c = b \/ (c.answer = "code" /\ c.gives # None => Granted(c.gives)'))
      BY <1>7
    <2>8. b \in CallRecords /\ CallGood(b) /\ c \in CallRecords
      BY <2>1 DEF AccessInv, AccessTypes, CallsGood
    <2>3. c.account \in Account /\ c.of \in Account
      BY <2>8, CallAttributes
    <2>4. c.seen # None => Snapshot(c.seen, c.of)'
      <3>1. SUFFICES ASSUME c.seen # None PROVE Snapshot(c.seen, c.of)'
        OBVIOUS
      <3>2. c.seen.version \in Nat /\ Snapshot(c.seen, c.of)
        BY <2>8, <2>1, <3>1, CallAttributes, AccountAttributes DEF CallGood, SameCall
      <3> QED BY <1>3, <2>3, <3>2 DEF Snapshot, AccountsGrow
    <2>5. c.what = "reset" /\ c.seen # None /\ c.link \in usable' => c.seen.version = account'[c.account].version
      BY <2>1, <2>8 DEF CallGood, SameCall
    <2>6. c.what = "totp" => c.pending # None /\ c.pending.account = c.account /\ Granted(c.pending)'
      BY <1>4, <2>8, <2>1, CallAttributes DEF CallGood, SameCall
    <2>7. c.answer = "code" /\ c.gives # None => Granted(c.gives)'
      BY <1>4, <2>8, <2>1, CallAttributes DEF CallGood
    <2>9. /\ c.password # None => c.password[1] = c.account
          /\ c.what \in {"accept", "signup"} => c.password = <<c.account, 0>>
          /\ c.what = "reset" => c.link \in mailed' /\ c.link.for = "reset" /\ c.link.account = c.account /\ c.password # None
          /\ c.what # "delete" => c.of = c.account
      BY <2>1, <2>8 DEF CallGood, SameCall
    <2> QED BY <2>4, <2>5, <2>6, <2>7, <2>9 DEF CallGood
  <1> QED BY <1>1, <1>2, <1>5, <1>6, <1>7 DEF AccessInv, SessionsGood, CallsGood

LEMMA SaidSame ==
  ASSUME NEW c \in CallRecords, NEW how \in {"ok", "code", "sent"}, NEW g \in GrantRecords \cup {None}
  PROVE  /\ Said(c, how, g) \in CallRecords /\ SameCall(Said(c, how, g), c)
         /\ Said(c, how, g).answer = how /\ Said(c, how, g).gives = g
  <1>1. PICK d \in CallRecords :
           /\ d = Said(c, how, g)
           /\ d.of = c.of /\ d.seen = c.seen /\ d.what = c.what /\ d.account = c.account /\ d.password = c.password
           /\ d.link = c.link /\ d.pending = c.pending /\ d.answer = how /\ d.gives = g
    BY CallsSaid
  <1> QED BY <1>1 DEF SameCall

LEMMA SameItself == \A c : SameCall(c, c)
  BY DEF SameCall

(* A tab whose button is off is otherwise as it was.                       *)
LEMMA TabChanged ==
  ASSUME AccessInv, NEW t \in Tab, NEW p \in TabRecords, TabGood(p), tabs' = [tabs EXCEPT ![t] = p]
  PROVE  tabs' \in [Tab -> TabRecords] /\ \A u \in Tab : TabGood(tabs'[u])
  BY DEF AccessInv, AccessTypes, TabsGood

LEMMA BusyTab ==
  ASSUME AccessInv, NEW t \in Tab, NEW what \in Whats
  PROVE  /\ tabs[t] \in TabRecords /\ TabGood(tabs[t])
         /\ Busy(t, what) \in TabRecords /\ Busy(t, what).at = tabs[t].at
         /\ Busy(t, what).link = tabs[t].link /\ Busy(t, what).pending = tabs[t].pending
         /\ TabGood(Busy(t, what))
  <1>1. tabs[t] \in TabRecords /\ TabGood(tabs[t])
    BY DEF AccessInv, AccessTypes, TabsGood
  <1>2. PICK p \in TabRecords : p = tabs[t]
    BY <1>1
  <1>3. PICK b \in SUBSET Whats : b = p.busy \cup {what}
    BY TabAttributes
  <1>4. Busy(t, what) = [p EXCEPT !.busy = b]
    BY <1>2, <1>3 DEF Busy
  <1>5. /\ Busy(t, what) \in TabRecords /\ Busy(t, what).at = p.at
        /\ Busy(t, what).link = p.link /\ Busy(t, what).pending = p.pending
    BY <1>4, TabsMade
  <1> QED BY <1>1, <1>2, <1>5 DEF TabGood

(* What is sent from a tab.                                                *)
LEMMA NewCall ==
  ASSUME AccessInv, NEW t \in Tab, NEW what \in Whats, NEW a \in Account, NEW p \in Passwords \cup {None},
         NEW l \in LinkRecords \cup {None},
         p # None => p[1] = a,
         what \in {"accept", "signup"} => p = <<a, 0>>,
         what = "reset" => l \in mailed /\ l.for = "reset" /\ l.account = a /\ p # None,
         what = "totp" => tabs[t].pending # None /\ tabs[t].pending.account = a
  PROVE  Call(t, what, a, p, l) \in CallRecords /\ CallGood(Call(t, what, a, p, l))
  BY CallMade, AccessAssumption DEF AccessInv, AccessTypes, TabsGood, TabGood, CallGood

LEMMA SubmitKeeps ==
  ASSUME AccessInv, NEW t \in Tab, NEW at, NEW view, NEW what \in Whats, NEW a \in Account,
         NEW p \in Passwords \cup {None}, Submit(t, at, view, what, a, p),
         p # None => p[1] = a,
         what \in {"accept", "signup"} => p = <<a, 0>>,
         what = "reset" => at = "reset" /\ tabs[t].link # None /\ tabs[t].link.account = a /\ p # None,
         what = "totp" => tabs[t].pending # None /\ tabs[t].pending.account = a
  PROVE  AccessInv'
  <1>1. /\ tabs[t].at = at /\ tabs' = [tabs EXCEPT ![t] = Busy(t, what)]
        /\ calls' = calls \cup {Call(t, what, a, p, tabs[t].link)}
        /\ UNCHANGED <<account, mailed, usable, used, sessions, cookie, deletions, overtaken>>
    BY DEF Submit, TurnsTo
  <1>2. /\ tabs[t] \in TabRecords /\ TabGood(tabs[t])
        /\ Busy(t, what) \in TabRecords /\ TabGood(Busy(t, what))
    BY BusyTab
  <1>3. tabs' \in [Tab -> TabRecords] /\ \A u \in Tab : TabGood(tabs'[u])
    BY <1>1, <1>2, TabChanged
  <1>4. PICK l \in LinkRecords \cup {None} : l = tabs[t].link
    BY <1>2, TabAttributes
  <1>5. what = "reset" => l \in mailed /\ l.for = "reset" /\ l.account = a /\ p # None
    BY <1>1, <1>2, <1>4 DEF TabGood
  <1>6. Call(t, what, a, p, l) \in CallRecords /\ CallGood(Call(t, what, a, p, l))
    BY <1>5, NewCall
  <1>7. calls' \subseteq CallRecords /\ \A c \in calls' : CallGood(c)
    BY <1>1, <1>4, <1>6 DEF AccessInv, AccessTypes, CallsGood
  <1> QED BY <1>1, <1>3, <1>7, PagesTurn DEF AccessInv, AccessTypes

(* The forms that are sent.                                                *)
LEMMA FormsSentKeep ==
  ASSUME AccessInv, NEW t \in Tab,
         \/ \E a \in Account : SignIn(t, a) \/ Forgot(t, a) \/ Resend(t, a)
         \/ SendCode(t) \/ SetPassword(t) \/ Join(t)
  PROVE  AccessInv'
  <1>1. \A a \in Account : account[a] \in AccountRecords /\ account[a].password \in Passwords /\ account[a].password[2] \in Nat
    BY AccountAttributes DEF AccessInv, AccessTypes, Passwords
  <1>2. \A a \in Account : \A p \in Known(a) : p \in Passwords /\ p[1] = a
    BY <1>1 DEF Known, Passwords
  <1>3. tabs[t] \in TabRecords /\ tabs[t].link \in LinkRecords \cup {None} /\ tabs[t].pending \in GrantRecords \cup {None}
    BY BusyTab, TabAttributes DEF Whats
  <1>4. ASSUME NEW a \in Account, SignIn(t, a) PROVE AccessInv'
    <2>1. PICK p \in Known(a) : Submit(t, "login", "form", "login", a, p)
      BY <1>4 DEF SignIn
    <2> QED BY <1>2, <2>1, SubmitKeeps DEF Whats
  <1>5. ASSUME NEW a \in Account, Forgot(t, a) PROVE AccessInv'
    BY <1>5, SubmitKeeps DEF Whats, Forgot
  <1>6. ASSUME NEW a \in Account, Resend(t, a) PROVE AccessInv'
    <2>1. PICK at, view : Submit(t, at, view, "resend", a, None)
      BY <1>6 DEF Resend
    <2> QED BY <2>1, SubmitKeeps DEF Whats
  <1>7. CASE SendCode(t)
    BY <1>7, <1>3, GrantAttributes, SubmitKeeps DEF SendCode, Whats
  <1>8. CASE SetPassword(t)
    BY <1>8, <1>3, <1>1, PasswordMade, SubmitKeeps DEF SetPassword, LinkRecords, NewPassword, Whats
  <1>9. CASE Join(t)
    BY <1>9, <1>3, PasswordMade, SubmitKeeps DEF Join, LinkRecords, Whats
  <1> QED BY <1>4, <1>5, <1>6, <1>7, <1>8, <1>9

LEMMA TypedFormsKeep ==
  ASSUME AccessInv, NEW t \in Tab, NEW a \in Account, CreateOrganization(t, a) \/ SubmitDeletion(t, a)
  PROVE  AccessInv'
  <1>1. account[a] \in AccountRecords /\ account[a].password \in Passwords /\ account[a].password[2] \in Nat
    BY AccountAttributes DEF AccessInv, AccessTypes, Passwords
  <1>2. \A p \in Known(a) : p \in Passwords /\ p[1] = a
    BY <1>1 DEF Known, Passwords
  <1>3. <<a, 0>> \in Passwords /\ <<a, 0>>[1] = a /\ <<a, 0>> \in Known(a)
    BY <1>1, PasswordMade DEF Known
  <1>4. PICK button \in {"signup", "delete"}, what \in {"signup", "totp", "login"}, p \in Known(a) :
          /\ tabs' = [tabs EXCEPT ![t] = [Busy(t, button) EXCEPT !.typed = <<a, p>>]]
          /\ calls' = calls \cup {Call(t, what, a, p, None)}
          /\ what = "signup" => p = <<a, 0>>
          /\ what = "totp" => tabs[t].pending # None /\ tabs[t].pending.account = a
          /\ UNCHANGED <<account, mailed, usable, used, sessions, cookie, deletions, overtaken>>
    BY <1>3 DEF CreateOrganization, TurnsTo, SubmitDeletion
  <1>5. button \in Whats /\ what \in Whats
    BY DEF Whats
  <1>6. PICK b \in TabRecords : b = Busy(t, button) /\ TabGood(b)
    BY <1>5, BusyTab
  <1>7. PICK x \in Account \X Passwords : x = <<a, p>>
    BY <1>2
  <1>8. /\ [b EXCEPT !.typed = x] \in TabRecords /\ TabGood([b EXCEPT !.typed = x])
    BY <1>6, TabsMade DEF TabGood
  <1>9. tabs' \in [Tab -> TabRecords] /\ \A u \in Tab : TabGood(tabs'[u])
    BY <1>4, <1>6, <1>7, <1>8, TabChanged
  <1>10. Call(t, what, a, p, None) \in CallRecords /\ CallGood(Call(t, what, a, p, None))
    BY <1>2, <1>4, <1>5, NewCall
  <1>11. calls' \subseteq CallRecords /\ \A c \in calls' : CallGood(c)
    BY <1>4, <1>10 DEF AccessInv, AccessTypes, CallsGood
  <1> QED BY <1>4, <1>9, <1>11, PagesTurn DEF AccessInv, AccessTypes

(* Nobody waits any more for what a tab had sent.                          *)
LEMMA LeftGood ==
  ASSUME AccessInv, NEW t \in Tab, NEW rest \in SUBSET calls
  PROVE  Left(t, rest) \subseteq CallRecords /\ \A c \in Left(t, rest) : CallGood(c)
  <1>1. ASSUME NEW c \in Left(t, rest) PROVE c \in CallRecords /\ CallGood(c)
    <2>1. PICK b \in rest : c = [b EXCEPT !.tab = IF b.tab = t THEN None ELSE b.tab]
      BY DEF Left
    <2>2. b \in CallRecords /\ CallGood(b)
      BY DEF AccessInv, AccessTypes, CallsGood
    <2>3. PICK u \in Tab \cup {None} : u = (IF b.tab = t THEN None ELSE b.tab)
      BY <2>2, CallAttributes
    <2>4. PICK d \in CallRecords :
           /\ d = [b EXCEPT !.tab = u]
           /\ d.of = b.of /\ d.seen = b.seen /\ d.what = b.what /\ d.account = b.account /\ d.password = b.password
           /\ d.link = b.link /\ d.pending = b.pending /\ d.answer = b.answer /\ d.gives = b.gives
      BY <2>2, CallsLeft
    <2>5. CallGood(d)
      BY <2>2, <2>4 DEF CallGood
    <2> QED BY <2>1, <2>3, <2>4, <2>5
  <1> QED BY <1>1

LEMMA OpensKeep ==
  ASSUME AccessInv, NEW t \in Tab, NEW p \in TabRecords, TabGood(p), NEW new, new \subseteq CallRecords,
         \A c \in new : CallGood(c), Opens(t, p, new)
  PROVE  AccessInv'
  BY LeftGood, TabChanged, PagesTurn DEF Opens, TurnsTo, AccessInv, AccessTypes

LEMMA PagesOpenedKeep ==
  ASSUME AccessInv, NEW t \in Tab, OpenPage(t) \/ (\E l \in mailed : OpenLink(t, l)) \/ Redirected(t)
  PROVE  AccessInv'
  <1>1. ASSUME NEW at \in {"login", "signup", "delete", "verify"}, NEW view \in {"form", "organization", "waiting"},
               Opens(t, Page(at, view, None), {})
        PROVE  AccessInv'
    BY PageMade, <1>1, OpensKeep DEF PageNames, ViewNames, TabGood
  <1>2. CASE OpenPage(t)
    BY <1>2, <1>1 DEF OpenPage
  <1>3. CASE Redirected(t)
    BY <1>1, <1>3 DEF Redirected
  <1>4. ASSUME NEW l \in mailed, OpenLink(t, l) PROVE AccessInv'
    <2>1. l \in LinkRecords /\ l.account \in Account
      BY DEF AccessInv, AccessTypes, LinkRecords
    <2>2. ASSUME NEW what \in {"verify", "preview"}
          PROVE  Call(t, what, l.account, None, l) \in CallRecords /\ CallGood(Call(t, what, l.account, None, l))
      BY <2>1, NewCall DEF Whats
    <2>3. CASE l.for = "reset" /\ Opens(t, Page("reset", "form", l), {})
      BY <2>1, <2>3, PageMade, OpensKeep DEF PageNames, ViewNames, TabGood
    <2>4. CASE Opens(t, Page("verify", "checking", l), {Call(t, "verify", l.account, None, l)})
      BY <2>1, PageMade, <2>2, <2>4, OpensKeep DEF PageNames, ViewNames, TabGood
    <2>5. CASE Opens(t, Page("accept", "checking", l), {Call(t, "preview", l.account, None, l)})
      BY <2>1, PageMade, <2>2, <2>5, OpensKeep DEF PageNames, ViewNames, TabGood
    <2> QED BY <1>4, <2>3, <2>4, <2>5 DEF OpenLink
  <1> QED BY <1>2, <1>3, <1>4

LEMMA TurnsKeep ==
  ASSUME AccessInv, NEW t \in Tab, NEW from, NEW to \in PageViews["login"] \cup PageViews["signup"], Turns(t, from, to)
  PROVE  AccessInv'
  <1>1. /\ tabs' = [tabs EXCEPT ![t] = [tabs[t] EXCEPT !.view = to]]
        /\ UNCHANGED <<account, mailed, usable, used, sessions, cookie, calls, deletions, overtaken>>
    BY DEF Turns, TurnsTo
  <1>2. to \in ViewNames
    BY DEF PageViews, ViewNames
  <1>3. PICK p \in TabRecords : p = tabs[t] /\ TabGood(p)
    BY DEF AccessInv, AccessTypes, TabsGood
  <1>4. [p EXCEPT !.view = to] \in TabRecords /\ TabGood([p EXCEPT !.view = to])
    BY <1>2, <1>3, TabsMade DEF TabGood
  <1> QED BY <1>1, <1>3, <1>4, TabChanged, PagesTurn DEF AccessInv, AccessTypes, CallsGood

(* The links: one is mailed, one is taken.                                 *)
LEMMA LinkMailed ==
  ASSUME AccessInv, NEW for \in {"reset", "verify", "invite"}, NEW a \in Account,
         Mails(Link(for, a)), usable' \subseteq usable \cup {Link(for, a)}
  PROVE  /\ LinksFresh' /\ mailed' \subseteq LinkRecords /\ IsFiniteSet(mailed') /\ usable' \subseteq mailed'
         /\ used' \in [mailed' -> Nat] /\ mailed \subseteq mailed'
         /\ \A l \in mailed : l \in usable' => l \in usable
  <1>1. /\ mailed \subseteq LinkRecords /\ IsFiniteSet(mailed) /\ usable \subseteq mailed /\ used \in [mailed -> Nat]
        /\ Cardinality(mailed) \in Nat
    BY FS_CardinalityType DEF AccessInv, AccessTypes
  <1>2. PICK new \in LinkRecords : new = Link(for, a) /\ new.n = Cardinality(mailed)
    BY <1>1 DEF Link, LinkRecords
  <1>3. new \notin mailed
    BY <1>1, <1>2 DEF AccessInv, LinksFresh
  <1>4. mailed' = mailed \cup {new} /\ used' = Put(used, new, 0)
    BY <1>1, <1>2, <1>3 DEF Mails
  <1>5. IsFiniteSet(mailed') /\ Cardinality(mailed') = Cardinality(mailed) + 1
    BY <1>1, <1>3, <1>4, FS_AddElement
  <1>6. used' \in [mailed' -> Nat] /\ used'[new] = 0 /\ \A l \in mailed : used'[l] = used[l]
    BY <1>1, <1>3, <1>4 DEF Put
  <1>7. \A l \in mailed : l \in usable' => l \in usable
    BY <1>2, <1>3
  <1>8. LinksFresh'
    <2>1. ASSUME NEW l \in mailed' PROVE l.n < Cardinality(mailed') /\ used'[l] <= 1 /\ (l \in usable' => used'[l] = 0)
      <3>1. CASE l = new
        BY <1>1, <1>2, <1>5, <1>6, <3>1
      <3>2. CASE l \in mailed
        BY <1>1, <3>2, <1>5, <1>6, <1>7 DEF AccessInv, LinksFresh, LinkRecords
      <3> QED BY <1>4, <2>1, <3>1, <3>2
    <2> QED BY <2>1 DEF LinksFresh
  <1> QED BY <1>1, <1>2, <1>4, <1>5, <1>6, <1>7, <1>8

LEMMA LinkTaken ==
  ASSUME AccessInv, NEW c, TakesLink(c), mailed' = mailed, usable' \subseteq usable \ {c.link}
  PROVE  /\ LinksFresh' /\ mailed' \subseteq LinkRecords /\ IsFiniteSet(mailed') /\ usable' \subseteq mailed'
         /\ used' \in [mailed' -> Nat] /\ mailed \subseteq mailed'
         /\ \A l \in mailed : l \in usable' => l \in usable
  BY DEF AccessInv, AccessTypes, TakesLink, LinksFresh

LEMMA LinksLeft ==
  ASSUME AccessInv, UNCHANGED <<mailed, used>>, usable' \subseteq usable
  PROVE  /\ LinksFresh' /\ mailed' \subseteq LinkRecords /\ IsFiniteSet(mailed') /\ usable' \subseteq mailed'
         /\ used' \in [mailed' -> Nat] /\ mailed \subseteq mailed'
         /\ \A l \in mailed : l \in usable' => l \in usable
  BY DEF AccessInv, AccessTypes, LinksFresh

(* An account that is changed.                                             *)
LEMMA AccountChanged ==
  ASSUME AccessInv, NEW a \in Account, NEW s \in AccountRecords, account' = [account EXCEPT ![a] = s],
         s.password[1] = a, s.state # "none", s.second = account[a].second,
         \/ s.version = account[a].version /\ s.password = account[a].password
         \/ s.version = account[a].version + 1
  PROVE  AccountsGrow /\ account' \in [Account -> AccountRecords] /\ AccountsOwn'
  BY AccountAttributes DEF AccessInv, AccessTypes, AccountsGrow, AccountsOwn

LEMMA AccountsLeft ==
  ASSUME AccessInv, UNCHANGED account
  PROVE  AccountsGrow /\ account' \in [Account -> AccountRecords] /\ AccountsOwn'
  BY AccountAttributes DEF AccessInv, AccessTypes, AccountsOwn, AccountsGrow

(* What a call becomes when it was carried out.                            *)
LEMMA CallAnswered ==
  ASSUME AccessInv, NEW c \in calls, NEW how \in {"ok", "code", "sent"}, NEW g \in GrantRecords \cup {None},
         Becomes(c, {Said(c, how, g)}), how = "code" /\ g # None => Granted(g)'
  PROVE  /\ calls' \subseteq CallRecords
         /\ \A d \in calls' : \E b \in calls :
               SameCall(d, b) /\ (d = b \/ (d.answer = "code" /\ d.gives # None => Granted(d.gives)'))
  <1>1. calls' = (calls \ {c}) \cup {Said(c, how, g)} /\ calls \subseteq CallRecords
    BY DEF Becomes, AccessInv, AccessTypes
  <1>2. /\ Said(c, how, g) \in CallRecords /\ SameCall(Said(c, how, g), c)
        /\ Said(c, how, g).answer = how /\ Said(c, how, g).gives = g
    BY <1>1, SaidSame
  <1> QED BY <1>1, <1>2, SameItself

LEMMA GrantMade ==
  ASSUME NEW a \in Account, NEW v \in Nat, NEW p \in Passwords, NEW b \in BOOLEAN
  PROVE  /\ Grant(a, v, p, b) \in GrantRecords /\ Grant(a, v, p, b).account = a /\ Grant(a, v, p, b).version = v
         /\ Grant(a, v, p, b).password = p /\ Grant(a, v, p, b).coded = b
  BY DEF Grant, GrantRecords

LEMMA GrantPlain ==
  ASSUME NEW g \in GrantRecords
  PROVE  /\ ~g.coded => [g EXCEPT !.coded = FALSE] = g
         /\ \A h \in GrantRecords : g.account = h.account /\ g.version = h.version /\ g.password = h.password
               => [g EXCEPT !.coded = FALSE] = [h EXCEPT !.coded = FALSE]
  BY DEF GrantRecords

LEMMA StateSet ==
  ASSUME NEW o \in AccountRecords, NEW to \in {"none", "unconfirmed", "active", "deleted"}
  PROVE  \E s \in AccountRecords :
           /\ s = [o EXCEPT !.state = to] /\ s.state = to
           /\ s.password = o.password /\ s.version = o.version /\ s.second = o.second
  <1> DEFINE s == [o EXCEPT !.state = to]
  <1>1. s \in [state : {to}, password : {o.password}, version : {o.version}, second : {o.second}]
    BY DEF AccountRecords
  <1> HIDE DEF s
  <1>2. s.state = to /\ s.password = o.password /\ s.version = o.version /\ s.second = o.second
    BY <1>1
  <1>3. s \in AccountRecords
    BY <1>1, AccountAttributes DEF AccountRecords
  <1> QED BY <1>2, <1>3 DEF s

(* The server: signing in.                                                 *)
LEMMA ServesSignIn ==
  ASSUME AccessInv, NEW c \in calls, c.seen # None, UNCHANGED <<cookie, tabs>>,
         ServeLogin(c) \/ (ServeTotp(c) /\ UNCHANGED overtaken)
  PROVE  AccessInv'
  <1>1. c \in CallRecords /\ CallGood(c) /\ account \in [Account -> AccountRecords]
    BY DEF AccessInv, AccessTypes, CallsGood
  <1>2. UNCHANGED <<account, mailed, usable, used, deletions>> /\ c.what \in {"login", "totp"}
    BY DEF ServeLogin, ServeTotp
  <1>3. c.account \in Account /\ c.of = c.account /\ c.seen \in AccountRecords /\ Snapshot(c.seen, c.account)
    BY <1>1, <1>2, CallAttributes DEF CallGood
  <1>4. c.seen.version \in Nat /\ c.seen.password \in Passwords /\ c.seen.second \in BOOLEAN
    BY <1>3, AccountAttributes
  <1>5. PICK how \in {"ok", "code"}, g \in GrantRecords :
           /\ Becomes(c, {Said(c, how, g)}) /\ Granted(g)'
           /\ \/ sessions' = sessions
              \/ sessions' = sessions \cup {g} /\ SessionGood(g)'
           /\ overtaken' = overtaken \/ (overtaken' = overtaken \cup {g} /\ ~g.coded)
    <2>1. CASE ServeLogin(c)
      <3>1. c.password = c.seen.password
        BY <2>1 DEF ServeLogin
      <3>2. PICK a \in Account, v \in Nat, w \in Nat, p \in Passwords :
              /\ a = c.account /\ v = c.seen.version /\ p = c.password
              /\ w = account[c.account].version
        BY <1>1, <1>3, <1>4, <3>1, AccountAttributes
      <3>3. \/ /\ c.seen.second /\ Becomes(c, {Said(c, "code", Grant(a, w, p, FALSE))}) /\ UNCHANGED sessions
               /\ overtaken' = overtaken \cup IF w = v THEN {} ELSE {Grant(a, w, p, FALSE)}
            \/ ~c.seen.second /\ Starts(c, Grant(a, v, p, FALSE)) /\ UNCHANGED overtaken
        BY <2>1, <3>2 DEF ServeLogin
      <3>4. CASE ~c.seen.second /\ Starts(c, Grant(a, v, p, FALSE)) /\ UNCHANGED overtaken
        BY <1>2, <1>3, <3>1, <3>2, <3>4 DEF Grant, GrantRecords, Snapshot, Granted, SessionGood, Starts
      <3>5. CASE /\ Becomes(c, {Said(c, "code", Grant(a, w, p, FALSE))}) /\ UNCHANGED sessions
                 /\ overtaken' = overtaken \cup IF w = v THEN {} ELSE {Grant(a, w, p, FALSE)}
        <4>1. PICK g : g = Grant(a, w, p, FALSE)
          OBVIOUS
        <4>7. g \in GrantRecords /\ g.account = a /\ g.version = w /\ g.password = p
          BY <4>1 DEF Grant, GrantRecords
        <4>6. ~g.coded
          BY <4>1 DEF Grant
        <4>2. w = account'[a].version /\ (w = v => p = account'[a].password)
          BY <1>2, <1>3, <3>1, <3>2 DEF Snapshot
        <4>3. [g EXCEPT !.coded = FALSE] = g
          BY <4>6, <4>7, GrantPlain
        <4>8. w = v \/ g \in overtaken'
          BY <3>5, <4>1
        <4>4. Granted(g)'
          <5>1. (g.version <= account[g.account].version)'
            BY <4>2, <4>7
          <5>2. (g.password = account[g.account].password)' \/ [g EXCEPT !.coded = FALSE] \in overtaken'
            <6>1. CASE w = v
              BY <4>2, <4>7, <6>1
            <6>2. CASE g \in overtaken'
              BY <4>3, <6>2
            <6> QED BY <4>8, <6>1, <6>2
          <5> QED BY <5>1, <5>2 DEF Granted
        <4>9. Becomes(c, {Said(c, "code", g)}) /\ UNCHANGED sessions
          BY <3>5, <4>1
        <4>5. overtaken' = overtaken \/ (overtaken' = overtaken \cup {g} /\ ~g.coded)
          BY <3>5, <4>1, <4>6
        <4> QED BY <4>4, <4>5, <4>7, <4>9
      <3> QED BY <3>3, <3>4, <3>5
    <2>2. CASE ServeTotp(c) /\ UNCHANGED overtaken
      <3>1. /\ c.pending.version = c.seen.version /\ Starts(c, Grant(c.account, c.seen.version, c.pending.password, TRUE))
            /\ c.what = "totp"
        BY <2>2 DEF ServeTotp
      <3>2. c.pending \in GrantRecords /\ c.pending.account = c.account /\ Granted(c.pending)
        BY <1>1, <3>1, CallAttributes DEF CallGood
      <3>3. PICK a \in Account, v \in Nat, p \in Passwords :
              a = c.account /\ v = c.seen.version /\ p = c.pending.password
        BY <1>3, <1>4, <3>2, GrantAttributes
      <3>4. PICK g : g = Grant(a, v, p, TRUE)
        OBVIOUS
      <3>10. g \in GrantRecords /\ g.account = a /\ g.version = v /\ g.password = p
        BY <3>4 DEF Grant, GrantRecords
      <3>9. g.coded
        BY <3>4 DEF Grant
      <3>5. Starts(c, g)
        BY <3>1, <3>3, <3>4
      <3>6. [g EXCEPT !.coded = FALSE] = [c.pending EXCEPT !.coded = FALSE]
        BY <3>1, <3>2, <3>3, <3>10, GrantPlain
      <3>7. Granted(g)'
        <4>1. g.account = c.pending.account /\ g.version = c.pending.version /\ g.password = c.pending.password
          BY <3>1, <3>2, <3>3, <3>10
        <4> QED BY <1>2, <2>2, <3>2, <3>6, <4>1 DEF Granted
      <3>8. SessionGood(g)'
        BY <3>7, <3>9 DEF SessionGood
      <3> QED BY <2>2, <3>5, <3>7, <3>8, <3>10 DEF Starts
    <2> QED BY <2>1, <2>2
  <1>6. \A s \in sessions' : s \in sessions \/ SessionGood(s)'
    BY <1>5
  <1>7. sessions' \subseteq GrantRecords
    BY <1>5 DEF AccessInv, AccessTypes
  <1>8. overtaken \subseteq overtaken' /\ \A x \in overtaken' : x.account \in Account /\ ~x.coded
    BY <1>5, GrantAttributes DEF AccessInv, AccessTypes
  <1>9. /\ calls' \subseteq CallRecords
        /\ \A d \in calls' : \E b \in calls :
              SameCall(d, b) /\ (d = b \/ (d.answer = "code" /\ d.gives # None => Granted(d.gives)'))
    BY <1>5, CallAnswered
  <1> QED BY <1>2, <1>6, <1>7, <1>8, <1>9, LinksLeft, AccountsLeft, ServerLeaves

(* The links that are asked for.                                           *)
LEMMA ServesLinks ==
  ASSUME AccessInv, NEW c \in calls, ServeForgot(c) \/ ServeResend(c) \/ ServePreview(c), UNCHANGED <<cookie, tabs, overtaken>>
  PROVE  AccessInv'
  <1>1. c \in CallRecords /\ c.account \in Account
    BY CallAttributes DEF AccessInv, AccessTypes
  <1>2. UNCHANGED <<account, sessions, deletions>> /\ Becomes(c, {Said(c, "ok", None)})
    BY DEF ServeForgot, ServeResend, ServePreview
  <1>3. \/ Mails(Link("reset", c.account)) /\ usable' \subseteq usable \cup {Link("reset", c.account)}
        \/ Mails(Link("verify", c.account)) /\ usable' \subseteq usable \cup {Link("verify", c.account)}
        \/ UNCHANGED <<mailed, used>> /\ usable' \subseteq usable
    BY DEF ServeForgot, ServeResend, ServePreview
  <1>4. /\ LinksFresh' /\ mailed' \subseteq LinkRecords /\ IsFiniteSet(mailed') /\ usable' \subseteq mailed'
        /\ used' \in [mailed' -> Nat] /\ mailed \subseteq mailed'
        /\ \A l \in mailed : l \in usable' => l \in usable
    BY <1>1, <1>3, LinkMailed, LinksLeft
  <1>5. sessions' \subseteq GrantRecords /\ \A s \in sessions' : s \in sessions
    BY <1>2 DEF AccessInv, AccessTypes
  <1>6. /\ calls' \subseteq CallRecords
        /\ \A d \in calls' : \E b \in calls :
              SameCall(d, b) /\ (d = b \/ (d.answer = "code" /\ d.gives # None => Granted(d.gives)'))
    BY <1>2, CallAnswered
  <1> QED BY <1>2, <1>4, <1>5, <1>6, AccountsLeft, ServerLeaves DEF AccessInv, AccessTypes

(* A new password.                                                         *)
LEMMA ServesReset ==
  ASSUME AccessInv, NEW c \in calls, c.seen # None, ServeReset(c), UNCHANGED <<cookie, tabs, overtaken>>
  PROVE  AccessInv'
  <1>1. c \in CallRecords /\ CallGood(c) /\ account \in [Account -> AccountRecords]
    BY DEF AccessInv, AccessTypes, CallsGood
  <1>2. /\ c.what = "reset" /\ c.seen.state \in {"active", "unconfirmed"} /\ TakesLink(c)
        /\ usable' = usable \ Retired(c.account, "reset")
        /\ account' = [account EXCEPT ![c.account].password = c.password, ![c.account].version = c.seen.version + 1]
        /\ sessions' = {s \in sessions : s.account # c.account}
        /\ Becomes(c, {Said(c, "ok", None)}) /\ UNCHANGED <<mailed, deletions>>
    BY DEF ServeReset
  <1>3. /\ c.account \in Account /\ c.of = c.account /\ c.seen \in AccountRecords /\ Snapshot(c.seen, c.account)
        /\ c.password \in Passwords /\ c.password[1] = c.account /\ c.link.for = "reset" /\ c.link.account = c.account
    BY <1>1, <1>2, CallAttributes DEF CallGood
  <1>4. c.link \in usable /\ c.seen.version = account[c.account].version
    BY <1>1, <1>2 DEF CallGood, TakesLink
  <1>5. PICK v \in Nat : v = c.seen.version + 1 /\ v = account[c.account].version + 1
    BY <1>1, <1>3, <1>4, AccountAttributes
  <1>6. PICK o \in AccountRecords : o = account[c.account]
    BY <1>1, <1>3
  <1> DEFINE s == [[o EXCEPT !.password = c.password] EXCEPT !.version = v]
  <1>7. s \in [state : {o.state}, password : {c.password}, version : {v}, second : {o.second}]
    BY <1>6 DEF AccountRecords
  <1>8. account' = [account EXCEPT ![c.account] = s]
    BY <1>1, <1>2, <1>3, <1>5, <1>6
  <1> HIDE DEF s
  <1>9. /\ s.state = o.state /\ s.password = c.password /\ s.version = v /\ s.second = o.second
    BY <1>7
  <1>10. s \in AccountRecords
    BY <1>3, <1>6, <1>7, AccountAttributes DEF AccountRecords
  <1>11. o.state # "none"
    BY <1>2, <1>3, <1>6 DEF Snapshot
  <1>12. AccountsGrow /\ account' \in [Account -> AccountRecords] /\ AccountsOwn'
    BY <1>3, <1>5, <1>6, <1>8, <1>9, <1>10, <1>11, AccountChanged
  <1>13. usable' \subseteq usable \ {c.link}
    BY <1>2, <1>3, <1>4 DEF Retired
  <1>14. ASSUME NEW l \in mailed, l.for = "reset", l \in usable'
         PROVE  account'[l.account].version = account[l.account].version
    <2>1. l.account # c.account /\ l.account \in Account
      BY <1>2, <1>14 DEF Retired, AccessInv, AccessTypes, LinkRecords
    <2> QED BY <1>1, <1>8, <2>1
  <1>15. /\ LinksFresh' /\ mailed' \subseteq LinkRecords /\ IsFiniteSet(mailed') /\ usable' \subseteq mailed'
         /\ used' \in [mailed' -> Nat] /\ mailed \subseteq mailed'
         /\ \A l \in mailed : l \in usable' => l \in usable
    BY <1>2, <1>13, LinkTaken
  <1>16. sessions' \subseteq GrantRecords /\ \A g \in sessions' : g \in sessions
    BY <1>2 DEF AccessInv, AccessTypes
  <1>17. /\ calls' \subseteq CallRecords
         /\ \A d \in calls' : \E b \in calls :
               SameCall(d, b) /\ (d = b \/ (d.answer = "code" /\ d.gives # None => Granted(d.gives)'))
    BY <1>2, CallAnswered
  <1> QED BY <1>2, <1>12, <1>14, <1>15, <1>16, <1>17, ServerLeaves DEF AccessInv, AccessTypes

(* An address is confirmed, an invitation is accepted, an organization is  *)
(* created, an account is deleted.                                         *)
LEMMA ServesVerify ==
  ASSUME AccessInv, NEW c \in calls, ServeVerify(c), UNCHANGED <<cookie, tabs, overtaken>>
  PROVE  AccessInv'
  <1>1. c \in CallRecords /\ c.account \in Account /\ account \in [Account -> AccountRecords]
    BY CallAttributes DEF AccessInv, AccessTypes
  <1>2. PICK o \in AccountRecords : o = account[c.account]
    BY <1>1
  <1>3. PICK to \in {"none", "unconfirmed", "active", "deleted"} : to = (IF o.state = "unconfirmed" THEN "active" ELSE o.state)
    BY <1>2, AccountAttributes
  <1>4. account' = [account EXCEPT ![c.account] = [o EXCEPT !.state = to]]
    BY <1>1, <1>2, <1>3 DEF ServeVerify
  <1>5. PICK s \in AccountRecords : /\ s = [o EXCEPT !.state = to] /\ s.state = to
                                    /\ s.password = o.password /\ s.version = o.version /\ s.second = o.second
    <2>1. o \in AccountRecords /\ to \in {"none", "unconfirmed", "active", "deleted"}
      BY <1>2, <1>3, AccountAttributes
    <2> QED BY <2>1, StateSet
  <1>6. AccountsGrow /\ account' \in [Account -> AccountRecords] /\ AccountsOwn'
    <2>1. account'[c.account] = s /\ \A b \in Account \ {c.account} : account'[b] = account[b]
      BY <1>1, <1>4, <1>5
    <2>2. \A b \in Account : account[b].version \in Nat
      BY <1>1, AccountAttributes
    <2>5. (s.state = "none" <=> o.state = "none")
      BY <1>3, <1>5
    <2>3. AccountsGrow
      <3>1. ASSUME NEW b \in Account
            PROVE  /\ account'[b].version = account[b].version /\ account'[b].password = account[b].password
                   /\ account'[b].second = account[b].second
                   /\ account[b].state # "none" => account'[b].state # "none"
        BY <1>2, <1>5, <2>1, <2>5
      <3> QED BY <2>2, <3>1 DEF AccountsGrow
    <2>4. AccountsOwn'
      <3>1. s.password[1] = c.account /\ (s.state = "none" => s.password = <<c.account, 0>> /\ ~s.second)
        BY <1>1, <1>2, <1>5, <2>5 DEF AccessInv, AccountsOwn
      <3> QED BY <2>1, <3>1 DEF AccessInv, AccountsOwn
    <2> QED BY <1>1, <1>4, <1>5, <2>3, <2>4
  <1>7. \A l \in mailed : account'[l.account].version = account[l.account].version
    BY <1>1, <1>2, <1>4, <1>5 DEF AccessInv, AccessTypes, LinkRecords
  <1>8. /\ LinksFresh' /\ mailed' \subseteq LinkRecords /\ IsFiniteSet(mailed') /\ usable' \subseteq mailed'
        /\ used' \in [mailed' -> Nat] /\ mailed \subseteq mailed'
        /\ \A l \in mailed : l \in usable' => l \in usable
    BY LinkTaken DEF ServeVerify
  <1>9. UNCHANGED <<sessions, deletions>> /\ sessions' \subseteq GrantRecords
    BY DEF ServeVerify, AccessInv, AccessTypes
  <1>10. /\ calls' \subseteq CallRecords
         /\ \A d \in calls' : \E b \in calls :
               SameCall(d, b) /\ (d = b \/ (d.answer = "code" /\ d.gives # None => Granted(d.gives)'))
    BY CallAnswered DEF ServeVerify
  <1> QED BY <1>6, <1>7, <1>8, <1>9, <1>10, ServerLeaves DEF AccessInv, AccessTypes

(* Who had no account has one, with the password it was given first.       *)
LEMMA AccountBegun ==
  ASSUME AccessInv, NEW a \in Account, NEW state \in {"unconfirmed", "active"}, account[a].state = "none",
         NewAccount(a, state, <<a, 0>>)
  PROVE  /\ AccountsGrow /\ account' \in [Account -> AccountRecords] /\ AccountsOwn'
         /\ \A b \in Account : account'[b].version = account[b].version
         /\ account[a].version \in Nat /\ account'[a].password = <<a, 0>> /\ ~account'[a].second
  <1>1. account \in [Account -> AccountRecords]
    BY DEF AccessInv, AccessTypes
  <1>2. PICK o \in AccountRecords : o = account[a] /\ o.password = <<a, 0>> /\ o.second = FALSE
    BY <1>1, AccountAttributes DEF AccessInv, AccountsOwn
  <1>3. PICK p \in Passwords : p = <<a, 0>> /\ p[1] = a
    BY PasswordMade
  <1>4. account' = [account EXCEPT ![a] = [o EXCEPT !.state = state, !.password = p]]
    BY <1>1, <1>2, <1>3 DEF NewAccount
  <1> DEFINE s == [o EXCEPT !.state = state, !.password = p]
  <1>5. s \in [state : {state}, password : {p}, version : {o.version}, second : {o.second}]
    BY <1>2 DEF AccountRecords
  <1>6. account' = [account EXCEPT ![a] = s]
    BY <1>4
  <1> HIDE DEF s
  <1>7. s.state = state /\ s.password = p /\ s.version = o.version /\ s.second = o.second
    BY <1>5
  <1>8. s \in AccountRecords
    BY <1>2, <1>3, <1>5, AccountAttributes DEF AccountRecords
  <1>9. AccountsGrow /\ account' \in [Account -> AccountRecords] /\ AccountsOwn'
    BY <1>2, <1>3, <1>6, <1>7, <1>8, AccountChanged
  <1>10. \A b \in Account : account'[b].version = account[b].version
    BY <1>1, <1>2, <1>6, <1>7
  <1>11. account'[a] = s /\ account[a].version \in Nat
    BY <1>1, <1>2, <1>6, AccountAttributes
  <1> QED BY <1>2, <1>3, <1>7, <1>9, <1>10, <1>11

LEMMA BegunSignedIn ==
  ASSUME AccessInv, NEW a \in Account, NEW state \in {"unconfirmed", "active"}, account[a].state = "none",
         NewAccount(a, state, <<a, 0>>), NEW c \in calls, Starts(c, Grant(a, account[a].version, <<a, 0>>, FALSE))
  PROVE  /\ sessions' \subseteq GrantRecords /\ \A s \in sessions' : s \in sessions \/ SessionGood(s)'
         /\ calls' \subseteq CallRecords
         /\ \A d \in calls' : \E b \in calls :
               SameCall(d, b) /\ (d = b \/ (d.answer = "code" /\ d.gives # None => Granted(d.gives)'))
  <1>1. /\ account[a].version \in Nat /\ account'[a].version = account[a].version
        /\ account'[a].password = <<a, 0>> /\ ~account'[a].second
    BY AccountBegun
  <1>2. PICK v \in Nat, p \in Passwords : v = account[a].version /\ p = <<a, 0>>
    BY <1>1, PasswordMade
  <1>3. PICK flag \in BOOLEAN : flag = FALSE
    OBVIOUS
  <1>4. PICK g \in GrantRecords : /\ g = Grant(a, v, p, flag) /\ g.account = a /\ g.version = v /\ g.password = p
    BY <1>2, GrantMade
  <1>5. sessions' = sessions \cup {g} /\ Becomes(c, {Said(c, "ok", g)})
    <2>1. g = Grant(a, account[a].version, <<a, 0>>, FALSE)
      BY <1>2, <1>4, <1>3 DEF Grant
    <2> QED BY <2>1 DEF Starts
  <1>6. SessionGood(g)'
    BY <1>1, <1>2, <1>4 DEF Granted, SessionGood
  <1>7. /\ calls' \subseteq CallRecords
        /\ \A d \in calls' : \E b \in calls :
               SameCall(d, b) /\ (d = b \/ (d.answer = "code" /\ d.gives # None => Granted(d.gives)'))
    BY <1>5, CallAnswered
  <1> QED BY <1>5, <1>6, <1>7 DEF AccessInv, AccessTypes

LEMMA ServesJoin ==
  ASSUME AccessInv, NEW c \in calls, ServeAccept(c) \/ ServeSignup(c), UNCHANGED <<cookie, tabs, overtaken>>
  PROVE  AccessInv'
  <1>1. c \in CallRecords /\ c.account \in Account /\ CallGood(c)
    BY CallAttributes DEF AccessInv, AccessTypes, CallsGood
  <1>2. PICK a \in Account : a = c.account /\ account[a].state = "none" /\ c.password = <<a, 0>>
    BY <1>1 DEF CallGood, ServeAccept, ServeSignup
  <1>3. PICK state \in {"unconfirmed", "active"} : NewAccount(a, state, <<a, 0>>)
    BY <1>2 DEF ServeAccept, ServeSignup
  <1>4. /\ AccountsGrow /\ account' \in [Account -> AccountRecords] /\ AccountsOwn'
        /\ \A b \in Account : account'[b].version = account[b].version
    BY <1>2, <1>3, AccountBegun
  <1>5. \A l \in mailed : account'[l.account].version = account[l.account].version
    BY <1>4 DEF AccessInv, AccessTypes, LinkRecords
  <1>6. /\ LinksFresh' /\ mailed' \subseteq LinkRecords /\ IsFiniteSet(mailed') /\ usable' \subseteq mailed'
        /\ used' \in [mailed' -> Nat] /\ mailed \subseteq mailed'
        /\ \A l \in mailed : l \in usable' => l \in usable
    <2>1. CASE ServeAccept(c)
      BY <2>1, LinkTaken DEF ServeAccept
    <2>2. CASE ServeSignup(c)
      BY <1>2, <2>2, LinkMailed, LinksLeft DEF ServeSignup
    <2> QED BY <2>1, <2>2
  <1>7. /\ sessions' \subseteq GrantRecords /\ \A s \in sessions' : s \in sessions \/ SessionGood(s)'
        /\ calls' \subseteq CallRecords
        /\ \A d \in calls' : \E b \in calls :
              SameCall(d, b) /\ (d = b \/ (d.answer = "code" /\ d.gives # None => Granted(d.gives)'))
    BY <1>2, <1>3, BegunSignedIn, CallAnswered DEF ServeAccept, ServeSignup, AccessInv, AccessTypes
  <1>8. UNCHANGED deletions
    BY DEF ServeAccept, ServeSignup
  <1> QED BY <1>4, <1>5, <1>6, <1>7, <1>8, ServerLeaves DEF AccessInv, AccessTypes

LEMMA ServesDelete ==
  ASSUME AccessInv, NEW c \in calls, c.seen # None, ServeDelete(c), UNCHANGED <<cookie, tabs, overtaken>>
  PROVE  AccessInv'
  <1>1. c \in CallRecords /\ CallGood(c) /\ account \in [Account -> AccountRecords]
    BY DEF AccessInv, AccessTypes, CallsGood
  <1>2. /\ c.of \in Account /\ c.seen \in AccountRecords /\ Snapshot(c.seen, c.of) /\ c.seen.state = "active"
        /\ c.password = c.seen.password
    BY <1>1, CallAttributes DEF CallGood, ServeDelete, Confirmed
  <1>3. c.account = c.of
    BY <1>2, AccountAttributes, AccessAssumption, <1>1 DEF Snapshot, Passwords, CallGood
  <1>4. PICK o \in AccountRecords : o = account[c.of] /\ o.state # "none"
    BY <1>1, <1>2 DEF Snapshot
  <1>5. PICK s \in AccountRecords : /\ s = [o EXCEPT !.state = "deleted"] /\ s.state = "deleted"
                                    /\ s.password = o.password /\ s.version = o.version /\ s.second = o.second
    BY <1>4, StateSet
  <1>6. account' = [account EXCEPT ![c.of] = s]
    BY <1>1, <1>2, <1>4, <1>5 DEF ServeDelete
  <1>7. AccountsGrow /\ account' \in [Account -> AccountRecords] /\ AccountsOwn'
    <2>1. s.password[1] = c.of
      BY <1>2, <1>4, <1>5 DEF AccessInv, AccountsOwn
    <2> QED BY <1>2, <1>4, <1>5, <1>6, <2>1, AccountChanged
  <1>8. \A l \in mailed : account'[l.account].version = account[l.account].version
    BY <1>1, <1>2, <1>4, <1>5, <1>6 DEF AccessInv, AccessTypes, LinkRecords
  <1>9. usable' \subseteq usable /\ UNCHANGED <<mailed, used>>
    BY DEF ServeDelete
  <1>10. sessions' \subseteq GrantRecords /\ \A g \in sessions' : g \in sessions
    BY DEF ServeDelete, AccessInv, AccessTypes
  <1>11. \A d \in deletions' : d \in deletions \/ d[1] = d[2]
    BY <1>3 DEF ServeDelete
  <1>12. /\ calls' \subseteq CallRecords
         /\ \A d \in calls' : \E b \in calls :
               SameCall(d, b) /\ (d = b \/ (d.answer = "code" /\ d.gives # None => Granted(d.gives)'))
    BY CallAnswered DEF ServeDelete
  <1> QED BY <1>7, <1>8, <1>9, <1>10, <1>11, <1>12, LinksLeft, ServerLeaves DEF AccessInv, AccessTypes

(* What the server does, whole.                                            *)
LEMMA ServesFormKeeps ==
  ASSUME AccessInv, NEW c \in calls, ServesForm(c)
  PROVE  AccessInv'
  <1>1. UNCHANGED <<cookie, tabs>> /\ (c.what \in Slow => c.seen # None)
    BY DEF ServesForm
  <1>2. \/ ServeLogin(c)
        \/ /\ \/ ServeTotp(c) \/ ServeForgot(c) \/ ServeResend(c) \/ ServeReset(c) \/ ServeVerify(c)
              \/ ServePreview(c) \/ ServeAccept(c) \/ ServeSignup(c) \/ ServeDelete(c)
           /\ UNCHANGED overtaken
    BY DEF ServesForm
  <1>3. CASE ServeLogin(c) \/ (ServeTotp(c) /\ UNCHANGED overtaken)
    BY <1>1, <1>3, ServesSignIn DEF Slow, ServeLogin, ServeTotp
  <1>4. CASE (ServeForgot(c) \/ ServeResend(c) \/ ServePreview(c)) /\ UNCHANGED overtaken
    BY <1>1, <1>4, ServesLinks
  <1>5. CASE (ServeReset(c)) /\ UNCHANGED overtaken
    BY <1>1, <1>5, ServesReset DEF Slow, ServeReset
  <1>6. CASE (ServeVerify(c)) /\ UNCHANGED overtaken
    BY <1>1, <1>6, ServesVerify
  <1>7. CASE (ServeAccept(c) \/ ServeSignup(c)) /\ UNCHANGED overtaken
    BY <1>1, <1>7, ServesJoin
  <1>8. CASE (ServeDelete(c)) /\ UNCHANGED overtaken
    BY <1>1, <1>8, ServesDelete DEF Slow, ServeDelete
  <1> QED BY <1>2, <1>3, <1>4, <1>5, <1>6, <1>7, <1>8

(* An account is read: what was read is as it is.                          *)
LEMMA ReadsKeeps ==
  ASSUME AccessInv, NEW c \in calls, Reads(c)
  PROVE  AccessInv'
  <1>1. c \in CallRecords /\ CallGood(c) /\ account \in [Account -> AccountRecords] /\ calls \subseteq CallRecords
    BY DEF AccessInv, AccessTypes, CallsGood
  <1>2. PICK whose \in Account :
          /\ whose = (IF c.what = "delete" THEN cookie.account ELSE c.account)
          /\ calls' = (calls \ {c}) \cup {[c EXCEPT !.of = whose, !.seen = account[whose]]}
    BY <1>1, CallAttributes, GrantAttributes DEF Reads, AccessInv, AccessTypes, Becomes
  <1>3. PICK s \in AccountRecords : s = account[whose]
    BY <1>1
  <1>4. PICK d : d = [c EXCEPT !.of = whose, !.seen = s]
    OBVIOUS
  <1>5. /\ d \in CallRecords
        /\ d.of = whose /\ d.seen = s /\ d.what = c.what /\ d.account = c.account /\ d.password = c.password
        /\ d.link = c.link /\ d.pending = c.pending /\ d.answer = c.answer /\ d.gives = c.gives
    <2>1. c \in CallRecords /\ whose \in Account /\ s \in AccountRecords
      BY <1>1, <1>2, <1>3
    <2>2. d \in [tab : {c.tab}, what : {c.what}, account : {c.account}, password : {c.password}, link : {c.link},
                 of : {whose}, pending : {c.pending}, seen : {s}, answer : {c.answer}, gives : {c.gives}]
      BY <1>4, <2>1 DEF CallRecords
    <2>3. /\ d.tab = c.tab /\ d.of = whose /\ d.seen = s /\ d.what = c.what /\ d.account = c.account
          /\ d.password = c.password /\ d.link = c.link /\ d.pending = c.pending /\ d.answer = c.answer
          /\ d.gives = c.gives
      BY <2>2
    <2>4. d \in CallRecords
      BY <2>1, <2>2, CallAttributes DEF CallRecords
    <2> QED BY <2>3, <2>4
  <1>6. Snapshot(d.seen, d.of)
    <2>1. s.version \in Nat /\ s.password[1] = whose
      BY <1>3, AccountAttributes DEF AccessInv, AccountsOwn
    <2> QED BY <1>3, <1>5, <2>1 DEF Snapshot
  <1>7. CallGood(d)
    BY <1>2, <1>5, <1>3, <1>1, <1>6 DEF CallGood
  <1>8. calls' \subseteq CallRecords /\ \A b \in calls' : CallGood(b)
    BY <1>1, <1>2, <1>3, <1>4, <1>5, <1>7 DEF AccessInv, CallsGood
  <1>9. UNCHANGED <<account, mailed, usable, used, sessions, cookie, tabs, deletions, overtaken>>
    BY DEF Reads
  <1>10. tabs' \in [Tab -> TabRecords] /\ (\A t \in Tab : TabGood(tabs'[t])) /\ cookie' \in GrantRecords \cup {None}
    BY <1>9 DEF AccessInv, AccessTypes, TabsGood
  <1> QED BY <1>8, <1>9, <1>10, PagesTurn

(* What a tab becomes when an answer comes.                                *)
LEMMA TabAnswered ==
  ASSUME AccessInv, NEW t \in Tab, NEW b \in SUBSET Whats, NEW v \in ViewNames, NEW g \in GrantRecords \cup {None},
         g # None => Granted(g)
  PROVE  \A p \in {tabs[t], [tabs[t] EXCEPT !.busy = b], [[tabs[t] EXCEPT !.busy = b] EXCEPT !.view = v],
                   [[tabs[t] EXCEPT !.busy = b] EXCEPT !.pending = g, !.view = "code"], Page("app", "items", None)} :
            p \in TabRecords /\ TabGood(p)
  <1>1. PICK o \in TabRecords : o = tabs[t] /\ TabGood(o)
    BY DEF AccessInv, AccessTypes, TabsGood
  <1>2. PICK n \in TabRecords : n = [o EXCEPT !.busy = b] /\ TabGood(n)
    <2>1. /\ [o EXCEPT !.busy = b] \in TabRecords /\ [o EXCEPT !.busy = b].at = o.at
          /\ [o EXCEPT !.busy = b].link = o.link /\ [o EXCEPT !.busy = b].pending = o.pending
      BY <1>1, TabsMade
    <2>2. PICK n \in TabRecords : n = [o EXCEPT !.busy = b] /\ n.at = o.at /\ n.link = o.link /\ n.pending = o.pending
      BY <2>1
    <2> QED BY <1>1, <2>2 DEF TabGood
  <1>3. [n EXCEPT !.view = v] \in TabRecords /\ TabGood([n EXCEPT !.view = v])
    BY <1>2, TabsMade DEF TabGood
  <1>4. [n EXCEPT !.pending = g, !.view = "code"] \in TabRecords /\ TabGood([n EXCEPT !.pending = g, !.view = "code"])
    <2>1. /\ [n EXCEPT !.pending = g, !.view = "code"] \in TabRecords
          /\ [n EXCEPT !.pending = g, !.view = "code"].at = n.at
          /\ [n EXCEPT !.pending = g, !.view = "code"].link = n.link
          /\ [n EXCEPT !.pending = g, !.view = "code"].pending = g
      BY <1>2, CodeTab
    <2>2. PICK m \in TabRecords : /\ m = [n EXCEPT !.pending = g, !.view = "code"]
                                  /\ m.at = n.at /\ m.link = n.link /\ m.pending = g
      BY <2>1
    <2>3. TabGood(m)
      BY <1>2, <2>2 DEF TabGood
    <2> QED BY <2>2, <2>3
  <1>5. Page("app", "items", None) \in TabRecords /\ TabGood(Page("app", "items", None))
    BY PageMade DEF TabGood, PageNames, ViewNames
  <1> QED BY <1>1, <1>2, <1>3, <1>4, <1>5

LEMMA AnswersTab ==
  ASSUME AccessInv, NEW c \in calls, NEW how \in {"ok", "code", "sent", "refused"}, AnswersForm(c, how)
  PROVE  tabs' \in [Tab -> TabRecords] /\ \A u \in Tab : TabGood(tabs'[u])
  <1>1. c \in CallRecords /\ CallGood(c) /\ tabs \in [Tab -> TabRecords]
    BY DEF AccessInv, AccessTypes, CallsGood
  <1>2. c.tab \in Tab \cup {None} /\ c.gives \in GrantRecords \cup {None}
    BY <1>1, CallAttributes
  <1>3. CASE c.tab = None
    BY <1>3 DEF AnswersForm, AccessInv, AccessTypes, TabsGood
  <1>4. CASE c.tab # None
    <2>1. PICK t \in Tab : t = c.tab
      BY <1>2, <1>4
    <2>2. PICK b \in SUBSET Whats : b = Released(c)
      BY <1>1, <2>1, TabAttributes DEF Released
    <2>3. how = "code" /\ c.gives # None => Granted(c.gives)
      BY <1>1 DEF AnswersForm, CallGood
    <2>4. PICK g \in GrantRecords \cup {None} : g = (IF how = "code" THEN c.gives ELSE None) /\ (g # None => Granted(g))
      BY <1>2, <2>3
    <2>5. \E v \in ViewNames : \E p \in {tabs[t], [tabs[t] EXCEPT !.busy = b], [[tabs[t] EXCEPT !.busy = b] EXCEPT !.view = v],
                   [[tabs[t] EXCEPT !.busy = b] EXCEPT !.pending = g, !.view = "code"], Page("app", "items", None)} :
                tabs' = [tabs EXCEPT ![t] = p]
      BY <1>4, <2>1, <2>2, <2>4 DEF ViewNames, AnswersForm
    <2>6. \E p \in TabRecords : TabGood(p) /\ tabs' = [tabs EXCEPT ![t] = p]
      BY <2>4, <2>5, TabAnswered
    <2> QED BY <2>6, TabChanged
  <1> QED BY <1>3, <1>4

LEMMA AnswersFormKeeps ==
  ASSUME AccessInv, NEW c \in calls, NEW how \in {"ok", "code", "sent", "refused"}, AnswersForm(c, how)
  PROVE  AccessInv'
  <1>1. c \in CallRecords /\ CallGood(c) /\ calls \subseteq CallRecords
    BY DEF AccessInv, AccessTypes, CallsGood
  <1>2. UNCHANGED <<account, mailed, usable, used, sessions, deletions, overtaken>>
    BY DEF AnswersForm
  <1>3. cookie' \in GrantRecords \cup {None}
    BY <1>1, CallAttributes DEF AccessInv, AccessTypes, AnswersForm, TakesCookie
  <1>4. calls' \subseteq CallRecords /\ \A d \in calls' : CallGood(d)
    <2>1. \/ calls' = calls \ {c}
          \/ c.tab # None /\ calls' = Left(c.tab, calls \ {c})
          \/ c.tab # None /\ calls' = (calls \ {c}) \cup {Call(c.tab, "delete", c.account, c.password, None)}
      BY DEF AnswersForm
    <2>2. c.tab # None => c.tab \in Tab
      BY <1>1, CallAttributes
    <2>3. CASE calls' = calls \ {c}
      BY <1>1, <2>3 DEF AccessInv, CallsGood
    <2>4. CASE c.tab # None /\ calls' = Left(c.tab, calls \ {c})
      BY <2>2, <2>4, LeftGood
    <2>5. CASE c.tab # None /\ calls' = (calls \ {c}) \cup {Call(c.tab, "delete", c.account, c.password, None)}
      <3>1. /\ Call(c.tab, "delete", c.account, c.password, None) \in CallRecords
            /\ CallGood(Call(c.tab, "delete", c.account, c.password, None))
        <4>1. PICK a \in Account, p \in Passwords \cup {None} : a = c.account /\ p = c.password /\ (p # None => p[1] = a)
          BY <1>1, CallAttributes DEF CallGood
        <4> QED BY <2>2, <2>5, <4>1, NewCall DEF Whats
      <3> QED BY <1>1, <2>5, <3>1 DEF AccessInv, CallsGood
    <2> QED BY <2>1, <2>3, <2>4, <2>5
  <1> QED BY <1>2, <1>3, <1>4, AnswersTab, PagesTurn

-----------------------------------------------------------------------------
LEMMA AccessStep == AccessInv /\ [Next]_vars => AccessInv'
  <1> SUFFICES ASSUME AccessInv, [Next]_vars PROVE AccessInv'
    OBVIOUS
  <1>1. CASE UNCHANGED access
    BY <1>1, PagesTurn DEF access, AccessInv, AccessTypes, TabsGood, CallsGood
  <1>2. CASE AccessUser
    BY <1>2, FormsSentKeep, TypedFormsKeep, PagesOpenedKeep, TurnsKeep DEF AccessUser
  <1>3. CASE AccessAnswers
    BY <1>3, ReadsKeeps, ServesFormKeeps, AnswersFormKeeps, PagesOpenedKeep DEF AccessAnswers
  <1> QED BY <1>1, <1>2, <1>3, PartSteps

LEMMA AccessIsRight == AccessInv => AccessRight
  <1> SUFFICES ASSUME AccessInv PROVE AccessRight
    OBVIOUS
  <1>1. SessionsFollowPassword
    BY DEF AccessInv, SessionsGood, SessionGood, Granted, SessionsFollowPassword, Valid, OvertakenLogin
  <1>2. LinksWorkOnce
    BY DEF AccessInv, LinksFresh, LinksWorkOnce
  <1> QED BY <1>1, <1>2 DEF AccessInv, AccessRight

(* What signing out must mean holds: who is let in took the password in    *)
(* force and the second step (or took the second step of a sign-in whose   *)
(* password was compared before a reset and answered after it), a mailed   *)
(* link works once, the account that is deleted is that of the person      *)
(* whose details were typed, and on a shared browser nothing of the person *)
(* before is delivered to the next.                                        *)
THEOREM SignedOut == Spec => []SignedOutIsOut
  <1>1. AccessInv /\ PushInv => SignedOutIsOut
    BY AccessIsRight, BrowserIsShared DEF SignedOutIsOut
  <1> QED BY <1>1, AccessInitially, AccessStep, PushInitially, PushStep, PTL DEF Spec

-----------------------------------------------------------------------------
(* Access: what the pages show.                                            *)

(* What a page shows is one of its views, and one that asks for a code has *)
(* been given leave to; what is sent is sent from its own page.            *)
ViewGood(p) == p.view \in PageViews[p.at] /\ (p.view = "code" => p.pending # None)
SentFrom(what, at) ==
    /\ what = "login" => at \in {"login", "delete"}
    /\ what = "preview" => at = "accept"
    /\ what \in {"signup", "reset", "verify", "delete"} => at = what
AnswerFits(c) ==
    /\ c.answer = "code" => c.what = "login" /\ c.gives # None
    /\ c.answer = "sent" => c.what = "signup"
AccessPages ==
    /\ confirming \in BOOLEAN
    /\ \A t \in Tab : ViewGood(tabs[t])
    /\ \A c \in calls : AnswerFits(c) /\ (c.tab # None => SentFrom(c.what, tabs[c.tab].at))

LEMMA PagesInitially == Init => AccessPages
  <1> SUFFICES ASSUME Init PROVE AccessPages
    OBVIOUS
  <1>1. AccessInit
    BY DEF Init
  <1>2. confirming \in BOOLEAN /\ calls = {} /\ tabs = [t \in Tab |-> Page("login", "form", None)]
    BY <1>1 DEF AccessInit
  <1>3. Page("login", "form", None).at = "login" /\ Page("login", "form", None).view = "form"
    BY DEF Page
  <1>4. ViewGood(Page("login", "form", None))
    BY <1>3 DEF ViewGood, PageViews
  <1> QED BY <1>2, <1>4 DEF AccessPages

(* One tab changes, and what is under way.                                 *)
LEMMA TabKeepsPages ==
  ASSUME AccessInv, AccessPages, UNCHANGED confirming, NEW t \in Tab, NEW p, ViewGood(p),
         tabs' = [tabs EXCEPT ![t] = p],
         \A d \in calls' : /\ AnswerFits(d)
                           /\ \/ d.tab # t /\ \E c \in calls : d.tab = c.tab /\ d.what = c.what
                              \/ d.tab = t /\ SentFrom(d.what, p.at)
                              \/ d.tab = None
  PROVE  AccessPages'
  BY CallAttributes DEF AccessInv, AccessTypes, AccessPages, ViewGood, AnswerFits

(* No tab changes; a call is as it was, or was carried out.                *)
LEMMA CallsKeepPages ==
  ASSUME AccessPages, UNCHANGED <<confirming, tabs>>,
         \A d \in calls' : AnswerFits(d) /\ (d.tab = None \/ \E c \in calls : d.tab = c.tab /\ d.what = c.what)
  PROVE  AccessPages'
  BY DEF AccessPages, ViewGood, AnswerFits

LEMMA SubmitPages ==
  ASSUME AccessInv, AccessPages, NEW t \in Tab, NEW what \in Whats, NEW sent \in Whats, NEW a, NEW q, NEW l,
         NEW p \in {Busy(t, sent)} \cup {[Busy(t, sent) EXCEPT !.typed = x] : x \in Account \X Passwords},
         tabs' = [tabs EXCEPT ![t] = p], UNCHANGED confirming,
         calls' = calls \cup {Call(t, what, a, q, l)}, SentFrom(what, tabs[t].at)
  PROVE  AccessPages'
  <1>1. PICK o \in TabRecords : o = tabs[t] /\ ViewGood(o)
    BY DEF AccessInv, AccessTypes, AccessPages
  <1>2. PICK b \in SUBSET Whats : b = o.busy \cup {sent}
    BY TabAttributes
  <1>3. PICK n \in TabRecords : n = Busy(t, sent) /\ n.at = o.at /\ n.view = o.view /\ n.pending = o.pending
    <2>1. [o EXCEPT !.busy = b] \in TabRecords
      BY TabsMade
    <2> QED BY <1>1, <1>2, <2>1 DEF Busy, TabRecords
  <1>4. p.at = o.at /\ p.view = o.view /\ p.pending = o.pending
    BY <1>3 DEF TabRecords
  <1>5. ViewGood(p)
    BY <1>1, <1>4 DEF ViewGood
  <1> DEFINE d == Call(t, what, a, q, l)
  <1>6. d.tab = t /\ d.what = what /\ d.answer = None
    BY DEF Call
  <1>7. AnswerFits(d)
    BY <1>6, AccessAssumption DEF AnswerFits
  <1>8. \A c \in calls : AnswerFits(c) /\ (c.tab # None => SentFrom(c.what, tabs[c.tab].at))
    BY DEF AccessPages
  <1> HIDE DEF d
  <1>9. \A c \in calls' : /\ AnswerFits(c)
                         /\ \/ c.tab # t /\ \E e \in calls : c.tab = e.tab /\ c.what = e.what
                            \/ c.tab = t /\ SentFrom(c.what, p.at)
                            \/ c.tab = None
    BY <1>1, <1>4, <1>6, <1>7, <1>8 DEF d
  <1> QED BY <1>5, <1>9, TabKeepsPages

LEMMA LeftPages ==
  ASSUME AccessInv, AccessPages, NEW t \in Tab, NEW rest \in SUBSET calls
  PROVE  \A d \in Left(t, rest) : /\ AnswerFits(d)
                                  /\ d.tab = None \/ (d.tab # t /\ \E c \in calls : d.tab = c.tab /\ d.what = c.what)
  BY DEF Left, AccessInv, AccessTypes, AccessPages, CallRecords, AnswerFits
LEMMA OpenedPages ==
  ASSUME AccessInv, AccessPages, NEW t \in Tab, NEW p, ViewGood(p), NEW new, Opens(t, p, new),
         \A c \in new : AnswerFits(c) /\ c.tab = t /\ SentFrom(c.what, p.at)
  PROVE  AccessPages'
  <1>1. tabs' = [tabs EXCEPT ![t] = p] /\ calls' = Left(t, calls) \cup new /\ UNCHANGED confirming
    BY DEF Opens, TurnsTo
  <1>2. \A d \in Left(t, calls) :
           AnswerFits(d) /\ (d.tab = None \/ (d.tab # t /\ \E c \in calls : d.tab = c.tab /\ d.what = c.what))
    BY LeftPages
  <1>3. \A d \in calls' : /\ AnswerFits(d)
                         /\ \/ d.tab # t /\ \E c \in calls : d.tab = c.tab /\ d.what = c.what
                            \/ d.tab = t /\ SentFrom(d.what, p.at)
                            \/ d.tab = None
    BY <1>1, <1>2
  <1> QED BY <1>1, <1>3, TabKeepsPages

(* What the person does on a page.                                         *)
LEMMA PagesUsed ==
  ASSUME AccessInv, AccessPages, AccessUser \/ \E t \in Tab : Redirected(t)
  PROVE  AccessPages'
  <1>1. ASSUME NEW t \in Tab, NEW at, NEW view, NEW what \in Whats, NEW a, NEW q, Submit(t, at, view, what, a, q),
               SentFrom(what, at)
        PROVE  AccessPages'
    BY <1>1, SubmitPages DEF Submit, TurnsTo
  <1>2. ASSUME NEW t \in Tab, NEW at, NEW view, ViewGood(Page(at, view, None)), Opens(t, Page(at, view, None), {})
        PROVE  AccessPages'
    BY <1>2, OpenedPages
  <1>3. ASSUME NEW t \in Tab PROVE (\E a \in Account : SignIn(t, a) \/ Forgot(t, a) \/ Resend(t, a)) => AccessPages'
    BY <1>1 DEF SignIn, Forgot, Resend, SentFrom, Whats
  <1>4. ASSUME NEW t \in Tab PROVE SendCode(t) \/ SetPassword(t) \/ Join(t) => AccessPages'
    BY <1>1 DEF SendCode, SetPassword, Join, SentFrom, Whats
  <1>5. ASSUME NEW t \in Tab, NEW a \in Account PROVE CreateOrganization(t, a) \/ SubmitDeletion(t, a) => AccessPages'
    <2>1. account[a] \in AccountRecords /\ account[a].password[2] \in Nat
      BY AccountAttributes DEF AccessInv, AccessTypes, Passwords
    <2>2. \A q \in Known(a) : <<a, q>> \in Account \X Passwords
      BY <2>1 DEF Known, Passwords
    <2>3. CASE CreateOrganization(t, a)
      <3>1. <<a, <<a, 0>>>> \in Account \X Passwords /\ tabs[t].at = "signup"
        BY <2>3 DEF Passwords, CreateOrganization
      <3>2. PICK p : p = [Busy(t, "signup") EXCEPT !.typed = <<a, <<a, 0>>>>]
        OBVIOUS
      <3>3. p \in {[Busy(t, "signup") EXCEPT !.typed = x] : x \in Account \X Passwords}
        BY <3>1, <3>2
      <3>4. /\ tabs' = [tabs EXCEPT ![t] = p] /\ UNCHANGED confirming
            /\ calls' = calls \cup {Call(t, "signup", a, <<a, 0>>, None)}
        BY <2>3, <3>2 DEF CreateOrganization, TurnsTo
      <3> QED BY <3>1, <3>3, <3>4, SubmitPages DEF SentFrom, Whats
    <2>4. CASE SubmitDeletion(t, a)
      <3>1. PICK q \in Known(a), what \in {"totp", "login"} :
              /\ tabs' = [tabs EXCEPT ![t] = [Busy(t, "delete") EXCEPT !.typed = <<a, q>>]]
              /\ calls' = calls \cup {Call(t, what, a, q, None)}
              /\ UNCHANGED confirming /\ tabs[t].at = "delete"
        BY <2>4 DEF SubmitDeletion, TurnsTo
      <3>2. PICK p : p = [Busy(t, "delete") EXCEPT !.typed = <<a, q>>]
        OBVIOUS
      <3>3. p \in {[Busy(t, "delete") EXCEPT !.typed = x] : x \in Account \X Passwords}
        BY <2>2, <3>2
      <3>4. SentFrom(what, tabs[t].at) /\ what \in Whats /\ "delete" \in Whats
        BY <3>1 DEF SentFrom, Whats
      <3> QED BY <3>1, <3>2, <3>3, <3>4, SubmitPages
    <2> QED BY <2>3, <2>4
  <1>6. ASSUME NEW t \in Tab PROVE OpenPage(t) \/ Redirected(t) => AccessPages'
    BY <1>2 DEF ViewGood, Page, PageViews, OpenPage, Redirected
  <1>7. ASSUME NEW t \in Tab, NEW l \in mailed, OpenLink(t, l) PROVE AccessPages'
    <2>1. \A v \in {<<"reset", "form">>, <<"verify", "checking">>, <<"accept", "checking">>} :
             ViewGood(Page(v[1], v[2], l)) /\ Page(v[1], v[2], l).at = v[1]
      BY DEF ViewGood, Page, PageViews
    <2>2. \A what \in {"verify", "preview"} :
             \A c \in {Call(t, what, l.account, None, l)} : AnswerFits(c) /\ c.tab = t /\ c.what = what
      BY AccessAssumption DEF Call, AnswerFits
    <2>3. CASE Opens(t, Page("reset", "form", l), {})
      BY <2>1, <2>3, OpenedPages
    <2>4. CASE Opens(t, Page("verify", "checking", l), {Call(t, "verify", l.account, None, l)})
      BY <2>1, <2>2, <2>4, OpenedPages DEF SentFrom
    <2>5. CASE Opens(t, Page("accept", "checking", l), {Call(t, "preview", l.account, None, l)})
      BY <2>1, <2>2, <2>5, OpenedPages DEF SentFrom
    <2> QED BY <1>7, <2>3, <2>4, <2>5 DEF OpenLink
  <1>8. ASSUME NEW t \in Tab, NEW v, NEW w, Turns(t, v, w) PROVE AccessPages'
    <2>1. PICK o \in TabRecords : o = tabs[t] /\ ViewGood(o) /\ o.at \in {"login", "signup"} /\ o.view = v
      BY <1>8 DEF AccessInv, AccessTypes, AccessPages, Turns
    <2>2. /\ [o EXCEPT !.view = w].at = o.at /\ [o EXCEPT !.view = w].view = w
          /\ [o EXCEPT !.view = w].pending = o.pending
      BY DEF TabRecords
    <2>3. w # "code" /\ w \in PageViews[o.at]
      BY <1>8, <2>1 DEF Turns, PageViews, ViewGood
    <2>4. ViewGood([o EXCEPT !.view = w])
      BY <2>2, <2>3 DEF ViewGood
    <2>5. \A c \in calls : AnswerFits(c) /\ (c.tab # None => SentFrom(c.what, tabs[c.tab].at))
      BY DEF AccessPages
    <2>6. UNCHANGED <<calls, confirming>> /\ tabs' = [tabs EXCEPT ![t] = [o EXCEPT !.view = w]]
      BY <1>8, <2>1 DEF Turns, TurnsTo
    <2>7. \A c \in calls' : /\ AnswerFits(c)
                            /\ \/ c.tab # t /\ \E b \in calls : c.tab = b.tab /\ c.what = b.what
                               \/ c.tab = t /\ SentFrom(c.what, [o EXCEPT !.view = w].at)
                               \/ c.tab = None
      BY <2>1, <2>2, <2>5, <2>6
    <2> QED BY <2>4, <2>6, <2>7, TabKeepsPages
  <1> QED BY <1>3, <1>4, <1>5, <1>6, <1>7, <1>8 DEF AccessUser

(* What the server does, and reads before.                                 *)
LEMMA PagesServed ==
  ASSUME AccessInv, AccessPages, NEW c \in calls, ServesForm(c) \/ Reads(c)
  PROVE  AccessPages'
  <1>1. c \in CallRecords /\ AnswerFits(c)
    BY DEF AccessInv, AccessTypes, AccessPages
  <1>2. ASSUME NEW how \in {"ok", "code", "sent"}, NEW g, Becomes(c, {Said(c, how, g)}), UNCHANGED <<confirming, tabs>>,
               how = "code" => c.what = "login" /\ g # None, how = "sent" => c.what = "signup"
        PROVE  AccessPages'
    <2>1. Said(c, how, g).tab = c.tab /\ Said(c, how, g).what = c.what /\ Said(c, how, g).answer = how /\ Said(c, how, g).gives = g
      BY <1>1 DEF Said, CallRecords
    <2>2. AnswerFits(Said(c, how, g))
      BY <1>2, <2>1 DEF AnswerFits
    <2> QED BY <1>2, <2>1, <2>2, CallsKeepPages DEF Becomes, AccessPages
  <1>3. CASE Reads(c)
    <2>1. PICK a, s : Becomes(c, {[c EXCEPT !.of = a, !.seen = s]}) /\ UNCHANGED <<confirming, tabs>>
      BY <1>3 DEF Reads
    <2> DEFINE d == [c EXCEPT !.of = a, !.seen = s]
    <2>2. d.tab = c.tab /\ d.what = c.what /\ d.answer = c.answer /\ d.gives = c.gives
      BY <1>1 DEF CallRecords
    <2> HIDE DEF d
    <2>3. AnswerFits(d)
      BY <1>1, <2>2 DEF AnswerFits
    <2>4. calls' = (calls \ {c}) \cup {d}
      BY <2>1 DEF d, Becomes
    <2> QED BY <2>1, <2>2, <2>3, <2>4, CallsKeepPages DEF AccessPages
  <1>4. CASE ServesForm(c)
    <2>1. UNCHANGED <<confirming, tabs>>
      BY <1>4 DEF ServesForm
    <2>2. CASE ServeLogin(c)
      <3>1. /\ c.seen # None /\ c.seen.second \in BOOLEAN
            /\ Grant(c.account, c.seen.version, c.password, FALSE) # None
            /\ Grant(c.account, account[c.account].version, c.password, FALSE) # None
        <4>1. c.seen \in AccountRecords /\ c.account \in Account /\ account[c.account].version \in Nat
          BY <1>1, <1>4, <2>2, CallAttributes, AccountAttributes
          DEF ServesForm, ServeLogin, Slow, AccessInv, AccessTypes
        <4>2. c.seen.version \in Nat /\ c.password \in Passwords /\ c.seen.second \in BOOLEAN
          BY <2>2, <4>1, AccountAttributes DEF ServeLogin
        <4>3. /\ Grant(c.account, c.seen.version, c.password, FALSE) \in GrantRecords
              /\ Grant(c.account, account[c.account].version, c.password, FALSE) \in GrantRecords
          BY <4>1, <4>2, GrantMade
        <4> QED BY <1>4, <2>2, <4>2, <4>3, AccessAssumption DEF GrantRecords, Passwords, ServesForm, ServeLogin, Slow
      <3> QED BY <1>2, <2>1, <2>2, <3>1 DEF ServeLogin, Starts
    <2>3. CASE ServeTotp(c) \/ ServeForgot(c) \/ ServeResend(c) \/ ServeReset(c) \/ ServeVerify(c) \/ ServePreview(c)
      BY <1>2, <2>1, <2>3 DEF ServeTotp, ServeForgot, ServeResend, ServeReset, ServeVerify, ServePreview, Starts
    <2>4. CASE ServeAccept(c) \/ ServeSignup(c) \/ ServeDelete(c)
      BY <1>2, <2>1, <2>4 DEF ServeAccept, ServeSignup, ServeDelete, Starts
    <2> QED BY <1>4, <2>2, <2>3, <2>4 DEF ServesForm
  <1> QED BY <1>3, <1>4
(* An answer comes to the page it was asked from.                          *)
LEMMA PagesAnswered ==
  ASSUME AccessInv, AccessPages, NEW c \in calls, NEW how \in {"ok", "code", "sent", "refused"}, AnswersForm(c, how)
  PROVE  AccessPages'
  <1>1. /\ c \in CallRecords /\ AnswerFits(c) /\ (c.tab # None => SentFrom(c.what, tabs[c.tab].at))
        /\ UNCHANGED confirming /\ (how # "refused" => how = c.answer)
        /\ \A d \in calls : AnswerFits(d) /\ (d.tab # None => SentFrom(d.what, tabs[d.tab].at))
    BY DEF AccessInv, AccessTypes, AccessPages, AnswersForm
  <1>2. c.tab \in Tab \cup {None} /\ c.what \in Whats
    BY <1>1, CallAttributes
  <1>3. CASE c.tab = None
    <2>1. UNCHANGED <<confirming, tabs>> /\ calls' \subseteq calls
      BY <1>3 DEF AnswersForm
    <2> QED BY <1>1, <2>1, CallsKeepPages
  <1>4. CASE c.tab # None
    <2>1. PICK t \in Tab, o \in TabRecords : t = c.tab /\ o = tabs[t] /\ ViewGood(o)
      BY <1>2, <1>4 DEF AccessInv, AccessTypes, AccessPages
    <2>2. PICK b \in SUBSET Whats : b = Released(c)
      BY <2>1, TabAttributes DEF Released
    <2>3. PICK n \in TabRecords : n = [o EXCEPT !.busy = b] /\ n.at = o.at /\ n.view = o.view /\ n.pending = o.pending
      <3>1. [o EXCEPT !.busy = b] \in TabRecords
        BY TabsMade
      <3> QED BY <3>1 DEF TabRecords
    <2>4. ASSUME NEW v PROVE [n EXCEPT !.view = v].at = o.at /\ [n EXCEPT !.view = v].view = v /\ [n EXCEPT !.view = v].pending = o.pending
      BY <2>3 DEF TabRecords
    <2> DEFINE entering == o.at # "delete" /\ how = "ok" /\ c.gives # None
               deleting == o.at = "delete" /\ c.what # "delete" /\ how = "ok"
               then == Call(t, "delete", c.account, c.password, None)
               to == IF deleting THEN o
                     ELSE IF how = "code" THEN [n EXCEPT !.pending = c.gives, !.view = "code"]
                     ELSE IF entering THEN Page("app", "items", None)
                     ELSE IF how = "sent" THEN [n EXCEPT !.view = "sent"]
                     ELSE IF c.what = "preview" THEN [n EXCEPT !.view = IF how = "ok" THEN "form" ELSE "failed"]
                     ELSE IF c.what = "verify" THEN [n EXCEPT !.view = IF how = "ok" THEN "done" ELSE "failed"]
                     ELSE IF c.what \in {"reset", "delete"} /\ how = "ok" THEN [n EXCEPT !.view = "done"]
                     ELSE n
    <2>5. /\ tabs' = [tabs EXCEPT ![t] = to]
          /\ calls' = IF deleting THEN (calls \ {c}) \cup {then}
                      ELSE IF entering THEN Left(t, calls \ {c}) ELSE calls \ {c}
      BY <1>4, <2>1, <2>2, <2>3 DEF AnswersForm
    <2>6. ViewGood(n) /\ (o.view = "code" => o.pending # None) /\ SentFrom(c.what, o.at)
      BY <1>1, <1>4, <2>1, <2>3 DEF ViewGood
    <2>7. ViewGood(to) /\ (~entering => to.at = o.at)
      <3>1. CASE deleting
        BY <2>1, <3>1
      <3>2. CASE ~deleting /\ how = "code"
        <4>1. c.what = "login" /\ c.gives # None
          BY <1>1, <3>2 DEF AnswerFits
        <4>2. PICK g \in GrantRecords \cup {None} : g = c.gives /\ g # None
          BY <1>1, <4>1, CallAttributes
        <4>3. /\ [n EXCEPT !.pending = g, !.view = "code"].at = n.at
              /\ [n EXCEPT !.pending = g, !.view = "code"].pending = g
          BY CodeTab
        <4>4. [n EXCEPT !.pending = g, !.view = "code"].view = "code"
          BY DEF TabRecords
        <4>5. "code" \in PageViews[o.at]
          BY <2>6, <4>1 DEF SentFrom, PageViews
        <4> QED BY <2>3, <3>2, <4>2, <4>3, <4>4, <4>5 DEF ViewGood
      <3>3. CASE ~deleting /\ how # "code" /\ entering
        BY <3>3 DEF ViewGood, Page, PageViews
      <3>4. CASE ~deleting /\ how \notin {"code", "sent"} /\ ~entering /\ c.what \in {"preview", "verify"}
        BY <2>6, <3>4, <2>4 DEF SentFrom, PageViews, ViewGood
      <3>5. CASE ~deleting /\ how = "sent" /\ ~entering
        <4>1. o.at = "signup" /\ "sent" \in PageViews["signup"]
          BY <1>1, <2>6, <3>5 DEF SentFrom, AnswerFits, PageViews
        <4> QED BY <2>4, <3>5, <4>1 DEF ViewGood
      <3>6. CASE ~deleting /\ how = "ok" /\ ~entering /\ c.what \in {"reset", "delete"}
        BY <2>6, <3>6, <2>4 DEF SentFrom, PageViews, ViewGood
      <3>7. CASE /\ ~deleting /\ how \notin {"code", "sent"} /\ ~entering /\ c.what \notin {"preview", "verify"}
                 /\ ~(how = "ok" /\ c.what \in {"reset", "delete"})
        BY <2>3, <2>6, <3>7
      <3> QED BY <3>1, <3>2, <3>3, <3>4, <3>5, <3>6, <3>7
    <2>8. then.tab = t /\ then.what = "delete" /\ AnswerFits(then) /\ (deleting => SentFrom("delete", o.at))
      BY AccessAssumption DEF Call, AnswerFits, SentFrom
    <2> HIDE DEF then, to
    <2>9. \A d \in calls' : /\ AnswerFits(d)
                           /\ \/ d.tab # t /\ \E e \in calls : d.tab = e.tab /\ d.what = e.what
                              \/ d.tab = t /\ SentFrom(d.what, to.at)
                              \/ d.tab = None
      <3>1. CASE deleting
        BY <1>1, <2>1, <2>5, <2>7, <2>8, <3>1
      <3>2. CASE ~deleting /\ entering
        BY <2>5, <3>2, LeftPages
      <3>3. CASE ~deleting /\ ~entering
        BY <1>1, <2>1, <2>5, <2>7, <3>3
      <3> QED BY <3>1, <3>2, <3>3
    <2> QED BY <1>1, <2>5, <2>7, <2>9, TabKeepsPages
  <1> QED BY <1>3, <1>4

LEMMA PagesStep == AccessInv /\ AccessPages /\ [Next]_vars => AccessPages'
  BY PagesUsed, PagesServed, PagesAnswered, PartSteps DEF access, AccessPages, ViewGood, AnswerFits,
     AccessAnswers

-----------------------------------------------------------------------------
(* Account settings: the values.                                           *)
Preferences == [Channel -> BOOLEAN]
StoredRecords == [secret : Nat, on : BOOLEAN, codes : SUBSET Nat, ver : Nat, email : Nat,
                  pending : SUBSET Nat, prefs : Preferences]
Settings == Channel \X BOOLEAN
Args == Nat \cup Settings
RequestRecords == [d : Device, op : Ops, arg : Args, at : {"sent", "read", "clearing", "done"},
                   live : BOOLEAN, saw : StoredRecords \cup {None}, got : Nat]
ScreenRecords == [status : {"unknown", "on", "off"}, enrolment : Nat, recovery : Nat,
                  awaiting : BOOLEAN, prefs : Preferences \cup {None}]

(* What was asked: a code comes from the authenticator, and what is        *)
(* written was allowed by what was read.                                   *)
RequestGood(c) ==
    /\ c.op = "toggle" => c.arg \in Settings
    /\ c.op # "toggle" => c.arg \in Nat
    /\ c.op = "confirm" => c.arg \in scanned
    /\ c.at # "sent" => c.saw \in StoredRecords
    /\ c.at \in {"read", "clearing"} => Writes(c.op) /\ Allowed(c, c.saw)

AccountTypes ==
    /\ stored \in StoredRecords /\ minted \in Nat /\ scanned \subseteq Nat
    /\ screens \in [Device -> ScreenRecords]
    /\ requests \subseteq RequestRecords
    /\ doubtful \in [Device -> BOOLEAN] /\ mixed \in BOOLEAN
    /\ \A c \in requests : RequestGood(c)

(* The second factor, while no two requests crossed.                       *)
SecondRight ==
    ~mixed => \/ stored.on /\ stored.secret \in scanned /\ \E n \in Nat : stored.codes = {n}
              \/ ~stored.on /\ stored.codes = {}

(* The sessions left by the last change of the password, while no two      *)
(* crossed; and every session was made by a change there was.              *)
RowsRight ==
    /\ ~mixed /\ changedBy # None => DOMAIN deviceRows \subseteq {changedBy}
    /\ \A d \in DOMAIN deviceRows : deviceRows[d].made \in Nat /\ deviceRows[d].made <= minted

(* The preferences: nothing is shown before it is loaded, and but for what *)
(* other devices and lost answers did, a device shows the stored ones with *)
(* the one change that is under way.                                       *)
Toggles == {c \in requests : c.op = "toggle"}
PrefAsks(d) == {c \in requests : c.op = "preferences" /\ c.d = d}
TogglesShown == \A c \in Toggles : c.live => screens[c.d].prefs # None
AskedOnce == \A d \in Device : \A b, c \in PrefAsks(d) : b = c /\ screens[d].prefs = None
Applied(c, d) ==
    /\ c.d = d /\ c.live
    /\ c.at = "done" => screens[d].prefs # None /\ c.saw.prefs = stored.prefs
    /\ c.at # "done" =>
          /\ c.arg[2] = ~stored.prefs[c.arg[1]]
          /\ screens[d].prefs = [stored.prefs EXCEPT ![c.arg[1]] = c.arg[2]]
Following(d) ==
    /\ \A b, c \in Toggles : b = c
    /\ \A c \in Toggles : Applied(c, d)
    /\ Toggles = {} => screens[d].prefs \in {None, stored.prefs}
    /\ \A c \in PrefAsks(d) : c.at = "done" => c.saw.prefs = stored.prefs
PrefsFollow == TogglesShown /\ AskedOnce /\ \A d \in Device : ~doubtful[d] => Following(d)

AccountInv == AccountTypes /\ SecondRight /\ RowsRight /\ PrefsFollow

(* The fields.                                                             *)
LEMMA StoredAttributes ==
  ASSUME NEW s \in StoredRecords
  PROVE  /\ s.secret \in Nat /\ s.on \in BOOLEAN /\ s.codes \subseteq Nat /\ s.ver \in Nat
         /\ s.email \in Nat /\ s.pending \subseteq Nat /\ s.prefs \in Preferences
  BY DEF StoredRecords

LEMMA RequestAttributes ==
  ASSUME NEW c \in RequestRecords
  PROVE  /\ c.d \in Device /\ c.op \in Ops /\ c.at \in {"sent", "read", "clearing", "done"} /\ c.live \in BOOLEAN
         /\ c.got \in Nat
  BY DEF RequestRecords

LEMMA ScreenAttributes ==
  ASSUME NEW s \in ScreenRecords
  PROVE  s.enrolment \in Nat /\ s.recovery \in Nat /\ s.prefs \in Preferences \cup {None}
  BY DEF ScreenRecords

(* What a request says.                                                    *)
LEMMA ArgsAre == Settings \subseteq Args /\ \A n \in Nat : n \in Args
  BY DEF Args

(* A request just sent.                                                    *)
LEMMA RequestMade ==
  ASSUME NEW d \in Device, NEW op \in Ops, NEW arg \in Args
  PROVE  /\ NewRequest(d, op, arg) \in RequestRecords
         /\ NewRequest(d, op, arg).d = d /\ NewRequest(d, op, arg).op = op
         /\ NewRequest(d, op, arg).arg = arg /\ NewRequest(d, op, arg).at = "sent"
  BY DEF NewRequest, RequestRecords

LEMMA RequestLive ==
  ASSUME NEW d, NEW op, NEW arg
  PROVE  NewRequest(d, op, arg).live
  BY DEF NewRequest

LEMMA NewGood ==
  ASSUME NEW d \in Device, NEW op \in Ops, NEW arg \in Args,
         op = "toggle" => arg \in Settings, op # "toggle" => arg \in Nat,
         op = "confirm" => arg \in scanned
  PROVE  RequestGood(NewRequest(d, op, arg))
  BY RequestMade DEF RequestGood

LEMMA StaysGood ==
  ASSUME NEW c, RequestGood(c), scanned \subseteq scanned'
  PROVE  RequestGood(c)'
  BY DEF RequestGood

LEMMA TabAskings ==
  ASSUME NEW d \in Device, NEW c \in TabAsks(d)
  PROVE  /\ c \in RequestRecords /\ RequestGood(c) /\ c.d = d /\ c.at = "sent"
         /\ c.op \in {"status", "preferences"}
  BY ArgsAre, RequestMade, NewGood DEF TabAsks, Ops

LEMMA TabAskOnce ==
  ASSUME NEW d \in Device, NEW b \in TabAsks(d), NEW c \in TabAsks(d)
  PROVE  b = c
  BY DEF TabAsks

(* Where nothing about preferences changed.                                *)
LEMMA PrefsSame ==
  ASSUME PrefsFollow, AccountTypes, stored'.prefs = stored.prefs,
         \A d \in Device : screens'[d].prefs = screens[d].prefs /\ (~doubtful'[d] => ~doubtful[d]),
         requests \subseteq RequestRecords, requests' \subseteq RequestRecords,
         \A c \in requests' : c.op \in {"toggle", "preferences"} => c \in requests,
         \A c \in requests : c.op = "toggle" => c \in requests'
  PROVE  PrefsFollow'
  <1>1. Toggles' = Toggles
    BY DEF Toggles
  <1>2. \A d : PrefAsks(d)' \subseteq PrefAsks(d)
    BY DEF PrefAsks
  <1>3. \A c \in Toggles : c.d \in Device
    BY RequestAttributes DEF Toggles
  <1>4. TogglesShown'
    BY <1>1, <1>3 DEF TogglesShown, PrefsFollow
  <1>5. AskedOnce'
    BY <1>2 DEF AskedOnce, PrefsFollow
  <1>6. ASSUME NEW d \in Device, ~doubtful'[d]
        PROVE  Following(d)'
    BY <1>6, <1>1, <1>2 DEF PrefsFollow, Applied, Following
  <1> QED BY <1>4, <1>5, <1>6 DEF PrefsFollow

LEMMA AccountInitially == Init => AccountInv
  <1> SUFFICES ASSUME Init PROVE AccountInv
    OBVIOUS
  <1> USE DEF Init, AccountInit
  <1>1. stored \in StoredRecords
    BY DEF StoredRecords, Preferences
  <1>2. Opened \in ScreenRecords /\ Opened.prefs = None
    BY DEF Opened, ScreenRecords
  <1>3. \A c \in requests : c \in RequestRecords /\ RequestGood(c) /\ c.op # "toggle" /\ c.at = "sent" /\ c.d \in Device /\ c \in TabAsks(c.d)
    BY TabAskings
  <1>4. AccountTypes
    BY <1>1, <1>2, <1>3 DEF AccountTypes
  <1>5. SecondRight /\ RowsRight
    BY DEF SecondRight, RowsRight, Session
  <1>6. Toggles = {}
    BY <1>3 DEF Toggles
  <1>7. AskedOnce
    BY <1>2, <1>3, TabAskOnce DEF AskedOnce, PrefAsks
  <1>8. TogglesShown /\ \A d \in Device : Following(d)
    BY <1>2, <1>3, <1>6 DEF TogglesShown, Following, PrefAsks
  <1> QED BY <1>4, <1>5, <1>7, <1>8 DEF AccountInv, PrefsFollow

(* A request other than for preferences is sent.                           *)
LEMMA CallSent ==
  ASSUME AccountInv, NEW d \in Device, NEW op \in Ops \ {"toggle", "preferences"}, NEW arg \in Nat,
         op = "confirm" => arg \in scanned',
         scanned \subseteq scanned', scanned' \subseteq Nat, SendCall(d, op, arg),
         UNCHANGED <<stored, deviceRows, minted, screens, changedBy, mixed, doubtful>>
  PROVE  AccountInv'
  <1> USE DEF AccountInv
  <1>1. arg \in Args /\ op \in Ops /\ op # "toggle" /\ op # "preferences"
    BY ArgsAre
  <1>2. NewRequest(d, op, arg) \in RequestRecords /\ NewRequest(d, op, arg).op = op
    BY <1>1, RequestMade
  <1>3. requests' = requests \cup {NewRequest(d, op, arg)}
    BY DEF SendCall
  <1>4. requests' \subseteq RequestRecords
    BY <1>2, <1>3 DEF AccountTypes
  <1>5. ASSUME NEW c \in requests'
        PROVE  RequestGood(c)'
    BY StaysGood, <1>1, RequestMade, <1>3 DEF AccountTypes, RequestGood
  <1>6. AccountTypes'
    BY <1>4, <1>5 DEF AccountTypes
  <1>7. PrefsFollow'
    BY <1>1, <1>2, <1>3, <1>4, PrefsSame DEF AccountTypes
  <1>8. SecondRight' /\ RowsRight'
    BY DEF SecondRight, RowsRight
  <1> QED BY <1>6, <1>7, <1>8

LEMMA SecurityKeeps ==
  ASSUME AccountInv, NEW d \in Device, NEW op \in {"begin", "confirm", "disable", "regenerate"},
         PressSecurity(d, op)
  PROVE  AccountInv'
  BY ScreenAttributes, CallSent DEF AccountInv, AccountTypes, PressSecurity, Ops

LEMMA FormCallsKeep ==
  ASSUME AccountInv, NEW d \in Device,
         ChangePassword(d) \/ RequestAddress(d) \/ \E n \in 1..minted : ProveAddress(d, n)
  PROVE  AccountInv'
  <1>1. /\ "password" \in Ops \ {"toggle", "preferences"} /\ "address" \in Ops \ {"toggle", "preferences"}
        /\ "proof" \in Ops \ {"toggle", "preferences"}
    BY DEF Ops
  <1>2. scanned \subseteq Nat /\ minted \in Nat
    BY DEF AccountInv, AccountTypes
  <1>3. CASE ChangePassword(d)
    BY <1>3, <1>1, <1>2, CallSent DEF ChangePassword
  <1>4. CASE RequestAddress(d)
    BY <1>4, <1>1, <1>2, CallSent DEF RequestAddress
  <1>5. ASSUME NEW n \in 1..minted, ProveAddress(d, n)
        PROVE  AccountInv'
    BY <1>5, <1>2, <1>1, CallSent DEF ProveAddress
  <1> QED BY <1>3, <1>4, <1>5

(* What is shown changes, but for the preferences.                         *)
LEMMA ScreenSet ==
  ASSUME AccountInv, NEW s \in ScreenRecords, NEW d \in Device, s.prefs = screens[d].prefs,
         screens' = [screens EXCEPT ![d] = s],
         UNCHANGED <<stored, deviceRows, minted, requests, scanned, changedBy, mixed, doubtful>>
  PROVE  AccountInv'
  <1> USE DEF AccountInv
  <1>1. screens' \in [Device -> ScreenRecords] /\ \A e \in Device : screens'[e].prefs = screens[e].prefs
    BY DEF AccountTypes
  <1>2. \A c \in requests' : RequestGood(c)'
    BY StaysGood DEF AccountTypes
  <1>3. AccountTypes'
    BY <1>1, <1>2 DEF AccountTypes
  <1>4. PrefsFollow'
    BY <1>1, PrefsSame DEF AccountTypes
  <1> QED BY <1>3, <1>4 DEF SecondRight, RowsRight

LEMMA PutAwayKeeps ==
  ASSUME AccountInv, NEW d \in Device, PutAway(d) \/ StartOver(d)
  PROVE  AccountInv'
  <1>1. screens \in [Device -> ScreenRecords] /\ screens[d] \in ScreenRecords
    BY DEF AccountInv, AccountTypes
  <1>2. UNCHANGED <<stored, deviceRows, minted, requests, scanned, changedBy, mixed, doubtful>>
    BY DEF PutAway, StartOver
  <1>3. CASE screens' = [screens EXCEPT ![d].enrolment = 0]
    BY <1>1, <1>3, <1>2, ScreenSet DEF ScreenRecords
  <1>4. CASE screens' = [screens EXCEPT ![d].recovery = 0]
    BY <1>1, <1>4, <1>2, ScreenSet DEF ScreenRecords
  <1>5. CASE screens' = [screens EXCEPT ![d].awaiting = FALSE]
    BY <1>1, <1>5, <1>2, ScreenSet DEF ScreenRecords
  <1> QED BY <1>3, <1>4, <1>5 DEF PutAway, StartOver

(* A tab turned to shows nothing yet, and asks for what it shows.          *)
LEMMA TurnToTabKeeps ==
  ASSUME AccountInv, NEW d \in Device, TurnToTab(d)
  PROVE  AccountInv'
  <1> USE DEF AccountInv, TurnToTab
  <1> DEFINE Unheard(c) == [c EXCEPT !.live = (@ /\ c.d # d)]
  <1>1. Opened \in ScreenRecords /\ Opened.prefs = None
    BY DEF Opened, ScreenRecords
  <1>2. screens' \in [Device -> ScreenRecords] /\ screens'[d].prefs = None
        /\ \A e \in Device \ {d} : screens'[e] = screens[e]
    BY <1>1 DEF AccountTypes
  <1>3. ASSUME NEW c \in RequestRecords
        PROVE  /\ Unheard(c) \in RequestRecords /\ Unheard(c).d = c.d /\ Unheard(c).op = c.op /\ Unheard(c).arg = c.arg
               /\ Unheard(c).at = c.at /\ Unheard(c).saw = c.saw
               /\ (Unheard(c).live => c.d # d) /\ (c.d # d => Unheard(c) = c)
    BY RequestAttributes DEF RequestRecords
  <1> HIDE DEF Unheard
  <1>4. requests' = {Unheard(c) : c \in {q \in requests : Writes(q.op) \/ q.d # d}} \cup TabAsks(d)
    BY DEF Unheard
  <1>5. requests \subseteq RequestRecords
    BY DEF AccountTypes
  <1>6. ASSUME NEW c \in requests'
        PROVE  \/ c \in TabAsks(d)
               \/ \E b \in requests : c = Unheard(b) /\ (Writes(b.op) \/ b.d # d)
    BY <1>4
  <1>7. requests' \subseteq RequestRecords
    BY <1>3, <1>5, <1>6, TabAskings
  <1>8. ASSUME NEW c \in requests'
        PROVE  RequestGood(c)'
    BY TabAskings, StaysGood, <1>3, <1>5, <1>6 DEF AccountTypes, Allowed, RequestGood
  <1>9. doubtful' \in [Device -> BOOLEAN] /\ (~doubtful'[d] => Toggles = {})
        /\ \A e \in Device \ {d} : doubtful'[e] = doubtful[e]
    BY DEF AccountTypes, Toggles
  <1>10. AccountTypes'
    BY <1>2, <1>7, <1>8, <1>9 DEF AccountTypes
  <1>11. ASSUME NEW c \in Toggles'
         PROVE  /\ \E b \in Toggles : c = Unheard(b)
                /\ c.live => c.d # d /\ c \in Toggles
    BY TabAskings, <1>6, <1>3, <1>5 DEF Toggles
  <1>12. ASSUME NEW e \in Device, NEW c \in PrefAsks(e)'
         PROVE  IF e = d THEN c \in TabAsks(d) ELSE c \in PrefAsks(e)
    BY TabAskings, <1>3, <1>5, <1>6 DEF PrefAsks, Writes
  <1>13. TogglesShown'
    <2>1. \A c \in Toggles : c.d \in Device
      BY <1>5, RequestAttributes DEF Toggles
    <2> QED BY <1>2, <1>11, <2>1 DEF TogglesShown, PrefsFollow
  <1>14. AskedOnce'
    BY <1>2, <1>12, TabAskOnce DEF AskedOnce, PrefsFollow
  <1>15. ASSUME NEW e \in Device, ~doubtful'[e]
         PROVE  Following(e)'
    <2>1. CASE e = d
      <3>1. Toggles' = {}
        BY <1>9, <1>11, <1>15, <2>1
      <3>2. \A c \in PrefAsks(e)' : c.at = "sent"
        BY <1>12, <2>1, TabAskings
      <3> QED BY <1>2, <2>1, <3>1, <3>2 DEF Following
    <2>2. CASE e # d
      <3>1. Following(e)
        BY <1>9, <1>15, <2>2 DEF PrefsFollow
      <3>2. ASSUME NEW b \in Toggles
            PROVE  b \in Toggles'
        <4>1. b.d = e /\ b \in requests /\ b.op = "toggle"
          BY <3>1 DEF Following, Applied, Toggles
        <4>2. Unheard(b) = b /\ Writes(b.op)
          BY <1>3, <1>5, <2>2, <4>1 DEF Writes
        <4> QED BY <1>4, <4>1, <4>2 DEF Toggles
      <3>3. ASSUME NEW c \in Toggles'
            PROVE  c \in Toggles
        <4>1. PICK b \in Toggles : c = Unheard(b)
          BY <1>11
        <4>2. b.d = e /\ b \in requests
          BY <3>1 DEF Following, Applied, Toggles
        <4> QED BY <1>3, <1>5, <2>2, <4>1, <4>2
      <3>4. Toggles' = Toggles
        BY <3>2, <3>3
      <3>5. \A c : Applied(c, e) => Applied(c, e)'
        BY <1>2, <2>2 DEF Applied
      <3>6. PrefAsks(e)' \subseteq PrefAsks(e)
        BY <1>12, <2>2
      <3> QED BY <1>2, <2>2, <3>1, <3>4, <3>5, <3>6 DEF Following
    <2> QED BY <2>1, <2>2
  <1>16. PrefsFollow'
    BY <1>13, <1>14, <1>15 DEF PrefsFollow
  <1> QED BY <1>10, <1>16 DEF SecondRight, RowsRight

(* A preference shown the other way.                                       *)
LEMMA FlipShown ==
  ASSUME NEW d \in Device, NEW k \in Channel, screens \in [Device -> ScreenRecords],
         screens[d].prefs # None
  PROVE  /\ Flip(d, k) \in [Device -> ScreenRecords]
         /\ \A e \in Device \ {d} : Flip(d, k)[e] = screens[e]
         /\ Flip(d, k)[d].prefs = [screens[d].prefs EXCEPT ![k] = ~screens[d].prefs[k]]
         /\ screens[d].prefs \in Preferences /\ Flip(d, k)[d].prefs \in Preferences
         /\ Flip(d, k)[d].prefs # None
  <1>1. screens[d] \in ScreenRecords /\ screens[d].prefs \in Preferences
    BY ScreenAttributes
  <1>2. PICK q : q = [screens[d].prefs EXCEPT ![k] = ~screens[d].prefs[k]]
    OBVIOUS
  <1>3. q \in Preferences /\ q # None
    BY <1>1, <1>2, AccountAssumption DEF Preferences
  <1>4. PICK s : s = [screens[d] EXCEPT !.prefs = q]
    OBVIOUS
  <1>5. s \in ScreenRecords /\ s.prefs = q
    BY <1>1, <1>3, <1>4 DEF ScreenRecords
  <1>6. Flip(d, k) = [screens EXCEPT ![d] = s]
    BY <1>2, <1>4 DEF Flip
  <1> QED BY <1>1, <1>2, <1>3, <1>5, <1>6

LEMMA ToggleKeeps ==
  ASSUME AccountInv, NEW d \in Device, NEW k \in Channel, TogglePreference(d, k)
  PROVE  AccountInv'
  <1> USE DEF AccountInv, TogglePreference
  <1>1. /\ screens' \in [Device -> ScreenRecords]
        /\ \A e \in Device \ {d} : screens'[e] = screens[e]
        /\ screens'[d].prefs = [screens[d].prefs EXCEPT ![k] = ~screens[d].prefs[k]]
        /\ screens[d].prefs \in Preferences /\ screens'[d].prefs # None
    BY FlipShown DEF AccountTypes
  <1>2. PICK arg : arg = <<k, ~screens[d].prefs[k]>>
    OBVIOUS
  <1>3. arg \in Settings /\ arg[1] = k /\ arg[2] = ~screens[d].prefs[k]
    BY <1>1, <1>2 DEF Settings, Preferences
  <1>4. arg \in Args /\ "toggle" \in Ops
    BY <1>3, ArgsAre DEF Ops
  <1>5. PICK c : c = NewRequest(d, "toggle", arg)
    OBVIOUS
  <1>6. c \in RequestRecords /\ c.d = d /\ c.op = "toggle" /\ c.arg = arg /\ c.at = "sent"
    BY <1>4, <1>5, RequestMade
  <1>7. c.live
    BY <1>5, RequestLive
  <1>8. requests' = requests \cup {c}
    BY <1>2, <1>5 DEF SendCall
  <1>9. \A b \in requests' : RequestGood(b)'
    <2>1. RequestGood(c)
      BY <1>3, <1>6 DEF RequestGood
    <2> QED BY <1>8, <2>1, StaysGood DEF AccountTypes
  <1>10. doubtful' \in [Device -> BOOLEAN]
         /\ \A e \in Device : ~doubtful'[e] => e = d /\ ~doubtful[e] /\ ~Under(d, "toggle")
    BY DEF AccountTypes, Under
  <1>11. AccountTypes'
    BY <1>1, <1>6, <1>8, <1>9, <1>10 DEF AccountTypes
  <1>12. Toggles' = Toggles \cup {c} /\ \A e : PrefAsks(e)' = PrefAsks(e)
    BY <1>6, <1>8 DEF Toggles, PrefAsks
  <1>13. TogglesShown'
    <2>1. \A b \in Toggles : b.d \in Device
      BY RequestAttributes DEF Toggles, AccountTypes
    <2> QED BY <1>1, <1>6, <1>12, <2>1 DEF TogglesShown, PrefsFollow
  <1>14. AskedOnce' /\ PrefAsks(d)' = {}
    BY <1>1, <1>12 DEF AskedOnce, PrefsFollow
  <1>15. ASSUME NEW e \in Device, ~doubtful'[e]
         PROVE  Following(e)'
    <2>1. e = d /\ ~doubtful[d] /\ ~Under(d, "toggle") /\ Following(d)
      BY <1>10, <1>15 DEF PrefsFollow
    <2>2. Toggles = {}
      BY <2>1 DEF Following, Applied, Under, Toggles
    <2>3. screens[d].prefs = stored.prefs
      BY <2>1, <2>2 DEF Following
    <2>4. Applied(c, d)'
      BY <1>1, <1>3, <1>6, <1>7, <2>3 DEF Applied
    <2> QED BY <1>12, <1>14, <2>1, <2>2, <2>4 DEF Following
  <1>16. PrefsFollow'
    BY <1>13, <1>14, <1>15 DEF PrefsFollow
  <1> QED BY <1>11, <1>16 DEF SecondRight, RowsRight

(* The account after a request was carried out.                            *)
LEMMA AccountWritten ==
  ASSUME NEW c \in RequestRecords, RequestGood(c), c.at \in {"read", "clearing"}, stored \in StoredRecords,
         NEW n \in Nat
  PROVE  /\ AccountAfter(c, n) \in StoredRecords
         /\ c.op # "toggle" => AccountAfter(c, n).prefs = stored.prefs
         /\ c.op = "toggle" => AccountAfter(c, n).prefs = [stored.prefs EXCEPT ![c.arg[1]] = c.arg[2]]
         /\ c.op \in {"password", "address", "proof", "toggle"} =>
               /\ AccountAfter(c, n).on = stored.on /\ AccountAfter(c, n).secret = stored.secret
               /\ AccountAfter(c, n).codes = stored.codes
  <1> USE DEF AccountAfter
  <1>1. c.saw \in StoredRecords /\ Writes(c.op) /\ c.op \in Ops
    BY RequestAttributes DEF RequestGood
  <1>2. CASE c.op = "begin"
    BY <1>2 DEF StoredRecords
  <1>3. CASE c.op = "confirm"
    BY <1>3 DEF StoredRecords
  <1>4. CASE c.op = "disable"
    BY StoredAttributes, <1>4 DEF Disabled, StoredRecords
  <1>5. CASE c.op = "regenerate"
    BY <1>1, <1>5 DEF StoredRecords
  <1>6. CASE c.op = "password"
    BY <1>1, <1>6 DEF StoredRecords
  <1>7. CASE c.op = "address"
    BY <1>1, <1>7 DEF StoredRecords, Requested
  <1>8. CASE c.op = "proof"
    BY <1>8 DEF RequestGood, StoredRecords
  <1>9. CASE c.op = "toggle"
    BY <1>9, StoredAttributes DEF RequestGood, Settings, Preferences, StoredRecords
  <1> QED BY <1>1, <1>2, <1>3, <1>4, <1>5, <1>6, <1>7, <1>8, <1>9 DEF Ops, Writes

(* A change of the second factor that nothing crossed.                     *)
LEMMA SecondWritten ==
  ASSUME NEW c \in RequestRecords, RequestGood(c), c.at \in {"read", "clearing"}, stored \in StoredRecords,
         c.op \in {"begin", "confirm", "disable", "regenerate"}, c.saw = stored, NEW n \in Nat,
         \/ stored.on /\ stored.secret \in scanned /\ \E m \in Nat : stored.codes = {m}
         \/ ~stored.on /\ stored.codes = {}
  PROVE  \/ /\ AccountAfter(c, n).on /\ AccountAfter(c, n).secret \in scanned
            /\ \E m \in Nat : AccountAfter(c, n).codes = {m}
         \/ ~AccountAfter(c, n).on /\ AccountAfter(c, n).codes = {}
  <1> USE DEF AccountAfter
  <1>1. Allowed(c, stored) /\ (c.op = "confirm" => c.arg \in scanned)
    BY DEF RequestGood
  <1>2. CASE c.op = "begin"
    BY <1>1, <1>2 DEF Allowed, StoredRecords
  <1>3. CASE c.op = "confirm"
    BY <1>1, <1>3 DEF Allowed, StoredRecords
  <1>4. CASE c.op = "disable"
    BY StoredAttributes, <1>4 DEF Disabled, StoredRecords
  <1>5. CASE c.op = "regenerate"
    BY <1>1, <1>5 DEF Allowed, StoredRecords
  <1> QED BY <1>2, <1>3, <1>4, <1>5

(* A request that is read, or carried out, takes the place of the one sent. *)
LEMMA ReadsKeep ==
  ASSUME AccountInv, NEW c \in requests, ReadsAccount(c)
  PROVE  AccountInv'
  <1> USE DEF AccountInv, ReadsAccount
  <1>1. c \in RequestRecords /\ stored \in StoredRecords /\ c.at = "sent" /\ Allowed(c, stored)
        /\ RequestGood(c) /\ c.d \in Device /\ c.op \in Ops /\ c.got \in Nat
    BY RequestAttributes DEF AccountTypes
  <1>2. PICK at \in {"read", "done"} : at = IF Writes(c.op) THEN "read" ELSE "done"
    OBVIOUS
  <1>3. PICK b : b = [c EXCEPT !.at = at, !.saw = stored]
    OBVIOUS
  <1>5. /\ b \in RequestRecords /\ b.d = c.d /\ b.op = c.op /\ b.arg = c.arg
        /\ b.at = at /\ (b.live <=> c.live) /\ b.saw = stored
    <2> DEFINE Moved == [d : {c.d}, op : {c.op}, arg : {c.arg}, at : {at}, live : {c.live},
                         saw : {stored}, got : {c.got}]
    <2>1. [c EXCEPT !.at = at, !.saw = stored] \in Moved
      BY <1>1 DEF RequestRecords
    <2>2. Moved \subseteq RequestRecords
      BY <1>1 DEF RequestRecords
    <2>3. \A m \in Moved : m.d = c.d /\ m.op = c.op /\ m.arg = c.arg /\ m.at = at
                           /\ (m.live <=> c.live) /\ m.saw = stored
      OBVIOUS
    <2> QED BY <1>3, <2>1, <2>2, <2>3
  <1>6. requests' = (requests \ {c}) \cup {b}
    BY <1>2, <1>3
  <1>7. RequestGood(b)'
    <2>1. Allowed(b, stored)
      BY <1>1, <1>5 DEF Allowed
    <2> QED BY <1>1, <1>2, <1>5, <2>1 DEF RequestGood
  <1>8. AccountTypes'
    BY <1>5, <1>6, <1>7, StaysGood DEF AccountTypes
  <1>9. TogglesShown'
    BY <1>5, <1>6 DEF TogglesShown, Toggles, PrefsFollow
  <1>10. AskedOnce'
    BY <1>5, <1>6 DEF AskedOnce, PrefAsks, PrefsFollow
  <1>11. ASSUME NEW e \in Device, ~doubtful'[e]
         PROVE  Following(e)'
    BY <1>11, <1>1, <1>2, <1>5, <1>6 DEF PrefsFollow, Applied, Writes, Toggles, PrefAsks, Following
  <1>12. PrefsFollow'
    BY <1>9, <1>10, <1>11 DEF PrefsFollow
  <1> QED BY <1>8, <1>12 DEF SecondRight, RowsRight

LEMMA SeesKeep ==
  ASSUME AccountInv, NEW c \in requests, SeesSessions(c)
  PROVE  AccountInv'
  <1>1. /\ c \in RequestRecords /\ c.at = "read" /\ c.op = "password" /\ RequestGood(c) /\ minted \in Nat
        /\ c.d \in Device /\ c.saw \in StoredRecords
    BY RequestAttributes DEF AccountInv, AccountTypes, SeesSessions, RequestGood
  <1>2. PICK b : b = [c EXCEPT !.at = "clearing", !.got = minted]
    OBVIOUS
  <1>3. /\ b \in RequestRecords /\ b.d = c.d /\ b.op = c.op /\ b.arg = c.arg /\ b.at = "clearing" /\ b.saw = c.saw
    <2> DEFINE Moved == [d : {c.d}, op : {c.op}, arg : {c.arg}, at : {"clearing"}, live : {c.live},
                         saw : {c.saw}, got : {minted}]
    <2>1. b \in Moved
      BY <1>1, <1>2 DEF RequestRecords
    <2>2. Moved \subseteq RequestRecords
      BY <1>1 DEF RequestRecords
    <2>3. \A m \in Moved : m.d = c.d /\ m.op = c.op /\ m.arg = c.arg /\ m.at = "clearing" /\ m.saw = c.saw
      OBVIOUS
    <2> QED BY <2>1, <2>2, <2>3
  <1>4. requests' = (requests \ {c}) \cup {b}
    BY <1>2 DEF SeesSessions
  <1>5. UNCHANGED <<topic, stored, deviceRows, minted, screens, scanned, changedBy, mixed, doubtful>>
    BY DEF SeesSessions
  <1>6. RequestGood(b)'
    <2>1. Allowed(b, c.saw)
      BY <1>1, <1>3 DEF RequestGood, Allowed
    <2> QED BY <1>1, <1>3, <1>5, <2>1 DEF RequestGood
  <1>7. AccountTypes'
    BY <1>3, <1>4, <1>5, <1>6, StaysGood DEF AccountInv, AccountTypes
  <1>8. PrefsFollow'
    BY <1>1, <1>3, <1>4, <1>5, <1>7, PrefsSame DEF AccountInv, AccountTypes
  <1> QED BY <1>5, <1>7, <1>8 DEF AccountInv, SecondRight, RowsRight

LEMMA WritesKeep ==
  ASSUME AccountInv, NEW c \in requests, WritesAccount(c)
  PROVE  AccountInv'
  <1> USE DEF AccountInv
  <1>1. c \in RequestRecords /\ stored \in StoredRecords /\ c.at \in {"read", "clearing"} /\ RequestGood(c)
        /\ c.d \in Device /\ c.op \in Ops /\ Writes(c.op)
    BY RequestAttributes DEF AccountTypes, WritesAccount, RequestGood
  <1>2. minted' \in Nat /\ minted \in Nat
    BY DEF AccountTypes, WritesAccount
  <1>3. PICK n \in Nat : n = minted'
    BY <1>2
  <1>4. stored' = AccountAfter(c, n)
    BY <1>3 DEF WritesAccount
  <1>5. /\ stored' \in StoredRecords
        /\ c.op # "toggle" => stored'.prefs = stored.prefs
        /\ c.op = "toggle" => stored'.prefs = [stored.prefs EXCEPT ![c.arg[1]] = c.arg[2]]
        /\ c.op \in {"password", "address", "proof", "toggle"} =>
              stored'.on = stored.on /\ stored'.secret = stored.secret /\ stored'.codes = stored.codes
    BY <1>1, <1>4, AccountWritten
  <1>6. PICK got \in Nat : got = IF Makes(c.op) THEN minted' ELSE 0
    BY <1>2
  <1>7. PICK after \in StoredRecords : after = stored'
    BY <1>5
  <1>8. PICK b : b = [c EXCEPT !.at = "done", !.saw = after, !.got = got]
    OBVIOUS
  <1>9. /\ b \in RequestRecords /\ b.d = c.d /\ b.op = c.op /\ b.arg = c.arg
        /\ b.at = "done" /\ (b.live <=> c.live) /\ b.saw = after
    <2> DEFINE Moved == [d : {c.d}, op : {c.op}, arg : {c.arg}, at : {"done"}, live : {c.live},
                         saw : {after}, got : {got}]
    <2>1. [c EXCEPT !.at = "done", !.saw = after, !.got = got] \in Moved
      BY <1>1 DEF RequestRecords
    <2>2. Moved \subseteq RequestRecords
      BY <1>1 DEF RequestRecords
    <2>3. \A m \in Moved : m.d = c.d /\ m.op = c.op /\ m.arg = c.arg /\ m.at = "done"
                           /\ (m.live <=> c.live) /\ m.saw = after
      OBVIOUS
    <2> QED BY <1>8, <2>1, <2>2, <2>3
  <1>10. requests' = (requests \ {c}) \cup {b}
    BY <1>6, <1>7, <1>8 DEF WritesAccount
  <1>11. UNCHANGED <<topic, screens, scanned, doubtful>>
    BY DEF WritesAccount
  <1>12. RequestGood(b)'
    BY <1>1, <1>9, <1>11 DEF RequestGood
  <1>13. mixed' \in BOOLEAN
    BY DEF WritesAccount, AccountTypes
  <1>14. AccountTypes'
    BY <1>2, <1>5, <1>9, <1>10, <1>11, <1>12, <1>13, StaysGood DEF AccountTypes
  <1>15. SecondRight'
    <2>1. SUFFICES ASSUME ~mixed'
                   PROVE  \/ stored'.on /\ stored'.secret \in scanned /\ \E m \in Nat : stored'.codes = {m}
                          \/ ~stored'.on /\ stored'.codes = {}
      BY <1>11 DEF SecondRight
    <2>2. ~mixed /\ (c.op \in {"begin", "confirm", "disable", "regenerate"} => c.saw = stored)
      BY <2>1 DEF WritesAccount, Crosses
    <2>3. CASE c.op \in {"begin", "confirm", "disable", "regenerate"}
      BY <2>2, <1>1, <1>4, <2>3, SecondWritten DEF SecondRight
    <2>4. CASE c.op \in {"password", "address", "proof", "toggle"}
      BY <1>5, <2>2, <2>4 DEF SecondRight
    <2> QED BY <1>1, <2>3, <2>4 DEF Ops, Writes
  <1>16. RowsRight'
    <2>1. CASE c.op = "password"
      <3> DEFINE since == {e \in DOMAIN deviceRows : deviceRows[e].made > c.got}
                 stay == [e \in since |-> deviceRows[e]]
      <3>1. deviceRows' = Put(stay, c.d, Session(c.saw.ver + 1, minted')) /\ changedBy' = c.d
        BY <2>1 DEF WritesAccount, RowsAfter
      <3>2. DOMAIN stay = since
        OBVIOUS
      <3>3. \A e \in since : stay[e] = deviceRows[e]
        OBVIOUS
      <3>4. minted' = minted + 1
        BY <2>1 DEF WritesAccount, Makes
      <3>5. ~mixed' => since = {}
        <4>1. ~mixed' => minted = c.got
          BY <2>1 DEF WritesAccount, Crosses
        <4>2. \A e \in DOMAIN deviceRows : deviceRows[e].made \in Nat /\ deviceRows[e].made <= minted
          BY DEF RowsRight
        <4>3. minted = c.got => since = {}
          BY <1>2, <4>2
        <4> HIDE DEF since
        <4> QED BY <4>1, <4>3
      <3>6. since \subseteq DOMAIN deviceRows
        OBVIOUS
      <3> HIDE DEF since, stay
      <3>7. /\ DOMAIN deviceRows' = since \cup {c.d} /\ deviceRows'[c.d] = Session(c.saw.ver + 1, minted')
            /\ \A e \in since \ {c.d} : deviceRows'[e] = deviceRows[e]
        BY <3>1, <3>2, <3>3 DEF Put
      <3>8. Session(c.saw.ver + 1, minted').made = minted'
        BY DEF Session
      <3>9. ASSUME NEW e \in DOMAIN deviceRows'
            PROVE  deviceRows'[e].made \in Nat /\ deviceRows'[e].made <= minted'
        <4>1. CASE e = c.d
          BY <1>2, <3>7, <3>8, <4>1
        <4>2. CASE e # c.d
          BY <3>6, <3>7, <4>2, <1>2, <3>4 DEF RowsRight
        <4> QED BY <4>1, <4>2
      <3> QED BY <3>1, <3>5, <3>7, <3>9 DEF RowsRight
    <2>2. CASE c.op # "password"
      <3>1. deviceRows' = deviceRows /\ changedBy' = changedBy /\ minted' \in {minted, minted + 1}
        BY <2>2 DEF WritesAccount
      <3>2. ~mixed' => ~mixed
        BY DEF WritesAccount
      <3> QED BY <1>2, <3>1, <3>2 DEF RowsRight
    <2> QED BY <2>1, <2>2
  <1>17. TogglesShown'
    BY <1>9, <1>10, <1>11 DEF TogglesShown, Toggles, PrefsFollow
  <1>18. AskedOnce' /\ \A e : PrefAsks(e)' \subseteq PrefAsks(e)
    BY <1>1, <1>9, <1>10, <1>11 DEF AskedOnce, PrefAsks, PrefsFollow, Writes
  <1>19. ASSUME NEW e \in Device, ~doubtful'[e]
         PROVE  Following(e)'
    <2>1. Following(e)
      BY <1>11, <1>19 DEF PrefsFollow
    <2>2. CASE c.op # "toggle"
      <3>1. Toggles' = Toggles
        BY <1>9, <1>10, <2>2 DEF Toggles
      <3>2. \A a : Applied(a, e) => Applied(a, e)'
        BY <1>5, <1>11, <2>2 DEF Applied
      <3> QED BY <1>5, <1>11, <1>18, <2>1, <2>2, <3>1, <3>2 DEF Following
    <2>3. CASE c.op = "toggle"
      <3>1. c \in Toggles /\ Applied(c, e)
        BY <2>1, <2>3 DEF Following, Toggles
      <3>2. Toggles' = {b}
        BY <1>9, <1>10, <2>1, <2>3, <3>1 DEF Toggles, Following
      <3>3. screens[e].prefs = stored'.prefs
        BY <1>1, <1>5, <2>3, <3>1 DEF Applied
      <3>4. stored'.prefs # None
        BY <1>5, AccountAssumption DEF StoredRecords, Preferences
      <3>5. Applied(b, e)'
        BY <1>7, <1>9, <1>11, <3>1, <3>3, <3>4 DEF Applied
      <3>6. PrefAsks(e)' = {}
        BY <1>18, <3>3, <3>4 DEF AskedOnce, PrefsFollow
      <3> QED BY <3>2, <3>5, <3>6 DEF Following
    <2> QED BY <2>2, <2>3
  <1>20. PrefsFollow'
    BY <1>17, <1>18, <1>19 DEF PrefsFollow
  <1> QED BY <1>14, <1>15, <1>16, <1>20

(* What is shown after an answer.                                          *)
LEMMA ScreenAnswered ==
  ASSUME NEW c \in RequestRecords, c.at = "done", RequestGood(c),
         screens \in [Device -> ScreenRecords]
  PROVE  /\ ScreenAfter(c) \in ScreenRecords
         /\ c.op \in {"preferences", "toggle"} => ScreenAfter(c).prefs = c.saw.prefs
         /\ c.op \notin {"preferences", "toggle"} => ScreenAfter(c).prefs = screens[c.d].prefs
  BY RequestAttributes, StoredAttributes DEF RequestGood, ScreenAfter, ScreenRecords, Ops

LEMMA RereadsAre ==
  ASSUME NEW c \in RequestRecords, NEW b \in Rereads(c)
  PROVE  b \in RequestRecords /\ RequestGood(b) /\ b.op = "status"
  <1>1. b = NewRequest(c.d, "status", 0) /\ c.d \in Device
    BY RequestAttributes DEF Rereads
  <1>2. "status" \in Ops /\ 0 \in Nat /\ 0 \in Args
    BY ArgsAre DEF Ops
  <1>3. PICK op \in Ops : op = "status"
    BY <1>2
  <1>4. NewRequest(c.d, op, 0) \in RequestRecords /\ NewRequest(c.d, op, 0).op = op
    BY <1>1, <1>2, RequestMade
  <1>5. RequestGood(NewRequest(c.d, op, 0))
    BY <1>1, <1>2, <1>3, NewGood
  <1> QED BY <1>1, <1>3, <1>4, <1>5

(* A request is over: what is left of the preferences' changes.            *)
LEMMA RequestOver ==
  ASSUME AccountTypes, PrefsFollow, NEW c \in requests,
         requests' \subseteq RequestRecords,
         \A b \in requests' : b \in requests \ {c} \/ b.op = "status",
         \A b \in requests \ {c} : b \in requests',
         screens' \in [Device -> ScreenRecords],
         \A e \in Device \ {c.d} : screens'[e] = screens[e],
         screens[c.d].prefs # None => screens'[c.d].prefs # None,
         c.op # "preferences" => (screens[c.d].prefs = None => screens'[c.d].prefs = None),
         c.op \notin {"toggle", "preferences"} => screens'[c.d].prefs = screens[c.d].prefs,
         stored' = stored,
         \A e \in Device : ~doubtful'[e] => ~doubtful[e],
         ~doubtful'[c.d] /\ c.op = "toggle" => screens'[c.d].prefs = stored.prefs,
         c.op = "preferences" => screens'[c.d].prefs \in {screens[c.d].prefs, c.saw.prefs} /\ (c.at = "done" \/ screens'[c.d].prefs = screens[c.d].prefs)
  PROVE  PrefsFollow'
  <1>1. c \in RequestRecords /\ c.d \in Device
    BY RequestAttributes DEF AccountTypes
  <1>2. Toggles' = Toggles \ {c} /\ \A e : PrefAsks(e)' = PrefAsks(e) \ {c}
    BY DEF Toggles, PrefAsks
  <1>3. \A b \in Toggles : b.d \in Device
    BY RequestAttributes DEF Toggles, AccountTypes
  <1>4. TogglesShown'
    BY <1>2, <1>3 DEF TogglesShown, PrefsFollow
  <1>5. AskedOnce'
    BY <1>2 DEF AskedOnce, PrefsFollow, PrefAsks
  <1>6. ASSUME NEW e \in Device, ~doubtful'[e]
        PROVE  Following(e)'
    <2>1. Following(e)
      BY <1>6 DEF PrefsFollow
    <2>2. CASE c.op = "toggle"
      <3>1. c \in Toggles /\ Applied(c, e) /\ Toggles' = {}
        BY <1>2, <2>1, <2>2 DEF Following, Toggles
      <3>2. e = c.d /\ screens'[e].prefs = stored'.prefs
        BY <1>6, <2>2, <3>1 DEF Applied
      <3> QED BY <1>2, <2>1, <3>1, <3>2 DEF Following
    <2>3. CASE c.op # "toggle"
      <3>1. Toggles' = Toggles
        BY <1>2, <2>3 DEF Toggles
      <3>2. CASE e = c.d /\ c.op = "preferences"
        BY <3>2, <2>1, <1>2, <3>1 DEF PrefAsks, AskedOnce, PrefsFollow, Following, Toggles, Applied,
           TogglesShown
      <3>3. CASE ~(e = c.d /\ c.op = "preferences")
        BY <2>3, <3>3, <1>2, <2>1, <3>1 DEF Applied, Following
      <3> QED BY <3>2, <3>3
    <2> QED BY <2>2, <2>3
  <1> QED BY <1>4, <1>5, <1>6 DEF PrefsFollow

LEMMA AccountAnswersKeep ==
  ASSUME AccountInv, NEW c \in requests, AccountAnswers(c)
  PROVE  AccountInv'
  <1> USE DEF AccountInv
  <1>1. /\ c \in RequestRecords /\ c.d \in Device /\ RequestGood(c) /\ c.at = "done"
        /\ c.live \in BOOLEAN /\ c.saw \in StoredRecords /\ c.saw.prefs \in Preferences
        /\ screens \in [Device -> ScreenRecords]
    BY RequestAttributes, StoredAttributes DEF AccountTypes, AccountAnswers, RequestGood
  <1>2. c.saw.prefs # None
    BY <1>1, AccountAssumption DEF Preferences
  <1>3. \A b \in requests' : b \in requests \ {c} \/ b \in Rereads(c)
    BY DEF AccountAnswers
  <1>4. \A b \in requests \ {c} : b \in requests'
    BY DEF AccountAnswers
  <1>5. UNCHANGED <<topic, stored, deviceRows, minted, scanned, changedBy, mixed, doubtful>>
    BY DEF AccountAnswers
  <1>6. requests' \subseteq RequestRecords /\ \A b \in requests' : b \in requests \ {c} \/ b.op = "status"
    BY <1>1, <1>3, RereadsAre DEF AccountTypes
  <1>7. \A b \in requests' : RequestGood(b)'
    BY <1>1, <1>3, <1>5, RereadsAre, StaysGood DEF AccountTypes
  <1>8. /\ screens' \in [Device -> ScreenRecords]
        /\ \A e \in Device \ {c.d} : screens'[e] = screens[e]
        /\ c.live /\ c.op \in {"preferences", "toggle"} => screens'[c.d].prefs = c.saw.prefs
        /\ ~c.live \/ c.op \notin {"preferences", "toggle"} => screens'[c.d].prefs = screens[c.d].prefs
    BY <1>1, ScreenAnswered DEF AccountAnswers
  <1>9. AccountTypes'
    BY <1>5, <1>6, <1>7, <1>8 DEF AccountTypes
  <1>10. ~doubtful'[c.d] /\ c.op = "toggle" =>
            c.live /\ screens'[c.d].prefs = stored.prefs /\ screens[c.d].prefs # None
    BY <1>5, <1>1, <1>8 DEF PrefsFollow, Following, Toggles, Applied
  <1>11. c.op = "toggle" /\ c.live => screens[c.d].prefs # None
    BY DEF PrefsFollow, TogglesShown, Toggles
  <1>12. screens[c.d].prefs # None => screens'[c.d].prefs # None
    BY <1>2, <1>8
  <1>13. c.op # "preferences" => (screens[c.d].prefs = None => screens'[c.d].prefs = None)
    BY <1>8, <1>11
  <1>14. c.op = "preferences" => screens'[c.d].prefs \in {screens[c.d].prefs, c.saw.prefs} /\ (c.at = "done" \/ screens'[c.d].prefs = screens[c.d].prefs)
    BY <1>1, <1>8
  <1>15. PrefsFollow'
    BY <1>4, <1>5, <1>6, <1>8, <1>10, <1>12, <1>13, <1>14, RequestOver
  <1> QED BY <1>5, <1>9, <1>15 DEF SecondRight, RowsRight

LEMMA AccountFailsKeep ==
  ASSUME AccountInv, NEW c \in requests, AccountFails(c)
  PROVE  AccountInv'
  <1> USE DEF AccountInv
  <1>1. /\ c \in RequestRecords /\ c.d \in Device /\ c.live \in BOOLEAN /\ c.at \in {"sent", "done"}
        /\ RequestGood(c) /\ screens \in [Device -> ScreenRecords]
    BY RequestAttributes DEF AccountTypes, AccountFails
  <1>2. requests' = requests \ {c}
    BY DEF AccountFails
  <1>3. UNCHANGED <<topic, stored, deviceRows, minted, scanned, changedBy, mixed>>
    BY DEF AccountFails
  <1>4. /\ doubtful' \in [Device -> BOOLEAN] /\ \A e \in Device : ~doubtful'[e] => ~doubtful[e]
        /\ ~doubtful'[c.d] => c.at = "sent"
    BY <1>1 DEF AccountFails, AccountTypes
  <1>5. c.op = "toggle" /\ c.live => c.arg[1] \in Channel /\ screens[c.d].prefs # None
    BY <1>1 DEF RequestGood, Settings, PrefsFollow, TogglesShown, Toggles
  <1>6. /\ screens' \in [Device -> ScreenRecords]
        /\ \A e \in Device \ {c.d} : screens'[e] = screens[e]
        /\ screens[c.d].prefs # None => screens'[c.d].prefs # None
        /\ screens[c.d].prefs = None => screens'[c.d].prefs = None
        /\ c.op # "toggle" => screens' = screens
        /\ c.op = "toggle" /\ c.live =>
              screens'[c.d].prefs = [screens[c.d].prefs EXCEPT ![c.arg[1]] = ~screens[c.d].prefs[c.arg[1]]]
    <2>1. CASE c.op = "toggle" /\ c.live
      <3>1. screens' = Flip(c.d, c.arg[1])
        BY <2>1 DEF AccountFails, AfterFailure
      <3>2. PICK k \in Channel : k = c.arg[1]
        BY <1>5, <2>1
      <3>3. /\ Flip(c.d, k) \in [Device -> ScreenRecords]
            /\ \A e \in Device \ {c.d} : Flip(c.d, k)[e] = screens[e]
            /\ Flip(c.d, k)[c.d].prefs = [screens[c.d].prefs EXCEPT ![k] = ~screens[c.d].prefs[k]]
            /\ Flip(c.d, k)[c.d].prefs # None
        BY <1>1, <1>5, <2>1, FlipShown
      <3> QED BY <1>5, <2>1, <3>1, <3>2, <3>3
    <2>2. CASE ~(c.op = "toggle" /\ c.live)
      BY <1>1, <2>2 DEF AccountFails, AfterFailure
    <2> QED BY <2>1, <2>2
  <1>7. AccountTypes'
    BY <1>2, <1>3, <1>4, <1>6, StaysGood DEF AccountTypes
  <1>8. ~doubtful'[c.d] /\ c.op = "toggle" => screens'[c.d].prefs = stored.prefs
    <2>1. SUFFICES ASSUME ~doubtful'[c.d], c.op = "toggle"
                   PROVE  screens'[c.d].prefs = stored.prefs
      OBVIOUS
    <2>2. Applied(c, c.d) /\ c.at = "sent"
      BY <1>1, <1>4, <2>1 DEF PrefsFollow, Following, Toggles
    <2>3. /\ c.live /\ c.arg[2] = ~stored.prefs[c.arg[1]]
          /\ screens[c.d].prefs = [stored.prefs EXCEPT ![c.arg[1]] = c.arg[2]]
      BY <2>2 DEF Applied
    <2>4. PICK k \in Channel : k = c.arg[1]
      BY <1>5, <2>1, <2>3
    <2>5. PICK p \in Preferences : p = stored.prefs
      BY StoredAttributes DEF AccountTypes
    <2>6. screens'[c.d].prefs = [[p EXCEPT ![k] = ~p[k]] EXCEPT ![k] = ~[p EXCEPT ![k] = ~p[k]][k]]
      BY <1>6, <2>1, <2>3, <2>4, <2>5
    <2>7. [[p EXCEPT ![k] = ~p[k]] EXCEPT ![k] = ~[p EXCEPT ![k] = ~p[k]][k]] = p
      BY DEF Preferences
    <2> QED BY <2>5, <2>6, <2>7
  <1>9. PrefsFollow'
    BY <1>1, <1>2, <1>3, <1>4, <1>6, <1>7, <1>8, RequestOver DEF AccountTypes
  <1> QED BY <1>3, <1>7, <1>9 DEF SecondRight, RowsRight

LEMMA AccountStep == AccountInv /\ [Next]_vars => AccountInv'
  <1> SUFFICES ASSUME AccountInv, [Next]_vars PROVE AccountInv'
    OBVIOUS
  <1>1. CASE AccountUser
    <2>1. PICK d \in Device :
             \/ TurnToTab(d)
             \/ \E op \in {"begin", "confirm", "disable", "regenerate"} : PressSecurity(d, op)
             \/ ChangePassword(d) \/ RequestAddress(d) \/ StartOver(d) \/ PutAway(d)
             \/ \E k \in Channel : TogglePreference(d, k)
             \/ \E n \in 1..minted : ProveAddress(d, n)
      BY <1>1 DEF AccountUser
    <2> QED BY <2>1, TurnToTabKeeps, SecurityKeeps, FormCallsKeep, PutAwayKeeps, ToggleKeeps
  <1>2. CASE AccountReplies
    <2>1. PICK c \in requests : \/ ReadsAccount(c) \/ SeesSessions(c) \/ WritesAccount(c)
                               \/ AccountAnswers(c) \/ AccountFails(c)
      BY <1>2 DEF AccountReplies
    <2> QED BY <2>1, ReadsKeep, SeesKeep, WritesKeep, AccountAnswersKeep, AccountFailsKeep
  <1>3. CASE UNCHANGED accountState
    BY <1>3, StaysGood, PrefsSame DEF accountState, AccountInv, AccountTypes, SecondRight, RowsRight
  <1> QED BY <1>1, <1>2, <1>3, PartSteps

LEMMA AccountIsRight == AccountInv => AccountRight
  <1> SUFFICES ASSUME AccountInv PROVE AccountRight
    OBVIOUS
  <1>1. SecondFactorUsable
    BY FS_Singleton, FS_EmptySet DEF SecondFactorUsable, AccountInv, SecondRight
  <1>2. OthersSignedOut
    BY DEF AccountInv, RowsRight, OthersSignedOut, Alive
  <1>3. PreferencesShown
    <2>1. SUFFICES ASSUME NEW d \in Device, screens[d].prefs # None, ~doubtful[d],
                          \A c \in requests : c.d = d => c.op \notin {"toggle", "preferences"}
                   PROVE  screens[d].prefs = stored.prefs
      BY DEF PreferencesShown
    <2>2. Following(d)
      BY <2>1 DEF AccountInv, PrefsFollow
    <2>3. Toggles = {}
      BY <2>1, <2>2 DEF Following, Applied, Toggles
    <2> QED BY <2>1, <2>2, <2>3 DEF Following
  <1> QED BY <1>1, <1>2, <1>3 DEF AccountRight

(* Whichever of several devices did what, in any order of the requests and *)
(* of their answers: the second factor that is on can be passed and has    *)
(* one set of recovery codes unless two requests were carried out across   *)
(* each other, a change of the password leaves no session but that of the  *)
(* device that made it unless another was carried out while it deleted the *)
(* sessions it saw, and the preferences shown at rest are the stored ones  *)
(* (AccountModal.jsx, ChangePasswordModal.jsx with routes/totp.py and      *)
(* routes/auth.py).                                                        *)
THEOREM AccountHolds == Spec => []AccountRight
  <1> QED BY AccountInitially, AccountStep, AccountIsRight, PTL DEF Spec

-----------------------------------------------------------------------------
(* Account settings: what was made.                                        *)

(* Nothing is in use that was not made yet.                                *)
RequestBounded(c, m) ==
    /\ c.at \in {"read", "clearing"} => c.saw.ver <= m
    /\ c.got <= m /\ (c.op # "toggle" => c.arg <= m)
StoredBounded(s, m) ==
    s.secret <= m /\ s.ver <= m /\ s.email <= m /\ s.codes \subseteq 1..m /\ s.pending \subseteq 1..m
AccountBounded ==
    /\ topic \in Topics /\ DOMAIN deviceRows \subseteq Device /\ changedBy \in Device \cup {None}
    /\ scanned \subseteq 1..minted /\ StoredBounded(stored, minted)
    /\ \A c \in requests : RequestBounded(c, minted)
    /\ \A d \in Device : screens[d].enrolment <= minted

LEMMA AccountBoundedInitially == Init => AccountBounded
  <1> SUFFICES ASSUME Init PROVE AccountBounded
    OBVIOUS
  <1>1. AccountInit
    BY DEF Init
  <1>2. minted = 0 /\ scanned = {} /\ changedBy = None /\ requests = UNION {TabAsks(d) : d \in Device}
    BY <1>1 DEF AccountInit
  <1>3. /\ \A d \in Device : screens[d].enrolment = 0
        /\ topic \in Topics /\ DOMAIN deviceRows = Device /\ StoredBounded(stored, 0)
    BY <1>1 DEF AccountInit, Opened, Topics, StoredBounded
  <1>4. \A c \in requests : RequestBounded(c, 0)
    BY <1>2 DEF TabAsks, NewRequest, RequestBounded
  <1> QED BY <1>2, <1>3, <1>4 DEF AccountBounded

LEMMA NewRequestBounded ==
  ASSUME AccountInv, NEW d, NEW op, NEW arg, op = "toggle" \/ arg = 0 \/ arg <= minted
  PROVE  RequestBounded(NewRequest(d, op, arg), minted)
  BY DEF NewRequest, RequestBounded, AccountInv, AccountTypes

(* What the screens do by themselves.                                      *)
LEMMA ScreensBounded ==
  ASSUME AccountInv, AccountBounded, UNCHANGED <<topic, stored, deviceRows, minted, changedBy>>,
         scanned' \subseteq 1..minted, \A c \in requests' : RequestBounded(c, minted),
         \A d \in Device : screens'[d].enrolment \in {0, screens[d].enrolment} \cup {c.got : c \in requests}
  PROVE  AccountBounded'
  BY DEF AccountBounded, RequestBounded, AccountInv, AccountTypes

LEMMA AccountUsed ==
  ASSUME AccountInv, AccountBounded, AccountUser
  PROVE  AccountBounded'
  <1>1. /\ minted \in Nat /\ screens \in [Device -> ScreenRecords] /\ requests \subseteq RequestRecords
        /\ scanned \subseteq 1..minted /\ \A c \in requests : RequestBounded(c, minted)
    BY DEF AccountInv, AccountTypes, AccountBounded
  <1>2. ASSUME NEW d \in Device, NEW op, NEW arg, SendCall(d, op, arg), op = "toggle" \/ arg = 0 \/ arg <= minted,
               UNCHANGED <<topic, stored, deviceRows, minted, changedBy>>, scanned' \subseteq 1..minted,
               \A e \in Device : screens'[e].enrolment = screens[e].enrolment
        PROVE  AccountBounded'
    BY <1>1, <1>2, NewRequestBounded, ScreensBounded DEF SendCall
  <1>3. ASSUME NEW d \in Device, TurnToTab(d) PROVE AccountBounded'
    BY <1>1, <1>3, NewRequestBounded, ScreensBounded DEF TurnToTab, Opened, TabAsks, RequestRecords,
       RequestBounded
  <1>4. ASSUME NEW d \in Device, NEW op \in {"begin", "confirm", "disable", "regenerate"}, PressSecurity(d, op)
        PROVE  AccountBounded'
    <2>1. screens[d].enrolment \in 0..minted /\ (op = "confirm" => screens[d].enrolment # 0)
      BY <1>1, <1>4, ScreenAttributes DEF PressSecurity, AccountBounded
    <2>2. scanned' \subseteq 1..minted
      <3>1. op = "confirm" => screens[d].enrolment \in 1..minted
        BY <1>1, <2>1
      <3>2. scanned' \in {scanned, scanned \cup {screens[d].enrolment}} /\ (op # "confirm" => scanned' = scanned)
        BY <1>4 DEF PressSecurity
      <3> QED BY <1>1, <3>1, <3>2
    <2> QED BY <1>2, <1>4, <2>1, <2>2 DEF PressSecurity
  <1>5. ASSUME NEW d \in Device, ChangePassword(d) \/ RequestAddress(d) \/ \E n \in 1..minted : ProveAddress(d, n)
        PROVE  AccountBounded'
    <2>1. PICK op, arg : SendCall(d, op, arg) /\ (arg = 0 \/ arg <= minted) /\ UNCHANGED <<topic, stored, deviceRows, minted, screens, scanned, changedBy>>
      BY <1>1, <1>5 DEF ChangePassword, RequestAddress, ProveAddress
    <2> QED BY <1>1, <1>2, <2>1
  <1>6. ASSUME NEW d \in Device, StartOver(d) \/ PutAway(d) PROVE AccountBounded'
    BY <1>1, <1>6, ScreensBounded DEF StartOver, PutAway, ScreenRecords
  <1>7. ASSUME NEW d \in Device, NEW k \in Channel, TogglePreference(d, k) PROVE AccountBounded'
    BY <1>1, <1>7, <1>2 DEF TogglePreference, Flip, ScreenRecords
  <1> QED BY <1>3, <1>4, <1>5, <1>6, <1>7 DEF AccountUser

(* What is written is made from what was read.                             *)
LEMMA WritesBounded ==
  ASSUME AccountInv, AccountBounded, NEW c \in requests, WritesAccount(c)
  PROVE  AccountBounded'
  <1>1. /\ minted \in Nat /\ screens \in [Device -> ScreenRecords] /\ c \in RequestRecords /\ RequestGood(c)
        /\ stored \in StoredRecords /\ c.at \in {"read", "clearing"} /\ RequestBounded(c, minted) /\ requests \subseteq RequestRecords
    BY DEF AccountInv, AccountTypes, AccountBounded, WritesAccount
  <1>2. /\ minted' = (IF Makes(c.op) THEN minted + 1 ELSE minted) /\ stored' = AccountAfter(c, minted')
        /\ UNCHANGED <<topic, screens, scanned>>
    BY DEF WritesAccount
  <1>3. minted' \in Nat /\ minted' >= minted /\ (Makes(c.op) => minted' = minted + 1)
    BY <1>1, <1>2
  <1>4. c.saw \in StoredRecords /\ c.saw.ver \in Nat /\ c.saw.ver <= minted /\ (c.op # "toggle" => c.arg \in Nat /\ c.arg <= minted)
    BY <1>1, StoredAttributes DEF RequestGood, RequestBounded
  <1>5. StoredBounded(stored, minted')
    BY <1>1, <1>3, StoredAttributes DEF StoredBounded, AccountBounded
  <1>6. StoredBounded(stored', minted')
    <2>1. c.op \in Ops
      BY <1>1, RequestAttributes
    <2>2. CASE c.op \in {"begin", "confirm", "regenerate"}
      BY <1>1, <1>2, <1>3, <1>5, <2>2 DEF AccountAfter, Makes, StoredBounded, StoredRecords
    <2>3. CASE c.op \in {"disable", "toggle"}
      BY <1>1, <1>2, <1>3, <1>5, <2>3 DEF AccountAfter, Disabled, StoredBounded, StoredRecords
    <2>4. CASE c.op \in {"password", "address", "proof"}
      BY <1>1, <1>2, <1>3, <1>4, <1>5, <2>4 DEF AccountAfter, Requested, Makes, StoredBounded, StoredRecords
    <2>5. CASE c.op \in {"status", "preferences"}
      BY <1>2, <1>5, <2>5 DEF AccountAfter
    <2> QED BY <2>1, <2>2, <2>3, <2>4, <2>5 DEF Ops
  <1>7. \A b \in requests' : RequestBounded(b, minted')
    <2>1. ASSUME NEW b \in requests PROVE RequestBounded(b, minted')
      BY RequestAttributes, StoredAttributes, <1>1, <1>3 DEF AccountInv, AccountTypes, AccountBounded,
         RequestGood, RequestBounded
    <2> DEFINE w == [c EXCEPT !.at = "done", !.saw = stored', !.got = IF Makes(c.op) THEN minted' ELSE 0]
    <2>2. w.at = "done" /\ w.got \in {minted', 0} /\ w.op = c.op /\ w.arg = c.arg
      BY <1>1 DEF RequestRecords
    <2> HIDE DEF w
    <2>3. RequestBounded(w, minted')
      BY <1>1, <1>3, <1>4, <2>2 DEF RequestBounded
    <2>4. requests' = (requests \ {c}) \cup {w}
      BY DEF WritesAccount, w
    <2> QED BY <2>1, <2>3, <2>4
  <1>8. DOMAIN deviceRows' \subseteq Device /\ changedBy' \in Device \cup {None}
    BY <1>1, RequestAttributes DEF AccountBounded, RowsAfter, Put, WritesAccount
  <1>9. scanned' \subseteq 1..minted' /\ \A d \in Device : screens'[d].enrolment <= minted'
    BY <1>1, <1>2, <1>3, ScreenAttributes DEF AccountBounded
  <1> QED BY <1>2, <1>6, <1>7, <1>8, <1>9 DEF AccountBounded

LEMMA RepliesBounded ==
  ASSUME AccountInv, AccountBounded, NEW c \in requests,
         ReadsAccount(c) \/ SeesSessions(c) \/ AccountAnswers(c) \/ AccountFails(c)
  PROVE  AccountBounded'
  <1>1. /\ minted \in Nat /\ screens \in [Device -> ScreenRecords] /\ c \in RequestRecords
        /\ scanned \subseteq 1..minted /\ \A b \in requests : RequestBounded(b, minted)
        /\ stored.ver <= minted /\ c.d \in Device /\ screens[c.d] \in ScreenRecords
    BY RequestAttributes DEF AccountInv, AccountTypes, AccountBounded, StoredBounded
  <1>2. CASE ReadsAccount(c)
    <2> DEFINE w == [c EXCEPT !.at = IF Writes(c.op) THEN "read" ELSE "done", !.saw = stored]
    <2>1. w.saw = stored /\ w.got = c.got /\ w.op = c.op /\ w.arg = c.arg
      BY <1>1 DEF RequestRecords
    <2> HIDE DEF w
    <2>2. RequestBounded(w, minted)
      BY <1>1, <2>1 DEF RequestBounded
    <2>3. requests' = (requests \ {c}) \cup {w}
      BY <1>2 DEF ReadsAccount, w
    <2> QED BY <1>1, <1>2, <2>2, <2>3, ScreensBounded DEF ReadsAccount
  <1>3. CASE AccountAnswers(c)
    BY <1>1, <1>3, NewRequestBounded, ScreensBounded DEF ScreenAfter, ScreenRecords, AccountAnswers,
       Rereads
  <1>4. CASE AccountFails(c)
    BY <1>1, <1>4, ScreensBounded DEF AccountFails, AfterFailure, Flip, ScreenRecords
  <1>5. CASE SeesSessions(c)
    <2> DEFINE w == [c EXCEPT !.at = "clearing", !.got = minted]
    <2>1. w.saw = c.saw /\ w.got = minted /\ w.op = c.op /\ w.arg = c.arg
      BY <1>1 DEF RequestRecords
    <2> HIDE DEF w
    <2>2. RequestBounded(w, minted)
      BY <1>1, <1>5, <2>1 DEF RequestBounded, SeesSessions
    <2>3. requests' = (requests \ {c}) \cup {w}
      BY <1>5 DEF SeesSessions, w
    <2> QED BY <1>1, <1>5, <2>2, <2>3, ScreensBounded DEF SeesSessions
  <1> QED BY <1>2, <1>3, <1>4, <1>5

LEMMA AccountBoundedStep == AccountInv /\ AccountBounded /\ [Next]_vars => AccountBounded'
  BY AccountUsed, WritesBounded, RepliesBounded, PartSteps DEF accountState, AccountBounded,
     AccountReplies

-----------------------------------------------------------------------------
(* The types of every part.                                                *)
PartTyped == part \in Parts /\ inputs \in 0..MaxInputs[part]
ShellInv ==
    /\ PartTyped /\ NoticesInv /\ DirectoryInv /\ ListInv /\ SleuthInv /\ ManagedInv /\ PushInv
    /\ AccessInv /\ AccessPages /\ FormsInv /\ FormsBounded /\ AccountInv /\ AccountBounded

LEMMA ShellStep == ShellInv /\ [Next]_vars => ShellInv'
  <1> SUFFICES ASSUME ShellInv, [Next]_vars PROVE ShellInv'
    OBVIOUS
  <1>1. PartTyped'
    BY PartsAssumption DEF Next, vars, ByUser, ShellInv, PartTyped
  <1>2. NoticesInv' /\ DirectoryInv' /\ ListInv' /\ SleuthInv' /\ ManagedInv' /\ PushInv'
    BY NoticesStep, DirectoryStep, ListStep, SleuthStep, ManagedStep, PushStep DEF ShellInv
  <1>3. AccessInv' /\ AccessPages' /\ FormsInv' /\ FormsBounded' /\ AccountInv' /\ AccountBounded'
    BY AccessStep, PagesStep, FormsStep, BoundedStep, AccountStep, AccountBoundedStep DEF ShellInv
  <1> QED BY <1>1, <1>2, <1>3 DEF ShellInv

LEMMA SixPartsTyped ==
  ASSUME ShellInv
  PROVE  NoticesTypeOK /\ ListTypeOK /\ SleuthTypeOK /\ DirectoryTypeOK /\ ManagedTypeOK /\ PushTypeOK
  <1>1. NoticesTypeOK
    BY ListAttributes DEF ShellInv, NoticesInv, NoticesTypes, NoticesTypeOK
  <1>2. ListTypeOK
    BY RowListAttributes DEF ShellInv, ListInv, ListTypes, Looks, BulkActions, NoBulk, ListTypeOK
  <1>3. SleuthTypeOK
    <2>1. SleuthTypes /\ CardsKnown
      BY DEF ShellInv, SleuthInv
    <2>2. \A i \in DOMAIN talk : talk[i] \in Lines /\ talk[i].card <= made
      BY <2>1 DEF SleuthTypes, CardsKnown
    <2>3. request # None => request.text \in Says
      BY <2>1 DEF SleuthTypes, Requests
    <2>4. \A m \in strays : m.text \in Says
      BY <2>1 DEF SleuthTypes, Messages
    <2> QED BY <2>1, <2>2, <2>3, <2>4 DEF SleuthTypes, Lines, SleuthTypeOK
  <1>4. DirectoryTypeOK
    BY VersionAttributes DEF ShellInv, DirectoryInv, DirectoryTypes, DirectoryTypeOK
  <1>5. ManagedTypeOK
    BY OpAttributes DEF ShellInv, ManagedInv, ManagedTypes, QuestionRecords, SecretRecords, ManagedTypeOK
  <1>6. PushTypeOK
    BY RunAttributes DEF ShellInv, PushInv, PushTypes, PushTypeOK
  <1> QED BY <1>1, <1>2, <1>3, <1>4, <1>5, <1>6

LEMMA BoundedPartsTyped ==
  ASSUME ShellInv
  PROVE  AccessTypeOK /\ FormsTypeOK /\ AccountTypeOK
  <1>1. AccessTypeOK
    BY AccountAttributes, CallAttributes
    DEF ShellInv, AccessInv, AccessTypes, AccessPages, ViewGood, AccessTypeOK
  <1>2. FormsTypeOK
    BY RowAttributes, LoadAt, PendingCounted, SaveAttributes DEF ShellInv, FormsInv, FormsTypes,
       FormsBounded, FormsSeeded, FormsTypeOK
  <1>3. AccountTypeOK
    <2>1. AccountTypes /\ AccountBounded
      BY DEF ShellInv, AccountInv
    <2>2. \A d \in Device : screens[d].status \in {"unknown", "on", "off"}
      BY <2>1 DEF AccountTypes, ScreenRecords
    <2>3. \A c \in requests : c.op \in Ops /\ c.at \in {"sent", "read", "clearing", "done"}
      BY <2>1, RequestAttributes DEF AccountTypes
    <2>4. /\ stored.secret \in 0..minted /\ stored.on \in BOOLEAN /\ stored.codes \subseteq 1..minted
          /\ stored.ver \in 0..minted /\ stored.email \in 0..minted /\ stored.pending \subseteq 1..minted
          /\ stored.prefs \in [Channel -> BOOLEAN]
      BY <2>1, StoredAttributes DEF AccountTypes, AccountBounded, StoredBounded, Preferences
    <2> QED BY <2>1, <2>2, <2>3, <2>4 DEF AccountBounded, AccountTypeOK
  <1> QED BY <1>1, <1>2, <1>3

(* Every part of the client keeps its state of its kind, whichever part is *)
(* exercised.                                                              *)
THEOREM ShellTyped == Spec => []TypeOK
  <1>1. Init => ShellInv
    <2>1. Init => PartTyped
      BY PartsAssumption DEF Init, PartTyped
    <2> QED BY <2>1, NoticesInitially, DirectoryInitially, ListInitially, SleuthInitially, ManagedInitially,
        PushInitially, AccessInitially, PagesInitially, FormsInitially, BoundedInitially, AccountInitially,
        AccountBoundedInitially DEF ShellInv
  <1>2. ShellInv => TypeOK
    BY SixPartsTyped, BoundedPartsTyped DEF ShellInv, PartTyped, TypeOK
  <1> QED BY <1>1, <1>2, ShellStep, PTL DEF Spec
=============================================================================
