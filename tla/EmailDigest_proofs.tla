------------------------- MODULE EmailDigest_proofs -------------------------
(***************************************************************************)
(* Proofs about EmailDigest, for any set of rows and users.  No failed     *)
(* send is forgotten, however many runs overlap.  No row is mailed twice   *)
(* if runs do not overlap and a failed send means that nothing was sent.   *)
(***************************************************************************)
EXTENDS EmailDigest, TLAPS

LEMMA InitType == Init => TypeOK
<1> SUFFICES ASSUME Init PROVE TypeOK
  OBVIOUS
<1>1. digestOn \in BOOLEAN
  BY DEF Init
<1>2. \A r \in Runner : Held(r)
  BY DEF Init, Held
<1> QED BY <1>1, <1>2, DigestAssumption DEF Init, TypeOK

-----------------------------------------------------------------------------
(* Types. *)

LEMMA WorldType ==
    ASSUME TypeOK, World
    PROVE  TypeOK'
<1>1. ASSUME NEW n \in Note, Notify(n) PROVE TypeOK'
  BY <1>1 DEF Notify, TypeOK, Mail, run, Held
<1>2. ASSUME NEW n \in Note, Age(n) PROVE TypeOK'
  BY <1>2 DEF Age, TypeOK, run, history, Held
<1>3. ASSUME NEW u \in User, SwitchUser(u) PROVE TypeOK'
  BY <1>3 DEF SwitchUser, TypeOK, run, history, Held
<1>4. CASE SwitchMode
  BY <1>4 DEF SwitchMode, TypeOK, run, history, Held
<1> QED BY <1>1, <1>2, <1>3, <1>4 DEF World

\* A step of one run leaves the others' state alone.
OthersAlone(r) ==
    \A s \in Runner \ {r} :
        /\ pc'[s] = pc[s] /\ rows'[s] = rows[s] /\ todo'[s] = todo[s]
        /\ claims'[s] = claims[s] /\ outbox'[s] = outbox[s]
        /\ failed'[s] = failed[s]

RunStep(r) == Start(r) \/ Step(r) \/ Crash(r)

LEMMA RunAlone ==
    ASSUME TypeOK, NEW r \in Runner, RunStep(r)
    PROVE  OthersAlone(r)
<1> USE DEF TypeOK, OthersAlone, run, history
<1>1. CASE Start(r) \/ Crash(r)
  BY <1>1 DEF Start, Crash
<1>2. ASSUME NEW u \in User, Skip(r, u) \/ Claim(r, u) PROVE OthersAlone(r)
  BY <1>2 DEF Skip, Claim
<1>3. ASSUME NEW u \in User, Deliver(r, u) \/ DeliveryFails(r, u)
      PROVE  OthersAlone(r)
  BY <1>3 DEF Deliver, DeliveryFails, Sending
<1>4. CASE Commit(r) \/ Finish(r)
  BY <1>4 DEF Commit, Finish
<1> QED
  <2> HIDE DEF TypeOK, OthersAlone
  <2> QED BY <1>1, <1>2, <1>3, <1>4 DEF RunStep, Step

LEMMA RunHeld ==
    ASSUME TypeOK, NEW r \in Runner, RunStep(r)
    PROVE  Held(r)'
<1>1. CASE Start(r)
  <2>1. /\ rows'[r] = Unmailed /\ todo'[r] = {Owner[n] : n \in Unmailed}
        /\ claims' = claims /\ outbox' = outbox /\ failed' = failed
        /\ pc'[r] = "claim"
    BY <1>1 DEF Start, TypeOK
  <2>2. claims[r] = {} /\ failed[r] = {} /\ outbox[r] = {}
    BY <1>1 DEF Start, TypeOK, Held
  <2> QED BY <2>1, <2>2 DEF Held
<1>2. ASSUME NEW u \in User, Skip(r, u) PROVE Held(r)'
  <2>1. todo'[r] \subseteq todo[r]
    BY <1>2 DEF Skip, TypeOK
  <2> QED BY <1>2, <2>1 DEF Skip, TypeOK, Held
<1>3. ASSUME NEW u \in User, Claim(r, u) PROVE Held(r)'
  <2>1. /\ todo'[r] \subseteq todo[r] /\ rows' = rows /\ failed' = failed
        /\ claims'[r] = claims[r] \cup Claimable(r, u)
        /\ outbox'[r] = IF Claimable(r, u) = {} THEN outbox[r]
                                                ELSE outbox[r] \cup {u}
        /\ pc' = pc /\ pc[r] = "claim"
    BY <1>3 DEF Claim, TypeOK
  <2>2. Claimable(r, u) \subseteq rows[r]
    BY DEF Claimable, RowsOf
  <2>3. Claimable(r, u) # {} => u \in {Owner[n] : n \in rows[r]}
    BY DEF Claimable, RowsOf
  <2> QED BY <2>1, <2>2, <2>3 DEF TypeOK, Held
<1>4. ASSUME NEW u \in User, Deliver(r, u) \/ DeliveryFails(r, u)
      PROVE  Held(r)'
  <2>1. /\ outbox'[r] \subseteq outbox[r] /\ failed'[r] \subseteq rows[r]
        /\ pc' = pc /\ pc[r] = "send"
        /\ rows' = rows /\ todo' = todo /\ claims' = claims
    BY <1>4 DEF Deliver, DeliveryFails, Sending, TypeOK, Held, RowsOf
  <2> QED BY <2>1 DEF TypeOK, Held
<1>5. CASE Commit(r)
  BY <1>5 DEF Commit, run, TypeOK, Held
<1>6. CASE Finish(r)
  <2>1. /\ rows'[r] = {} /\ claims'[r] = {} /\ failed'[r] = {}
        /\ outbox' = outbox /\ todo' = todo /\ outbox[r] = {}
    BY <1>6 DEF Finish, TypeOK
  <2>2. todo[r] = {}
    BY <1>6 DEF Finish, TypeOK, Held
  <2> QED BY <2>1, <2>2 DEF Held
<1>7. CASE Crash(r)
  <2>1. /\ rows'[r] = {} /\ claims'[r] = {} /\ failed'[r] = {}
        /\ outbox'[r] = {} /\ todo'[r] = {}
    BY <1>7 DEF Crash, TypeOK
  <2> QED BY <2>1 DEF Held
<1> QED BY <1>1, <1>2, <1>3, <1>4, <1>5, <1>6, <1>7 DEF RunStep, Step

LEMMA RunType ==
    ASSUME TypeOK, NEW r \in Runner, RunStep(r)
    PROVE  TypeOK'
<1>1. \A s \in Runner : Held(s)'
  <2>1. Held(r)'
    BY RunHeld
  <2>2. ASSUME NEW s \in Runner \ {r} PROVE Held(s)'
    BY <2>2, RunAlone DEF OthersAlone, TypeOK, Held
  <2> QED BY <2>1, <2>2
<1> USE DEF TypeOK, run, history
<1>2. CASE Start(r)
  <2>1. {Owner[n] : n \in Unmailed} \subseteq User /\ Unmailed \subseteq Note
    BY DigestAssumption DEF Unmailed
  <2> QED BY <1>1, <1>2, <2>1 DEF Start
<1>3. ASSUME NEW u \in User, Skip(r, u) PROVE TypeOK'
  BY <1>1, <1>3 DEF Skip
<1>4. ASSUME NEW u \in User, Claim(r, u) PROVE TypeOK'
  <2>1. Claimable(r, u) \subseteq Note
    BY DEF Claimable, RowsOf
  <2> QED BY <1>1, <1>4, <2>1 DEF Claim
<1>5. ASSUME NEW u \in User, Deliver(r, u) \/ DeliveryFails(r, u) PROVE TypeOK'
  <2>1. RowsOf(r, u) \subseteq Note
    BY DEF RowsOf
  <2>2. mailed' \subseteq Note /\ twice' \subseteq Note
    BY <1>5, <2>1 DEF Deliver, DeliveryFails, Mail
  <2>3. failed' \in [Runner -> SUBSET Note]
    BY <1>5, <2>1 DEF Deliver, DeliveryFails
  <2> QED BY <1>1, <1>5, <2>2, <2>3 DEF Deliver, DeliveryFails, Sending
<1>6. CASE Commit(r)
  BY <1>1, <1>6 DEF Commit, Restamp
<1>7. CASE Finish(r)
  BY <1>1, <1>7 DEF Finish, Restamp
<1>8. CASE Crash(r)
  <2>1. crashes' \in 0 .. MaxCrashes
    BY <1>8, DigestAssumption DEF Crash
  <2>2. dropped' \subseteq Note
    BY <1>8 DEF Crash
  <2> QED BY <1>1, <1>8, <2>1, <2>2 DEF Crash
<1> QED
  <2> HIDE DEF TypeOK
  <2> QED BY <1>2, <1>3, <1>4, <1>5, <1>6, <1>7, <1>8 DEF RunStep, Step

LEMMA NextType == TypeOK /\ [Next]_vars => TypeOK'
<1> SUFFICES ASSUME TypeOK, [Next]_vars PROVE TypeOK'
  OBVIOUS
<1>1. CASE UNCHANGED vars
  BY <1>1 DEF vars, run, history, TypeOK, Held
<1> QED BY <1>1, WorldType, RunType DEF Next, RunStep

\* Every variable keeps its type; what a run holds is about the rows it read.
THEOREM TypeCorrect == Spec => []TypeOK
BY InitType, NextType, PTL DEF Spec

-----------------------------------------------------------------------------
(* No failed send is forgotten, however many runs overlap. *)

\* Until it commits, a run has stamped rows of users it is going to mail.
ClaimsToMail(r) ==
    pc[r] = "claim" => \A n \in claims[r] : Owner[n] \in outbox[r]

\* What NoSilentLoss says of one row: some run still has to mail or release it.
InHand(n, r) ==
    /\ pc[r] = "send"
    /\ n \in claims[r]
    /\ Owner[n] \in outbox[r] \/ n \in failed[r]

LossInv == TypeOK /\ (\A r \in Runner : ClaimsToMail(r)) /\ NoSilentLoss

LEMMA NextClaims ==
    ASSUME LossInv, [Next]_vars, NEW s \in Runner
    PROVE  ClaimsToMail(s)'
<1> USE DEF LossInv
<1>1. CASE UNCHANGED vars
  BY <1>1 DEF vars, run, ClaimsToMail
<1>2. CASE World
  BY <1>2 DEF World, Notify, Age, SwitchUser, SwitchMode, run, ClaimsToMail
<1>3. ASSUME NEW r \in Runner, RunStep(r), s # r PROVE ClaimsToMail(s)'
  BY <1>3, RunAlone DEF OthersAlone, ClaimsToMail
<1>4. CASE Start(s)
  <2>1. claims'[s] = {}
    BY <1>4 DEF Start, TypeOK, Held
  <2> QED BY <2>1 DEF ClaimsToMail
<1>5. ASSUME NEW u \in User, Skip(s, u) PROVE ClaimsToMail(s)'
  BY <1>5 DEF Skip, ClaimsToMail
<1>6. ASSUME NEW u \in User, Claim(s, u) PROVE ClaimsToMail(s)'
  <2>1. /\ pc' = pc /\ pc[s] = "claim"
        /\ claims'[s] = claims[s] \cup Claimable(s, u)
        /\ outbox'[s] = IF Claimable(s, u) = {} THEN outbox[s]
                                                ELSE outbox[s] \cup {u}
    BY <1>6 DEF Claim, TypeOK
  <2>2. \A n \in Claimable(s, u) : Owner[n] = u
    BY DEF Claimable, RowsOf
  <2> QED BY <2>1, <2>2 DEF ClaimsToMail
<1>7. ASSUME NEW u \in User, Deliver(s, u) \/ DeliveryFails(s, u)
      PROVE  ClaimsToMail(s)'
  BY <1>7 DEF Deliver, DeliveryFails, Sending, ClaimsToMail
<1>8. CASE Commit(s) \/ Finish(s) \/ Crash(s)
  BY <1>8 DEF Commit, Finish, Crash, ClaimsToMail, TypeOK
<1> QED
  BY <1>1, <1>2, <1>3, <1>4, <1>5, <1>6, <1>7, <1>8 DEF Next, RunStep, Step

\* A step of run r leaves what the other runs have in hand in their hands.
LEMMA InHandStays ==
    ASSUME TypeOK, NEW r \in Runner, RunStep(r), NEW n \in Note,
           NEW s \in Runner \ {r}, InHand(n, s)
    PROVE  InHand(n, s)'
BY RunAlone DEF OthersAlone, InHand

LEMMA NextNoLoss ==
    ASSUME LossInv, [Next]_vars
    PROVE  NoSilentLoss'
<1> USE DEF LossInv
<1> SUFFICES ASSUME NEW n \in Note, stamp'[n] = "stamped",
                    n \notin (mailed \cup dropped)'
             PROVE  \E s \in Runner : InHand(n, s)'
  BY DEF NoSilentLoss, InHand
<1>1. CASE UNCHANGED vars
  BY <1>1 DEF vars, run, history, NoSilentLoss, InHand
<1>2. CASE World
  <2>1. stamp[n] = "stamped" /\ n \notin mailed \cup dropped
    BY <1>2 DEF World, Notify, Age, SwitchUser, SwitchMode, history, Mail, TypeOK
  <2>2. UNCHANGED <<pc, run>>
    BY <1>2 DEF World, Notify, Age, SwitchUser, SwitchMode
  <2> QED BY <2>1, <2>2 DEF NoSilentLoss, InHand, run
<1>3. ASSUME NEW r \in Runner, RunStep(r)
      PROVE  \E s \in Runner : InHand(n, s)'
  <2>1. n \notin mailed \cup dropped
    BY <1>3 DEF RunStep, Step, Start, Skip, Claim, Commit, Deliver,
                DeliveryFails, Sending, Finish, Crash, history, Mail
  <2>2. CASE Commit(r) /\ stamp[n] # "stamped"
    <3>1. n \in claims[r]
      BY <2>2 DEF Commit, Restamp, TypeOK
    <3> QED BY <2>2, <3>1 DEF Commit, run, InHand, ClaimsToMail, TypeOK
  <2>3. CASE ~Commit(r) \/ stamp[n] = "stamped"
    <3>1. stamp[n] = "stamped" /\ (Finish(r) => n \notin failed[r])
      BY <1>3, <2>3 DEF RunStep, Step, Start, Skip, Claim, Deliver, Released,
                DeliveryFails, Sending, Finish, Crash, Restamp, TypeOK
    <3>2. PICK s \in Runner : InHand(n, s)
      BY <2>1, <3>1 DEF NoSilentLoss, InHand
    <3>3. CASE s # r
      BY <1>3, <3>2, <3>3, InHandStays
    <3>4. CASE s = r
      <4>1. pc[r] = "send" /\ n \in rows[r]
        BY <3>2, <3>4 DEF InHand, TypeOK, Held
      <4>2. ~Finish(r)
        BY <3>1, <3>2, <3>4 DEF Finish, InHand
      <4>3. ~Crash(r)
        BY <2>1, <3>2, <3>4, <4>1 DEF Crash, InHand
      <4>4. ASSUME NEW u \in User, Deliver(r, u) PROVE InHand(n, r)'
        <5>1. Owner[n] # u
          BY <4>1, <4>4 DEF Deliver, Mail, RowsOf
        <5> QED BY <3>2, <3>4, <4>4, <5>1 DEF Deliver, Sending, InHand, TypeOK
      <4>5. ASSUME NEW u \in User, DeliveryFails(r, u) PROVE InHand(n, r)'
        <5>1. Owner[n] = u => n \in RowsOf(r, u)
          BY <4>1 DEF RowsOf
        <5> QED BY <3>2, <3>4, <4>5, <5>1
                DEF DeliveryFails, Sending, InHand, TypeOK
      <4> QED
        BY <1>3, <3>4, <4>1, <4>2, <4>3, <4>4, <4>5
        DEF RunStep, Step, Start, Skip, Claim, Commit
    <3> QED BY <3>3, <3>4
  <2> QED BY <2>2, <2>3
<1> QED BY <1>1, <1>2, <1>3 DEF Next, RunStep

\* A row that is stamped and was never mailed is still in the hands of a run,
\* or a run died with it.
THEOREM NothingForgotten == Spec => []NoSilentLoss
<1>1. Init => LossInv
  <2> SUFFICES ASSUME Init PROVE LossInv
    OBVIOUS
  <2>1. (\A r \in Runner : ClaimsToMail(r)) /\ NoSilentLoss
    BY DEF Init, ClaimsToMail, NoSilentLoss
  <2> QED BY <2>1, InitType DEF LossInv
<1>2. LossInv /\ [Next]_vars => LossInv'
  BY NextType, NextClaims, NextNoLoss DEF LossInv
<1>3. LossInv => NoSilentLoss
  BY DEF LossInv
<1> QED BY <1>1, <1>2, <1>3, PTL DEF Spec

-----------------------------------------------------------------------------
(* At most one mail per row: runs that do not overlap, sends that report what *)
(* happened.                                                                  *)

OneRun == (\A r, s \in Runner : r = s) /\ ~AnswersLost

\* While the only run claims, the rows it read are as it read them.  Once it
\* sends, all the rows of a user it has to mail are stamped by it, and neither
\* they nor those it will release have been mailed.
Fresh(r) ==
    /\ pc[r] = "claim" =>
          /\ \A n \in rows[r] : stamp[n] = "null"
          /\ claims[r] = {n \in rows[r] : Owner[n] \in outbox[r]}
          /\ failed[r] = {}
    /\ pc[r] = "send" =>
          /\ \A n \in claims[r] : stamp[n] = "stamped"
          /\ \A n \in rows[r] : stamp[n] # "absent"
          /\ \A n \in rows[r] : Owner[n] \in outbox[r] => n \in claims[r] \ mailed
          /\ \A n \in failed[r] : n \in claims[r] \ mailed /\ Owner[n] \notin outbox[r]

MailedStamped == \A n \in mailed : stamp[n] = "stamped"

OnceInv ==
    /\ TypeOK
    /\ \A r \in Runner : Fresh(r)
    /\ MailedStamped
    /\ AtMostOnce

LEMMA WorldOnce ==
    ASSUME OnceInv, World
    PROVE  (\A r \in Runner : Fresh(r))' /\ MailedStamped' /\ AtMostOnce'
<1> USE DEF OnceInv
<1>1. ASSUME NEW n \in Note, Notify(n)
      PROVE  (\A r \in Runner : Fresh(r))' /\ MailedStamped' /\ AtMostOnce'
  <2>1. /\ stamp[n] = "absent" /\ n \notin mailed
        /\ \A k \in Note \ {n} : stamp'[k] = stamp[k]
        /\ UNCHANGED <<pc, run>>
        /\ mailed' = mailed \/ (mailed' = mailed \cup {n} /\ stamp'[n] = "stamped")
        /\ twice' = twice
    BY <1>1 DEF Notify, Mail, MailedStamped, AtMostOnce, TypeOK
  <2>2. \A r \in Runner : pc[r] # "idle" => n \notin rows[r]
    BY <2>1 DEF Fresh, TypeOK
  <2>3. ASSUME NEW r \in Runner PROVE Fresh(r)'
    <3>1. claims[r] \subseteq rows[r] /\ failed[r] \subseteq rows[r]
          /\ rows[r] \subseteq Note
      BY DEF TypeOK, Held
    <3> QED BY <2>1, <2>2, <3>1 DEF run, Fresh, TypeOK
  <2>4. MailedStamped' /\ AtMostOnce'
    BY <2>1 DEF MailedStamped, AtMostOnce, TypeOK
  <2> QED BY <2>3, <2>4
<1>2. CASE UNCHANGED <<stamp, pc, run, history>>
  BY <1>2 DEF run, history, Fresh, MailedStamped, AtMostOnce
<1> QED BY <1>1, <1>2 DEF World, Age, SwitchUser, SwitchMode

LEMMA RunOnce ==
    ASSUME OneRun, OnceInv, NEW r \in Runner, RunStep(r)
    PROVE  Fresh(r)' /\ MailedStamped' /\ AtMostOnce'
<1> USE DEF OnceInv, TypeOK
<1> DEFINE Goal == Fresh(r)' /\ MailedStamped' /\ AtMostOnce'
<1>1. CASE Start(r)
  <2>1. /\ pc'[r] = "claim" /\ rows'[r] = Unmailed
        /\ claims'[r] = {} /\ outbox'[r] = {} /\ failed'[r] = {}
    BY <1>1 DEF Start, Held
  <2>2. stamp' = stamp /\ mailed' = mailed /\ twice' = twice
    BY <1>1 DEF Start, history
  <2> QED BY <2>1, <2>2 DEF Fresh, Unmailed, MailedStamped, AtMostOnce
<1>2. ASSUME NEW u \in User, Skip(r, u) PROVE Goal
  BY <1>2 DEF Skip, history, Fresh, MailedStamped, AtMostOnce
<1>3. ASSUME NEW u \in User, Claim(r, u) PROVE Goal
  <2>1. /\ pc' = pc /\ pc[r] = "claim" /\ rows' = rows /\ failed' = failed
        /\ claims'[r] = claims[r] \cup Claimable(r, u)
        /\ outbox'[r] = IF Claimable(r, u) = {} THEN outbox[r]
                                                ELSE outbox[r] \cup {u}
        /\ stamp' = stamp /\ mailed' = mailed /\ twice' = twice
    BY <1>3 DEF Claim, history
  <2>2. Claimable(r, u) = {n \in rows[r] : Owner[n] = u}
    BY <2>1 DEF Claimable, RowsOf, Fresh
  <2>3. claims'[r] = {n \in rows[r] : Owner[n] \in outbox'[r]}
    BY <2>1, <2>2 DEF Fresh
  <2> QED BY <2>1, <2>3 DEF Fresh, MailedStamped, AtMostOnce
<1>4. CASE Commit(r)
  <2>1. /\ pc[r] = "claim" /\ pc'[r] = "send"
        /\ rows' = rows /\ claims' = claims /\ outbox' = outbox
        /\ failed' = failed /\ mailed' = mailed /\ twice' = twice
        /\ \A n \in Note : stamp'[n] = IF n \in claims[r] THEN "stamped" ELSE stamp[n]
    BY <1>4 DEF Commit, Restamp, run, history
  <2>2. \A n \in rows[r] : n \notin mailed
    BY <2>1 DEF Fresh, MailedStamped
  <2> QED BY <2>1, <2>2 DEF Fresh, Held, MailedStamped, AtMostOnce
<1>5. ASSUME NEW u \in User, Deliver(r, u) PROVE Goal
  <2>1. /\ pc' = pc /\ pc[r] = "send" /\ u \in User
        /\ rows' = rows /\ claims' = claims /\ failed' = failed /\ stamp' = stamp
        /\ outbox'[r] = outbox[r] \ {u}
        /\ mailed' = mailed \cup RowsOf(r, u)
        /\ twice' = twice \cup (RowsOf(r, u) \cap mailed)
    BY <1>5 DEF Deliver, Sending, Mail
  <2>2. u \in outbox[r]
    BY <1>5 DEF Deliver, Sending, First
  <2>3. \A n \in RowsOf(r, u) : n \in claims[r] \ mailed /\ Owner[n] = u
    BY <2>1, <2>2 DEF RowsOf, Fresh
  <2>4. \A n \in RowsOf(r, u) : stamp[n] = "stamped"
    BY <2>1, <2>3 DEF Fresh
  <2>5. MailedStamped' /\ AtMostOnce'
    BY <2>1, <2>3, <2>4 DEF MailedStamped, AtMostOnce
  <2>6. \A n \in rows[r] : Owner[n] \in outbox'[r] => n \in claims[r] \ mailed'
    BY <2>1, <2>3 DEF Fresh
  <2>7. \A n \in failed[r] : n \in claims[r] \ mailed' /\ Owner[n] \notin outbox'[r]
    BY <2>1, <2>2, <2>3 DEF Fresh
  <2>8. Fresh(r)'
    BY <2>1, <2>6, <2>7 DEF Fresh
  <2> QED BY <2>5, <2>8
<1>6. ASSUME NEW u \in User, DeliveryFails(r, u) PROVE Goal
  <2>1. /\ pc' = pc /\ pc[r] = "send" /\ u \in User
        /\ rows' = rows /\ claims' = claims /\ stamp' = stamp
        /\ failed'[r] = failed[r] \cup RowsOf(r, u)
        /\ outbox'[r] = outbox[r] \ {u}
        /\ mailed' = mailed /\ twice' = twice
    BY <1>6 DEF DeliveryFails, Sending, Mail, OneRun
  <2>2. u \in outbox[r]
    BY <1>6 DEF DeliveryFails, Sending, First
  <2>3. \A n \in RowsOf(r, u) : n \in claims[r] \ mailed /\ Owner[n] = u
    BY <2>1, <2>2 DEF RowsOf, Fresh
  <2> QED BY <2>1, <2>3 DEF Fresh, Held, MailedStamped, AtMostOnce
<1>7. CASE Finish(r)
  <2>1. /\ pc[r] = "send" /\ pc'[r] = "idle"
        /\ mailed' = mailed /\ twice' = twice
        /\ \A n \in Note : stamp'[n] = IF n \in failed[r] THEN "null" ELSE stamp[n]
    BY <1>7 DEF Finish, Restamp, Released, history
  <2>2. failed[r] \cap mailed = {}
    BY <2>1 DEF Fresh
  <2> QED BY <2>1, <2>2 DEF Fresh, MailedStamped, AtMostOnce
<1>8. CASE Crash(r)
  <2>1. pc'[r] = "idle" /\ stamp' = stamp /\ mailed' = mailed /\ twice' = twice
    BY <1>8 DEF Crash
  <2> QED BY <2>1 DEF Fresh, MailedStamped, AtMostOnce
<1> QED
  BY <1>1, <1>2, <1>3, <1>4, <1>5, <1>6, <1>7, <1>8 DEF RunStep, Step

LEMMA NextOnce ==
    ASSUME OneRun, OnceInv, [Next]_vars
    PROVE  OnceInv'
<1>1. TypeOK'
  BY NextType DEF OnceInv
<1>2. (\A r \in Runner : Fresh(r))' /\ MailedStamped' /\ AtMostOnce'
  <2>1. CASE UNCHANGED vars
    BY <2>1 DEF vars, run, history, OnceInv, Fresh, MailedStamped, AtMostOnce
  <2>2. ASSUME NEW r \in Runner, RunStep(r)
        PROVE  (\A s \in Runner : Fresh(s))' /\ MailedStamped' /\ AtMostOnce'
    <3>1. \A s \in Runner : s = r
      BY DEF OneRun
    <3> QED BY <2>2, <3>1, RunOnce
  <2> QED BY <2>1, <2>2, WorldOnce DEF Next, RunStep
<1> QED BY <1>1, <1>2 DEF OnceInv

LEMMA OnceInvariance ==
    ASSUME OneRun
    PROVE  Spec => []OnceInv
<1>1. Init => OnceInv
  <2> SUFFICES ASSUME Init PROVE OnceInv
    OBVIOUS
  <2>1. (\A r \in Runner : Fresh(r)) /\ MailedStamped /\ AtMostOnce
    BY DEF Init, Fresh, MailedStamped, AtMostOnce
  <2> QED BY <2>1, InitType DEF OnceInv
<1>2. OnceInv /\ [Next]_vars => OnceInv'
  BY NextOnce
<1> QED BY <1>1, <1>2, PTL DEF Spec

\* One run at a time, and a mail server whose failures mean that nothing was
\* sent: no row is mailed twice.
THEOREM MailedOnce ==
    ASSUME OneRun
    PROVE  Spec => []AtMostOnce
<1>1. OnceInv => AtMostOnce
  BY DEF OnceInv
<1> QED BY <1>1, OnceInvariance, PTL

\* Under the same assumption, only rows that no mail carried are released.
THEOREM ReleasedUnsent ==
    ASSUME OneRun
    PROVE  Spec => ReleasedWasNotSent
<1> DEFINE A == \A n \in Note :
          stamp[n] = "stamped" /\ stamp'[n] = "null" => n \notin mailed
<1>1. OnceInv /\ [Next]_vars => [A]_vars
  <2> SUFFICES ASSUME OnceInv, Next, NEW n \in Note,
                      stamp[n] = "stamped", stamp'[n] = "null"
               PROVE  n \notin mailed
    OBVIOUS
  <2>1. MailedStamped'
    BY NextOnce DEF OnceInv
  <2>2. mailed \subseteq mailed'
    BY DEF Next, World, Notify, Age, SwitchUser, SwitchMode, Step, Start, Skip,
           Claim, Commit, Deliver, DeliveryFails, Sending, Finish, Crash, Mail,
           history
  <2> QED BY <2>1, <2>2 DEF MailedStamped
<1>2. Spec => [][Next]_vars
  BY PTL DEF Spec
<1> QED BY <1>1, <1>2, OnceInvariance, PTL DEF ReleasedWasNotSent

============================================================================
