----------------------------- MODULE ClientAccess -----------------------------
(***************************************************************************)
(* The pages used before one is signed in: signing in with its second      *)
(* step, asking for a password link and using it, confirming an address,   *)
(* joining by invitation, creating an organization, deleting an account.   *)
(*                                                                         *)
(* Two tabs of one browser share its cookie and nothing else.  A submitted *)
(* form is a call: the server reads what it needs, takes its time (to hash *)
(* or look up a password), writes, and answers if the network lets it.     *)
(***************************************************************************)
EXTENDS ClientParts

CONSTANTS
    Account,      \* the accounts there are or could be
    Tab           \* the tabs of the browser

\* A password is a pair: whose it is, and the how manieth; None is none, nor an
\* answer, nor what is granted.
ASSUME AccessAssumption ==
    /\ Account # {} /\ None \notin Account \X Nat /\ None \notin {"ok", "code", "sent"}
    /\ None \notin [account : Account, version : Nat, password : Account \X Nat, coded : BOOLEAN]

VARIABLES
    account,      \* each account as the server has it
    confirming,   \* the server wants addresses confirmed
    mailed,       \* links that were mailed
    usable,       \* those not used, retired or revoked
    used,         \* history: how often each took effect
    sessions,     \* the server's sessions
    cookie,       \* the session the browser presents, or None
    tabs,         \* what each tab shows
    calls,        \* submitted forms under way
    deletions,    \* history: whose details were typed, and whose account went
    overtaken     \* history: permissions to give a code that a reset came before

access == <<account, confirming, mailed, usable, used, sessions, cookie, tabs, calls, deletions,
            overtaken>>

Link(for, a) == [for |-> for, account |-> a, n |-> Cardinality(mailed)]
\* A session, or the permission to give a code for one: whose, since when, with
\* which password it was asked for (history).
Grant(a, version, password, coded) ==
    [account |-> a, version |-> version, password |-> password, coded |-> coded]

\* A cookie is good while its session is there and nothing signed its user out.
Valid(s) ==
    /\ s \in sessions /\ account[s.account].state = "active"
    /\ s.version = account[s.account].version

\* What the pages show.
PageViews == [login |-> {"form", "code", "forgot"}, reset |-> {"form", "done"},
          verify |-> {"waiting", "checking", "failed", "done"}, accept |-> {"checking", "form", "failed"},
          signup |-> {"organization", "you", "password", "sent"},
          delete |-> {"form", "code", "done"}, app |-> {"items"}]

AccessTypeOK ==
    /\ \A a \in Account : account[a].state \in {"none", "unconfirmed", "active", "deleted"}
    /\ confirming \in BOOLEAN /\ usable \subseteq mailed /\ used \in [mailed -> Nat]
    /\ \A t \in Tab : /\ tabs[t].view \in PageViews[tabs[t].at]
                      /\ tabs[t].view = "code" => tabs[t].pending # None
    /\ \A c \in calls : c.tab \in Tab \cup {None} /\ c.account \in Account
    /\ \A g \in overtaken : g.account \in Account /\ ~g.coded

Page(at, view, link) ==
    [at |-> at, view |-> view, link |-> link, pending |-> None, busy |-> {}, typed |-> None]

\* One account is in any of the states one finds it in, with the link that was
\* mailed for it; the others are in use.
AccessInit ==
    LET one == CHOOSE a \in Account : TRUE
        Plain(a, state, second) ==
            [state |-> state, password |-> <<a, 0>>, version |-> 0, second |-> second]
    IN \E start \in IF part # "access" THEN {<<"active", FALSE, "reset">>}
                    ELSE {<<"active", FALSE, "reset">>, <<"active", TRUE, "reset">>,
                          <<"unconfirmed", FALSE, "verify">>, <<"none", FALSE, "invite">>} :
         /\ account = [a \in Account |-> IF a = one THEN Plain(a, start[1], start[2])
                                         ELSE Plain(a, "active", FALSE)]
         /\ mailed = {[for |-> start[3], account |-> one, n |-> 0]}
         /\ confirming \in IF start[1] = "unconfirmed" THEN {TRUE}
                           ELSE IF part = "access" THEN BOOLEAN ELSE {FALSE}
         /\ usable = mailed /\ used = [l \in mailed |-> 0]
         /\ sessions = {} /\ cookie = None /\ calls = {} /\ deletions = {} /\ overtaken = {}
         /\ tabs = [t \in Tab |-> Page("login", "form", None)]
-----------------------------------------------------------------------------
(* The pages. *)

Call(t, what, a, password, link) ==
    [tab |-> t, what |-> what, account |-> a, password |-> password, link |-> link,
     of |-> a, pending |-> IF what = "totp" THEN tabs[t].pending ELSE None, seen |-> None, answer |-> None, gives |-> None]

TurnsTo(t, page) == tabs' = [tabs EXCEPT ![t] = page]
Busy(t, form) == [tabs[t] EXCEPT !.busy = @ \cup {form}]

\* A form's button is off while what it sent is under way.
Submit(t, at, view, what, a, password) ==
    /\ tabs[t].at = at /\ tabs[t].view = view /\ what \notin tabs[t].busy
    /\ TurnsTo(t, Busy(t, what))
    /\ calls' = calls \cup {Call(t, what, a, password, tabs[t].link)}
    /\ UNCHANGED <<account, confirming, mailed, usable, used, sessions, cookie, deletions, overtaken>>

\* A password that was the account's, and a new one.
Known(a) == {<<a, n>> : n \in 0..account[a].password[2]}
NewPassword(a) == <<a, account[a].password[2] + 1>>

SignIn(t, a) == \E p \in Known(a) : Submit(t, "login", "form", "login", a, p)
SendCode(t) == tabs[t].pending # None
               /\ Submit(t, "login", "code", "totp", tabs[t].pending.account, None)
Forgot(t, a) == Submit(t, "login", "forgot", "forgot", a, None)
SetPassword(t) == /\ tabs[t].link # None
                  /\ LET a == tabs[t].link.account
                     IN Submit(t, "reset", "form", "reset", a, NewPassword(a))
Join(t) == /\ tabs[t].link # None
           /\ LET a == tabs[t].link.account IN Submit(t, "accept", "form", "accept", a, <<a, 0>>)
Resend(t, a) ==
    \E v \in {<<"verify", "waiting">>, <<"verify", "failed">>, <<"signup", "sent">>} :
        /\ tabs[t].typed # None => a = tabs[t].typed[1]
        /\ Submit(t, v[1], v[2], "resend", a, None)

\* The last of the three steps; the first two only check what was typed.
CreateOrganization(t, a) ==
    /\ tabs[t].at = "signup" /\ tabs[t].view = "password" /\ "signup" \notin tabs[t].busy
    /\ TurnsTo(t, [Busy(t, "signup") EXCEPT !.typed = <<a, <<a, 0>>>>])
    /\ calls' = calls \cup {Call(t, "signup", a, <<a, 0>>, None)}
    /\ UNCHANGED <<account, confirming, mailed, usable, used, sessions, cookie, deletions, overtaken>>

\* Signing in to delete: with a code once one was asked for, as the person that was
\* typed before.
SubmitDeletion(t, a) ==
    /\ tabs[t].at = "delete" /\ tabs[t].view # "done" /\ "delete" \notin tabs[t].busy
    /\ tabs[t].pending # None => a = tabs[t].pending.account
    /\ \E p \in Known(a) :
         /\ TurnsTo(t, [Busy(t, "delete") EXCEPT !.typed = <<a, p>>])
         /\ calls' = calls \cup {Call(t, IF tabs[t].pending # None THEN "totp" ELSE "login", a, p, None)}
    /\ UNCHANGED <<account, confirming, mailed, usable, used, sessions, cookie, deletions, overtaken>>

\* What the person turns to without asking the server: between signing in and
\* the forgotten password, and from step to step.
Turns(t, from, to) ==
    /\ <<from, to>> \in {<<"form", "forgot">>, <<"forgot", "form">>, <<"code", "form">>,
                         <<"organization", "you">>, <<"you", "organization">>,
                         <<"you", "password">>, <<"password", "you">>}
    /\ tabs[t].at \in {"login", "signup"} /\ tabs[t].view = from
    /\ from = "password" => tabs[t].busy = {}
    /\ TurnsTo(t, [tabs[t] EXCEPT !.view = to])
    /\ UNCHANGED <<account, confirming, mailed, usable, used, sessions, cookie, calls, deletions, overtaken>>

\* A page is opened: nobody waits any more for what the tab had sent.  A link to
\* confirm is used by opening it, an invitation is looked up.
Left(t, remaining) == {[c EXCEPT !.tab = IF @ = t THEN None ELSE @] : c \in remaining}

Opens(t, page, call) ==
    /\ TurnsTo(t, page)
    /\ calls' = Left(t, calls) \cup call
    /\ UNCHANGED <<account, confirming, mailed, usable, used, sessions, cookie, deletions, overtaken>>

OpenPage(t) == \E p \in {<<"login", "form">>, <<"signup", "organization">>, <<"delete", "form">>,
                         <<"verify", "waiting">>} : Opens(t, Page(p[1], p[2], None), {})
OpenLink(t, l) ==
    LET Used(what) == {Call(t, what, l.account, None, l)}
    IN \/ l.for = "reset" /\ Opens(t, Page("reset", "form", l), {})
       \/ l.for = "verify" /\ Opens(t, Page("verify", "checking", l), Used("verify"))
       \/ l.for = "invite" /\ Opens(t, Page("accept", "checking", l), Used("preview"))
-----------------------------------------------------------------------------
(* The server. *)

Becomes(c, d) == calls' = (calls \ {c}) \cup d
Said(c, how, what) == [c EXCEPT !.answer = how, !.gives = what]

\* Where a password is compared or looked up the account is read well before the
\* rest is done; elsewhere at once.  Whose it is to delete says the cookie the
\* browser has when the request leaves.
Slow == {"login", "totp", "reset", "delete"}

Reads(c) ==
    /\ c.seen = None /\ c.answer = None /\ c.what \in Slow
    /\ c.what = "delete" => cookie # None /\ Valid(cookie)
    /\ LET whose == IF c.what = "delete" THEN cookie.account ELSE c.account
       IN Becomes(c, {[c EXCEPT !.of = whose, !.seen = account[whose]]})
    /\ UNCHANGED <<account, confirming, mailed, usable, used, sessions, cookie, tabs, deletions, overtaken>>

Starts(c, s) ==
    /\ sessions' = sessions \cup {s}
    /\ Becomes(c, {Said(c, "ok", s)})

\* Where a code is asked for, the permission to give it is written after a commit,
\* which reads the account again: it is good from the version of then on, also when
\* a reset came after the password was compared.
ServeLogin(c) ==
    /\ c.what = "login" /\ c.seen.state = "active" /\ c.password = c.seen.password
    /\ LET now == account[c.account]
           pending == Grant(c.account, now.version, c.password, FALSE)
       IN IF c.seen.second
          THEN /\ now.state # "deleted" /\ Becomes(c, {Said(c, "code", pending)})
               /\ overtaken' = overtaken \cup IF now.version = c.seen.version THEN {} ELSE {pending}
               /\ UNCHANGED sessions
          ELSE /\ Starts(c, Grant(c.account, c.seen.version, c.password, FALSE))
               /\ UNCHANGED overtaken
    /\ UNCHANGED <<account, mailed, usable, used, deletions>>

\* Slip: the code is checked, and not what has happened since the password was.
Mut_ServeTotp(c) ==
    /\ c.what = "totp" /\ c.seen.state = "active" /\ c.seen.second
    /\ Starts(c, Grant(c.account, c.seen.version, c.pending.password, TRUE))
    /\ UNCHANGED <<account, mailed, usable, used, deletions>>

\* Whatever signed the person out since the permission was given voids it.
ServeTotp(c) ==
    /\ c.what = "totp" /\ c.seen.state = "active" /\ c.seen.second
    /\ c.pending.version = c.seen.version
    /\ Starts(c, Grant(c.account, c.seen.version, c.pending.password, TRUE))
    /\ UNCHANGED <<account, mailed, usable, used, deletions>>

Mails(link) ==
    /\ mailed' = mailed \cup {link}
    /\ used' = IF link \in DOMAIN used THEN used ELSE Put(used, link, 0)

\* A link for a new password leaves the earlier ones as they are; one to confirm
\* an address retires them.
ServeForgot(c) ==
    /\ c.what = "forgot" /\ account[c.account].state \in {"active", "unconfirmed"}
    /\ Mails(Link("reset", c.account)) /\ usable' = usable \cup {Link("reset", c.account)}
    /\ Becomes(c, {Said(c, "ok", None)})
    /\ UNCHANGED <<account, sessions, deletions>>

Retired(a, for) == {l \in usable : l.account = a /\ l.for = for}

ServeResend(c) ==
    /\ c.what = "resend" /\ account[c.account].state = "unconfirmed"
    /\ Mails(Link("verify", c.account))
    /\ usable' = (usable \ Retired(c.account, "verify")) \cup {Link("verify", c.account)}
    /\ Becomes(c, {Said(c, "ok", None)})
    /\ UNCHANGED <<account, sessions, deletions>>

\* Slip: the link is not looked at again when the password is written.
Mut_TakesLink(c) == used' = [used EXCEPT ![c.link] = @ + 1]

\* A link is taken by one request, however many looked it up.
TakesLink(c) == c.link \in usable /\ used' = [used EXCEPT ![c.link] = @ + 1]

\* A new password signs out whoever is signed in, and voids the other links.
ServeReset(c) ==
    /\ c.what = "reset" /\ c.seen.state \in {"active", "unconfirmed"}
    /\ TakesLink(c)
    /\ usable' = usable \ Retired(c.account, "reset")
    /\ account' = [account EXCEPT ![c.account].password = c.password,
                                  ![c.account].version = c.seen.version + 1]
    /\ sessions' = {s \in sessions : s.account # c.account}
    /\ Becomes(c, {Said(c, "ok", None)})
    /\ UNCHANGED <<mailed, deletions>>

ServeVerify(c) ==
    /\ c.what = "verify"
    /\ TakesLink(c) /\ usable' = usable \ {c.link}
    /\ account' = [account EXCEPT ![c.account].state = IF @ = "unconfirmed" THEN "active" ELSE @]
    /\ Becomes(c, {Said(c, "ok", None)})
    /\ UNCHANGED <<mailed, sessions, deletions>>

ServePreview(c) ==
    /\ c.what = "preview" /\ c.link \in usable
    /\ Becomes(c, {Said(c, "ok", None)})
    /\ UNCHANGED <<account, mailed, usable, used, sessions, deletions>>

NewAccount(a, state, password) ==
    account' = [account EXCEPT ![a] = [@ EXCEPT !.state = state, !.password = password]]

\* Two that accept one invitation at once both find it; the address is taken once.
ServeAccept(c) ==
    /\ c.what = "accept" /\ account[c.account].state = "none"
    /\ TakesLink(c) /\ usable' = usable \ {c.link}
    /\ NewAccount(c.account, "active", c.password)
    /\ Starts(c, Grant(c.account, account[c.account].version, c.password, FALSE))
    /\ UNCHANGED <<mailed, deletions>>

ServeSignup(c) ==
    /\ c.what = "signup" /\ account[c.account].state = "none"
    /\ IF confirming
       THEN /\ NewAccount(c.account, "unconfirmed", c.password)
            /\ Mails(Link("verify", c.account)) /\ usable' = usable \cup {Link("verify", c.account)}
            /\ Becomes(c, {Said(c, "sent", None)}) /\ UNCHANGED sessions
       ELSE /\ NewAccount(c.account, "active", c.password) 
            /\ Starts(c, Grant(c.account, account[c.account].version, c.password, FALSE))
            /\ UNCHANGED <<mailed, usable, used>>
    /\ UNCHANGED deletions

\* Slip: the session says who it is.
Mut_Confirmed(c) == TRUE

\* The session says whose account it is; the password shows it is the same person.
Confirmed(c) == c.password = c.seen.password

ServeDelete(c) ==
    /\ c.what = "delete" /\ c.seen.state = "active" /\ Confirmed(c)
    /\ account' = [account EXCEPT ![c.of].state = "deleted"]
    /\ sessions' = {s \in sessions : s.account # c.of}
    /\ usable' = {l \in usable : l.account # c.of \/ l.for = "invite"}
    /\ deletions' = deletions \cup {<<c.account, c.of>>}
    /\ Becomes(c, {Said(c, "ok", None)})
    /\ UNCHANGED <<mailed, used>>

ServesForm(c) ==
    /\ c.answer = None /\ (c.what \in Slow => c.seen # None)
    /\ \/ ServeLogin(c)
       \/ /\ \/ ServeTotp(c) \/ ServeForgot(c) \/ ServeResend(c) \/ ServeReset(c) \/ ServeVerify(c)
             \/ ServePreview(c) \/ ServeAccept(c) \/ ServeSignup(c) \/ ServeDelete(c)
          /\ UNCHANGED overtaken
    /\ UNCHANGED <<confirming, cookie, tabs>>

-----------------------------------------------------------------------------
(* The answers. *)

\* The form's name, by which its button is off.
FormOf(c) == IF c.tab # None /\ tabs[c.tab].at = "delete" THEN "delete" ELSE c.what

Released(c) == tabs[c.tab].busy \ {FormOf(c)}

\* A session that is given is the browser's from then on.
TakesCookie(c, how) ==
    cookie' = IF c.tab = None \/ how # "ok" THEN cookie
              ELSE IF c.gives # None THEN c.gives
              ELSE IF c.what = "delete" THEN None ELSE cookie

\* What comes is what the server said, or a refusal: wrong, expired, locked, asked
\* too often, out of reach, or the answer was lost.  Signed in to delete, the
\* account is deleted with the password that was typed.
AnswersForm(c, how) ==
    LET t == c.tab
        now == [tabs[t] EXCEPT !.busy = Released(c)]
        entering == t # None /\ tabs[t].at # "delete" /\ how = "ok" /\ c.gives # None
        deleting == t # None /\ tabs[t].at = "delete" /\ c.what # "delete" /\ how = "ok"
        then == Call(t, "delete", c.account, c.password, None)
    IN /\ how \in {c.answer, "refused"} \ {None}
       /\ TakesCookie(c, how)
       /\ calls' = IF deleting THEN (calls \ {c}) \cup {then}
                   ELSE IF entering THEN Left(t, calls \ {c}) ELSE calls \ {c}
       /\ tabs' = IF t = None THEN tabs
                  ELSE [tabs EXCEPT ![t] =
                    IF deleting THEN @
                    ELSE IF how = "code"
                    THEN [now EXCEPT !.pending = c.gives, !.view = "code"]
                    ELSE IF entering THEN Page("app", "items", None)
                    ELSE IF how = "sent" THEN [now EXCEPT !.view = "sent"]
                    ELSE IF c.what = "preview"
                    THEN [now EXCEPT !.view = IF how = "ok" THEN "form" ELSE "failed"]
                    ELSE IF c.what = "verify"
                    THEN [now EXCEPT !.view = IF how = "ok" THEN "done" ELSE "failed"]
                    ELSE IF c.what \in {"reset", "delete"} /\ how = "ok"
                    THEN [now EXCEPT !.view = "done"]
                    ELSE now]
       /\ UNCHANGED <<account, confirming, mailed, usable, used, sessions, deletions, overtaken>>

\* After a new password the page turns to signing in by itself.
Redirected(t) == tabs[t].at = "reset" /\ tabs[t].view = "done" /\ Opens(t, Page("login", "form", None), {})
-----------------------------------------------------------------------------
AccessUser ==
    \/ \E t \in Tab :
         \/ \E a \in Account : \/ SignIn(t, a) \/ Forgot(t, a) \/ Resend(t, a)
                               \/ CreateOrganization(t, a) \/ SubmitDeletion(t, a)
         \/ SendCode(t) \/ SetPassword(t) \/ Join(t) \/ OpenPage(t)
         \/ \E l \in mailed : OpenLink(t, l)
         \/ \E v \in PageViews["login"], w \in PageViews["login"] : Turns(t, v, w)
         \/ \E v \in PageViews["signup"], w \in PageViews["signup"] : Turns(t, v, w)

AccessAnswers ==
    \/ \E c \in calls : Reads(c) \/ ServesForm(c) \/ \E how \in {"ok", "code", "sent", "refused"} : AnswersForm(c, how)
    \/ \E t \in Tab : Redirected(t)
-----------------------------------------------------------------------------
(* Properties. *)

\* Who is signed in signed in with the password in force and, where a second step
\* is asked for, took it: a reset in one tab leaves nothing a sign-in begun in
\* another could still be turned into.  One does: asked for a code, a sign-in whose
\* password was compared before the reset and answered after it may go on to it.
OvertakenLogin(s) == [s EXCEPT !.coded = FALSE] \in overtaken

SessionsFollowPassword ==
    \A s \in sessions : Valid(s) =>
        /\ s.password = account[s.account].password \/ OvertakenLogin(s)
        /\ account[s.account].second => s.coded

\* A mailed link takes effect once, in however many tabs it is opened.
LinksWorkOnce == \A l \in mailed : used[l] <= 1

\* The account that is deleted is that of the person whose details were typed,
\* whoever else signs in from another tab meanwhile.
DeletesOwn == \A d \in deletions : d[1] = d[2]

\* Nobody is let in, and no account is changed or deleted, on the strength of
\* something that is no longer so: a password, a link, another tab's session.
AccessRight == SessionsFollowPassword /\ LinksWorkOnce /\ DeletesOwn
=============================================================================
