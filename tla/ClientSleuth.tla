----------------------------- MODULE ClientSleuth -----------------------------
(***************************************************************************)
(* The assistant: sleuth/SleuthPanel.jsx and what the server keeps for one *)
(* user between two messages, chatbot/memory.py.                           *)
(*                                                                         *)
(* A command is not carried out but proposed: the answer holds a card with *)
(* a yes and a no, which are sent as messages of their own.  The server    *)
(* keeps the newest proposal only, and apart from it the newest document   *)
(* that was read; a yes carries out the document first.  Proposals and     *)
(* documents are numbered as they are made.                                *)
(***************************************************************************)
EXTENDS ClientParts

VARIABLES
    talk,       \* the conversation: what is on the page, in order
    talked,     \* the user has said something since it was cleared
    request,    \* the request under way
    opened,     \* the panel is open
    unread,     \* answers that came while it was closed
    strays,     \* messages the page gave up on, or another page sent
    made,       \* the server's: how many proposals and documents were made
    proposal,   \* the proposal waiting for a yes
    document,   \* the document waiting for a yes
    carried,    \* history: what was carried out, in order
    astray      \* history: messages were sent elsewhere, or given up on

sleuth == <<talk, talked, request, opened, unread, strays, made, proposal, document, carried, astray>>

Nothing == 0
Says == {"question", "command", "yes", "no", "them", "file"}

ASSUME SleuthAssumption == None \notin [text : Says, answer : {"none", "ok"}, card : Nat, newest : Nat]

SleuthTypeOK ==
    /\ \A i \in DOMAIN talk : /\ talk[i].from \in {"welcome", "user", "bot", "error"}
                              /\ talk[i].card \in 0..made /\ talk[i].used \in BOOLEAN
    /\ talked \in BOOLEAN /\ opened \in BOOLEAN /\ unread \in Nat
    /\ request # None => request.text \in Says
    /\ \A m \in strays : m.text \in Says
    /\ proposal \in 0..made /\ document \in 0..made

Line(from, card) == [from |-> from, card |-> card, used |-> FALSE]
Welcome == <<Line("welcome", Nothing)>>

SleuthInit ==
    /\ talk = <<>> /\ talked = FALSE /\ request = None /\ opened = FALSE /\ unread = 0
    /\ strays = {} /\ made = 0 /\ proposal = Nothing /\ document = Nothing
    /\ carried = <<>> /\ astray = FALSE
-----------------------------------------------------------------------------
(* The server: what one message does. *)

CarryOut(p, m) ==
    carried' = Append(carried, [what |-> p, file |-> p = document, newest |-> m.newest])

\* Slip: the proposal that was there first is kept.
Mut_Propose ==
    /\ made' = made + 1
    /\ proposal' = IF proposal = Nothing THEN made + 1 ELSE proposal

\* The newest proposal is kept.
Propose ==
    /\ made' = made + 1
    /\ proposal' = made + 1

\* Slip: what was carried out can be carried out again.
Mut_TakePending == UNCHANGED proposal

\* A proposal is taken once.
TakePending == proposal' = Nothing

\* A document waiting takes every yes and no, and "create them".
ForDocument(m) ==
    /\ document # Nothing /\ m.text \in {"yes", "no", "them"}
    /\ document' = Nothing
    /\ IF m.text = "no" THEN UNCHANGED carried ELSE CarryOut(document, m)
    /\ UNCHANGED <<made, proposal>>

ForProposal(m) ==
    /\ document = Nothing /\ m.text \in {"yes", "no"}
    /\ IF proposal = Nothing THEN UNCHANGED <<carried, proposal>>
       ELSE /\ TakePending
            /\ IF m.text = "no" THEN UNCHANGED carried ELSE CarryOut(proposal, m)
    /\ UNCHANGED <<made, document>>

Executes(m) ==
    \/ ForDocument(m) \/ ForProposal(m)
    \/ m.text = "command" /\ Propose /\ UNCHANGED <<document, carried>>
    \/ m.text = "file" /\ made' = made + 1 /\ document' = made + 1 /\ UNCHANGED <<proposal, carried>>
    \/ m.text = "question" /\ UNCHANGED <<made, proposal, document, carried>>
    \/ m.text = "them" /\ document = Nothing /\ UNCHANGED <<made, proposal, document, carried>>

\* What waits for a yes is forgotten after five minutes.
Forget ==
    /\ <<proposal, document>> # <<Nothing, Nothing>>
    /\ proposal' \in {proposal, Nothing} /\ document' \in {document, Nothing}
    /\ <<proposal', document'>> # <<proposal, document>>
    /\ UNCHANGED <<talk, talked, request, opened, unread, strays, made, carried, astray>>

Elsewhere(text) ==
    /\ strays' = strays \cup {[text |-> text, newest |-> Nothing]}
    /\ astray' = TRUE
    /\ UNCHANGED <<talk, talked, request, opened, unread, made, proposal, document, carried>>

StrayServed(m) ==
    /\ strays' = strays \ {m}
    /\ Executes(m)
    /\ UNCHANGED <<talk, talked, request, opened, unread, astray>>
-----------------------------------------------------------------------------
(* The panel. *)

OpenPanelAt(lines) ==
    /\ opened' = TRUE
    /\ unread' = IF opened THEN unread ELSE 0
    /\ talk' = (IF opened \/ talked THEN talk ELSE Welcome) \o lines
    /\ talked' = (talked \/ lines # <<>>)

OpenSleuth ==
    /\ ~opened /\ OpenPanelAt(<<>>)
    /\ UNCHANGED <<request, strays, made, proposal, document, carried, astray>>

CloseSleuth ==
    /\ opened /\ opened' = FALSE
    /\ UNCHANGED <<talk, talked, request, unread, strays, made, proposal, document, carried, astray>>

ShowWelcome ==
    /\ opened
    /\ talk' = Welcome /\ talked' = FALSE
    /\ UNCHANGED <<request, opened, unread, strays, made, proposal, document, carried, astray>>

InFlight == request # None

Greatest(S) == IF S = {} THEN Nothing ELSE CHOOSE n \in S : \A m \in S : m <= n

\* A request: newest is the newest proposal the page has been told of.
Request(text) == [text |-> text, answer |-> "none", card |-> Nothing,
                  newest |-> Greatest({talk[i].card : i \in DOMAIN talk})]

SendMessage(text, on) ==
    IF InFlight THEN talk' = on /\ UNCHANGED <<talked, request>>
    ELSE /\ talk' = Append(on, Line("user", Nothing))
         /\ talked' = TRUE
         /\ request' = Request(text)

\* Typed, or one of the answer's suggestions.
SendCurrent(text) ==
    /\ opened /\ ~InFlight
    /\ SendMessage(text, talk)
    /\ UNCHANGED <<opened, unread, strays, made, proposal, document, carried, astray>>

\* A card is answered once, even if nothing can be sent at the time.
Choose(i, answer) ==
    /\ opened /\ talk[i].card # Nothing /\ ~talk[i].used
    /\ SendMessage(answer, [talk EXCEPT ![i].used = TRUE])
    /\ UNCHANGED <<opened, unread, strays, made, proposal, document, carried, astray>>

\* A document is picked; the panel may have been closed meanwhile.
FilePicked ==
    /\ ~InFlight
    /\ OpenPanelAt(<<Line("user", Nothing)>>)
    /\ request' = Request("file")
    /\ UNCHANGED <<strays, made, proposal, document, carried, astray>>

RequestServed ==
    /\ request # None /\ request.answer = "none"
    /\ Executes(request)
    /\ request' = [request EXCEPT !.answer = "ok", !.card = IF request.text = "command" THEN made' ELSE Nothing]
    /\ UNCHANGED <<talk, talked, opened, unread, strays, astray>>

\* An answer to a message, not to a document, is counted while the panel is closed.
Shown(line) ==
    /\ talk' = Append(talk, line)
    /\ unread' = IF opened \/ request.text = "file" THEN unread ELSE unread + 1
    /\ request' = None

AnswerArrives ==
    /\ request # None /\ request.answer = "ok"
    /\ Shown(Line("bot", request.card))
    /\ UNCHANGED <<talked, opened, strays, made, proposal, document, carried, astray>>

\* The page gives up; what it sent may have been, or may still be, received.
GiveUp ==
    /\ request # None
    /\ Shown(Line("error", Nothing))
    /\ strays' \in {strays} \cup
                   (IF request.answer # "none" THEN {}
                    ELSE {strays \cup {[text |-> request.text, newest |-> request.newest]}})
    /\ astray' = TRUE
    /\ UNCHANGED <<talked, opened, made, proposal, document, carried>>
-----------------------------------------------------------------------------
SleuthUser ==
    \/ OpenSleuth \/ CloseSleuth \/ ShowWelcome \/ FilePicked \/ GiveUp \/ Forget
    \/ \E text \in Says \ {"file"} : SendCurrent(text)
    \/ \E i \in DOMAIN talk, answer \in {"yes", "no"} : Choose(i, answer)
    \/ \E text \in {"command", "yes"} : Elsewhere(text)

SleuthAnswers ==
    \/ RequestServed \/ AnswerArrives
    \/ \E m \in strays : StrayServed(m)
-----------------------------------------------------------------------------
(* Properties. *)

\* Whatever is proposed or read is carried out once at most, however many
\* cards say yes to it, in however many pages, and whatever answers are lost.
CarriedOutOnce == \A i, j \in DOMAIN carried : carried[i].what = carried[j].what => i = j

\* As long as nothing is said elsewhere and the page gives up on nothing, the
\* proposal a yes carries out is the newest one that the conversation, unless it
\* was cleared, shows.  (Documents come first: a yes to a proposal carries out a
\* document that is waiting.)
NewestConfirmed ==
    ~astray => \A i \in DOMAIN carried :
                   carried[i].file \/ carried[i].newest \in {Nothing, carried[i].what}

\* What a yes carries out is what its user saw last, and that once.
ConfirmedRight == CarriedOutOnce /\ NewestConfirmed
=============================================================================
