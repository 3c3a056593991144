----------------------------- MODULE DeskProofs -----------------------------
(***************************************************************************)
(* Proofs about Desk, for any texts, users, companies and bounds: its      *)
(* types, that the request agrees with its conversation, that links are    *)
(* true, that the desk implements Delivery, that no message and no         *)
(* assignment is forgotten, and when the company of a tenant reaches the   *)
(* card: what MCDesk_link.cfg refutes without that condition.              *)
(***************************************************************************)
EXTENDS Desk, TLAPS, FiniteSetTheorems, WellFoundedInduction

\* The least element of a set of numbers is one of them.
LEMMA MinIn ==
  ASSUME NEW S \in SUBSET Nat, S # {}
  PROVE  Min(S) \in S /\ \A k \in S : Min(S) <= k
<1> DEFINE Less == {p \in Nat \X Nat : p[1] < p[2]}
<1>1. OpToRel(<, Nat) = Less
  BY Zenon DEF OpToRel
<1>2. IsWellFoundedOn(Less, Nat)
  BY <1>1, NatLessThanWellFounded, Zenon
<1>3. PICK n \in S : \A k \in S : ~(<<k, n>> \in Less)
  <2> HIDE DEF Less
  <2> QED BY <1>2, WFMin, Zenon
<1>4. ASSUME NEW k \in S PROVE n <= k
  <2> DEFINE p == <<k, n>>
  <2>1. p \in Nat \X Nat /\ p[1] = k /\ p[2] = n
    OBVIOUS
  <2>2. p \notin Less
    BY <1>3
  <2>3. ~(p[1] < p[2])
    BY <2>1, <2>2
  <2> QED BY <2>1, <2>3
<1> QED BY <1>4 DEF Min

-----------------------------------------------------------------------------
(* Types *)

LEMMA WrittenType ==
  ASSUME NEW from \in {"customer", "support"}, NEW text \in Said
  PROVE  Written(from, text) \in Message
BY DEF Written, Message, Texts

LEMMA InitType == Init => TypeOK
<1> SUFFICES ASSUME Init PROVE TypeOK
  OBVIOUS
<1>1. PICK t \in Said, managed \in BOOLEAN, who \in User \cup {None} :
        /\ messages = <<Written("customer", t)>>
        /\ ticket = [status |-> "new", seq |-> 1, customer |-> 1,
                     support |-> 0, customerRead |-> 1, supportRead |-> 0,
                     preview |-> t]
        /\ link = [managed |-> managed, create |-> "pending", deal |-> FALSE,
                   who |-> who, rev |-> IF who = None THEN 0 ELSE 1,
                   synced |-> 0, notified |-> 0, current |-> FALSE]
        /\ jobs = IF managed THEN 1 ELSE 0
  BY DEF Init
<1>2. messages \in Seq(Message)
  BY <1>1, WrittenType
<1>3. ticket \in Ticket
  <2>1. "new" \in Statuses /\ t \in Texts
    BY DEF Statuses, Texts
  <2> QED BY <1>1, <2>1 DEF Ticket
<1>4. link \in Link
  <2>1. (IF who = None THEN 0 ELSE 1) \in Nat
    OBVIOUS
  <2> QED BY <1>1, <2>1 DEF Link
<1>5. run \in Run
  BY DEF Init, Idle, Run, Points, Stages
<1>6. deal \in Deal
  BY DEF Init, Deal, Stages
<1>7. spent \in Spent
  BY DEF Init, Spent
<1> QED
  BY <1>1, <1>2, <1>3, <1>4, <1>5, <1>6, <1>7 DEF Init, TypeOK, Call, Idle

\* Elements of the three sequences.
LEMMA ElementTypes ==
  ASSUME TypeOK
  PROVE  /\ \A m \in DOMAIN messages : m \in 1 .. Len(messages)
                                      /\ messages[m] \in Message
         /\ \A c \in DOMAIN comments : c \in 1 .. Len(comments)
                                      /\ comments[c] \in Comment
         /\ \A c \in DOMAIN run.list : c \in 1 .. Len(run.list)
                                      /\ run.list[c] \in Comment
<1>1. messages \in Seq(Message) /\ comments \in Seq(Comment)
  BY DEF TypeOK
<1>2. run.list \in Seq(Comment)
  BY DEF TypeOK, Run
<1> QED BY <1>1, <1>2

LEMMA EventType ==
  ASSUME TypeOK, Event
  PROVE  spent' \in Spent
BY DEF TypeOK, Event, Spent

LEMMA MaxOfTwo ==
  ASSUME NEW a \in Nat, NEW b \in Nat
  PROVE  Max({a, b}) \in Nat
<1>1. \E x \in {a, b} : \A y \in {a, b} : x >= y
  OBVIOUS
<1> QED BY <1>1 DEF Max

LEMMA ReplyType ==
  ASSUME TypeOK, NEW from \in {"customer", "support"}, NEW text \in Said,
         Reply(from, text)
  PROVE  TypeOK'
<1> DEFINE s == ticket.seq + 1
           st == IF from = "support" /\ ticket.status = "new" /\ ~link.managed
                 THEN "in_progress" ELSE ticket.status
           c == IF from = "customer" THEN s ELSE ticket.customer
           cr == IF from = "customer" THEN s ELSE ticket.customerRead
           p == IF from = "support" THEN s ELSE ticket.support
           pr == IF from = "support" THEN s ELSE ticket.supportRead
<1>1. /\ s \in Nat /\ c \in Nat /\ cr \in Nat /\ p \in Nat /\ pr \in Nat
      /\ st \in Statuses /\ text \in Texts
  <2>1. ticket \in Ticket
    BY DEF TypeOK
  <2>2. s \in Nat
    BY <2>1 DEF Ticket
  <2>3. c \in Nat /\ cr \in Nat /\ p \in Nat /\ pr \in Nat
    <3> HIDE DEF s
    <3> QED BY <2>1, <2>2 DEF Ticket
  <2>4. st \in Statuses
    BY <2>1 DEF Ticket, Statuses
  <2> QED BY <2>2, <2>3, <2>4 DEF Texts
<1>2. ticket' = [ticket EXCEPT !.status = st, !.seq = s, !.customer = c,
                   !.customerRead = cr, !.support = p, !.supportRead = pr,
                   !.preview = text]
  BY DEF Reply, TypeOK, Ticket
<1>3. ticket' \in Ticket
  <2> HIDE DEF s, st, c, cr, p, pr
  <2> QED BY <1>1, <1>2 DEF TypeOK, Ticket
<1>4. messages' \in Seq(Message)
  BY WrittenType DEF Reply, TypeOK
<1>5. link' \in Link
  BY DEF Reply, TypeOK, Link
<1>6. spent' \in Spent
  BY DEF Reply, Say, TypeOK, Spent
<1> QED BY <1>3, <1>4, <1>5, <1>6 DEF Reply, TypeOK, portal, Call

LEMMA DeskType ==
  ASSUME TypeOK, Desk
  PROVE  TypeOK'
<1>1. ASSUME NEW status \in Statuses, SetStatus(status)
      PROVE  TypeOK'
  BY <1>1, EventType DEF TypeOK, SetStatus, Ticket, portal, Call
<1>2. ASSUME NEW user \in User, Assign(user)
      PROVE  TypeOK'
  <2>1. user \in User \cup {None} /\ link.rev + 1 \in Nat
    BY DEF TypeOK, Link
  <2>2. link' \in Link
    BY <1>2, <2>1 DEF Assign, TypeOK, Link
  <2> QED BY <1>2, <2>2, EventType DEF TypeOK, Assign, portal, Call
<1>3. ASSUME NEW side \in {"customer", "support"}, NEW seen \in 0 .. ticket.seq,
             Read(side, seen)
      PROVE  TypeOK'
  <2>1. /\ ticket.seq \in Nat /\ seen \in Nat
        /\ ticket.customerRead \in Nat /\ ticket.supportRead \in Nat
    BY DEF TypeOK, Ticket
  <2>2. Min({ticket.seq, seen}) \in Nat
    <3>1. {ticket.seq, seen} \in SUBSET Nat /\ {ticket.seq, seen} # {}
      BY <2>1
    <3> HIDE DEF Min
    <3> QED BY <3>1, MinIn
  <2>3. CASE side = "customer"
    <3>1. /\ ticket' = [ticket EXCEPT !.customerRead =
                          Max({ticket.customerRead, Min({ticket.seq, seen})})]
          /\ Max({ticket.customerRead, Min({ticket.seq, seen})}) \in Nat
      BY <1>3, <2>1, <2>2, <2>3, MaxOfTwo DEF Read, TypeOK, Ticket
    <3>2. ticket' \in Ticket
      BY <3>1 DEF TypeOK, Ticket
    <3> QED BY <1>3, <3>2, EventType DEF TypeOK, Read, portal, Call
  <2>4. CASE side = "support"
    <3>1. /\ ticket' = [ticket EXCEPT !.supportRead =
                          Max({ticket.supportRead, Min({ticket.seq, seen})})]
          /\ Max({ticket.supportRead, Min({ticket.seq, seen})}) \in Nat
      BY <1>3, <2>1, <2>2, <2>4, MaxOfTwo DEF Read, TypeOK, Ticket
    <3>2. ticket' \in Ticket
      BY <3>1 DEF TypeOK, Ticket
    <3> QED BY <1>3, <3>2, EventType DEF TypeOK, Read, portal, Call
  <2> QED BY <2>3, <2>4
<1>4. ASSUME NEW c \in Company, LinkTenantCompany(c)
      PROVE  TypeOK'
  <2>1. link' \in Link
    BY <1>4 DEF LinkTenantCompany, TypeOK, Link
  <2> QED BY <1>4, <2>1, EventType DEF TypeOK, LinkTenantCompany, portal, Call
<1> QED BY <1>1, <1>2, <1>3, <1>4, ReplyType DEF Desk

\* What the portal adds when a creation reaches it.
LEMMA AddCardType ==
  ASSUME TypeOK, NEW who \in User \cup {None}, AddCard(who)
  PROVE  deal' \in Deal
<1>1. deal.cards + 1 \in Nat
  BY DEF TypeOK, Deal
<1> QED BY <1>1 DEF AddCard, TypeOK, Deal

LEMMA AddCommentType ==
  ASSUME TypeOK, NEW m \in DOMAIN messages, AddComment(m)
  PROVE  comments' \in Seq(Comment) /\ deal' \in Deal
<1>1. messages[m].text \in Texts /\ m \in Nat
  BY ElementTypes DEF Message
<1>2. [origin |-> m, text |-> messages[m].text, addressed |-> FALSE,
       there |-> TRUE] \in Comment
  BY <1>1 DEF Comment
<1>3. comments' \in Seq(Comment)
  BY <1>2 DEF AddComment, TypeOK
<1>4. Append(deal.posted, m) \in Seq(Nat)
  BY <1>1 DEF TypeOK, Deal
<1> QED BY <1>3, <1>4 DEF AddComment, TypeOK, Deal

\* A step that touches only the portal keeps the types of the rest.
LEMMA PortalStep ==
  ASSUME TypeOK, UNCHANGED <<link, jobs, company, run>>, UNCHANGED desk,
         deal' \in Deal, comments' \in Seq(Comment), spent' \in Spent,
         late' \subseteq late, UNCHANGED told
  PROVE  TypeOK'
BY DEF TypeOK, desk, Call

LEMMA PortalType ==
  ASSUME TypeOK, Portal
  PROVE  TypeOK'
<1>1. ASSUME NEW t \in Replies, NEW addressed \in BOOLEAN,
             StaffWrites(t, addressed)
      PROVE  TypeOK'
  <2>1. [origin |-> 0, text |-> t, addressed |-> addressed, there |-> TRUE]
          \in Comment
    BY DEF Comment, Texts
  <2>2. comments' \in Seq(Comment)
    BY <1>1, <2>1 DEF StaffWrites, TypeOK
  <2>3. deal \in Deal
    BY DEF TypeOK
  <2> QED BY <1>1, <2>2, <2>3, EventType, PortalStep DEF StaffWrites
<1>2. ASSUME NEW c \in DOMAIN comments, NEW t \in Replies,
             NEW addressed \in BOOLEAN, StaffEdits(c, t, addressed)
      PROVE  TypeOK'
  <2>1. comments[c] \in Comment /\ t \in Texts
    BY ElementTypes DEF Texts
  <2>2. [comments[c] EXCEPT !.text = t, !.addressed = addressed] \in Comment
    BY <2>1 DEF Comment
  <2>3. comments' = [comments EXCEPT ![c] =
                       [comments[c] EXCEPT !.text = t, !.addressed = addressed]]
    BY <1>2 DEF StaffEdits, TypeOK
  <2>4. comments' \in Seq(Comment)
    BY <2>2, <2>3 DEF TypeOK
  <2>5. deal \in Deal
    BY DEF TypeOK
  <2> QED BY <1>2, <2>4, <2>5, EventType, PortalStep DEF StaffEdits
<1>3. ASSUME NEW c \in DOMAIN comments, StaffRemoves(c)
      PROVE  TypeOK'
  <2>1. [comments[c] EXCEPT !.there = FALSE] \in Comment
    BY ElementTypes DEF Comment
  <2>2. comments' \in Seq(Comment)
    BY <1>3, <2>1 DEF StaffRemoves, TypeOK
  <2>3. deal \in Deal
    BY DEF TypeOK
  <2> QED BY <1>3, <2>2, <2>3, EventType, PortalStep DEF StaffRemoves
<1>4. ASSUME NEW stage \in {"process", "success", "failure"}, StaffMoves(stage)
      PROVE  TypeOK'
  <2>1. deal' \in Deal
    BY <1>4 DEF StaffMoves, TypeOK, Deal, Stages
  <2>2. comments \in Seq(Comment)
    BY DEF TypeOK
  <2> QED BY <1>4, <2>1, <2>2, EventType, PortalStep DEF StaffMoves
<1>5. ASSUME NEW call \in late, Arrive(call)
      PROVE  TypeOK'
  <2>1. call.what \in 0 .. Len(messages) /\ call.who \in User \cup {None}
    BY DEF TypeOK, Call
  <2>2. deal' \in Deal /\ comments' \in Seq(Comment)
    <3>1. CASE call.what = 0
      BY <1>5, <2>1, <3>1, AddCardType DEF Arrive, TypeOK
    <3>2. CASE call.what # 0
      <4>1. call.what \in DOMAIN messages
        BY <2>1, <3>2 DEF TypeOK
      <4> QED BY <1>5, <3>2, <4>1, AddCommentType DEF Arrive
    <3> QED BY <3>1, <3>2
  <2>3. spent \in Spent
    BY DEF TypeOK
  <2> QED BY <1>5, <2>2, <2>3, PortalStep DEF Arrive
<1> QED BY <1>1, <1>2, <1>3, <1>4, <1>5 DEF Portal

-----------------------------------------------------------------------------
(* Types: the worker *)

LEMMA IdleType == Idle \in Run /\ Idle.todo = {} /\ Idle.at = "idle"
                  /\ Idle.list = <<>>
BY DEF Idle, Run, Points, Stages

LEMMA FailedType ==
  ASSUME TypeOK, Failed
  PROVE  run' \in Run /\ run'.todo = {} /\ run'.at = "idle" /\ jobs' \in Nat
BY IdleType DEF TypeOK, Failed

LEMMA GotoType ==
  ASSUME TypeOK, NEW at \in Points, Goto(at)
  PROVE  run' \in Run /\ run'.todo = run.todo /\ run'.at = at
         /\ run'.list = run.list
BY DEF TypeOK, Goto, Run

\* Changes of the record of one message.
LEMMA MessageChange ==
  ASSUME TypeOK, NEW m \in DOMAIN messages, NEW r \in Message,
         messages' = [messages EXCEPT ![m] = r]
  PROVE  /\ messages' \in Seq(Message)
         /\ Len(messages') = Len(messages)
         /\ DOMAIN messages' = DOMAIN messages
         /\ messages'[m] = r
         /\ \A k \in DOMAIN messages : k # m => messages'[k] = messages[k]
BY DEF TypeOK

LEMMA StateChange ==
  ASSUME TypeOK, NEW m \in DOMAIN messages,
         NEW state \in {"pending", "sending", "uncertain"},
         messages' = [messages EXCEPT ![m].state = state]
  PROVE  /\ messages' \in Seq(Message)
         /\ Len(messages') = Len(messages)
         /\ DOMAIN messages' = DOMAIN messages
         /\ messages'[m] = [messages[m] EXCEPT !.state = state]
         /\ \A k \in DOMAIN messages : k # m => messages'[k] = messages[k]
<1> DEFINE r == [messages[m] EXCEPT !.state = state]
<1>1. r \in Message
  BY ElementTypes DEF Message
<1>2. messages' = [messages EXCEPT ![m] = r]
  OBVIOUS
<1> QED BY <1>1, <1>2, MessageChange

LEMMA SendingChange ==
  ASSUME TypeOK, NEW m \in DOMAIN messages, NEW known \in SUBSET Nat,
         messages' = [messages EXCEPT ![m].state = "sending",
                                      ![m].known = known]
  PROVE  /\ messages' \in Seq(Message)
         /\ Len(messages') = Len(messages)
         /\ DOMAIN messages' = DOMAIN messages
         /\ messages'[m] = [messages[m] EXCEPT !.state = "sending",
                                               !.known = known]
         /\ \A k \in DOMAIN messages : k # m => messages'[k] = messages[k]
<1> DEFINE r == [messages[m] EXCEPT !.state = "sending", !.known = known]
<1>1. r \in Message
  BY ElementTypes DEF Message
<1>2. messages' = [messages EXCEPT ![m] = r]
  BY DEF TypeOK
<1> QED BY <1>1, <1>2, MessageChange

LEMMA SentChange ==
  ASSUME TypeOK, NEW m \in DOMAIN messages, NEW c \in Nat,
         messages' = Sent(m, c)
  PROVE  /\ messages' \in Seq(Message)
         /\ Len(messages') = Len(messages)
         /\ DOMAIN messages' = DOMAIN messages
         /\ messages'[m] = [messages[m] EXCEPT !.state = "sent", !.comment = c,
                                               !.known = {}]
         /\ \A k \in DOMAIN messages : k # m => messages'[k] = messages[k]
<1> DEFINE r == [messages[m] EXCEPT !.state = "sent", !.comment = c,
                                    !.known = {}]
<1>1. r \in Message
  BY ElementTypes DEF Message
<1>2. messages' = [messages EXCEPT ![m] = r]
  BY DEF TypeOK, Sent
<1> QED BY <1>1, <1>2, MessageChange

LEMMA SetTypes ==
  ASSUME TypeOK
  PROVE  /\ Outgoing \subseteq DOMAIN messages
         /\ Unsent \subseteq Outgoing
         /\ Linked \in SUBSET Nat
         /\ There(run.list) \in SUBSET Nat
         /\ DOMAIN messages \in SUBSET Nat
         /\ DOMAIN messages = 1 .. Len(messages)
<1>1. Linked \in SUBSET Nat
  BY ElementTypes DEF Linked, Outgoing, Unsent, Message
<1>2. There(run.list) \in SUBSET Nat
  BY ElementTypes DEF There
<1> QED BY <1>1, <1>2 DEF TypeOK, Outgoing, Unsent

\* The message a worker sends is one of the conversation.
LEMMA NextToSend ==
  ASSUME TypeOK, run.todo # {}
  PROVE  /\ Min(run.todo) \in run.todo
         /\ Min(run.todo) \in DOMAIN messages
         /\ Min(run.todo) \in Nat
         /\ \A k \in run.todo : Min(run.todo) <= k
<1>1. run.todo \in SUBSET Nat /\ run.todo \subseteq DOMAIN messages
  BY SetTypes DEF TypeOK
<1> QED BY <1>1, MinIn

LEMMA ClaimType ==
  ASSUME TypeOK, ClaimJob \/ ClaimPoll
  PROVE  TypeOK'
<1>1. CASE ClaimJob
  <2> DEFINE at == IF link.deal THEN "list" ELSE "find"
  <2>1. at \in Points /\ link.who \in User \cup {None} /\ link.current \in BOOLEAN
    BY DEF TypeOK, Link, Points
  <2>2. run' = [Idle EXCEPT !.at = at, !.job = TRUE, !.who = link.who,
                            !.current = link.current]
    BY <1>1 DEF ClaimJob
  <2>3. run' \in Run /\ run'.todo = {} /\ run'.at # "send"
    <3>1. at # "send"
      OBVIOUS
    <3> HIDE DEF at
    <3> QED BY <2>1, <2>2, <3>1, IdleType DEF Run
  <2>4. jobs' \in Nat
    BY <1>1 DEF ClaimJob, TypeOK
  <2> QED BY <1>1, <2>3, <2>4 DEF ClaimJob, TypeOK, desk, portal, Call
<1>2. CASE ClaimPoll
  <2>1. link.current \in BOOLEAN /\ "get" \in Points
    BY DEF TypeOK, Link, Points
  <2>2. run' \in Run /\ run'.todo = {} /\ run'.at # "send"
    BY <1>2, <2>1, IdleType DEF ClaimPoll, Run
  <2> QED BY <1>2, <2>2 DEF ClaimPoll, TypeOK, desk, portal, Call
<1> QED BY <1>1, <1>2

LEMMA FailureType ==
  ASSUME TypeOK, Refused \/ Crash
  PROVE  TypeOK'
<1>1. CASE Refused
  BY <1>1, FailedType, EventType DEF Refused, TypeOK, desk, portal, Call
<1>2. CASE Crash
  <2>1. late' \in SUBSET Call
    <3>1. CASE run.at = "create"
      <4>1. [what |-> 0, who |-> run.who] \in Call
        BY SetTypes DEF Call, TypeOK, Run
      <4> QED BY <1>2, <3>1, <4>1 DEF Crash, TypeOK
    <3>2. CASE run.at = "send"
      <4>1. run.todo # {}
        BY <3>2 DEF TypeOK
      <4>2. Min(run.todo) \in 0 .. Len(messages)
        BY <4>1, NextToSend, SetTypes
      <4>3. [what |-> Min(run.todo), who |-> None] \in Call
        BY <4>2 DEF Call
      <4> QED BY <1>2, <3>2, <4>3 DEF Crash, TypeOK
    <3> QED BY <1>2, <3>1, <3>2 DEF Crash, TypeOK
  <2> QED BY <1>2, <2>1, FailedType, EventType DEF Crash, TypeOK, desk, Call
<1> QED BY <1>1, <1>2

\* A step of the worker that leaves the conversation as it is.
LEMMA QuietStep ==
  ASSUME TypeOK, UNCHANGED desk, UNCHANGED company,
         link' \in Link, jobs' \in Nat, run' \in Run,
         run'.todo \subseteq run.todo, run'.at = "send" => run'.todo # {},
         deal' \in Deal, UNCHANGED comments, told' \in SUBSET (User \cup {None}),
         late' \in SUBSET Call, spent' \in Spent
  PROVE  TypeOK'
BY DEF TypeOK, desk, Call

LEMMA FindCardType ==
  ASSUME TypeOK, FindCard
  PROVE  TypeOK'
<1>1. deal \in Deal /\ told \in SUBSET (User \cup {None}) /\ late \in SUBSET Call
      /\ spent \in Spent /\ link \in Link /\ jobs \in Nat
      /\ UNCHANGED <<deal, comments, told, late, company, spent>>
      /\ UNCHANGED desk
  BY DEF TypeOK, FindCard, portal
<1>2. CASE /\ link' = [link EXCEPT !.managed = TRUE, !.deal = TRUE,
                                   !.create = "linked"]
           /\ Goto("list") /\ UNCHANGED jobs
  <2>1. link' \in Link
    BY <1>1, <1>2 DEF Link
  <2> QED BY <1>1, <1>2, <2>1, GotoType, QuietStep DEF Points
<1>3. CASE Failed /\ UNCHANGED link
  BY <1>1, <1>3, FailedType, QuietStep
<1>4. CASE /\ link' = [link EXCEPT !.create = "sending"]
           /\ Goto("create") /\ UNCHANGED jobs
  <2>1. link' \in Link
    BY <1>1, <1>4 DEF Link
  <2> QED BY <1>1, <1>4, <2>1, GotoType, QuietStep DEF Points
<1> QED BY <1>2, <1>3, <1>4 DEF FindCard

LEMMA CreateCardType ==
  ASSUME TypeOK, CreateCard
  PROVE  TypeOK'
<1>1. deal \in Deal /\ told \in SUBSET (User \cup {None}) /\ late \in SUBSET Call
      /\ spent \in Spent /\ link \in Link /\ jobs \in Nat
      /\ run.who \in User \cup {None}
      /\ UNCHANGED <<comments, told, company>> /\ UNCHANGED desk
  BY DEF TypeOK, CreateCard, Run
<1>2. CASE /\ AddCard(run.who)
           /\ link' = [link EXCEPT !.managed = TRUE, !.deal = TRUE,
                                   !.create = "linked"]
           /\ Goto("list") /\ UNCHANGED <<jobs, late, spent>>
  <2>1. link' \in Link
    BY <1>1, <1>2 DEF Link
  <2> QED BY <1>1, <1>2, <2>1, AddCardType, GotoType, QuietStep DEF Points
<1>3. CASE /\ Event /\ link' = [link EXCEPT !.create = "pending"] /\ Failed
           /\ UNCHANGED <<deal, late>>
  <2>1. link' \in Link
    BY <1>1, <1>3 DEF Link
  <2> QED BY <1>1, <1>3, <2>1, EventType, FailedType, QuietStep
<1>4. CASE /\ Event /\ link' = [link EXCEPT !.create = "uncertain"]
           /\ late' = late \cup {[what |-> 0, who |-> run.who]}
           /\ Failed /\ UNCHANGED deal
  <2>1. link' \in Link
    BY <1>1, <1>4 DEF Link
  <2>2. late' \in SUBSET Call
    <3>1. [what |-> 0, who |-> run.who] \in Call
      BY <1>1, SetTypes DEF Call, TypeOK
    <3> QED BY <1>1, <1>4, <3>1
  <2> QED BY <1>1, <1>4, <2>1, <2>2, EventType, FailedType, QuietStep
<1> QED BY <1>2, <1>3, <1>4 DEF CreateCard

LEMMA ListCommentsType ==
  ASSUME TypeOK, ListComments
  PROVE  TypeOK'
<1>1. comments \in Seq(Comment) /\ Unsent \in SUBSET Nat /\ run \in Run
      /\ Unsent \subseteq DOMAIN messages /\ "post" \in Points
  BY SetTypes DEF TypeOK, Points
<1>2. run' \in Run /\ run'.todo = Unsent /\ run'.at # "send"
  BY <1>1 DEF ListComments, Run
<1> QED BY <1>1, <1>2 DEF ListComments, TypeOK, desk, portal, Call

\* A step of the worker that changes the record of one message.
LEMMA MessageStep ==
  ASSUME TypeOK, UNCHANGED <<ticket, link, company, told>>,
         messages' \in Seq(Message), Len(messages') = Len(messages),
         DOMAIN messages' = DOMAIN messages, jobs' \in Nat, run' \in Run,
         run'.todo \subseteq run.todo, run'.at = "send" => run'.todo # {},
         deal' \in Deal, comments' \in Seq(Comment), late' \in SUBSET Call,
         spent' \in Spent
  PROVE  TypeOK'
BY DEF TypeOK, Call

LEMMA NextMessageType ==
  ASSUME TypeOK, NextMessage
  PROVE  TypeOK'
<1> DEFINE m == Min(run.todo)
<1>1. m \in run.todo /\ m \in DOMAIN messages
  BY NextToSend DEF NextMessage
<1>2. deal \in Deal /\ comments \in Seq(Comment) /\ late \in SUBSET Call
      /\ spent \in Spent /\ jobs \in Nat /\ run \in Run
      /\ UNCHANGED <<ticket, link, company, told, deal, comments, late, spent>>
  BY DEF TypeOK, NextMessage, portal
<1> HIDE DEF m
<1>3. CASE /\ Cardinality(Matches(m)) = 1
           /\ messages' = Sent(m, Min(Matches(m)))
           /\ run' = [run EXCEPT !.todo = @ \ {m}]
           /\ UNCHANGED jobs
  <2>1. Matches(m) \in SUBSET Nat /\ Matches(m) # {}
    <3>1. Matches(m) \in SUBSET Nat
      BY SetTypes DEF Matches
    <3>2. Cardinality({}) = 0
      BY FS_EmptySet
    <3> QED BY <1>3, <3>1, <3>2
  <2>2. Min(Matches(m)) \in Nat
    BY <2>1, MinIn
  <2>3. run' \in Run /\ run'.todo = run.todo \ {m} /\ run'.at = "post"
    <3>1. run.todo \ {m} \in SUBSET Nat /\ run.at = "post"
      BY DEF TypeOK, Run, NextMessage
    <3> QED BY <1>2, <1>3, <3>1 DEF Run
  <2> QED BY <1>1, <1>2, <1>3, <2>2, <2>3, SentChange, MessageStep
<1>4. CASE Failed /\ UNCHANGED messages
  <2>1. messages \in Seq(Message)
    BY DEF TypeOK
  <2> QED BY <1>2, <1>4, <2>1, FailedType, MessageStep
<1>5. CASE /\ messages' = [messages EXCEPT
                ![m].state = "sending",
                ![m].known = There(run.list) \cup Linked]
           /\ Goto("send") /\ UNCHANGED jobs
  <2>1. There(run.list) \cup Linked \in SUBSET Nat
    BY SetTypes
  <2>2. run' \in Run /\ run'.todo = run.todo
    BY <1>5, GotoType DEF Points
  <2> QED BY <1>1, <1>2, <1>5, <2>1, <2>2, SendingChange, MessageStep
<1> QED BY <1>3, <1>4, <1>5 DEF NextMessage, m

LEMMA SendMessageType ==
  ASSUME TypeOK, SendMessage
  PROVE  TypeOK'
<1> DEFINE m == Min(run.todo)
<1>1. m \in run.todo /\ m \in DOMAIN messages
  BY NextToSend DEF SendMessage, TypeOK
<1>2. deal \in Deal /\ comments \in Seq(Comment) /\ late \in SUBSET Call
      /\ spent \in Spent /\ jobs \in Nat /\ run \in Run
      /\ UNCHANGED <<ticket, link, company, told>>
  BY DEF TypeOK, SendMessage
<1> HIDE DEF m
<1>3. CASE /\ AddComment(m)
           /\ messages' = Sent(m, Len(comments) + 1)
           /\ run' = [run EXCEPT !.at = "post", !.todo = @ \ {m}]
           /\ UNCHANGED <<jobs, late, spent>>
  <2>1. Len(comments) + 1 \in Nat
    BY <1>2
  <2>2. run' \in Run /\ run'.todo = run.todo \ {m} /\ run'.at = "post"
    <3>1. run.todo \ {m} \in SUBSET Nat /\ "post" \in Points
      BY DEF TypeOK, Run, Points
    <3> QED BY <1>2, <1>3, <3>1 DEF Run
  <2> QED BY <1>1, <1>2, <1>3, <2>1, <2>2, SentChange, AddCommentType, MessageStep
<1>4. CASE /\ Event
           /\ messages' = [messages EXCEPT ![m].state = "pending"]
           /\ Failed /\ UNCHANGED <<deal, comments, late>>
  BY <1>1, <1>2, <1>4, StateChange, EventType, FailedType, MessageStep
<1>5. CASE /\ Event
           /\ messages' = [messages EXCEPT ![m].state = "uncertain"]
           /\ late' = late \cup {[what |-> m, who |-> None]}
           /\ Failed /\ UNCHANGED <<deal, comments>>
  <2>1. late' \in SUBSET Call
    <3>1. [what |-> m, who |-> None] \in Call
      BY <1>1, SetTypes DEF Call
    <3> QED BY <1>2, <1>5, <3>1
  <2> QED
    BY <1>1, <1>2, <1>5, <2>1, StateChange, EventType, FailedType, MessageStep
<1> QED BY <1>3, <1>4, <1>5 DEF SendMessage, m

LEMMA CarryType ==
  ASSUME TypeOK, NEW rev \in Nat, NEW old \in Nat
  PROVE  Carried(old, rev) \in Nat
BY DEF Carried

\* The steps between the reading of the deal and the import.
LEMMA CarryStepType ==
  ASSUME TypeOK,
         \/ GetDeal \/ DescribeCustomer \/ SyncCustomer \/ ReadAssignment
         \/ Reassign \/ Notify \/ PullComments
  PROVE  TypeOK'
<1>1. /\ deal \in Deal /\ told \in SUBSET (User \cup {None})
      /\ late \in SUBSET Call /\ spent \in Spent /\ link \in Link
      /\ jobs \in Nat /\ run \in Run /\ company \in Company \cup {None}
      /\ comments \in Seq(Comment) /\ run.who \in User \cup {None}
      /\ run.rev \in Nat /\ run.company \in Company \cup {None}
      /\ link.synced \in Nat /\ link.notified \in Nat
      /\ deal.company \in Company \cup {None} /\ run.stage \in Stages
      /\ deal.stage \in Stages /\ run.job \in BOOLEAN
  BY DEF TypeOK, Run, Link, Deal
<1>2. CASE GetDeal
  <2> DEFINE at == IF run.current THEN "assign" ELSE "describe"
  <2>1. at \in Points /\ at # "send"
    BY DEF Points
  <2> HIDE DEF at
  <2>2. run' = [Idle EXCEPT !.at = at, !.job = run.job, !.stage = deal.stage]
    BY <1>2 DEF GetDeal, at
  <2>3. run' \in Run /\ run'.todo = {} /\ run'.at = at
    BY <1>1, <2>1, <2>2, IdleType DEF Run
  <2> QED BY <1>1, <1>2, <2>1, <2>3, QuietStep DEF GetDeal, portal
<1>3. CASE DescribeCustomer
  <2>1. run' \in Run /\ run'.todo = run.todo /\ run'.at = "customer"
    <3>1. "customer" \in Points
      BY DEF Points
    <3> QED BY <1>1, <1>3, <3>1 DEF DescribeCustomer, Run
  <2> QED BY <1>1, <1>3, <2>1, QuietStep DEF DescribeCustomer, portal
<1>4. CASE SyncCustomer
  <2> DEFINE c == IF run.company = None THEN deal.company ELSE run.company
             named == [deal EXCEPT !.company = c]
  <2>1. named \in Deal
    <3>1. c \in Company \cup {None}
      BY <1>1
    <3> HIDE DEF c
    <3> QED BY <1>1, <3>1 DEF Deal
  <2>2. deal' \in {deal, named}
    BY <1>4 DEF SyncCustomer
  <2>3. link' \in Link
    BY <1>1, <1>4 DEF SyncCustomer, Link
  <2>4. spent' \in Spent
    BY <1>1, <1>4, EventType DEF SyncCustomer
  <2>5. run' \in Run /\ run'.todo = run.todo /\ run'.at = "assign"
    BY <1>4, GotoType DEF SyncCustomer, Points
  <2> QED BY <1>1, <1>4, <2>1, <2>2, <2>3, <2>4, <2>5, QuietStep DEF SyncCustomer
<1>5. CASE ReadAssignment
  <2> DEFINE at == IF link.rev > link.synced THEN "reassign"
                   ELSE IF link.rev > link.notified THEN "notify" ELSE "pull"
             t == link.rev <= link.notified
  <2>1. at \in Points /\ at # "send" /\ t \in BOOLEAN
    BY DEF Points
  <2>2. link.who \in User \cup {None} /\ link.rev \in Nat
    BY <1>1 DEF Link
  <2>3. run' = [run EXCEPT !.at = at, !.who = link.who, !.rev = link.rev,
                           !.told = t]
    BY <1>5 DEF ReadAssignment
  <2>4. run' \in Run /\ run'.todo = run.todo /\ run'.at = at
    <3> HIDE DEF at, t
    <3> QED BY <1>1, <2>1, <2>2, <2>3 DEF Run
  <2> QED BY <1>1, <1>5, <2>1, <2>4, QuietStep DEF ReadAssignment, portal
<1>6. CASE Reassign
  <2>1. [deal EXCEPT !.who = run.who] \in Deal
    BY <1>1 DEF Deal
  <2>2. link' \in Link
    BY <1>1, <1>6, CarryType DEF Reassign, Link
  <2>3. spent' \in Spent
    BY <1>1, <1>6, EventType DEF Reassign
  <2>4. PICK at \in {"pull", "notify"} : Goto(at)
    BY <1>6 DEF Reassign
  <2>5. run' \in Run /\ run'.todo = run.todo /\ run'.at # "send"
    BY <2>4, GotoType DEF Points
  <2> QED BY <1>1, <1>6, <2>1, <2>2, <2>3, <2>5, QuietStep DEF Reassign
<1>7. CASE Notify
  <2>1. told' \in SUBSET (User \cup {None})
    BY <1>1, <1>7 DEF Notify
  <2>2. link' \in Link
    BY <1>1, <1>7, CarryType DEF Notify, Link
  <2>3. spent' \in Spent
    BY <1>1, <1>7, EventType DEF Notify
  <2>4. run' \in Run /\ run'.todo = run.todo /\ run'.at = "pull"
    BY <1>7, GotoType DEF Notify, Points
  <2> QED BY <1>1, <1>7, <2>1, <2>2, <2>3, <2>4, QuietStep DEF Notify
<1>8. CASE PullComments
  <2>1. run' = [Idle EXCEPT !.at = "import", !.job = run.job,
                            !.stage = run.stage, !.list = comments]
    BY <1>8 DEF PullComments
  <2>2. run' \in Run /\ run'.todo = {} /\ run'.at = "import"
    <3>1. "import" \in Points
      BY DEF Points
    <3> QED BY <1>1, <2>1, <3>1, IdleType DEF Run
  <2> QED BY <1>1, <1>8, <2>2, QuietStep DEF PullComments, portal
<1> QED BY <1>2, <1>3, <1>4, <1>5, <1>6, <1>7, <1>8

LEMMA ImportOfType ==
  ASSUME TypeOK, NEW c \in Nat
  PROVE  \/ ImportOf(c) = 0
         \/ /\ ImportOf(c) \in DOMAIN messages
            /\ messages[ImportOf(c)].from = "crm"
            /\ messages[ImportOf(c)].comment = c
<1> DEFINE shown == {m \in DOMAIN messages :
                       messages[m].from = "crm" /\ messages[m].comment = c}
<1>1. CASE shown = {}
  BY <1>1 DEF ImportOf
<1>2. CASE shown # {}
  <2>1. shown \in SUBSET Nat
    BY SetTypes
  <2>2. Min(shown) \in shown
    <3> HIDE DEF shown
    <3> QED BY <1>2, <2>1, MinIn
  <2>3. ImportOf(c) = Min(shown)
    BY <1>2 DEF ImportOf
  <2> QED BY <2>2, <2>3
<1> QED BY <1>1, <1>2

\* What an update of an imported message changes, and what it leaves.
LEMMA UpdateChange ==
  ASSUME TypeOK, NEW m \in DOMAIN messages, NEW text \in Texts,
         NEW deleted \in BOOLEAN, Update(m, text, deleted)
  PROVE  /\ messages' \in Seq(Message)
         /\ Len(messages') = Len(messages)
         /\ DOMAIN messages' = DOMAIN messages
         /\ messages'[m] = [messages[m] EXCEPT !.text = text,
                                               !.deleted = deleted]
         /\ \A k \in DOMAIN messages : k # m => messages'[k] = messages[k]
         /\ ticket' \in Ticket
<1> DEFINE r == [messages[m] EXCEPT !.text = text, !.deleted = deleted]
<1>1. r \in Message
  BY ElementTypes DEF Message
<1>2. messages' = [messages EXCEPT ![m] = r]
  BY DEF TypeOK, Update
<1>3. ticket' \in Ticket
  BY DEF TypeOK, Ticket, Update
<1> QED BY <1>1, <1>2, <1>3, MessageChange

\* The three things an import does with a comment.
LEMMA ImportCases ==
  ASSUME TypeOK, ImportComment
  PROVE  \E c \in Fresh :
           /\ c \in DOMAIN run.list /\ c \in Nat /\ c \notin Linked
           /\ \/ /\ ~run.list[c].addressed
                 /\ ImportOf(c) \in DOMAIN messages
                 /\ Update(ImportOf(c), "hidden in CRM", TRUE)
              \/ run.list[c].addressed /\ Import(c)
              \/ /\ run.list[c].addressed
                 /\ ImportOf(c) \in DOMAIN messages
                 /\ Update(ImportOf(c), run.list[c].text, FALSE)
<1>1. Fresh \in SUBSET Nat /\ Fresh # {}
  BY SetTypes DEF Fresh, ImportComment
<1>2. Min(Fresh) \in Fresh
  BY <1>1, MinIn
<1>3. PICK c \in Fresh : c = Min(Fresh)
  BY <1>2
<1>4. c \in DOMAIN run.list /\ Stale(c) /\ c \in Nat
  BY <1>1 DEF Fresh, There
<1>5. \/ ImportOf(c) = 0 \/ ImportOf(c) \in DOMAIN messages
  BY <1>4, ImportOfType
<1>6. ~run.list[c].addressed => ImportOf(c) # 0
  BY <1>4 DEF Stale
<1>7. IF ~run.list[c].addressed THEN Update(ImportOf(c), "hidden in CRM", TRUE)
      ELSE IF ImportOf(c) = 0 THEN Import(c)
      ELSE Update(ImportOf(c), run.list[c].text, FALSE)
  BY <1>3 DEF ImportComment
<1>8. c \notin Linked
  BY <1>4 DEF Stale
<1> QED BY <1>4, <1>5, <1>6, <1>7, <1>8

LEMMA ImportChange ==
  ASSUME TypeOK, NEW c \in DOMAIN run.list, Import(c)
  PROVE  /\ messages' \in Seq(Message)
         /\ Len(messages') = Len(messages) + 1
         /\ messages'[Len(messages) + 1] =
              [from |-> "crm", text |-> run.list[c].text, state |-> "in",
               comment |-> c, known |-> {}, deleted |-> FALSE]
         /\ \A k \in DOMAIN messages : messages'[k] = messages[k]
         /\ ticket' \in Ticket
<1> DEFINE r == [from |-> "crm", text |-> run.list[c].text, state |-> "in",
                 comment |-> c, known |-> {}, deleted |-> FALSE]
<1>1. run.list[c].text \in Texts /\ c \in Nat
  BY ElementTypes DEF Comment
<1>2. r \in Message
  BY <1>1 DEF Message
<1>3. messages' = Append(messages, r)
  BY DEF Import
<1>4. ticket' \in Ticket
  <2>1. ticket.seq + 1 \in Nat
    BY DEF TypeOK, Ticket
  <2> QED BY <1>1, <2>1 DEF TypeOK, Ticket, Import
<1> HIDE DEF r
<1>5. messages' \in Seq(Message) /\ Len(messages') = Len(messages) + 1
      /\ messages'[Len(messages) + 1] = r
      /\ \A k \in DOMAIN messages : messages'[k] = messages[k]
  BY <1>2, <1>3 DEF TypeOK
<1> QED BY <1>4, <1>5 DEF r

LEMMA ImportStepType ==
  ASSUME TypeOK, ImportComment \/ DropRemoved \/ Finish
  PROVE  TypeOK'
<1>1. CASE ImportComment
  <2>1. PICK c \in Fresh :
           /\ c \in DOMAIN run.list
           /\ \/ /\ ImportOf(c) \in DOMAIN messages
                 /\ Update(ImportOf(c), "hidden in CRM", TRUE)
              \/ Import(c)
              \/ /\ ImportOf(c) \in DOMAIN messages
                 /\ Update(ImportOf(c), run.list[c].text, FALSE)
    BY <1>1, ImportCases
  <2>2. run.list[c].text \in Texts /\ "hidden in CRM" \in Texts
    BY <2>1, ElementTypes DEF Comment, Texts
  <2>3. messages' \in Seq(Message) /\ Len(messages') >= Len(messages)
        /\ DOMAIN messages \subseteq DOMAIN messages' /\ ticket' \in Ticket
    <3>0. Len(messages) \in Nat /\ DOMAIN messages = 1 .. Len(messages)
      BY DEF TypeOK
    <3>1. CASE Import(c)
      <4>1. messages' \in Seq(Message) /\ Len(messages') = Len(messages) + 1
            /\ ticket' \in Ticket
        BY <2>1, <3>1, ImportChange
      <4>2. DOMAIN messages' = 1 .. Len(messages')
        BY <4>1
      <4> QED BY <3>0, <4>1, <4>2
    <3>2. CASE /\ ImportOf(c) \in DOMAIN messages
               /\ Update(ImportOf(c), "hidden in CRM", TRUE)
      <4>1. messages' \in Seq(Message) /\ Len(messages') = Len(messages)
            /\ DOMAIN messages' = DOMAIN messages /\ ticket' \in Ticket
        BY <2>2, <3>2, UpdateChange
      <4> QED BY <3>0, <4>1
    <3>3. CASE /\ ImportOf(c) \in DOMAIN messages
               /\ Update(ImportOf(c), run.list[c].text, FALSE)
      <4>1. messages' \in Seq(Message) /\ Len(messages') = Len(messages)
            /\ DOMAIN messages' = DOMAIN messages /\ ticket' \in Ticket
        BY <2>2, <3>3, UpdateChange
      <4> QED BY <3>0, <4>1
    <3> QED BY <2>1, <3>1, <3>2, <3>3
  <2>4. late' \in SUBSET Call'
    <3>1. Len(messages) \in Nat /\ Len(messages') \in Nat
      BY <2>3 DEF TypeOK
    <3>2. 0 .. Len(messages) \subseteq 0 .. Len(messages')
      BY <2>3, <3>1
    <3>3. late' = late /\ late \in SUBSET Call
      BY <1>1 DEF ImportComment, TypeOK, portal
    <3> QED BY <3>2, <3>3 DEF Call
  <2>5. /\ UNCHANGED <<link, jobs, company, run, spent>>
        /\ UNCHANGED <<deal, comments, told>>
    BY <1>1 DEF ImportComment, portal
  <2> QED BY <2>3, <2>4, <2>5 DEF TypeOK
<1>2. CASE DropRemoved
  <2>1. Gone \in SUBSET Nat /\ Gone \subseteq DOMAIN messages /\ Gone # {}
    BY <1>2, SetTypes DEF Gone, DropRemoved
  <2>2. Min(Gone) \in DOMAIN messages
    BY <2>1, MinIn
  <2>3. messages' \in Seq(Message) /\ Len(messages') = Len(messages)
        /\ DOMAIN messages' = DOMAIN messages /\ ticket' \in Ticket
    BY <1>2, <2>2, UpdateChange DEF DropRemoved, Texts
  <2> QED BY <1>2, <2>3 DEF DropRemoved, TypeOK, portal, Call
<1>3. CASE Finish
  <2>1. StatusOf(run.stage) \in Statuses
    BY DEF StatusOf, Statuses, Closed
  <2>2. ticket' \in Ticket
    BY <1>3, <2>1 DEF Finish, TypeOK, Ticket
  <2> QED BY <1>3, <2>2, IdleType DEF Finish, TypeOK, portal, Call
<1> QED BY <1>1, <1>2, <1>3

LEMMA NextType == TypeOK /\ [Next]_vars => TypeOK'
<1> SUFFICES ASSUME TypeOK, [Next]_vars PROVE TypeOK'
  OBVIOUS
<1>1. CASE Step
  BY <1>1, FindCardType, CreateCardType, ListCommentsType, NextMessageType,
     SendMessageType, CarryStepType, ImportStepType DEF Step
<1>2. CASE UNCHANGED vars
  BY <1>2 DEF vars, TypeOK, Call
<1> QED BY <1>1, <1>2, DeskType, PortalType, ClaimType, FailureType DEF Next

\* Every reachable state has the declared types; in particular the worker sends
\* only messages of the conversation and no job is served that does not exist.
THEOREM TypeCorrect == Spec => []TypeOK
<1>1. Init => TypeOK
  BY InitType
<1>2. TypeOK /\ [Next]_vars => TypeOK'
  BY NextType
<1> QED BY <1>1, <1>2, PTL DEF Spec

-----------------------------------------------------------------------------
(* The request and its conversation *)

\* The greatest element of a set that has one.
LEMMA MaxIs ==
  ASSUME NEW S \in SUBSET Nat, NEW n \in S, \A k \in S : k <= n
  PROVE  Max(S) = n
<1>1. \A x \in S : (\A y \in S : x >= y) => x = n
  OBVIOUS
<1>2. \A y \in S : n >= y
  OBVIOUS
<1> QED BY <1>1, <1>2 DEF Max

FromCustomer == {m \in DOMAIN messages : messages[m].from = "customer"}
FromOthers == {m \in DOMAIN messages : messages[m].from # "customer"}

\* ConversationKept with its two sets named.
Kept ==
  /\ ticket.seq = Len(messages)
  /\ ticket.preview = messages[Len(messages)].text
  /\ ticket.customer = Max(FromCustomer)
  /\ ticket.support = Max({0} \cup FromOthers)
  /\ ticket.customerRead <= ticket.seq
  /\ ticket.supportRead <= ticket.seq

LEMMA InitConversation == Init => ConversationKept
<1> SUFFICES ASSUME Init PROVE ConversationKept
  OBVIOUS
<1>1. PICK t \in Said :
        /\ messages = <<Written("customer", t)>>
        /\ ticket = [status |-> "new", seq |-> 1, customer |-> 1,
                     support |-> 0, customerRead |-> 1, supportRead |-> 0,
                     preview |-> t]
  BY DEF Init
<1>2. FromCustomer = {1} /\ FromOthers = {}
  BY <1>1 DEF FromCustomer, FromOthers, Written
<1>3. Max(FromCustomer) = 1 /\ Max({0} \cup FromOthers) = 0
  BY <1>2, MaxIs
<1>4. messages[Len(messages)].text = t /\ Len(messages) = 1
  BY <1>1 DEF Written
<1>5. ticket.seq = 1 /\ ticket.customer = 1 /\ ticket.support = 0
      /\ ticket.customerRead = 1 /\ ticket.supportRead = 0 /\ ticket.preview = t
  BY <1>1
<1> QED BY <1>3, <1>4, <1>5 DEF ConversationKept, FromCustomer, FromOthers

\* A message that is added names itself in the counters.
LEMMA AppendConversation ==
  ASSUME TypeOK, TypeOK', ConversationKept, NEW r \in Message,
         Len(messages') = Len(messages) + 1,
         messages'[Len(messages) + 1] = r,
         \A k \in DOMAIN messages : messages'[k] = messages[k],
         ticket'.seq = ticket.seq + 1, ticket'.preview = r.text,
         IF r.from = "customer"
         THEN ticket'.customer = ticket'.seq /\ ticket'.support = ticket.support
         ELSE ticket'.support = ticket'.seq /\ ticket'.customer = ticket.customer,
         ticket'.customerRead \in {ticket.customerRead, ticket'.seq},
         ticket'.supportRead \in {ticket.supportRead, ticket'.seq}
  PROVE  ConversationKept'
<1>1. PICK n \in Nat : n = Len(messages) + 1
  BY DEF TypeOK
<1>2. /\ ticket.seq \in Nat /\ ticket.customerRead \in Nat
      /\ ticket.supportRead \in Nat
  BY DEF TypeOK, Ticket
<1>3. n \notin DOMAIN messages /\ \A k \in DOMAIN messages : k < n /\ k \in Nat
  BY <1>1 DEF TypeOK
<1>4. DOMAIN messages' = DOMAIN messages \cup {n}
  BY <1>1 DEF TypeOK
<1>5. messages'[n] = r /\ ticket'.seq = n /\ Len(messages') = n
  BY <1>1 DEF ConversationKept
<1>6. Kept /\ (Kept' => ConversationKept')
  BY DEF Kept, ConversationKept, FromCustomer, FromOthers
<1>7. CASE r.from = "customer"
  <2>1. FromCustomer' = FromCustomer \cup {n} /\ FromOthers' = FromOthers
    BY <1>3, <1>4, <1>5, <1>7 DEF FromCustomer, FromOthers
  <2>2. Max(FromCustomer') = n
    BY <1>3, <2>1, MaxIs DEF FromCustomer
  <2>3. ticket'.customer = n /\ ticket'.support = ticket.support
    BY <1>5, <1>7
  <2>4. n <= n /\ ticket.customerRead <= n /\ ticket.supportRead <= n
    BY <1>1, <1>2, <1>6 DEF Kept
  <2>5. Kept'
    BY <1>5, <1>6, <2>1, <2>2, <2>3, <2>4 DEF Kept
  <2> QED BY <1>6, <2>5
<1>8. CASE r.from # "customer"
  <2>1. FromOthers' = FromOthers \cup {n} /\ FromCustomer' = FromCustomer
    BY <1>3, <1>4, <1>5, <1>8 DEF FromCustomer, FromOthers
  <2>2. Max({0} \cup FromOthers') = n
    BY <1>3, <2>1, MaxIs DEF FromOthers
  <2>3. ticket'.support = n /\ ticket'.customer = ticket.customer
    BY <1>5, <1>8
  <2>4. n <= n /\ ticket.customerRead <= n /\ ticket.supportRead <= n
    BY <1>1, <1>2, <1>6 DEF Kept
  <2>5. Kept'
    BY <1>5, <1>6, <2>1, <2>2, <2>3, <2>4 DEF Kept
  <2> QED BY <1>6, <2>5
<1> QED BY <1>7, <1>8

\* A message that changes keeps its sender, and the preview follows the last.
LEMMA ChangeConversation ==
  ASSUME TypeOK, TypeOK', ConversationKept, NEW m \in DOMAIN messages,
         NEW r \in Message, messages' = [messages EXCEPT ![m] = r],
         r.from = messages[m].from,
         ticket'.seq = ticket.seq, ticket'.customer = ticket.customer,
         ticket'.support = ticket.support,
         ticket'.customerRead = ticket.customerRead,
         ticket'.supportRead = ticket.supportRead,
         ticket'.preview = IF m = Len(messages) THEN r.text ELSE ticket.preview
  PROVE  ConversationKept'
<1>1. /\ Len(messages') = Len(messages)
      /\ DOMAIN messages' = DOMAIN messages
      /\ messages'[m] = r
      /\ \A k \in DOMAIN messages : k # m => messages'[k] = messages[k]
  BY MessageChange
<1>2. FromCustomer' = FromCustomer /\ FromOthers' = FromOthers
  BY <1>1 DEF FromCustomer, FromOthers
<1>3. Len(messages) \in DOMAIN messages
  BY DEF TypeOK
<1>4. ticket'.preview = messages'[Len(messages')].text
  BY <1>1, <1>3 DEF ConversationKept
<1> QED BY <1>1, <1>2, <1>4 DEF ConversationKept, FromCustomer, FromOthers

\* Steps after which every message has its sender and its text.
LEMMA QuietConversation ==
  ASSUME TypeOK, ConversationKept, Len(messages) > 0,
         Len(messages') = Len(messages), DOMAIN messages' = DOMAIN messages,
         \A k \in DOMAIN messages : /\ messages'[k].from = messages[k].from
                                    /\ messages'[k].text = messages[k].text,
         ticket'.seq = ticket.seq, ticket'.customer = ticket.customer,
         ticket'.support = ticket.support, ticket'.preview = ticket.preview,
         ticket'.customerRead <= ticket.seq, ticket'.supportRead <= ticket.seq
  PROVE  ConversationKept' /\ Len(messages') > 0
<1>1. FromCustomer' = FromCustomer /\ FromOthers' = FromOthers
  BY DEF FromCustomer, FromOthers
<1>2. Len(messages) \in DOMAIN messages
  BY DEF TypeOK
<1> QED BY <1>1, <1>2 DEF ConversationKept, FromCustomer, FromOthers

LEMMA ReadConversation ==
  ASSUME TypeOK, ConversationKept, Len(messages) > 0,
         NEW side \in {"customer", "support"}, NEW seen \in 0 .. ticket.seq,
         Read(side, seen)
  PROVE  ConversationKept' /\ Len(messages') > 0
<1>1. /\ ticket.seq \in Nat /\ seen \in Nat /\ seen <= ticket.seq
      /\ ticket.customerRead \in Nat /\ ticket.supportRead \in Nat
  BY DEF TypeOK, Ticket
<1>2. Min({ticket.seq, seen}) = seen
  <2>1. \A x \in {ticket.seq, seen} :
          (\A y \in {ticket.seq, seen} : x <= y) => x = seen
    BY <1>1
  <2>2. \A y \in {ticket.seq, seen} : seen <= y
    BY <1>1
  <2> QED BY <2>1, <2>2 DEF Min
<1>3. ASSUME NEW k \in Nat, k <= ticket.seq
      PROVE  Max({k, seen}) <= ticket.seq
  <2>1. CASE k <= seen
    BY <1>1, <1>3, <2>1, MaxIs
  <2>2. CASE seen <= k
    BY <1>1, <1>3, <2>2, MaxIs
  <2> QED BY <1>1, <2>1, <2>2
<1>4. ticket.customerRead <= ticket.seq /\ ticket.supportRead <= ticket.seq
  BY DEF ConversationKept
<1>5. /\ ticket'.customerRead \in {ticket.customerRead,
                                   Max({ticket.customerRead, seen})}
      /\ ticket'.supportRead \in {ticket.supportRead,
                                  Max({ticket.supportRead, seen})}
      /\ ticket'.seq = ticket.seq /\ ticket'.customer = ticket.customer
      /\ ticket'.support = ticket.support /\ ticket'.preview = ticket.preview
  BY <1>2 DEF Read, TypeOK, Ticket
<1>6. ticket'.customerRead <= ticket.seq /\ ticket'.supportRead <= ticket.seq
  BY <1>1, <1>3, <1>4, <1>5
<1>7. messages' = messages
  BY DEF Read
<1> QED BY <1>5, <1>6, <1>7, QuietConversation

LEMMA ReplyConversation ==
  ASSUME TypeOK, TypeOK', ConversationKept,
         NEW from \in {"customer", "support"}, NEW text \in Said,
         Reply(from, text)
  PROVE  ConversationKept' /\ Len(messages') > 0
<1>1. PICK r \in Message : r = Written(from, text)
  BY WrittenType
<1>2. messages' = Append(messages, r)
  BY <1>1 DEF Reply
<1>3. /\ Len(messages') = Len(messages) + 1
      /\ messages'[Len(messages) + 1] = r
      /\ \A k \in DOMAIN messages : messages'[k] = messages[k]
      /\ Len(messages) \in Nat
  BY <1>2 DEF TypeOK
<1>4. r.from = from /\ r.text = text
  BY <1>1 DEF Written
<1>5. ticket \in Ticket
  BY DEF TypeOK
<1>6. /\ ticket'.seq = ticket.seq + 1 /\ ticket'.preview = text
      /\ IF from = "customer"
         THEN ticket'.customer = ticket'.seq /\ ticket'.support = ticket.support
         ELSE ticket'.support = ticket'.seq /\ ticket'.customer = ticket.customer
      /\ ticket'.customerRead \in {ticket.customerRead, ticket'.seq}
      /\ ticket'.supportRead \in {ticket.supportRead, ticket'.seq}
  BY <1>5 DEF Reply, Ticket
<1>7. ConversationKept'
  BY <1>3, <1>4, <1>6, AppendConversation
<1> QED BY <1>3, <1>7

\* The worker changes only what the message says of its delivery.
LEMMA DeliveryConversation ==
  ASSUME TypeOK, TypeOK', ConversationKept, Len(messages) > 0,
         NextMessage \/ SendMessage
  PROVE  ConversationKept' /\ Len(messages') > 0
<1>1. PICK m : m = Min(run.todo)
  OBVIOUS
<1>2. ticket' = ticket /\ ticket \in Ticket /\ run.todo # {}
  BY DEF NextMessage, SendMessage, TypeOK
<1>3. m \in DOMAIN messages
  BY <1>1, <1>2, NextToSend
<1>4. messages[m] \in Message /\ messages \in Seq(Message)
  BY <1>3, ElementTypes DEF TypeOK
<1>5. PICK r : /\ messages' = messages \/ messages' = [messages EXCEPT ![m] = r]
               /\ r.from = messages[m].from /\ r.text = messages[m].text
  <2>1. ASSUME NEW state,
               messages' = [messages EXCEPT ![m].state = state]
        PROVE  \E r : /\ messages' = [messages EXCEPT ![m] = r]
                      /\ r.from = messages[m].from /\ r.text = messages[m].text
    <3> DEFINE r == [messages[m] EXCEPT !.state = state]
    <3>1. messages' = [messages EXCEPT ![m] = r]
      BY <2>1
    <3>2. r.from = messages[m].from /\ r.text = messages[m].text
      BY <1>4 DEF Message
    <3> HIDE DEF r
    <3> QED BY <3>1, <3>2
  <2>2. ASSUME NEW c, messages' = Sent(m, c)
        PROVE  \E r : /\ messages' = [messages EXCEPT ![m] = r]
                      /\ r.from = messages[m].from /\ r.text = messages[m].text
    <3> DEFINE r == [messages[m] EXCEPT !.state = "sent", !.comment = c,
                                        !.known = {}]
    <3>1. messages' = [messages EXCEPT ![m] = r]
      BY <1>3, <1>4, <2>2 DEF Sent
    <3>2. r.from = messages[m].from /\ r.text = messages[m].text
      BY <1>4 DEF Message
    <3> HIDE DEF r
    <3> QED BY <3>1, <3>2
  <2>3. ASSUME messages' = [messages EXCEPT
                 ![m].state = "sending",
                 ![m].known = There(run.list) \cup Linked]
        PROVE  \E r : /\ messages' = [messages EXCEPT ![m] = r]
                      /\ r.from = messages[m].from /\ r.text = messages[m].text
    <3> DEFINE k == There(run.list) \cup Linked
               r == [messages[m] EXCEPT !.state = "sending", !.known = k]
    <3> HIDE DEF k
    <3>1. messages' = [messages EXCEPT ![m] = r]
      BY <1>3, <1>4, <2>3 DEF k
    <3>2. r.from = messages[m].from /\ r.text = messages[m].text
      BY <1>4 DEF Message
    <3> HIDE DEF r
    <3> QED BY <3>1, <3>2
  <2> QED BY <1>1, <2>1, <2>2, <2>3 DEF NextMessage, SendMessage
<1>6. /\ DOMAIN messages' = DOMAIN messages
      /\ \A k \in DOMAIN messages : /\ messages'[k].from = messages[k].from
                                    /\ messages'[k].text = messages[k].text
  BY <1>3, <1>4, <1>5
<1>7. Len(messages') = Len(messages)
  BY <1>4, <1>6 DEF TypeOK
<1>8. ticket.customerRead <= ticket.seq /\ ticket.supportRead <= ticket.seq
  BY DEF ConversationKept
<1> QED BY <1>2, <1>6, <1>7, <1>8, QuietConversation

LEMMA UpdateConversation ==
  ASSUME TypeOK, TypeOK', ConversationKept, Len(messages) > 0,
         NEW m \in DOMAIN messages, NEW text \in Texts,
         NEW deleted \in BOOLEAN, Update(m, text, deleted)
  PROVE  ConversationKept' /\ Len(messages') > 0
<1>1. messages[m] \in Message /\ ticket \in Ticket
  BY ElementTypes DEF TypeOK
<1>2. PICK r \in Message :
        r = [messages[m] EXCEPT !.text = text, !.deleted = deleted]
  BY <1>1 DEF Message
<1>3. r.from = messages[m].from /\ r.text = text
  BY <1>1, <1>2 DEF Message
<1>4. messages' = [messages EXCEPT ![m] = r]
  BY <1>1, <1>2 DEF Update, TypeOK
<1>5. /\ ticket'.seq = ticket.seq /\ ticket'.customer = ticket.customer
      /\ ticket'.support = ticket.support
      /\ ticket'.customerRead = ticket.customerRead
      /\ ticket'.supportRead = ticket.supportRead
      /\ ticket'.preview = IF m = Len(messages) THEN text ELSE ticket.preview
  BY <1>1 DEF Update, Ticket
<1>6. Len(messages') = Len(messages)
  BY <1>4, MessageChange
<1> QED BY <1>3, <1>4, <1>5, <1>6, ChangeConversation

LEMMA ImportConversation ==
  ASSUME TypeOK, TypeOK', ConversationKept, Len(messages) > 0,
         ImportComment \/ DropRemoved
  PROVE  ConversationKept' /\ Len(messages') > 0
<1>1. ASSUME NEW c \in DOMAIN run.list, Import(c)
      PROVE  ConversationKept' /\ Len(messages') > 0
  <2>1. PICK r \in Message :
          r = [from |-> "crm", text |-> run.list[c].text, state |-> "in",
               comment |-> c, known |-> {}, deleted |-> FALSE]
    <3>1. run.list[c].text \in Texts /\ c \in Nat
      BY ElementTypes DEF Comment
    <3> QED BY <3>1 DEF Message
  <2>2. /\ Len(messages') = Len(messages) + 1
        /\ messages'[Len(messages) + 1] = r
        /\ \A k \in DOMAIN messages : messages'[k] = messages[k]
    BY <1>1, <2>1, ImportChange
  <2>3. r.from = "crm" /\ r.text = run.list[c].text
    BY <2>1
  <2>4. ticket \in Ticket /\ Len(messages) \in Nat
    BY DEF TypeOK
  <2>5. /\ ticket'.seq = ticket.seq + 1 /\ ticket'.preview = r.text
        /\ ticket'.support = ticket'.seq /\ ticket'.customer = ticket.customer
        /\ ticket'.customerRead = ticket.customerRead
        /\ ticket'.supportRead = ticket.supportRead
    BY <1>1, <2>3, <2>4 DEF Import, Ticket
  <2>6. ConversationKept'
    BY <2>2, <2>3, <2>5, AppendConversation
  <2> QED BY <2>2, <2>4, <2>6
<1>2. CASE ImportComment
  <2>1. PICK c \in Fresh :
          /\ c \in DOMAIN run.list
          /\ \/ /\ ImportOf(c) \in DOMAIN messages
                /\ Update(ImportOf(c), "hidden in CRM", TRUE)
             \/ Import(c)
             \/ /\ ImportOf(c) \in DOMAIN messages
                /\ Update(ImportOf(c), run.list[c].text, FALSE)
    BY <1>2, ImportCases
  <2>2. run.list[c].text \in Texts /\ "hidden in CRM" \in Texts
    BY <2>1, ElementTypes DEF Comment, Texts
  <2>3. CASE /\ ImportOf(c) \in DOMAIN messages
             /\ Update(ImportOf(c), "hidden in CRM", TRUE)
    BY <2>2, <2>3, UpdateConversation
  <2>4. CASE /\ ImportOf(c) \in DOMAIN messages
             /\ Update(ImportOf(c), run.list[c].text, FALSE)
    BY <2>2, <2>4, UpdateConversation
  <2> QED BY <1>1, <2>1, <2>3, <2>4
<1>3. CASE DropRemoved
  <2>1. Gone \in SUBSET Nat /\ Gone \subseteq DOMAIN messages /\ Gone # {}
    BY <1>3, SetTypes DEF Gone, DropRemoved
  <2>2. Min(Gone) \in DOMAIN messages
    BY <2>1, MinIn
  <2>3. "removed in CRM" \in Texts
    BY DEF Texts
  <2> QED BY <1>3, <2>2, <2>3, UpdateConversation DEF DropRemoved
<1> QED BY <1>2, <1>3

\* Every other step leaves the conversation, and all of the request but its
\* status.
LEMMA OtherConversation ==
  ASSUME TypeOK, ConversationKept, Len(messages) > 0,
         messages' = messages,
         ticket' = ticket \/ \E s : ticket' = [ticket EXCEPT !.status = s]
  PROVE  ConversationKept' /\ Len(messages') > 0
<1>1. ticket.customerRead <= ticket.seq /\ ticket.supportRead <= ticket.seq
      /\ ticket \in Ticket
  BY DEF ConversationKept, TypeOK
<1>2. /\ ticket'.seq = ticket.seq /\ ticket'.customer = ticket.customer
      /\ ticket'.support = ticket.support /\ ticket'.preview = ticket.preview
      /\ ticket'.customerRead = ticket.customerRead
      /\ ticket'.supportRead = ticket.supportRead
  BY <1>1 DEF Ticket
<1> QED BY <1>1, <1>2, QuietConversation

LEMMA NextConversation ==
  ASSUME TypeOK, TypeOK', ConversationKept, Len(messages) > 0, [Next]_vars
  PROVE  ConversationKept' /\ Len(messages') > 0
<1>1. CASE Desk
  <2>1. ASSUME \/ \E status \in Statuses : SetStatus(status)
               \/ \E user \in User : Assign(user)
               \/ \E c \in Company : LinkTenantCompany(c)
        PROVE  ConversationKept' /\ Len(messages') > 0
    BY <2>1, OtherConversation DEF SetStatus, Assign, LinkTenantCompany
  <2> QED BY <1>1, <2>1, ReplyConversation, ReadConversation DEF Desk
<1>2. CASE Portal
  BY <1>2, OtherConversation
     DEF Portal, StaffWrites, StaffEdits, StaffRemoves, StaffMoves, Arrive, desk
<1>3. CASE Step
  <2>1. ASSUME \/ FindCard \/ CreateCard \/ ListComments
               \/ GetDeal \/ DescribeCustomer \/ SyncCustomer \/ ReadAssignment
               \/ Reassign \/ Notify \/ PullComments
        PROVE  messages' = messages /\ ticket' = ticket
    BY <2>1 DEF FindCard, CreateCard, ListComments, GetDeal, DescribeCustomer,
                SyncCustomer, ReadAssignment, Reassign, Notify, PullComments, desk
  <2>2. CASE Finish
    BY <2>2, OtherConversation DEF Finish
  <2> QED BY <1>3, <2>1, <2>2, DeliveryConversation, ImportConversation,
             OtherConversation DEF Step
<1>4. CASE ClaimJob \/ ClaimPoll \/ Refused \/ Crash \/ UNCHANGED vars
  <2>1. messages' = messages /\ ticket' = ticket
    BY <1>4 DEF ClaimJob, ClaimPoll, Refused, Crash, desk, vars
  <2> QED BY <2>1, OtherConversation
<1> QED BY <1>1, <1>2, <1>3, <1>4 DEF Next

\* The counters, the readings and the preview of the request agree with its
\* conversation, whoever adds or changes a message.
THEOREM ConversationTrue == Spec => []ConversationKept
<1> DEFINE Talk == ConversationKept /\ Len(messages) > 0
<1>1. Init => Talk
  <2> SUFFICES ASSUME Init PROVE Len(messages) > 0
    BY InitConversation
  <2>1. PICK t \in Said : messages = <<Written("customer", t)>>
    BY DEF Init
  <2> QED BY <2>1
<1>2. TypeOK /\ TypeOK' /\ Talk /\ [Next]_vars => Talk'
  BY NextConversation
<1>3. Talk => ConversationKept
  OBVIOUS
<1> QED BY <1>1, <1>2, <1>3, TypeCorrect, PTL DEF Spec

-----------------------------------------------------------------------------
(* Messages and comments stay linked as they should be, and the desk       *)
(* implements Delivery.  The invariant says where the outcome of a         *)
(* creation can be open: for the card only while none is known, and for    *)
(* one message only, the first that is not known to be on the card.        *)


\* A creation whose answer was lost is still under way.
Coming(m) == \E call \in late : call.what = m
IsPosted(m) == m \in Range(deal.posted)
IsSent(m) == messages[m].state = "sent"
EarlierSent(m) == \A k \in Outgoing : k < m => IsSent(k)

\* One card at most, and never a creation beside it whose outcome is open.
CardOK ==
  /\ deal.cards \in {0, 1}
  /\ \A a, b \in late : a.what = b.what => a = b
  /\ Coming(0) => deal.cards = 0 /\ link.create \in {"sending", "uncertain"}
  /\ run.at = "create" =>
       deal.cards = 0 /\ link.create = "sending" /\ ~Coming(0)
  /\ link.deal => deal.cards = 1
  /\ run.at \notin {"idle", "find", "create"} => deal.cards = 1

\* A message that may be on the card was tried, all earlier ones are on it, and
\* what is still to arrive is not there yet.
MessagesOK ==
  /\ \A m \in Outgoing : messages[m].state # "in"
  /\ \A m \in Outgoing : Unanswered(m) => EarlierSent(m)
  /\ \A m \in Range(deal.posted) :
       m \in Outgoing /\ messages[m].state # "pending"
  /\ \A m \in Nat \ {0} : Coming(m) =>
       m \in Outgoing /\ Unanswered(m) /\ ~IsPosted(m) /\ deal.cards = 1

\* Comments and messages point at each other.
CommentsOK ==
  /\ \A c \in DOMAIN comments :
       comments[c].origin # 0 => IsPosted(comments[c].origin)
  /\ \A c, d \in DOMAIN comments :
       comments[c].origin = comments[d].origin /\ comments[c].origin # 0 => c = d
  /\ \A c \in DOMAIN comments : comments[c].addressed => comments[c].origin = 0
  /\ \A m \in Outgoing : IsSent(m) =>
       /\ messages[m].comment \in DOMAIN comments
       /\ comments[messages[m].comment].origin = m
  /\ \A m \in DOMAIN messages \ Outgoing :
       /\ messages[m].comment \in DOMAIN comments
       /\ comments[messages[m].comment].origin = 0

\* The worker's list is an earlier state of the comments, and what it is about
\* to send is next and not there.
RunOK ==
  /\ Len(run.list) <= Len(comments)
  /\ \A c \in DOMAIN run.list :
       /\ run.list[c].origin = comments[c].origin
       /\ run.list[c].addressed => run.list[c].origin = 0
  /\ run.at \in {"post", "send"} =>
       /\ run.todo \subseteq Unsent
       /\ \A k \in Unsent \ run.todo : \A m \in run.todo : m < k
  /\ run.at = "send" =>
       LET m == Min(run.todo) IN
       /\ messages[m].state = "sending"
       /\ ~IsPosted(m) /\ ~Coming(m)

IInv == TypeOK /\ CardOK /\ MessagesOK /\ CommentsOK /\ RunOK

-----------------------------------------------------------------------------
(* Steps that do not touch what the invariant is about *)

\* The conversation keeps its messages, their senders, states and comments.
SameMessages ==
  /\ DOMAIN messages' = DOMAIN messages
  /\ \A m \in DOMAIN messages :
       /\ messages'[m].from = messages[m].from
       /\ messages'[m].state = messages[m].state
       /\ messages'[m].comment = messages[m].comment

\* The portal keeps its cards and comments, and the comments their origins.
SamePortal ==
  /\ deal'.cards = deal.cards
  /\ deal'.posted = deal.posted
  /\ late' = late
  /\ DOMAIN comments' = DOMAIN comments
  /\ Len(comments') = Len(comments)
  /\ \A c \in DOMAIN comments :
       /\ comments'[c].origin = comments[c].origin
       /\ comments'[c].addressed => comments[c].origin = 0

SameLink == link'.create = link.create /\ link'.deal = link.deal

\* The worker stays where it is, or goes where it does not send.
SameRun ==
  \/ run'.at = run.at /\ run'.todo = run.todo /\ run'.list = run.list
  \/ /\ run'.at \notin {"create", "post", "send"}
     /\ run'.at \notin {"idle", "find"} => deal.cards = 1
     /\ run'.list \in {run.list, <<>>, comments}

LEMMA SameSets ==
  ASSUME SameMessages
  PROVE  /\ Outgoing' = Outgoing
         /\ Unsent' = Unsent
         /\ \A m \in DOMAIN messages : Unanswered(m)' <=> Unanswered(m)
         /\ \A m \in DOMAIN messages : IsSent(m)' <=> IsSent(m)
<1>1. Outgoing' = Outgoing
  BY DEF SameMessages, Outgoing
<1>2. \A m \in Outgoing : m \in DOMAIN messages
  BY DEF Outgoing
<1> QED BY <1>1, <1>2 DEF SameMessages, Unsent, Unanswered, IsSent

LEMMA QuietCard ==
  ASSUME IInv, SamePortal, SameLink, SameRun
  PROVE  CardOK'
BY DEF IInv, CardOK, SamePortal, SameLink, SameRun, Coming

LEMMA QuietMessages ==
  ASSUME IInv, SameMessages, SamePortal
  PROVE  MessagesOK'
<1>1. \A m \in Outgoing : m \in DOMAIN messages
  BY DEF Outgoing
<1>2. \A m \in Outgoing : Unanswered(m) => EarlierSent(m)'
  BY <1>1, SameSets DEF IInv, MessagesOK, EarlierSent
<1>3. Range(deal.posted)' = Range(deal.posted)
  BY DEF SamePortal, Range
<1>4. \A m \in Nat : Coming(m)' <=> Coming(m)
  BY DEF SamePortal, Coming
<1>5. \A m \in Nat : IsPosted(m)' <=> IsPosted(m)
  BY <1>3 DEF IsPosted
<1>6. \A m \in Outgoing : messages'[m].state = messages[m].state
  BY <1>1 DEF SameMessages
<1>7. deal'.cards = deal.cards
  BY DEF SamePortal
<1> QED
  BY <1>1, <1>2, <1>3, <1>4, <1>5, <1>6, <1>7, SameSets DEF IInv, MessagesOK

LEMMA QuietComments ==
  ASSUME IInv, SameMessages, SamePortal
  PROVE  CommentsOK'
<1>1. \A m \in Outgoing : m \in DOMAIN messages
  BY DEF Outgoing
<1>2. \A m : IsPosted(m)' <=> IsPosted(m)
  BY DEF SamePortal, IsPosted, Range
<1> QED
  BY <1>1, <1>2, SameSets DEF IInv, CommentsOK, SameMessages, SamePortal

LEMMA QuietRun ==
  ASSUME IInv, SameMessages, SamePortal, SameRun
  PROVE  RunOK'
<1>1. \A m : IsPosted(m)' <=> IsPosted(m)
  BY DEF SamePortal, IsPosted, Range
<1>2. \A m : Coming(m)' <=> Coming(m)
  BY DEF SamePortal, Coming
<1>3. comments \in Seq(Comment) /\ Len(comments) \in Nat
  BY DEF IInv, TypeOK
<1>4. CASE run'.at = run.at /\ run'.todo = run.todo /\ run'.list = run.list
  <2>1. ASSUME run.at = "send"
        PROVE  /\ Min(run.todo) \in DOMAIN messages
               /\ messages'[Min(run.todo)].state = messages[Min(run.todo)].state
    BY <2>1, NextToSend DEF IInv, TypeOK, SameMessages
  <2>2. Len(run.list) <= Len(comments)'
    BY DEF IInv, RunOK, SamePortal
  <2>3. \A c \in DOMAIN run.list :
          /\ run.list[c].origin = comments'[c].origin
          /\ run.list[c].addressed => run.list[c].origin = 0
    <3>1. \A c \in DOMAIN run.list : c \in DOMAIN comments
      BY <1>3, ElementTypes DEF IInv, RunOK, TypeOK, Run
    <3> QED BY <3>1 DEF IInv, RunOK, SamePortal
  <2> QED
    BY <1>1, <1>2, <1>4, <2>1, <2>2, <2>3, SameSets DEF IInv, RunOK
<1>5. CASE /\ run'.at \notin {"create", "post", "send"}
           /\ run'.list \in {run.list, <<>>, comments}
  <2>1. Len(run'.list) <= Len(comments')
    BY <1>3, <1>5 DEF IInv, RunOK, SamePortal
  <2>2. \A c \in DOMAIN run'.list :
          /\ run'.list[c].origin = comments'[c].origin
          /\ run'.list[c].addressed => run'.list[c].origin = 0
    <3>1. \A c \in DOMAIN run.list : c \in DOMAIN comments
      BY <1>3, ElementTypes DEF IInv, RunOK, TypeOK, Run
    <3> QED BY <1>5, <3>1 DEF IInv, RunOK, CommentsOK, SamePortal
  <2> QED BY <1>5, <2>1, <2>2 DEF RunOK
<1> QED BY <1>4, <1>5 DEF SameRun

\* What Delivery sees is left alone.
Stutters ==
  /\ deal'.cards = deal.cards
  /\ deal'.posted = deal.posted
  /\ Outgoing' = Outgoing

LEMMA QuietKeeps ==
  ASSUME IInv, TypeOK', SameMessages, SamePortal, SameLink, SameRun
  PROVE  IInv' /\ Stutters
BY QuietCard, QuietMessages, QuietComments, QuietRun, SameSets
   DEF IInv, SamePortal, Stutters

-----------------------------------------------------------------------------
(* The steps, one by one *)

LEMMA InitInv == Init => IInv
<1> SUFFICES ASSUME Init PROVE IInv
  OBVIOUS
<1>1. TypeOK
  BY InitType
<1>2. PICK t \in Said : messages = <<Written("customer", t)>>
  BY DEF Init
<1>3. /\ deal.cards = 0 /\ deal.posted = <<>> /\ late = {} /\ comments = <<>>
      /\ run.at = "idle" /\ run.list = <<>> /\ link.deal = FALSE
  BY DEF Init, Idle
<1>4. DOMAIN messages = {1} /\ messages[1].from = "customer"
      /\ messages[1].state = "pending"
  BY <1>2 DEF Written
<1>5. CardOK
  BY <1>3 DEF CardOK, Coming
<1>6. MessagesOK
  BY <1>3, <1>4 DEF MessagesOK, Coming, Range, Outgoing, Unanswered
<1>7. CommentsOK
  BY <1>3, <1>4 DEF CommentsOK, Outgoing, IsSent
<1>8. RunOK
  BY <1>3 DEF RunOK
<1> QED BY <1>1, <1>5, <1>6, <1>7, <1>8 DEF IInv

\* The commands that write no message.
LEMMA CommandsKeep ==
  ASSUME IInv, TypeOK',
         \/ \E status \in Statuses : SetStatus(status)
         \/ \E user \in User : Assign(user)
         \/ \E side \in {"customer", "support"}, seen \in 0 .. ticket.seq :
              Read(side, seen)
         \/ \E c \in Company : LinkTenantCompany(c)
  PROVE  IInv' /\ Stutters
<1>1. SameMessages
  BY DEF SameMessages, SetStatus, Assign, Read, LinkTenantCompany
<1>2. SamePortal
  BY DEF SamePortal, SetStatus, Assign, Read, LinkTenantCompany, portal,
         IInv, CommentsOK
<1>3. SameLink
  BY DEF SameLink, SetStatus, Assign, Read, LinkTenantCompany, IInv, TypeOK, Link
<1>4. SameRun
  BY DEF SameRun, SetStatus, Assign, Read, LinkTenantCompany
<1> QED BY <1>1, <1>2, <1>3, <1>4, QuietKeeps

\* The staff of the portal, when it adds no comment.
LEMMA StaffKeeps ==
  ASSUME IInv, TypeOK',
         \/ \E c \in DOMAIN comments, t \in Replies, addressed \in BOOLEAN :
              StaffEdits(c, t, addressed)
         \/ \E c \in DOMAIN comments : StaffRemoves(c)
         \/ \E stage \in {"process", "success", "failure"} : StaffMoves(stage)
  PROVE  IInv' /\ Stutters
<1>1. SameMessages /\ SameLink /\ SameRun
  BY DEF SameMessages, SameLink, SameRun, StaffEdits, StaffRemoves, StaffMoves,
         desk
<1>2. SamePortal
  <2>1. \A c \in DOMAIN comments : comments[c] \in Comment
    BY ElementTypes DEF IInv
  <2>2. ASSUME NEW c \in DOMAIN comments, NEW t \in Replies,
               NEW addressed \in BOOLEAN, StaffEdits(c, t, addressed)
        PROVE  SamePortal
    <3>1. /\ DOMAIN comments' = DOMAIN comments
          /\ comments'[c].origin = comments[c].origin
          /\ comments'[c].addressed = addressed
          /\ \A d \in DOMAIN comments : d # c => comments'[d] = comments[d]
      BY <2>1, <2>2 DEF StaffEdits, Comment
    <3>2. Len(comments') = Len(comments)
      <4> DEFINE r == [comments[c] EXCEPT !.text = t, !.addressed = addressed]
      <4>1. r \in Comment
        BY <2>1 DEF Comment, Texts
      <4>2. comments' = [comments EXCEPT ![c] = r]
        BY <2>2 DEF StaffEdits, IInv, TypeOK
      <4> HIDE DEF r
      <4> QED BY <4>1, <4>2 DEF IInv, TypeOK
    <3> QED BY <2>2, <3>1, <3>2 DEF StaffEdits, SamePortal, IInv, CommentsOK
  <2>3. ASSUME NEW c \in DOMAIN comments, StaffRemoves(c)
        PROVE  SamePortal
    <3>1. /\ DOMAIN comments' = DOMAIN comments
          /\ comments'[c].origin = comments[c].origin
          /\ comments'[c].addressed = comments[c].addressed
          /\ \A d \in DOMAIN comments : d # c => comments'[d] = comments[d]
      BY <2>1, <2>3 DEF StaffRemoves, Comment
    <3>2. Len(comments') = Len(comments)
      BY <2>3 DEF StaffRemoves, IInv, TypeOK
    <3> QED BY <2>3, <3>1, <3>2 DEF StaffRemoves, SamePortal, IInv, CommentsOK
  <2>4. ASSUME NEW stage \in {"process", "success", "failure"}, StaffMoves(stage)
        PROVE  SamePortal
    BY <2>4 DEF StaffMoves, SamePortal, IInv, CommentsOK, TypeOK, Deal
  <2> QED BY <2>2, <2>3, <2>4
<1> QED BY <1>1, <1>2, QuietKeeps

LEMMA FailedRun ==
  ASSUME Failed
  PROVE  SameRun
BY IdleType DEF Failed, SameRun

\* The steps of the worker that only read, wait, or carry the customer and the
\* assignment.
LEMMA WorkerKeeps ==
  ASSUME IInv, TypeOK',
         \/ ClaimJob \/ ClaimPoll \/ Refused
         \/ GetDeal \/ DescribeCustomer \/ SyncCustomer \/ ReadAssignment
         \/ Reassign \/ Notify \/ PullComments \/ Finish
  PROVE  IInv' /\ Stutters
<1>0. deal \in Deal /\ link \in Link /\ run \in Run
  BY DEF IInv, TypeOK
<1>1. SameMessages
  BY DEF SameMessages, ClaimJob, ClaimPoll, Refused, GetDeal, DescribeCustomer,
         SyncCustomer, ReadAssignment, Reassign, Notify, PullComments, Finish, desk
<1>2. SamePortal
  <2>1. CASE SyncCustomer \/ Reassign \/ Notify
    BY <1>0, <2>1 DEF SyncCustomer, Reassign, Notify, SamePortal, Deal,
                      IInv, CommentsOK
  <2>2. CASE ~(SyncCustomer \/ Reassign \/ Notify)
    BY <2>2 DEF ClaimJob, ClaimPoll, Refused, GetDeal, DescribeCustomer,
                ReadAssignment, PullComments, Finish, portal, SamePortal,
                IInv, CommentsOK
  <2> QED BY <2>1, <2>2
<1>3. SameLink
  <2>1. CASE SyncCustomer \/ Reassign \/ Notify
    BY <1>0, <2>1 DEF SyncCustomer, Reassign, Notify, SameLink, Link
  <2>2. CASE ~(SyncCustomer \/ Reassign \/ Notify)
    BY <2>2 DEF ClaimJob, ClaimPoll, Refused, GetDeal, DescribeCustomer,
                ReadAssignment, PullComments, Finish, SameLink
  <2> QED BY <2>1, <2>2
<1>4. SameRun
  <2>1. CASE ClaimJob
    <3>1. run' = [Idle EXCEPT !.at = IF link.deal THEN "list" ELSE "find",
                              !.job = TRUE, !.who = link.who,
                              !.current = link.current]
      BY <2>1 DEF ClaimJob
    <3>2. run'.at = (IF link.deal THEN "list" ELSE "find") /\ run'.list = <<>>
      BY <3>1 DEF Idle
    <3> QED BY <3>2 DEF SameRun, IInv, CardOK
  <2>2. CASE ClaimPoll
    <3>1. run'.at = "get" /\ run'.list = <<>>
      BY <2>2 DEF ClaimPoll, Idle
    <3> QED BY <2>2, <3>1 DEF ClaimPoll, SameRun, IInv, CardOK
  <2>3. CASE Refused
    BY <2>3, FailedRun DEF Refused
  <2>4. CASE GetDeal
    <3>1. run'.at \in {"assign", "describe"} /\ run'.list = <<>>
      BY <2>4 DEF GetDeal, Idle
    <3> QED BY <2>4, <3>1 DEF GetDeal, SameRun, IInv, CardOK
  <2>5. CASE DescribeCustomer \/ SyncCustomer \/ Reassign \/ Notify
    <3>1. run'.at \in {"customer", "assign", "notify", "pull"}
          /\ run'.list = run.list
      BY <1>0, <2>5 DEF DescribeCustomer, SyncCustomer, Reassign, Notify, Goto, Run
    <3>2. run.at \in {"describe", "customer", "reassign", "notify"}
      BY <2>5 DEF DescribeCustomer, SyncCustomer, Reassign, Notify
    <3> QED BY <3>1, <3>2 DEF SameRun, IInv, CardOK
  <2>6. CASE ReadAssignment
    <3>1. run'.at \in {"reassign", "notify", "pull"} /\ run'.list = run.list
      BY <1>0, <2>6 DEF ReadAssignment, Run
    <3> QED BY <2>6, <3>1 DEF ReadAssignment, SameRun, IInv, CardOK
  <2>7. CASE PullComments
    <3>1. run'.at = "import" /\ run'.list = comments
      BY <2>7 DEF PullComments, Idle
    <3> QED BY <2>7, <3>1 DEF PullComments, SameRun, IInv, CardOK
  <2>8. CASE Finish
    BY <2>8, IdleType DEF Finish, SameRun
  <2> QED BY <2>1, <2>2, <2>3, <2>4, <2>5, <2>6, <2>7, <2>8
<1> QED BY <1>1, <1>2, <1>3, <1>4, QuietKeeps

\* A message written in Pass comes after all others and was not tried.
LEMMA ReplyKeeps ==
  ASSUME IInv, TypeOK', NEW from \in {"customer", "support"}, NEW text \in Said,
         Reply(from, text)
  PROVE  /\ IInv'
         /\ Outgoing' = Outgoing \cup {Len(messages) + 1}
         /\ UNCHANGED <<deal, comments, late>>
<1>0. PICK n \in Nat : n = Len(messages) + 1
  BY DEF IInv, TypeOK
<1>1. messages \in Seq(Message) /\ Written(from, text) \in Message
  BY WrittenType DEF IInv, TypeOK
<1>2. messages' = Append(messages, Written(from, text))
  BY DEF Reply
<1>3. /\ n \in Nat /\ n > 0 /\ DOMAIN messages' = DOMAIN messages \cup {n}
      /\ n \notin DOMAIN messages
      /\ messages'[n] = Written(from, text)
      /\ \A m \in DOMAIN messages : messages'[m] = messages[m] /\ m < n /\ m \in Nat
  BY <1>0, <1>1, <1>2
<1>4. messages'[n].from # "crm" /\ messages'[n].state = "pending"
  BY <1>3 DEF Written
<1>5. UNCHANGED <<deal, comments, told, late, run>> /\ SameLink
  BY DEF Reply, portal, SameLink, IInv, TypeOK, Link
<1>6. Outgoing' = Outgoing \cup {n}
  BY <1>3, <1>4 DEF Outgoing
<1>7. \A m \in DOMAIN messages :
        /\ Unanswered(m)' <=> Unanswered(m)
        /\ IsSent(m)' <=> IsSent(m)
  BY <1>3 DEF Unanswered, IsSent
<1>8. Outgoing \subseteq DOMAIN messages
  BY DEF Outgoing
<1>9. ~Unanswered(n)' /\ ~IsSent(n)'
  BY <1>4 DEF Unanswered, IsSent
<1>10. \A m \in Nat : /\ Coming(m)' <=> Coming(m)
                      /\ IsPosted(m)' <=> IsPosted(m)
  BY <1>5 DEF Coming, IsPosted
<1>11. CardOK'
  BY <1>5 DEF IInv, CardOK, Coming, SameLink
<1>12. MessagesOK'
  <2>1. ASSUME NEW m \in Outgoing', Unanswered(m)'
        PROVE  EarlierSent(m)'
    <3>1. m \in Outgoing /\ Unanswered(m) /\ m < n
      BY <1>3, <1>6, <1>7, <1>8, <1>9, <2>1
    <3>2. \A k \in Outgoing : k < m => IsSent(k)
      BY <3>1 DEF IInv, MessagesOK, EarlierSent
    <3>3. \A k \in Outgoing' : k < m => k \in Outgoing
      BY <1>3, <1>6, <1>8, <3>1
    <3> QED BY <1>7, <1>8, <3>2, <3>3 DEF EarlierSent
  <2>2. \A m \in Outgoing' : messages'[m].state # "in"
    BY <1>3, <1>4, <1>6, <1>8 DEF IInv, MessagesOK
  <2>3. \A m \in Range(deal.posted) :
          m \in Outgoing' /\ messages'[m].state # "pending"
    BY <1>3, <1>6, <1>8 DEF IInv, MessagesOK
  <2>4. \A m \in Nat \ {0} : Coming(m) =>
          m \in Outgoing' /\ Unanswered(m)' /\ ~IsPosted(m) /\ deal.cards = 1
    BY <1>6, <1>7, <1>8 DEF IInv, MessagesOK
  <2> QED BY <1>5, <1>10, <2>1, <2>2, <2>3, <2>4 DEF MessagesOK
<1>13. CommentsOK'
  <2>1. \A m \in Outgoing' : IsSent(m)' => m \in Outgoing /\ IsSent(m)
                                          /\ messages'[m] = messages[m]
    BY <1>3, <1>6, <1>7, <1>8, <1>9
  <2>2. \A m \in DOMAIN messages' \ Outgoing' :
          m \in DOMAIN messages \ Outgoing /\ messages'[m] = messages[m]
    BY <1>3, <1>6
  <2>3. \A m : IsPosted(m)' <=> IsPosted(m)
    BY <1>5 DEF IsPosted
  <2> QED BY <1>5, <2>1, <2>2, <2>3 DEF IInv, CommentsOK
<1>14. RunOK'
  <2>1. Unsent' = Unsent \cup {n}
    BY <1>3, <1>4, <1>6, <1>8 DEF Unsent
  <2>2. run.todo \subseteq DOMAIN messages
    BY DEF IInv, TypeOK
  <2>3. ASSUME run.at = "send"
        PROVE  /\ messages'[Min(run.todo)].state = messages[Min(run.todo)].state
               /\ Min(run.todo) \in Nat
    BY <1>3, <2>3, NextToSend DEF IInv, TypeOK
  <2>4. run.at \in {"post", "send"} =>
          /\ run.todo \subseteq Unsent'
          /\ \A k \in Unsent' \ run.todo : \A m \in run.todo : m < k
    BY <1>3, <2>1, <2>2 DEF IInv, RunOK
  <2> QED BY <1>5, <1>10, <2>3, <2>4 DEF IInv, RunOK
<1> QED BY <1>5, <1>6, <1>0, <1>11, <1>12, <1>13, <1>14 DEF IInv

\* A comment of the staff.
LEMMA StaffWritesKeeps ==
  ASSUME IInv, TypeOK', NEW t \in Replies, NEW addressed \in BOOLEAN,
         StaffWrites(t, addressed)
  PROVE  IInv' /\ Stutters
<1> DEFINE r == [origin |-> 0, text |-> t, addressed |-> addressed,
                 there |-> TRUE]
<1>1. comments \in Seq(Comment) /\ r \in Comment
  BY DEF IInv, TypeOK, Comment, Texts
<1>2. /\ comments' = Append(comments, r)
      /\ UNCHANGED <<deal, told, late, link, run, messages, ticket>>
  BY DEF StaffWrites, desk
<1>3. r.origin = 0
  OBVIOUS
<1> HIDE DEF r
<1>4. /\ Len(comments) \in Nat /\ Len(comments') = Len(comments) + 1
      /\ DOMAIN comments' = DOMAIN comments \cup {Len(comments) + 1}
      /\ comments'[Len(comments) + 1] = r
      /\ \A c \in DOMAIN comments : comments'[c] = comments[c]
  BY <1>1, <1>2
<1>5. CardOK' /\ MessagesOK'
  BY <1>2 DEF IInv, CardOK, MessagesOK, Coming, IsPosted, IsSent, EarlierSent,
              Outgoing, Unanswered
<1>6. CommentsOK'
  <2>1. \A m : (IsPosted(m)' <=> IsPosted(m)) /\ (IsSent(m)' <=> IsSent(m))
    BY <1>2 DEF IsPosted, IsSent
  <2>2. Outgoing' = Outgoing
    BY <1>2 DEF Outgoing
  <2> QED BY <1>2, <1>3, <1>4, <2>1, <2>2 DEF IInv, CommentsOK
<1>7. RunOK'
  <2>1. \A c \in DOMAIN run.list : c \in DOMAIN comments
    BY <1>1, ElementTypes DEF IInv, RunOK, TypeOK, Run
  <2>2. \A m : (IsPosted(m)' <=> IsPosted(m)) /\ (Coming(m)' <=> Coming(m))
    BY <1>2 DEF IsPosted, Coming
  <2>3. Unsent' = Unsent
    BY <1>2 DEF Unsent, Outgoing
  <2>4. run.list \in Seq(Comment)
    BY DEF IInv, TypeOK, Run
  <2> QED BY <1>2, <1>4, <2>1, <2>2, <2>3, <2>4 DEF IInv, RunOK
<1> QED BY <1>2, <1>5, <1>6, <1>7 DEF IInv, Stutters, Outgoing

\* A step that changes what is known of the card, but no message and no
\* comment, and after which the worker does not send messages.
LEMMA CardStep ==
  ASSUME IInv, TypeOK', CardOK', UNCHANGED <<messages, comments>>,
         deal'.posted = deal.posted, deal.cards = 1 => deal'.cards = 1,
         \A m \in Nat \ {0} : Coming(m)' <=> Coming(m),
         \/ run' = run
         \/ run'.at \notin {"post", "send"} /\ run'.list \in {run.list, <<>>}
  PROVE  IInv' /\ Outgoing' = Outgoing
<1>1. /\ Outgoing' = Outgoing /\ Unsent' = Unsent
      /\ \A m : /\ Unanswered(m)' <=> Unanswered(m)
                /\ IsSent(m)' <=> IsSent(m)
                /\ IsPosted(m)' <=> IsPosted(m)
  BY DEF Outgoing, Unsent, Unanswered, IsSent, IsPosted
<1>2. \A m : EarlierSent(m)' <=> EarlierSent(m)
  BY <1>1 DEF EarlierSent
<1>3. MessagesOK'
  BY <1>1, <1>2 DEF IInv, MessagesOK
<1>4. CommentsOK'
  BY <1>1 DEF IInv, CommentsOK
<1>5. RunOK'
  <2>1. CASE run' = run
    <3>1. run.at = "send" => Min(run.todo) \in Nat \ {0}
      BY NextToSend, ElementTypes DEF IInv, TypeOK
    <3> QED BY <1>1, <2>1, <3>1 DEF IInv, RunOK
  <2>2. CASE run'.at \notin {"post", "send"} /\ run'.list \in {run.list, <<>>}
    <3>1. comments \in Seq(Comment)
      BY DEF IInv, TypeOK
    <3> QED BY <2>2, <3>1 DEF IInv, RunOK
  <2> QED BY <2>1, <2>2
<1> QED BY <1>1, <1>3, <1>4, <1>5 DEF IInv

\* What Delivery calls opening the card.
Opens ==
  /\ deal.cards = 0 /\ deal'.cards = 1
  /\ deal'.posted = deal.posted
  /\ Outgoing' = Outgoing

LEMMA FindCardKeeps ==
  ASSUME IInv, TypeOK', FindCard
  PROVE  IInv' /\ Stutters
<1>1. run \in Run /\ link \in Link /\ deal.cards \in {0, 1}
  BY DEF IInv, TypeOK, CardOK
<1>2. UNCHANGED <<messages, comments, deal, late>>
  BY DEF FindCard, desk, portal
<1>3. \A m \in Nat : Coming(m)' <=> Coming(m)
  BY <1>2 DEF Coming
<1>4. CASE /\ deal.cards = 1
           /\ link' = [link EXCEPT !.managed = TRUE, !.deal = TRUE,
                                   !.create = "linked"]
           /\ Goto("list")
  <2>1. run'.at = "list" /\ run'.list = run.list
    BY <1>1, <1>4 DEF Goto, Run
  <2>2. CardOK'
    BY <1>2, <1>3, <1>4, <2>1 DEF IInv, CardOK, Coming
  <2> QED BY <1>2, <1>3, <2>1, <2>2, CardStep DEF Stutters
<1>5. CASE Failed /\ UNCHANGED link
  <2>1. run'.at = "idle" /\ run'.list = <<>>
    BY <1>5, IdleType DEF Failed
  <2>2. CardOK'
    BY <1>2, <1>5, <2>1 DEF IInv, CardOK, Coming
  <2> QED BY <1>2, <1>3, <2>1, <2>2, CardStep DEF Stutters
<1>6. CASE /\ deal.cards = 0
           /\ link.create \notin {"sending", "uncertain"}
           /\ link' = [link EXCEPT !.create = "sending"]
           /\ Goto("create")
  <2>1. run'.at = "create" /\ run'.list = run.list
    BY <1>1, <1>6 DEF Goto, Run
  <2>2. link'.create = "sending" /\ link'.deal = link.deal
    BY <1>1, <1>6 DEF Link
  <2>3. CardOK'
    BY <1>2, <1>3, <1>6, <2>1, <2>2 DEF IInv, CardOK, Coming
  <2> QED BY <1>2, <1>3, <2>1, <2>3, CardStep DEF Stutters
<1> QED BY <1>4, <1>5, <1>6 DEF FindCard

LEMMA CreateCardKeeps ==
  ASSUME IInv, TypeOK', CreateCard
  PROVE  IInv' /\ (Stutters \/ Opens)
<1>1. /\ run \in Run /\ link \in Link /\ deal \in Deal
      /\ deal.cards = 0 /\ link.create = "sending" /\ ~Coming(0)
  BY DEF IInv, TypeOK, CardOK, CreateCard
<1>2. UNCHANGED <<messages, comments>>
  BY DEF CreateCard, desk
<1>3. CASE /\ AddCard(run.who) /\ UNCHANGED late
           /\ Goto("list")
  <2>1. run'.at = "list" /\ run'.list = run.list
    BY <1>1, <1>3 DEF Goto, Run
  <2>2. deal'.cards = 1 /\ deal'.posted = deal.posted
    BY <1>1, <1>3 DEF AddCard, Deal
  <2>3. \A m \in Nat : Coming(m)' <=> Coming(m)
    BY <1>3 DEF Coming
  <2>4. CardOK'
    BY <1>1, <1>3, <2>1, <2>2, <2>3 DEF IInv, CardOK, Coming
  <2> QED BY <1>1, <1>2, <2>1, <2>2, <2>3, <2>4, CardStep DEF Opens
<1>4. CASE /\ link' = [link EXCEPT !.create = "pending"]
           /\ Failed /\ UNCHANGED <<deal, late>>
  <2>1. run'.at = "idle" /\ run'.list = <<>>
    BY <1>4, IdleType DEF Failed
  <2>2. \A m \in Nat : Coming(m)' <=> Coming(m)
    BY <1>4 DEF Coming
  <2>3. CardOK'
    BY <1>1, <1>4, <2>1, <2>2 DEF IInv, CardOK, Coming, Link
  <2> QED BY <1>2, <1>4, <2>1, <2>2, <2>3, CardStep DEF Stutters
<1>5. CASE /\ link' = [link EXCEPT !.create = "uncertain"]
           /\ late' = late \cup {[what |-> 0, who |-> run.who]}
           /\ Failed /\ UNCHANGED deal
  <2>1. run'.at = "idle" /\ run'.list = <<>>
    BY <1>5, IdleType DEF Failed
  <2>2. \A m \in Nat \ {0} : Coming(m)' <=> Coming(m)
    BY <1>5 DEF Coming
  <2>3. CardOK'
    BY <1>1, <1>5, <2>1, <2>2 DEF IInv, CardOK, Coming, Link
  <2> QED BY <1>2, <1>5, <2>1, <2>2, <2>3, CardStep DEF Stutters
<1> QED BY <1>3, <1>4, <1>5 DEF CreateCard

\* The card whose creation had no answer turns up.
LEMMA CardArrives ==
  ASSUME IInv, TypeOK', NEW call \in late, call.what = 0, Arrive(call)
  PROVE  IInv' /\ Opens
<1>1. /\ deal \in Deal /\ deal.cards = 0 /\ UNCHANGED link
      /\ link.create \in {"sending", "uncertain"}
      /\ run.at \in {"idle", "find"}
  BY DEF IInv, TypeOK, CardOK, Coming, Arrive
<1>2. UNCHANGED <<messages, comments, run>>
  BY DEF Arrive, desk
<1>3. deal'.cards = 1 /\ deal'.posted = deal.posted
  <2>1. AddCard(call.who)
    BY DEF Arrive
  <2> QED BY <1>1, <2>1 DEF AddCard, Deal
<1>4. late' = late \ {call}
  BY DEF Arrive
<1>5. \A m \in Nat \ {0} : Coming(m)' <=> Coming(m)
  BY <1>4 DEF Coming
<1>6. CardOK'
  BY <1>1, <1>2, <1>3, <1>4 DEF IInv, CardOK, Coming
<1> QED BY <1>1, <1>2, <1>3, <1>5, <1>6, CardStep DEF Opens

\* The worker reads the comments and takes the unsent messages, from the first.
LEMMA ListCommentsKeeps ==
  ASSUME IInv, TypeOK', ListComments
  PROVE  IInv' /\ Stutters
<1>1. run \in Run /\ comments \in Seq(Comment)
  BY DEF IInv, TypeOK
<1>2. run'.at = "post" /\ run'.list = comments /\ run'.todo = Unsent
  BY <1>1 DEF ListComments, Run
<1>3. UNCHANGED <<messages, deal, comments, late, link>>
  BY DEF ListComments, desk, portal
<1>4. /\ Outgoing' = Outgoing /\ Unsent' = Unsent
      /\ \A m : /\ Unanswered(m)' <=> Unanswered(m)
                /\ IsSent(m)' <=> IsSent(m)
                /\ IsPosted(m)' <=> IsPosted(m)
                /\ Coming(m)' <=> Coming(m)
  BY <1>3 DEF Outgoing, Unsent, Unanswered, IsSent, IsPosted, Coming
<1>5. CardOK'
  BY <1>2, <1>3, <1>4 DEF IInv, CardOK, ListComments
<1>6. MessagesOK'
  <2>1. \A m : EarlierSent(m)' <=> EarlierSent(m)
    BY <1>4 DEF EarlierSent
  <2> QED BY <1>3, <1>4, <2>1 DEF IInv, MessagesOK
<1>7. CommentsOK'
  BY <1>3, <1>4 DEF IInv, CommentsOK
<1>8. RunOK'
  <2>1. Len(run'.list) <= Len(comments')
    BY <1>1, <1>2, <1>3
  <2> QED BY <1>2, <1>3, <1>4, <2>1 DEF IInv, RunOK, CommentsOK
<1> QED BY <1>3, <1>4, <1>5, <1>6, <1>7, <1>8 DEF IInv, Stutters

\* What the worker is about to send is the first unsent message.
LEMMA FirstUnsent ==
  ASSUME IInv, run.at \in {"post", "send"}, run.todo # {}
  PROVE  /\ Min(run.todo) \in run.todo
         /\ Min(run.todo) \in Unsent /\ Min(run.todo) \in Outgoing
         /\ Min(run.todo) \in DOMAIN messages
         /\ Min(run.todo) \in Nat \ {0}
         /\ EarlierSent(Min(run.todo))
         /\ deal.cards = 1
<1> DEFINE m == Min(run.todo)
<1>1. m \in run.todo /\ m \in DOMAIN messages /\ m \in Nat
      /\ \A k \in run.todo : m <= k
  BY NextToSend DEF IInv
<1> HIDE DEF m
<1>2. run.todo \subseteq Unsent /\ \A k \in Unsent \ run.todo : m < k
  BY <1>1 DEF IInv, RunOK
<1>3. m # 0 /\ \A k \in Outgoing : k \in Nat
  BY <1>1, SetTypes, ElementTypes DEF IInv
<1>4. ASSUME NEW k \in Outgoing, k < m PROVE IsSent(k)
  <2>1. k \notin Unsent
    BY <1>1, <1>2, <1>3, <1>4
  <2> QED BY <2>1 DEF Unsent, IsSent
<1>5. EarlierSent(m)
  BY <1>4 DEF EarlierSent
<1>6. m \in Unsent /\ m \in Outgoing
  BY <1>1, <1>2 DEF Unsent
<1>7. deal.cards = 1
  BY DEF IInv, CardOK
<1> QED BY <1>1, <1>3, <1>5, <1>6, <1>7 DEF m

\* The states an outgoing message can be in.
LEMMA OutgoingStates ==
  ASSUME IInv, NEW m \in Outgoing
  PROVE  /\ m \in DOMAIN messages /\ m \in Nat \ {0}
         /\ messages[m].state \in {"pending", "sending", "uncertain", "sent"}
         /\ messages[m] \in Message
<1>1. m \in DOMAIN messages /\ messages[m] \in Message /\ m \in 1 .. Len(messages)
  BY SetTypes, ElementTypes DEF IInv
<1>2. Len(messages) \in Nat
  BY DEF IInv, TypeOK
<1>3. messages[m].state # "in"
  BY DEF IInv, MessagesOK
<1> QED BY <1>1, <1>2, <1>3 DEF Message

\* Only one message can be on the card without Pass knowing it.
LEMMA OneUnanswered ==
  ASSUME IInv, NEW m \in Outgoing, NEW o \in Outgoing,
         Unanswered(m), Unanswered(o)
  PROVE  m = o
<1>1. EarlierSent(m) /\ EarlierSent(o)
  BY DEF IInv, MessagesOK
<1>2. ~IsSent(m) /\ ~IsSent(o)
  BY DEF Unanswered, IsSent
<1>3. m \in Nat /\ o \in Nat
  BY OutgoingStates
<1>4. ~(m < o) /\ ~(o < m)
  BY <1>1, <1>2 DEF EarlierSent
<1> QED BY <1>3, <1>4

\* A comment that is taken for a message is that message.
LEMMA MatchIsTrue ==
  ASSUME IInv, NEW m \in Outgoing, NEW c \in Matches(m)
  PROVE  /\ c \in DOMAIN comments /\ c \in Nat
         /\ comments[c].origin = m /\ Unanswered(m)
<1>1. /\ c \in DOMAIN run.list /\ c \notin Linked /\ Unanswered(m)
      /\ run.list[c].origin # 0
  BY DEF Matches, There
<1>2. c \in DOMAIN comments /\ c \in Nat
  <2>1. c \in 1 .. Len(run.list) /\ run.list \in Seq(Comment)
        /\ comments \in Seq(Comment)
    BY <1>1, ElementTypes DEF IInv, TypeOK, Run
  <2>2. Len(run.list) <= Len(comments) /\ Len(run.list) \in Nat
        /\ Len(comments) \in Nat
    BY <2>1 DEF IInv, RunOK
  <2> QED BY <2>1, <2>2
<1>3. PICK o : o = comments[c].origin
  OBVIOUS
<1>4. o # 0 /\ IsPosted(o)
  BY <1>1, <1>2, <1>3 DEF IInv, RunOK, CommentsOK
<1>5. o \in Outgoing /\ messages[o].state # "pending"
  BY <1>4 DEF IInv, MessagesOK, IsPosted
<1>6. ~IsSent(o)
  <2> SUFFICES ASSUME IsSent(o) PROVE FALSE
    OBVIOUS
  <2>1. messages[o].comment \in DOMAIN comments
        /\ comments[messages[o].comment].origin = o
    BY <1>5 DEF IInv, CommentsOK
  <2>2. messages[o].comment = c
    BY <1>2, <1>3, <1>4, <2>1 DEF IInv, CommentsOK
  <2>3. o \in Outgoing \ Unsent
    BY <1>5 DEF Unsent, IsSent
  <2>4. c \in Linked
    BY <2>2, <2>3 DEF Linked
  <2> QED BY <1>1, <2>4
<1>7. Unanswered(o)
  BY <1>5, <1>6, OutgoingStates DEF Unanswered, IsSent
<1>8. o = m
  BY <1>1, <1>5, <1>7, OneUnanswered
<1> QED BY <1>1, <1>2, <1>3, <1>8

\* One message of Pass changes its state, no other message changes.
OneChanges(m) ==
  /\ DOMAIN messages' = DOMAIN messages
  /\ messages'[m].from = messages[m].from
  /\ \A k \in DOMAIN messages : k # m => messages'[k] = messages[k]

LEMMA OthersStay ==
  ASSUME IInv, NEW m \in Outgoing, OneChanges(m)
  PROVE  /\ Outgoing' = Outgoing
         /\ \A k \in DOMAIN messages \ {m} :
              /\ Unanswered(k)' <=> Unanswered(k)
              /\ IsSent(k)' <=> IsSent(k)
              /\ messages'[k] = messages[k]
         /\ Unsent' \ {m} = Unsent \ {m}
         /\ m \in Unsent' <=> ~IsSent(m)'
         /\ Outgoing \subseteq DOMAIN messages
<1>1. Outgoing \subseteq DOMAIN messages
  BY DEF Outgoing
<1>2. Outgoing' = Outgoing
  BY <1>1 DEF OneChanges, Outgoing
<1> QED BY <1>1, <1>2 DEF OneChanges, Unanswered, IsSent, Unsent

\* Messages that were sent stay so: what was first unsent still is.
LEMMA EarlierStaysSent ==
  ASSUME IInv, NEW m \in Outgoing, OneChanges(m), IsSent(m) => IsSent(m)'
  PROVE  \A k \in Outgoing : EarlierSent(k) => EarlierSent(k)'
BY OthersStay DEF EarlierSent

\* The message was found on the card.
LEMMA FoundKeeps ==
  ASSUME IInv, TypeOK', run.at = "post", run.todo # {},
         NEW m, m = Min(run.todo), NEW c \in Matches(m),
         messages' = Sent(m, c),
         run' = [run EXCEPT !.todo = @ \ {m}],
         UNCHANGED <<link, deal, comments, late>>
  PROVE  IInv' /\ Stutters
<1>1. m \in run.todo /\ m \in Outgoing /\ m \in Nat \ {0} /\ m \in DOMAIN messages
      /\ deal.cards = 1
  BY FirstUnsent
<1>2. /\ c \in DOMAIN comments /\ c \in Nat
      /\ comments[c].origin = m /\ Unanswered(m)
  BY <1>1, MatchIsTrue
<1>3. /\ DOMAIN messages' = DOMAIN messages
      /\ messages'[m] = [messages[m] EXCEPT !.state = "sent", !.comment = c,
                                            !.known = {}]
      /\ \A k \in DOMAIN messages : k # m => messages'[k] = messages[k]
  BY <1>1, <1>2, SentChange DEF IInv
<1>4. messages[m] \in Message
  BY <1>1, OutgoingStates
<1>5. /\ messages'[m].state = "sent" /\ messages'[m].comment = c
      /\ messages'[m].from = messages[m].from
  BY <1>3, <1>4 DEF Message
<1>6. OneChanges(m)
  BY <1>3, <1>5 DEF OneChanges
<1>7. IsPosted(m) /\ ~Coming(m)
  BY <1>1, <1>2 DEF IInv, CommentsOK, MessagesOK
<1>8. \A k : (IsPosted(k)' <=> IsPosted(k)) /\ (Coming(k)' <=> Coming(k))
  BY DEF IsPosted, Coming
<1>9. run'.at = "post" /\ run'.list = run.list /\ run'.todo = run.todo \ {m}
  BY DEF IInv, TypeOK, Run
<1>10. IsSent(m)' /\ ~Unanswered(m)'
  BY <1>5, <1>1 DEF IsSent, Unanswered
<1>11. CardOK'
  BY <1>1, <1>8, <1>9 DEF IInv, CardOK
<1>12. MessagesOK'
  <2>1. \A k \in Outgoing' : messages'[k].state # "in"
    BY <1>5, <1>6, OthersStay, <1>1 DEF IInv, MessagesOK
  <2>2. \A k \in Outgoing' : Unanswered(k)' => EarlierSent(k)'
    BY <1>1, <1>6, <1>10, OthersStay, EarlierStaysSent DEF IInv, MessagesOK
  <2>3. \A k \in Range(deal.posted) :
          k \in Outgoing' /\ messages'[k].state # "pending"
    BY <1>1, <1>5, <1>6, OthersStay DEF IInv, MessagesOK
  <2>4. \A k \in Nat \ {0} : Coming(k) =>
          k \in Outgoing' /\ Unanswered(k)' /\ ~IsPosted(k) /\ deal.cards = 1
    BY <1>1, <1>6, <1>7, OthersStay DEF IInv, MessagesOK
  <2> QED BY <1>8, <2>1, <2>2, <2>3, <2>4 DEF MessagesOK
<1>13. CommentsOK'
  <2>1. \A k \in Outgoing' : IsSent(k)' =>
          /\ messages'[k].comment \in DOMAIN comments
          /\ comments[messages'[k].comment].origin = k
    BY <1>1, <1>2, <1>5, <1>6, OthersStay DEF IInv, CommentsOK
  <2>2. \A k \in DOMAIN messages' \ Outgoing' :
          /\ messages'[k].comment \in DOMAIN comments
          /\ comments[messages'[k].comment].origin = 0
    BY <1>1, <1>3, <1>6, OthersStay DEF IInv, CommentsOK
  <2> QED BY <1>8, <2>1, <2>2 DEF IInv, CommentsOK
<1>14. RunOK'
  <2>1. Unsent' = Unsent \ {m}
    BY <1>1, <1>6, <1>10, OthersStay
  <2> QED BY <1>9, <2>1 DEF IInv, RunOK
<1> QED BY <1>1, <1>6, <1>11, <1>12, <1>13, <1>14, OthersStay DEF IInv, Stutters

\* The message is marked before it is sent.
LEMMA SendingKeeps ==
  ASSUME IInv, TypeOK', run.at = "post", run.todo # {},
         NEW m, m = Min(run.todo), ~Unanswered(m),
         NEW known \in SUBSET Nat,
         messages' = [messages EXCEPT ![m].state = "sending",
                                      ![m].known = known],
         Goto("send"), UNCHANGED <<link, deal, comments, late>>
  PROVE  IInv' /\ Stutters
<1>1. m \in run.todo /\ m \in Unsent /\ m \in Outgoing /\ m \in Nat \ {0}
      /\ m \in DOMAIN messages /\ EarlierSent(m) /\ deal.cards = 1
  BY FirstUnsent
<1>2. messages[m] \in Message /\ messages[m].state = "pending"
  BY <1>1, OutgoingStates DEF Unanswered, Unsent
<1>3. /\ DOMAIN messages' = DOMAIN messages
      /\ messages'[m] = [messages[m] EXCEPT !.state = "sending",
                                            !.known = known]
      /\ \A k \in DOMAIN messages : k # m => messages'[k] = messages[k]
  BY <1>1, SendingChange DEF IInv
<1>4. /\ messages'[m].state = "sending"
      /\ messages'[m].from = messages[m].from
  <2>1. PICK r \in Message : r = messages[m]
    BY <1>2
  <2>2. messages'[m] = [r EXCEPT !.state = "sending", !.known = known]
    BY <1>3, <2>1
  <2>3. messages'[m].state = "sending" /\ messages'[m].from = r.from
    BY <2>2 DEF Message
  <2> QED BY <2>1, <2>3
<1>5. OneChanges(m)
  BY <1>3, <1>4 DEF OneChanges
<1>6. ~IsPosted(m) /\ ~Coming(m) /\ ~IsSent(m)
  BY <1>1, <1>2 DEF IInv, MessagesOK, IsPosted, IsSent
<1>7. \A k : (IsPosted(k)' <=> IsPosted(k)) /\ (Coming(k)' <=> Coming(k))
  BY DEF IsPosted, Coming
<1>8. run'.at = "send" /\ run'.list = run.list /\ run'.todo = run.todo
  BY GotoType DEF IInv, Points
<1>9. ~IsSent(m)'
  BY <1>4 DEF IsSent
<1>10. CardOK'
  BY <1>1, <1>7, <1>8 DEF IInv, CardOK
<1>11. MessagesOK'
  <2>1. \A k \in Outgoing' : messages'[k].state # "in"
    BY <1>1, <1>4, <1>5, OthersStay DEF IInv, MessagesOK
  <2>2. \A k \in Outgoing' : Unanswered(k)' => EarlierSent(k)'
    BY <1>1, <1>5, <1>6, OthersStay, EarlierStaysSent DEF IInv, MessagesOK
  <2>3. \A k \in Range(deal.posted) :
          k \in Outgoing' /\ messages'[k].state # "pending"
    BY <1>1, <1>4, <1>5, OthersStay DEF IInv, MessagesOK
  <2>4. \A k \in Nat \ {0} : Coming(k) =>
          k \in Outgoing' /\ Unanswered(k)' /\ ~IsPosted(k) /\ deal.cards = 1
    BY <1>1, <1>5, <1>6, OthersStay DEF IInv, MessagesOK
  <2> QED BY <1>7, <2>1, <2>2, <2>3, <2>4 DEF MessagesOK
<1>12. CommentsOK'
  <2>1. \A k \in Outgoing' : IsSent(k)' =>
          /\ messages'[k].comment \in DOMAIN comments
          /\ comments[messages'[k].comment].origin = k
    BY <1>1, <1>5, <1>9, OthersStay DEF IInv, CommentsOK
  <2>2. \A k \in DOMAIN messages' \ Outgoing' :
          /\ messages'[k].comment \in DOMAIN comments
          /\ comments[messages'[k].comment].origin = 0
    BY <1>1, <1>3, <1>5, OthersStay DEF IInv, CommentsOK
  <2> QED BY <1>7, <2>1, <2>2 DEF IInv, CommentsOK
<1>13. RunOK'
  <2>1. Unsent' = Unsent
    BY <1>1, <1>5, <1>9, OthersStay
  <2>2. Min(run'.todo) = m
    BY <1>8
  <2> QED BY <1>4, <1>6, <1>7, <1>8, <2>1, <2>2 DEF IInv, RunOK
<1> QED BY <1>1, <1>5, <1>10, <1>11, <1>12, <1>13, OthersStay DEF IInv, Stutters

LEMMA NextMessageKeeps ==
  ASSUME IInv, TypeOK', NextMessage
  PROVE  IInv' /\ Stutters
<1>1. run.at = "post" /\ run.todo # {}
      /\ UNCHANGED <<link, deal, comments, late>>
  BY DEF NextMessage, portal
<1>2. PICK m : m = Min(run.todo)
  OBVIOUS
<1>3. m \in Outgoing /\ m \in DOMAIN messages
  BY <1>1, <1>2, FirstUnsent
<1>4. \/ /\ Cardinality(Matches(m)) = 1
         /\ messages' = Sent(m, Min(Matches(m)))
         /\ run' = [run EXCEPT !.todo = @ \ {m}]
      \/ Failed /\ UNCHANGED messages
      \/ /\ ~Unanswered(m)
         /\ messages' = [messages EXCEPT
              ![m].state = "sending",
              ![m].known = There(run.list) \cup Linked]
         /\ Goto("send")
  BY <1>2 DEF NextMessage
<1>5. CASE /\ Cardinality(Matches(m)) = 1
           /\ messages' = Sent(m, Min(Matches(m)))
           /\ run' = [run EXCEPT !.todo = @ \ {m}]
  <2>1. Matches(m) \in SUBSET Nat /\ Matches(m) # {}
    <3>1. Matches(m) \in SUBSET Nat
      BY SetTypes DEF Matches, IInv
    <3>2. Cardinality({}) = 0
      BY FS_EmptySet
    <3> QED BY <1>5, <3>1, <3>2
  <2>2. Min(Matches(m)) \in Matches(m)
    BY <2>1, MinIn
  <2> QED BY <1>1, <1>2, <1>5, <2>2, FoundKeeps
<1>6. CASE Failed /\ UNCHANGED messages
  <2>1. SameMessages /\ SameLink /\ SameRun
    BY <1>1, <1>6, FailedRun DEF SameMessages, SameLink
  <2>2. SamePortal
    BY <1>1 DEF SamePortal, IInv, CommentsOK
  <2> QED BY <2>1, <2>2, QuietKeeps
<1>7. CASE /\ ~Unanswered(m)
           /\ messages' = [messages EXCEPT
                ![m].state = "sending",
                ![m].known = There(run.list) \cup Linked]
           /\ Goto("send")
  <2>1. There(run.list) \cup Linked \in SUBSET Nat
    BY SetTypes DEF IInv
  <2> QED BY <1>1, <1>2, <1>7, <2>1, SendingKeeps
<1> QED BY <1>4, <1>5, <1>6, <1>7

\* What Delivery calls posting the message m.
Posts(m) ==
  /\ deal.cards = 1 /\ deal'.cards = 1
  /\ m \in Outgoing /\ ~IsPosted(m)
  /\ \A k \in Outgoing : k < m => IsPosted(k)
  /\ deal'.posted = Append(deal.posted, m)
  /\ Outgoing' = Outgoing

\* Messages that were sent are on the card.
LEMMA EarlierPosted ==
  ASSUME IInv, NEW m \in Outgoing, EarlierSent(m)
  PROVE  \A k \in Outgoing : k < m => IsPosted(k)
<1> SUFFICES ASSUME NEW k \in Outgoing, k < m PROVE IsPosted(k)
  OBVIOUS
<1>1. IsSent(k) /\ k # 0
  BY OutgoingStates DEF EarlierSent
<1>2. messages[k].comment \in DOMAIN comments
      /\ comments[messages[k].comment].origin = k
  BY <1>1 DEF IInv, CommentsOK
<1> QED BY <1>1, <1>2 DEF IInv, CommentsOK

\* The comment of a message that is not on the card yet.
LEMMA NewComment ==
  ASSUME IInv, NEW m \in Outgoing, AddComment(m)
  PROVE  /\ deal'.cards = deal.cards
         /\ deal'.posted = Append(deal.posted, m)
         /\ \A k : IsPosted(k)' <=> k = m \/ IsPosted(k)
         /\ Len(comments) \in Nat /\ Len(comments') = Len(comments) + 1
         /\ DOMAIN comments = 1 .. Len(comments)
         /\ DOMAIN comments' = DOMAIN comments \cup {Len(comments) + 1}
         /\ comments'[Len(comments) + 1].origin = m
         /\ comments'[Len(comments) + 1].addressed = FALSE
         /\ \A c \in DOMAIN comments : comments'[c] = comments[c]
<1> DEFINE r == [origin |-> m, text |-> messages[m].text, addressed |-> FALSE,
                 there |-> TRUE]
<1>1. deal \in Deal /\ deal.posted \in Seq(Nat) /\ m \in Nat
  BY OutgoingStates DEF IInv, TypeOK, Deal
<1>2. deal'.cards = deal.cards /\ deal'.posted = Append(deal.posted, m)
  BY <1>1 DEF AddComment, Deal
<1>3. \A k : IsPosted(k)' <=> k = m \/ IsPosted(k)
  <2> DEFINE p == deal.posted
             q == Append(p, m)
  <2>1. p \in Seq(Nat)
    BY <1>1
  <2> HIDE DEF p
  <2>2. /\ DOMAIN q = DOMAIN p \cup {Len(p) + 1}
        /\ q[Len(p) + 1] = m
        /\ \A i \in DOMAIN p : q[i] = p[i]
    BY <1>1, <2>1
  <2> HIDE DEF q
  <2>3. Range(q) = Range(p) \cup {m}
    BY <2>2 DEF Range
  <2>4. Range(deal.posted)' = Range(q)
    BY <1>2 DEF p, q
  <2> QED BY <2>3, <2>4 DEF IsPosted, p
<1>4. messages[m].text \in Texts
  BY OutgoingStates DEF Message
<1>5. r \in Comment /\ comments \in Seq(Comment)
  BY <1>1, <1>4 DEF Comment, IInv, TypeOK
<1>6. r.origin = m /\ r.addressed = FALSE
  OBVIOUS
<1>7. comments' = Append(comments, r)
  BY DEF AddComment
<1> HIDE DEF r
<1> QED BY <1>2, <1>3, <1>5, <1>6, <1>7

\* What a new comment leaves of CommentsOK and of the worker's list.
LEMMA ListKept ==
  ASSUME IInv, NEW m \in Outgoing, AddComment(m), run'.list = run.list
  PROVE  /\ Len(run'.list) <= Len(comments')
         /\ \A c \in DOMAIN run'.list :
              /\ run'.list[c].origin = comments'[c].origin
              /\ run'.list[c].addressed => run'.list[c].origin = 0
<1>1. run.list \in Seq(Comment) /\ Len(run.list) \in Nat
  BY DEF IInv, TypeOK, Run
<1>2. Len(run.list) <= Len(comments')
  <2>1. Len(run.list) <= Len(comments)
    BY DEF IInv, RunOK
  <2>2. Len(comments) \in Nat /\ Len(comments') = Len(comments) + 1
    BY NewComment
  <2> QED BY <1>1, <2>1, <2>2
<1>3. \A c \in DOMAIN run.list : c \in DOMAIN comments
  BY <1>1, NewComment DEF IInv, RunOK
<1> QED BY <1>2, <1>3, NewComment DEF IInv, RunOK

LEMMA OriginsKept ==
  ASSUME IInv, NEW m \in Outgoing, AddComment(m), ~IsPosted(m)
  PROVE  /\ \A c \in DOMAIN comments' : comments'[c].origin # 0 =>
              comments'[c].origin \in Range(deal'.posted)
         /\ \A c, d \in DOMAIN comments' :
              comments'[c].origin = comments'[d].origin
                /\ comments'[c].origin # 0 => c = d
         /\ \A c \in DOMAIN comments' :
              comments'[c].addressed => comments'[c].origin = 0
<1>1. m # 0
  BY OutgoingStates
<1>2. \A c \in DOMAIN comments : comments[c].origin # m
  BY <1>1 DEF IInv, CommentsOK
<1>3. \A k : k \in Range(deal'.posted) <=> k = m \/ IsPosted(k)
  BY NewComment DEF IsPosted
<1>4. PICK n : n = Len(comments) + 1
  OBVIOUS
<1>5. /\ DOMAIN comments' = DOMAIN comments \cup {n}
      /\ comments'[n].origin = m /\ comments'[n].addressed = FALSE
      /\ \A c \in DOMAIN comments : comments'[c] = comments[c]
  BY <1>4, NewComment
<1>6. \A c \in DOMAIN comments : comments[c].origin # 0 =>
        comments[c].origin = m \/ IsPosted(comments[c].origin)
  BY DEF IInv, CommentsOK
<1>7. \A c \in DOMAIN comments' : comments'[c].origin # 0 =>
        comments'[c].origin \in Range(deal'.posted)
  BY <1>3, <1>5, <1>6
<1>8. \A c, d \in DOMAIN comments' :
        comments'[c].origin = comments'[d].origin
          /\ comments'[c].origin # 0 => c = d
  BY <1>1, <1>2, <1>5 DEF IInv, CommentsOK
<1>9. \A c \in DOMAIN comments' :
        comments'[c].addressed => comments'[c].origin = 0
  BY <1>5 DEF IInv, CommentsOK
<1> QED BY <1>7, <1>8, <1>9

\* The comment was made and the answer came.
LEMMA AnsweredKeeps ==
  ASSUME IInv, TypeOK', run.at = "send", NEW m, m = Min(run.todo),
         AddComment(m), messages' = Sent(m, Len(comments) + 1),
         run' = [run EXCEPT !.at = "post", !.todo = @ \ {m}],
         UNCHANGED <<link, late>>
  PROVE  IInv' /\ Posts(m)
<1>1. PICK n : n = Len(comments) + 1
  OBVIOUS
<1>2. run.todo # {} /\ ~IsPosted(m) /\ ~Coming(m)
  BY DEF IInv, TypeOK, RunOK
<1>3. m \in run.todo /\ m \in Outgoing /\ m \in Nat \ {0} /\ m \in DOMAIN messages
      /\ deal.cards = 1 /\ EarlierSent(m)
  BY <1>2, FirstUnsent
<1>4. /\ deal'.cards = deal.cards
      /\ deal'.posted = Append(deal.posted, m)
      /\ \A k : IsPosted(k)' <=> k = m \/ IsPosted(k)
      /\ n \in Nat /\ DOMAIN comments' = DOMAIN comments \cup {n}
      /\ comments'[n].origin = m
      /\ \A c \in DOMAIN comments : comments'[c] = comments[c]
  <2>1. /\ deal'.cards = deal.cards
        /\ deal'.posted = Append(deal.posted, m)
        /\ \A k : IsPosted(k)' <=> k = m \/ IsPosted(k)
    BY <1>1, <1>3, NewComment
  <2>2. /\ Len(comments) \in Nat
        /\ DOMAIN comments' = DOMAIN comments \cup {Len(comments) + 1}
        /\ comments'[Len(comments) + 1].origin = m
        /\ \A c \in DOMAIN comments : comments'[c] = comments[c]
    BY <1>1, <1>3, NewComment
  <2> QED BY <1>1, <2>1, <2>2
<1>5. /\ DOMAIN messages' = DOMAIN messages
      /\ messages'[m] = [messages[m] EXCEPT !.state = "sent", !.comment = n,
                                            !.known = {}]
      /\ \A k \in DOMAIN messages : k # m => messages'[k] = messages[k]
  BY <1>1, <1>3, <1>4, SentChange DEF IInv
<1>6. messages[m] \in Message
  BY <1>3, OutgoingStates
<1>7. /\ messages'[m].state = "sent" /\ messages'[m].comment = n
      /\ messages'[m].from = messages[m].from
  BY <1>5, <1>6 DEF Message
<1>8. OneChanges(m)
  BY <1>5, <1>7 DEF OneChanges
<1>9. \A k : Coming(k)' <=> Coming(k)
  BY DEF Coming
<1>10. run'.at = "post" /\ run'.list = run.list /\ run'.todo = run.todo \ {m}
  BY DEF IInv, TypeOK, Run
<1>11. IsSent(m)' /\ ~Unanswered(m)'
  BY <1>3, <1>7 DEF IsSent, Unanswered
<1>12. CardOK'
  BY <1>3, <1>4, <1>9, <1>10 DEF IInv, CardOK
<1>13. MessagesOK'
  <2>1. \A k \in Outgoing' : messages'[k].state # "in"
    BY <1>3, <1>7, <1>8, OthersStay DEF IInv, MessagesOK
  <2>2. \A k \in Outgoing' : Unanswered(k)' => EarlierSent(k)'
    BY <1>3, <1>8, <1>11, OthersStay, EarlierStaysSent DEF IInv, MessagesOK
  <2>3. \A k : IsPosted(k)' =>
          k \in Outgoing' /\ messages'[k].state # "pending"
    BY <1>3, <1>4, <1>7, <1>8, OthersStay DEF IInv, MessagesOK, IsPosted
  <2>4. \A k \in Nat \ {0} : Coming(k) =>
          k \in Outgoing' /\ Unanswered(k)' /\ ~IsPosted(k)' /\ deal.cards = 1
    BY <1>2, <1>3, <1>4, <1>8, OthersStay DEF IInv, MessagesOK
  <2>5. \A k \in Range(deal.posted)' : IsPosted(k)'
    BY DEF IsPosted
  <2> QED BY <1>4, <1>9, <2>1, <2>2, <2>3, <2>4, <2>5 DEF MessagesOK
<1>14. CommentsOK'
  <2>1. \A k \in Outgoing' : IsSent(k)' =>
          /\ messages'[k].comment \in DOMAIN comments'
          /\ comments'[messages'[k].comment].origin = k
    BY <1>3, <1>4, <1>7, <1>8, OthersStay DEF IInv, CommentsOK
  <2>2. \A k \in DOMAIN messages' \ Outgoing' :
          /\ messages'[k].comment \in DOMAIN comments'
          /\ comments'[messages'[k].comment].origin = 0
    BY <1>3, <1>4, <1>5, <1>8, OthersStay DEF IInv, CommentsOK
  <2> QED BY <1>2, <1>3, <2>1, <2>2, OriginsKept DEF CommentsOK, IsPosted
<1>15. RunOK'
  <2>1. Unsent' = Unsent \ {m}
    BY <1>3, <1>8, <1>11, OthersStay
  <2>2. /\ Len(run'.list) <= Len(comments')
        /\ \A c \in DOMAIN run'.list :
             /\ run'.list[c].origin = comments'[c].origin
             /\ run'.list[c].addressed => run'.list[c].origin = 0
    BY <1>3, <1>10, ListKept
  <2> QED BY <1>10, <2>1, <2>2 DEF IInv, RunOK
<1>16. Posts(m)
  BY <1>2, <1>3, <1>4, <1>8, EarlierPosted, OthersStay DEF Posts
<1> QED BY <1>12, <1>13, <1>14, <1>15, <1>16 DEF IInv

\* The comment whose answer was lost turns up.
LEMMA CommentArrives ==
  ASSUME IInv, TypeOK', NEW call \in late, call.what # 0, Arrive(call)
  PROVE  IInv' /\ Posts(call.what)
<1>1. PICK m : m = call.what
  OBVIOUS
<1>2. Coming(m) /\ m \in Nat \ {0}
  <2>1. Len(messages) \in Nat
    BY DEF IInv, TypeOK
  <2> QED BY <1>1, <2>1 DEF Coming, IInv, TypeOK, Call
<1>3. m \in Outgoing /\ Unanswered(m) /\ ~IsPosted(m) /\ deal.cards = 1
      /\ EarlierSent(m)
  BY <1>2 DEF IInv, MessagesOK
<1>4. AddComment(m)
  BY <1>1, <1>2 DEF Arrive
<1>5. UNCHANGED <<messages, run, link>> /\ late' = late \ {call}
  BY DEF Arrive, desk
<1>6. PICK n : n = Len(comments) + 1
  OBVIOUS
<1>7. /\ deal'.cards = deal.cards
      /\ deal'.posted = Append(deal.posted, m)
      /\ \A k : IsPosted(k)' <=> k = m \/ IsPosted(k)
      /\ n \in Nat /\ DOMAIN comments' = DOMAIN comments \cup {n}
      /\ comments'[n].origin = m
      /\ \A c \in DOMAIN comments : comments'[c] = comments[c]
  <2>1. /\ deal'.cards = deal.cards
        /\ deal'.posted = Append(deal.posted, m)
        /\ \A k : IsPosted(k)' <=> k = m \/ IsPosted(k)
    BY <1>3, <1>4, <1>6, NewComment
  <2>2. /\ Len(comments) \in Nat
        /\ DOMAIN comments' = DOMAIN comments \cup {Len(comments) + 1}
        /\ comments'[Len(comments) + 1].origin = m
        /\ \A c \in DOMAIN comments : comments'[c] = comments[c]
    BY <1>3, <1>4, <1>6, NewComment
  <2> QED BY <1>6, <2>1, <2>2
<1>8. \A k : Coming(k)' <=> k # m /\ Coming(k)
  BY <1>1, <1>5 DEF IInv, CardOK, Coming
<1>9. /\ Outgoing' = Outgoing /\ Unsent' = Unsent
      /\ \A k : /\ Unanswered(k)' <=> Unanswered(k)
                /\ IsSent(k)' <=> IsSent(k)
  BY <1>5 DEF Outgoing, Unsent, Unanswered, IsSent
<1>10. CardOK'
  BY <1>3, <1>5, <1>7, <1>8 DEF IInv, CardOK
<1>11. MessagesOK'
  <2>1. \A k : EarlierSent(k)' <=> EarlierSent(k)
    BY <1>9 DEF EarlierSent
  <2>2. \A k : IsPosted(k)' => k \in Outgoing /\ messages[k].state # "pending"
    BY <1>3, <1>7 DEF IInv, MessagesOK, IsPosted, Unanswered
  <2>3. \A k \in Range(deal.posted)' : IsPosted(k)'
    BY DEF IsPosted
  <2> QED BY <1>5, <1>7, <1>8, <1>9, <2>1, <2>2, <2>3 DEF IInv, MessagesOK
<1>12. CommentsOK'
  <2>1. \A k \in Outgoing : IsSent(k) =>
          /\ messages[k].comment \in DOMAIN comments'
          /\ comments'[messages[k].comment].origin = k
    BY <1>7 DEF IInv, CommentsOK
  <2>2. \A k \in DOMAIN messages \ Outgoing :
          /\ messages[k].comment \in DOMAIN comments'
          /\ comments'[messages[k].comment].origin = 0
    BY <1>7 DEF IInv, CommentsOK
  <2> QED BY <1>3, <1>4, <1>5, <1>9, <2>1, <2>2, OriginsKept
          DEF CommentsOK, IsPosted
<1>13. RunOK'
  <2>1. /\ Len(run'.list) <= Len(comments')
        /\ \A c \in DOMAIN run'.list :
             /\ run'.list[c].origin = comments'[c].origin
             /\ run'.list[c].addressed => run'.list[c].origin = 0
    BY <1>3, <1>4, <1>5, ListKept
  <2> QED BY <1>2, <1>5, <1>7, <1>8, <1>9, <2>1 DEF IInv, RunOK
<1>14. Posts(m)
  BY <1>3, <1>7, <1>9, EarlierPosted DEF Posts
<1> QED BY <1>1, <1>10, <1>11, <1>12, <1>13, <1>14 DEF IInv

\* The worker stops sending; the comment may still come if nobody knows better.
LEMMA StoppedKeeps ==
  ASSUME IInv, TypeOK', run.at = "send", NEW m, m = Min(run.todo),
         OneChanges(m), messages'[m].comment = messages[m].comment,
         \/ messages'[m].state = "pending" /\ late' = late
         \/ /\ messages'[m].state \in {"sending", "uncertain"}
            /\ late' = late \cup {[what |-> m, who |-> None]},
         run' = Idle, UNCHANGED <<link, deal, comments>>
  PROVE  IInv' /\ Stutters
<1>1. run.todo # {} /\ ~IsPosted(m) /\ ~Coming(m)
      /\ messages[m].state = "sending"
  BY DEF IInv, TypeOK, RunOK
<1>2. m \in run.todo /\ m \in Outgoing /\ m \in Nat \ {0} /\ m \in DOMAIN messages
      /\ deal.cards = 1 /\ EarlierSent(m)
  BY <1>1, FirstUnsent
<1>3. run'.at = "idle" /\ run'.list = <<>>
  BY IdleType
<1>4. ~IsSent(m)' /\ ~IsSent(m)
  BY <1>1, <1>2 DEF IsSent
<1>5. /\ Outgoing' = Outgoing
      /\ Outgoing \subseteq DOMAIN messages
      /\ \A k \in DOMAIN messages \ {m} :
           /\ IsSent(k)' <=> IsSent(k)
           /\ messages'[k] = messages[k]
  BY <1>2, OthersStay
<1>6. \A k : IsPosted(k)' <=> IsPosted(k)
  BY DEF IsPosted
<1>7. \A k : Coming(k)' => Coming(k) \/ (k = m /\ Unanswered(m)')
  BY <1>2 DEF Coming, Unanswered
<1>8. \A a, b \in late' : a.what = b.what => a = b
  BY <1>1 DEF IInv, CardOK, Coming
<1>9. CardOK'
  <2>1. ~Coming(0)'
    BY <1>2, <1>7 DEF IInv, CardOK
  <2> QED BY <1>2, <1>3, <1>8, <2>1 DEF IInv, CardOK
<1>10. MessagesOK'
  <2>1. \A k \in Outgoing' : messages'[k].state # "in"
    BY <1>2, OthersStay DEF IInv, MessagesOK
  <2>2. \A k \in Outgoing' : Unanswered(k)' => EarlierSent(k)'
    BY <1>2, <1>4, OthersStay, EarlierStaysSent DEF IInv, MessagesOK
  <2>3. \A k \in Range(deal.posted) :
          k \in Outgoing' /\ messages'[k].state # "pending"
    <3>1. m \notin Range(deal.posted)
      BY <1>1 DEF IsPosted
    <3>2. \A k \in Range(deal.posted) :
            k \in Outgoing /\ messages[k].state # "pending"
      BY DEF IInv, MessagesOK
    <3>3. \A k \in Range(deal.posted) : k # m /\ k \in DOMAIN messages
      BY <1>5, <3>1, <3>2
    <3> QED BY <1>5, <3>2, <3>3
  <2>4. \A k \in Nat \ {0} : Coming(k)' =>
          k \in Outgoing' /\ Unanswered(k)' /\ ~IsPosted(k) /\ deal.cards = 1
    BY <1>1, <1>2, <1>7, OthersStay DEF IInv, MessagesOK
  <2> QED BY <1>6, <2>1, <2>2, <2>3, <2>4 DEF MessagesOK
<1>11. CommentsOK'
  <2>1. \A k \in Outgoing' : IsSent(k)' =>
          /\ messages'[k].comment \in DOMAIN comments
          /\ comments[messages'[k].comment].origin = k
    <3> SUFFICES ASSUME NEW k \in Outgoing', IsSent(k)'
                 PROVE  /\ messages'[k].comment \in DOMAIN comments
                        /\ comments[messages'[k].comment].origin = k
      OBVIOUS
    <3>1. k \in Outgoing /\ k \in DOMAIN messages
      BY <1>5
    <3>2. k # m
      BY <1>4 DEF IsSent
    <3>3. IsSent(k) /\ messages'[k] = messages[k]
      BY <1>5, <3>1, <3>2
    <3> QED BY <3>1, <3>3 DEF IInv, CommentsOK
  <2>2. \A k \in DOMAIN messages' \ Outgoing' :
          /\ messages'[k].comment \in DOMAIN comments
          /\ comments[messages'[k].comment].origin = 0
    BY <1>2, OthersStay DEF IInv, CommentsOK, OneChanges
  <2> QED BY <1>6, <2>1, <2>2 DEF IInv, CommentsOK
<1>12. RunOK'
  <2>1. comments \in Seq(Comment)
    BY DEF IInv, TypeOK
  <2> QED BY <1>3, <2>1 DEF RunOK
<1> QED BY <1>2, <1>9, <1>10, <1>11, <1>12, OthersStay DEF IInv, Stutters

LEMMA SendMessageKeeps ==
  ASSUME IInv, TypeOK', SendMessage
  PROVE  IInv' /\ (Stutters \/ \E m \in Outgoing : Posts(m))
<1>1. PICK m : m = Min(run.todo)
  OBVIOUS
<1>2. run.at = "send" /\ run.todo # {} /\ UNCHANGED link
  BY DEF SendMessage, IInv, TypeOK
<1>3. m \in DOMAIN messages /\ m \in Outgoing /\ messages[m] \in Message
  BY <1>1, <1>2, FirstUnsent, OutgoingStates
<1>4. \/ /\ AddComment(m)
         /\ messages' = Sent(m, Len(comments) + 1)
         /\ run' = [run EXCEPT !.at = "post", !.todo = @ \ {m}]
         /\ UNCHANGED late
      \/ /\ messages' = [messages EXCEPT ![m].state = "pending"]
         /\ Failed /\ UNCHANGED <<deal, comments, late>>
      \/ /\ messages' = [messages EXCEPT ![m].state = "uncertain"]
         /\ late' = late \cup {[what |-> m, who |-> None]}
         /\ Failed /\ UNCHANGED <<deal, comments>>
  BY <1>1 DEF SendMessage
<1>5. ASSUME NEW state \in {"pending", "uncertain"},
             messages' = [messages EXCEPT ![m].state = state]
      PROVE  /\ OneChanges(m) /\ messages'[m].comment = messages[m].comment
             /\ messages'[m].state = state
  <2>1. /\ DOMAIN messages' = DOMAIN messages
        /\ messages'[m] = [messages[m] EXCEPT !.state = state]
        /\ \A k \in DOMAIN messages : k # m => messages'[k] = messages[k]
    BY <1>3, <1>5, StateChange DEF IInv
  <2> QED BY <1>3, <2>1 DEF OneChanges, Message
<1>6. CASE /\ AddComment(m)
           /\ messages' = Sent(m, Len(comments) + 1)
           /\ run' = [run EXCEPT !.at = "post", !.todo = @ \ {m}]
           /\ UNCHANGED late
  BY <1>1, <1>2, <1>3, <1>6, AnsweredKeeps
<1>7. CASE /\ messages' = [messages EXCEPT ![m].state = "pending"]
           /\ Failed /\ UNCHANGED <<deal, comments, late>>
  BY <1>1, <1>2, <1>5, <1>7, StoppedKeeps DEF Failed
<1>8. CASE /\ messages' = [messages EXCEPT ![m].state = "uncertain"]
           /\ late' = late \cup {[what |-> m, who |-> None]}
           /\ Failed /\ UNCHANGED <<deal, comments>>
  BY <1>1, <1>2, <1>5, <1>8, StoppedKeeps DEF Failed
<1> QED BY <1>4, <1>6, <1>7, <1>8

LEMMA CrashKeeps ==
  ASSUME IInv, TypeOK', Crash
  PROVE  IInv' /\ Stutters
<1>1. UNCHANGED <<deal, comments, link, messages>> /\ run' = Idle
  BY DEF Crash, desk, Failed
<1>2. run'.at = "idle" /\ run'.list = <<>>
  BY <1>1, IdleType
<1>3. CASE run.at = "create"
  <2>1. late' = late \cup {[what |-> 0, who |-> run.who]}
    BY <1>3 DEF Crash
  <2>2. \A m \in Nat \ {0} : Coming(m)' <=> Coming(m)
    BY <2>1 DEF Coming
  <2>3. deal.cards = 0 /\ link.create = "sending" /\ ~Coming(0)
    BY <1>3 DEF IInv, CardOK
  <2>4. CardOK'
    BY <1>1, <1>2, <2>1, <2>3 DEF IInv, CardOK, Coming
  <2> QED BY <1>1, <1>2, <2>2, <2>4, CardStep DEF Stutters
<1>4. CASE run.at = "send"
  <2>1. PICK m : m = Min(run.todo)
    OBVIOUS
  <2>2. late' = late \cup {[what |-> m, who |-> None]}
    BY <1>4, <2>1 DEF Crash
  <2>3. messages[m].state = "sending"
    BY <1>4, <2>1 DEF IInv, RunOK
  <2>4. OneChanges(m)
    BY <1>1 DEF OneChanges
  <2> QED BY <1>1, <1>4, <2>1, <2>2, <2>3, <2>4, StoppedKeeps
<1>5. CASE run.at \notin {"create", "send"}
  <2>1. late' = late
    BY <1>5 DEF Crash
  <2>2. SameMessages /\ SameLink /\ SameRun
    BY <1>1, <1>2 DEF SameMessages, SameLink, SameRun
  <2>3. SamePortal
    BY <1>1, <2>1 DEF SamePortal, IInv, CommentsOK
  <2> QED BY <2>2, <2>3, QuietKeeps
<1> QED BY <1>3, <1>4, <1>5

\* An update of a shown reply.
LEMMA UpdateKeeps ==
  ASSUME IInv, TypeOK', NEW m \in DOMAIN messages, NEW text \in Texts,
         NEW deleted \in BOOLEAN, Update(m, text, deleted),
         UNCHANGED <<link, run>>, UNCHANGED portal
  PROVE  IInv' /\ Stutters
<1>1. messages[m] \in Message /\ TypeOK
  BY ElementTypes DEF IInv
<1>2. PICK r \in Message :
        r = [messages[m] EXCEPT !.text = text, !.deleted = deleted]
  BY <1>1 DEF Message
<1>3. /\ DOMAIN messages' = DOMAIN messages /\ messages'[m] = r
      /\ \A k \in DOMAIN messages : k # m => messages'[k] = messages[k]
  <2>1. messages' = [messages EXCEPT ![m] = r]
    BY <1>1, <1>2 DEF Update, TypeOK
  <2> QED BY <1>1, <2>1, MessageChange
<1>4. /\ r.from = messages[m].from
      /\ r.state = messages[m].state
      /\ r.comment = messages[m].comment
  BY <1>1, <1>2 DEF Message
<1>5. SameMessages
  BY <1>3, <1>4 DEF SameMessages
<1>6. SamePortal /\ SameLink /\ SameRun
  BY DEF SamePortal, SameLink, SameRun, portal, IInv, CommentsOK
<1> QED BY <1>5, <1>6, QuietKeeps

\* A reply of the staff becomes a message: the comment is not one of Pass.
LEMMA ImportKeeps ==
  ASSUME IInv, TypeOK', run.at = "import", NEW c \in DOMAIN run.list,
         run.list[c].addressed, Import(c),
         UNCHANGED <<link, run>>, UNCHANGED portal
  PROVE  IInv' /\ Stutters
<1>1. PICK n \in Nat : n = Len(messages) + 1
  BY DEF IInv, TypeOK
<1>2. PICK r : r = [from |-> "crm", text |-> run.list[c].text, state |-> "in",
                    comment |-> c, known |-> {}, deleted |-> FALSE]
  OBVIOUS
<1>3. /\ messages' \in Seq(Message) /\ Len(messages') = n
      /\ messages'[n] = r
      /\ \A k \in DOMAIN messages : messages'[k] = messages[k]
  BY <1>1, <1>2, ImportChange DEF IInv
<1>4. DOMAIN messages' = DOMAIN messages \cup {n} /\ n \notin DOMAIN messages
  BY <1>1, <1>3 DEF IInv, TypeOK
<1>5. r.from = "crm" /\ r.comment = c
  BY <1>2
<1>6. c \in DOMAIN comments /\ comments[c].origin = 0
  <2>1. c \in 1 .. Len(run.list) /\ run.list \in Seq(Comment)
        /\ comments \in Seq(Comment)
    BY ElementTypes DEF IInv, TypeOK, Run
  <2>2. Len(run.list) <= Len(comments) /\ run.list[c].origin = 0
        /\ run.list[c].origin = comments[c].origin
    BY DEF IInv, RunOK
  <2> QED BY <2>1, <2>2
<1>7. UNCHANGED <<deal, comments, late, link, run>>
  BY DEF portal
<1>8. Outgoing \subseteq DOMAIN messages
  BY DEF Outgoing
<1>9. Outgoing' = Outgoing
  BY <1>3, <1>4, <1>5 DEF Outgoing
<1>10. \A k \in Outgoing : /\ Unanswered(k)' <=> Unanswered(k)
                           /\ IsSent(k)' <=> IsSent(k)
                           /\ messages'[k] = messages[k]
  BY <1>3, <1>8 DEF Unanswered, IsSent
<1>11. \A k : (IsPosted(k)' <=> IsPosted(k)) /\ (Coming(k)' <=> Coming(k))
  BY <1>7 DEF IsPosted, Coming
<1>12. CardOK'
  BY <1>7, <1>11 DEF IInv, CardOK
<1>13. MessagesOK'
  <2>1. \A k \in Outgoing : EarlierSent(k)' <=> EarlierSent(k)
    BY <1>9, <1>10 DEF EarlierSent
  <2>2. \A k \in Outgoing : messages'[k].state # "in"
    BY <1>10 DEF IInv, MessagesOK
  <2>3. \A k \in Range(deal.posted) :
          k \in Outgoing /\ messages'[k].state # "pending"
    BY <1>10 DEF IInv, MessagesOK
  <2>4. \A k \in Outgoing : Unanswered(k)' => EarlierSent(k)'
    BY <1>10, <2>1 DEF IInv, MessagesOK
  <2>5. \A k \in Nat \ {0} : Coming(k) =>
          k \in Outgoing /\ Unanswered(k)' /\ ~IsPosted(k) /\ deal.cards = 1
    BY <1>10 DEF IInv, MessagesOK
  <2> QED BY <1>7, <1>9, <1>11, <2>2, <2>3, <2>4, <2>5 DEF MessagesOK
<1>14. CommentsOK'
  <2>1. \A k \in DOMAIN messages' \ Outgoing :
          /\ messages'[k].comment \in DOMAIN comments
          /\ comments[messages'[k].comment].origin = 0
    <3>1. \A k \in DOMAIN messages \ Outgoing :
            /\ messages'[k].comment \in DOMAIN comments
            /\ comments[messages'[k].comment].origin = 0
      BY <1>3 DEF IInv, CommentsOK
    <3> QED BY <1>3, <1>4, <1>5, <1>6, <3>1
  <2>2. \A k \in Outgoing : IsSent(k)' =>
          /\ messages'[k].comment \in DOMAIN comments
          /\ comments[messages'[k].comment].origin = k
    BY <1>10 DEF IInv, CommentsOK
  <2> QED BY <1>7, <1>9, <1>11, <2>1, <2>2 DEF IInv, CommentsOK
<1>15. RunOK'
  BY <1>7 DEF IInv, RunOK
<1> QED BY <1>7, <1>9, <1>12, <1>13, <1>14, <1>15 DEF IInv, Stutters

LEMMA ImportCommentKeeps ==
  ASSUME IInv, TypeOK', ImportComment
  PROVE  IInv' /\ Stutters
<1>1. run.at = "import" /\ UNCHANGED <<link, run>> /\ UNCHANGED portal
  BY DEF ImportComment
<1>2. PICK c \in Fresh :
        /\ c \in DOMAIN run.list
        /\ \/ /\ ~run.list[c].addressed
              /\ ImportOf(c) \in DOMAIN messages
              /\ Update(ImportOf(c), "hidden in CRM", TRUE)
           \/ run.list[c].addressed /\ Import(c)
           \/ /\ run.list[c].addressed
              /\ ImportOf(c) \in DOMAIN messages
              /\ Update(ImportOf(c), run.list[c].text, FALSE)
  BY ImportCases DEF IInv
<1>3. run.list[c].text \in Texts /\ "hidden in CRM" \in Texts
  BY <1>2, ElementTypes DEF IInv, Comment, Texts
<1>4. CASE ImportOf(c) \in DOMAIN messages
           /\ Update(ImportOf(c), "hidden in CRM", TRUE)
  BY <1>1, <1>3, <1>4, UpdateKeeps
<1>5. CASE ImportOf(c) \in DOMAIN messages
           /\ Update(ImportOf(c), run.list[c].text, FALSE)
  BY <1>1, <1>3, <1>5, UpdateKeeps
<1>6. CASE run.list[c].addressed /\ Import(c)
  BY <1>1, <1>2, <1>6, ImportKeeps
<1> QED BY <1>2, <1>4, <1>5, <1>6

LEMMA DropRemovedKeeps ==
  ASSUME IInv, TypeOK', DropRemoved
  PROVE  IInv' /\ Stutters
<1>1. Gone \in SUBSET Nat /\ Gone # {} /\ Gone \subseteq DOMAIN messages
  BY SetTypes DEF Gone, DropRemoved, IInv
<1>2. Min(Gone) \in DOMAIN messages
  BY <1>1, MinIn
<1>3. "removed in CRM" \in Texts
  BY DEF Texts
<1> QED BY <1>2, <1>3, UpdateKeeps DEF DropRemoved

-----------------------------------------------------------------------------
(* The theorems *)

\* Every step keeps the invariant, and is a stutter of Delivery, the opening of
\* the card, a message written or a message posted.
LEMMA NextKeeps ==
  ASSUME IInv, [Next]_vars
  PROVE  /\ IInv'
         /\ \/ Stutters
            \/ Opens
            \/ \E m \in Outgoing : Posts(m)
            \/ /\ Outgoing' = Outgoing \cup {Len(messages) + 1}
               /\ UNCHANGED deal
<1>1. TypeOK'
  BY NextType DEF IInv
<1>2. ASSUME NEW from \in {"customer", "support"}, NEW t \in Said,
             Reply(from, t)
      PROVE  /\ IInv'
             /\ Outgoing' = Outgoing \cup {Len(messages) + 1}
             /\ UNCHANGED deal
  BY <1>1, <1>2, ReplyKeeps
<1>3. ASSUME \/ \E status \in Statuses : SetStatus(status)
             \/ \E user \in User : Assign(user)
             \/ \E side \in {"customer", "support"}, seen \in 0 .. ticket.seq :
                  Read(side, seen)
             \/ \E c \in Company : LinkTenantCompany(c)
      PROVE  IInv' /\ Stutters
  BY <1>1, <1>3, CommandsKeep
<1>4. ASSUME NEW t \in Replies, NEW addressed \in BOOLEAN,
             StaffWrites(t, addressed)
      PROVE  IInv' /\ Stutters
  BY <1>1, <1>4, StaffWritesKeeps
<1>5. ASSUME \/ \E c \in DOMAIN comments, t \in Replies, addressed \in BOOLEAN :
                  StaffEdits(c, t, addressed)
             \/ \E c \in DOMAIN comments : StaffRemoves(c)
             \/ \E stage \in {"process", "success", "failure"} : StaffMoves(stage)
      PROVE  IInv' /\ Stutters
  BY <1>1, <1>5, StaffKeeps
<1>6. ASSUME NEW call \in late, Arrive(call)
      PROVE  IInv' /\ (Opens \/ \E m \in Outgoing : Posts(m))
  <2>1. CASE call.what = 0
    BY <1>1, <1>6, <2>1, CardArrives
  <2>2. CASE call.what # 0
    <3>1. IInv' /\ Posts(call.what)
      BY <1>1, <1>6, <2>2, CommentArrives
    <3>2. call.what \in Outgoing
      BY <3>1 DEF Posts
    <3> QED BY <3>1, <3>2
  <2> QED BY <2>1, <2>2
<1>7. ASSUME \/ ClaimJob \/ ClaimPoll \/ Refused
             \/ GetDeal \/ DescribeCustomer \/ SyncCustomer \/ ReadAssignment
             \/ Reassign \/ Notify \/ PullComments \/ Finish
      PROVE  IInv' /\ Stutters
  BY <1>1, <1>7, WorkerKeeps
<1>8. ASSUME UNCHANGED vars
      PROVE  IInv' /\ Stutters
  <2>1. SameMessages /\ SamePortal /\ SameLink /\ SameRun
    BY <1>8 DEF vars, SameMessages, SamePortal, SameLink, SameRun, IInv,
                CommentsOK
  <2> QED BY <1>1, <2>1, QuietKeeps
<1>9. CASE Desk
  BY <1>2, <1>3, <1>9 DEF Desk
<1>10. CASE Portal
  BY <1>4, <1>5, <1>6, <1>10 DEF Portal
<1>11. CASE Step
  BY <1>1, <1>7, <1>11, FindCardKeeps, CreateCardKeeps, ListCommentsKeeps,
     NextMessageKeeps, SendMessageKeeps, ImportCommentKeeps, DropRemovedKeeps
     DEF Step
<1>12. CASE ClaimJob \/ ClaimPoll \/ Refused
  BY <1>7, <1>12
<1>13. CASE Crash
  BY <1>1, <1>13, CrashKeeps
<1>14. CASE UNCHANGED vars
  BY <1>8, <1>14
<1> QED BY <1>9, <1>10, <1>11, <1>12, <1>13, <1>14 DEF Next

\* The inductive invariant: types, and where the outcome of a creation of the
\* card or of a comment can still be open.
THEOREM Invariant == Spec => []IInv
<1>1. Init => IInv
  BY InitInv
<1>2. IInv /\ [Next]_vars => IInv'
  BY NextKeeps
<1> QED BY <1>1, <1>2, PTL DEF Spec

\* A message is linked to its own comment and to no other, whatever was lost or
\* interrupted, and no comment of Pass is shown as a reply of the staff.
THEOREM LinksTrue == Spec => []LinksAreTrue
<1>1. ASSUME IInv PROVE LinksAreTrue
  <2>1. \A m \in Outgoing \ Unsent : IsSent(m)
    BY DEF Unsent, IsSent
  <2> QED BY <1>1, <2>1 DEF IInv, CommentsOK, LinksAreTrue
<1> QED BY <1>1, Invariant, PTL

LEMMA DeliveryInit == Init => Promise!Init
<1> SUFFICES ASSUME Init PROVE Promise!Init
  OBVIOUS
<1>1. PICK t \in Said : messages = <<Written("customer", t)>>
  BY DEF Init
<1>2. Outgoing = {1}
  BY <1>1 DEF Outgoing, Written
<1> QED BY <1>2 DEF Init, Promise!Init

LEMMA DeliveryStep ==
  ASSUME IInv, [Next]_vars
  PROVE  [Promise!Next]_(Promise!vars)
<1>1. CASE Stutters
  BY <1>1 DEF Stutters, Promise!vars
<1>2. CASE Opens
  BY <1>2 DEF Opens, Promise!Next, Promise!OpenCard
<1>3. ASSUME NEW m \in Outgoing, Posts(m)
      PROVE  Promise!Post(m)
  BY <1>3 DEF Posts, IsPosted, Promise!Post, Range, Promise!Range
<1>4. CASE \E m \in Outgoing : Posts(m)
  BY <1>3, <1>4 DEF Promise!Next
<1>5. CASE /\ Outgoing' = Outgoing \cup {Len(messages) + 1}
           /\ UNCHANGED deal
  <2>1. PICK n : n = Len(messages) + 1
    OBVIOUS
  <2>2. \A k \in Outgoing : k < n
    BY <2>1, SetTypes, ElementTypes DEF IInv, TypeOK
  <2>3. n \in Outgoing' \ Outgoing
    BY <1>5, <2>1, <2>2, SetTypes DEF IInv, TypeOK
  <2> QED BY <1>5, <2>1, <2>2, <2>3 DEF Promise!Next, Promise!Write
<1> QED BY <1>1, <1>2, <1>4, <1>5, NextKeeps

\* The worker opens one card, and posts every message once and in order.
THEOREM DeliveryImplemented == Spec => OnceAndInOrder
<1>1. Init => Promise!Init
  BY DeliveryInit
<1>2. IInv /\ [Next]_vars => [Promise!Next]_(Promise!vars)
  BY DeliveryStep
<1> QED BY <1>1, <1>2, Invariant, PTL DEF Spec, OnceAndInOrder, Promise!Spec

-----------------------------------------------------------------------------
(* Nothing is forgotten: assignments *)

\* What is recorded as carried is not ahead of the assignment, and what the worker
\* carries is the assignment or an older one; while it carries one, none that is
\* current is recorded.
AssignInv ==
  /\ link.synced <= link.rev /\ link.notified <= link.rev
  /\ ~link.deal => link.synced = 0 /\ link.notified = 0
  /\ run.at \notin {"idle", "find", "create"} => link.deal
  /\ run.at \in {"reassign", "notify"} =>
       /\ run.rev <= link.rev
       /\ run.rev = link.rev => run.who = link.who
  /\ run.at = "reassign" => link.synced < link.rev
  /\ link.deal /\ link.rev > 0 =>
       /\ link.synced = link.rev => deal.who = link.who
       /\ link.notified = link.rev => link.who \in told

\* A step that neither assigns nor carries an assignment.
SameAssignment ==
  /\ link'.rev = link.rev /\ link'.who = link.who
  /\ link'.synced = link.synced /\ link'.notified = link.notified
  /\ link.deal => link'.deal /\ deal'.who = deal.who
  /\ told' = told

RunApart ==
  \/ run'.at = run.at /\ run'.rev = run.rev /\ run'.who = run.who
  \/ /\ run'.at \notin {"reassign", "notify"}
     /\ run'.at \notin {"idle", "find", "create"} => link'.deal

LEMMA LinkTypes ==
  ASSUME TypeOK
  PROVE  /\ link \in Link /\ link.rev \in Nat /\ link.synced \in Nat /\ link.notified \in Nat
         /\ link.deal \in BOOLEAN /\ link.managed \in BOOLEAN
         /\ run \in Run /\ run.job \in BOOLEAN /\ run.rev \in Nat /\ deal \in Deal
BY DEF TypeOK, Link, Run

LEMMA AssignQuiet ==
  ASSUME TypeOK, AssignInv, SameAssignment, RunApart
  PROVE  AssignInv'
<1>t. link.rev \in Nat /\ link.synced \in Nat /\ link.notified \in Nat
  BY LinkTypes
<1>1. CASE link.deal
  BY <1>t, <1>1 DEF AssignInv, SameAssignment, RunApart
<1>2. CASE ~link.deal
  BY <1>t, <1>2 DEF AssignInv, SameAssignment, RunApart
<1> QED BY <1>1, <1>2

LEMMA AssignDesk ==
  ASSUME TypeOK, AssignInv, Desk
  PROVE  AssignInv'
<1>t. link \in Link /\ link.rev \in Nat /\ link.synced \in Nat /\ link.notified \in Nat
  BY LinkTypes
<1>1. ASSUME NEW user \in User, Assign(user)
      PROVE  AssignInv'
  <2>1. /\ link'.rev = link.rev + 1 /\ link'.who = user
        /\ link'.synced = link.synced /\ link'.notified = link.notified
        /\ link'.deal = link.deal /\ UNCHANGED <<run, deal, told>>
    BY <1>1, <1>t DEF Assign, Link, portal
  <2>2. run.rev \in Nat
    BY LinkTypes
  <2> QED BY <1>t, <2>1, <2>2 DEF AssignInv
<1>2. ASSUME NEW from \in {"customer", "support"}, NEW t \in Said, Reply(from, t)
      PROVE  SameAssignment /\ RunApart
  BY <1>2, <1>t DEF Reply, portal, SameAssignment, RunApart, Link
<1>3. ASSUME \/ \E status \in Statuses : SetStatus(status)
             \/ \E side \in {"customer", "support"}, seen \in 0 .. ticket.seq : Read(side, seen)
      PROVE  SameAssignment /\ RunApart
  BY <1>3 DEF SetStatus, Read, portal, SameAssignment, RunApart
<1>4. ASSUME NEW c \in Company, LinkTenantCompany(c)
      PROVE  SameAssignment /\ RunApart
  BY <1>4, <1>t DEF LinkTenantCompany, portal, SameAssignment, RunApart, Link
<1> QED BY <1>1, <1>2, <1>3, <1>4, AssignQuiet DEF Desk

LEMMA AssignPortal ==
  ASSUME IInv, AssignInv, Portal
  PROVE  AssignInv'
<1>t. TypeOK /\ deal \in Deal
  BY LinkTypes DEF IInv
<1>1. ASSUME NEW t, NEW addressed, StaffWrites(t, addressed)
      PROVE  SameAssignment /\ RunApart
  BY <1>1 DEF StaffWrites, SameAssignment, RunApart
<1>2. ASSUME NEW c, NEW t, NEW addressed, StaffEdits(c, t, addressed)
      PROVE  SameAssignment /\ RunApart
  BY <1>2 DEF StaffEdits, SameAssignment, RunApart
<1>3. ASSUME NEW c, StaffRemoves(c)
      PROVE  SameAssignment /\ RunApart
  BY <1>3 DEF StaffRemoves, SameAssignment, RunApart
<1>4. ASSUME NEW stage, StaffMoves(stage)
      PROVE  SameAssignment /\ RunApart
  BY <1>4, <1>t DEF StaffMoves, SameAssignment, RunApart, Deal
<1>5. ASSUME NEW call \in late, Arrive(call)
      PROVE  SameAssignment /\ RunApart
  <2>1. CASE call.what = 0
    <3>1. ~link.deal
      BY <2>1 DEF IInv, CardOK, Coming
    <3> QED BY <1>5, <3>1 DEF Arrive, SameAssignment, RunApart
  <2>2. CASE call.what # 0
    BY <1>5, <1>t, <2>2 DEF Arrive, AddComment, SameAssignment, RunApart, Deal
  <2> QED BY <2>1, <2>2
<1> QED BY <1>t, <1>1, <1>2, <1>3, <1>4, <1>5, AssignQuiet DEF Portal

\* The worker's steps but those that carry an assignment.
LEMMA AssignWorker ==
  ASSUME IInv, AssignInv,
         \/ ClaimJob \/ ClaimPoll \/ Refused \/ Crash \/ FindCard \/ CreateCard \/ ListComments
         \/ NextMessage \/ SendMessage \/ GetDeal \/ DescribeCustomer \/ SyncCustomer
         \/ PullComments \/ ImportComment \/ DropRemoved \/ Finish
  PROVE  SameAssignment /\ RunApart
<1>t. TypeOK /\ link \in Link /\ run \in Run /\ deal \in Deal
  BY LinkTypes DEF IInv
<1>i. Idle.at = "idle"
  BY DEF Idle
<1>f. Failed => run'.at = "idle"
  BY <1>i DEF Failed
<1>g. ASSUME NEW at, Goto(at) PROVE run'.at = at
  BY <1>g, <1>t DEF Goto, Run
<1>1. CASE ClaimJob \/ ClaimPoll
  <2>1. run'.at \in {"find", "list", "get"} /\ (run'.at # "find" => link.deal)
    BY <1>1 DEF ClaimJob, ClaimPoll, Idle
  <2> QED BY <1>1, <2>1 DEF ClaimJob, ClaimPoll, portal, SameAssignment, RunApart
<1>2. CASE Refused \/ Crash
  BY <1>2, <1>f DEF Refused, Crash, portal, SameAssignment, RunApart
<1>3. CASE FindCard
  <2>1. CASE /\ Goto("list")
             /\ link' = [link EXCEPT !.managed = TRUE, !.deal = TRUE, !.create = "linked"]
    BY <1>3, <1>t, <1>g, <2>1 DEF FindCard, portal, SameAssignment, RunApart, Link
  <2>2. CASE Failed /\ UNCHANGED link
    BY <1>3, <1>f, <2>2 DEF FindCard, portal, SameAssignment, RunApart
  <2>3. CASE Goto("create") /\ link' = [link EXCEPT !.create = "sending"]
    BY <1>3, <1>t, <1>g, <2>3 DEF FindCard, portal, SameAssignment, RunApart, Link
  <2> QED BY <1>3, <2>1, <2>2, <2>3 DEF FindCard
<1>4. CASE CreateCard
  <2>0. ~link.deal /\ told' = told
    BY <1>4 DEF CreateCard, IInv, CardOK
  <2>1. CASE /\ Goto("list")
             /\ link' = [link EXCEPT !.managed = TRUE, !.deal = TRUE, !.create = "linked"]
    BY <1>t, <1>g, <2>0, <2>1 DEF SameAssignment, RunApart, Link
  <2>2. CASE Failed /\ \E s : link' = [link EXCEPT !.create = s]
    BY <1>t, <1>f, <2>0, <2>2 DEF SameAssignment, RunApart, Link
  <2> QED BY <1>4, <2>1, <2>2 DEF CreateCard
<1>5. CASE ListComments
  <2>1. run'.at = "post" /\ link.deal
    BY <1>5, <1>t DEF ListComments, Run, AssignInv
  <2> QED BY <1>5, <2>1 DEF ListComments, portal, SameAssignment, RunApart
<1>6. CASE NextMessage
  <2>1. run'.at \in {"post", "send", "idle"} /\ link.deal
    <3>1. link.deal /\ run.at = "post"
      BY <1>6 DEF NextMessage, AssignInv
    <3>2. \/ run' = [run EXCEPT !.todo = @ \ {Min(run.todo)}] \/ Failed \/ Goto("send")
      BY <1>6 DEF NextMessage
    <3>3. run' = [run EXCEPT !.todo = @ \ {Min(run.todo)}] => run'.at = run.at
      BY <1>t DEF Run
    <3> QED BY <1>f, <1>g, <3>1, <3>2, <3>3
  <2> QED BY <1>6, <2>1 DEF NextMessage, portal, SameAssignment, RunApart
<1>7. CASE SendMessage
  <2>1. run'.at \in {"post", "idle"} /\ link.deal
    <3>1. link.deal
      BY <1>7 DEF SendMessage, AssignInv
    <3>2. \/ run' = [run EXCEPT !.at = "post", !.todo = @ \ {Min(run.todo)}] \/ Failed
      BY <1>7 DEF SendMessage
    <3>3. run' = [run EXCEPT !.at = "post", !.todo = @ \ {Min(run.todo)}] => run'.at = "post"
      BY <1>t DEF Run
    <3> QED BY <1>f, <3>1, <3>2, <3>3
  <2>2. UNCHANGED <<link, told>> /\ deal'.who = deal.who
    BY <1>7, <1>t DEF SendMessage, AddComment, Deal
  <2> QED BY <2>1, <2>2 DEF SameAssignment, RunApart
<1>8. CASE GetDeal
  <2>1. run'.at \in {"assign", "describe"} /\ link.deal
    BY <1>8 DEF GetDeal, Idle, AssignInv
  <2> QED BY <1>8, <2>1 DEF GetDeal, portal, SameAssignment, RunApart
<1>9. CASE DescribeCustomer
  <2>1. run'.at = "customer" /\ link.deal
    BY <1>9, <1>t DEF DescribeCustomer, Run, AssignInv
  <2> QED BY <1>9, <2>1 DEF DescribeCustomer, portal, SameAssignment, RunApart
<1>10. CASE SyncCustomer
  <2>1. run'.at = "assign" /\ link.deal
    BY <1>10, <1>g DEF SyncCustomer, AssignInv
  <2>2. told' = told /\ deal'.who = deal.who
    BY <1>10, <1>t DEF SyncCustomer, Deal
  <2>3. /\ link'.rev = link.rev /\ link'.who = link.who /\ link'.synced = link.synced
        /\ link'.notified = link.notified /\ link'.deal = link.deal
    BY <1>10, <1>t DEF SyncCustomer, Link
  <2> QED BY <2>1, <2>2, <2>3 DEF SameAssignment, RunApart
<1>11. CASE PullComments
  <2>1. run'.at = "import" /\ link.deal
    BY <1>11 DEF PullComments, Idle, AssignInv
  <2> QED BY <1>11, <2>1 DEF PullComments, portal, SameAssignment, RunApart
<1>12. CASE ImportComment \/ DropRemoved
  BY <1>12 DEF ImportComment, DropRemoved, portal, SameAssignment, RunApart
<1>13. CASE Finish
  BY <1>13, <1>i DEF Finish, portal, SameAssignment, RunApart
<1> QED BY <1>1, <1>2, <1>3, <1>4, <1>5, <1>6, <1>7, <1>8, <1>9, <1>10, <1>11, <1>12, <1>13

\* syncAssignment.
LEMMA AssignCarried ==
  ASSUME TypeOK, AssignInv, ReadAssignment \/ Reassign \/ Notify
  PROVE  AssignInv'
<1>t. /\ link \in Link /\ run \in Run /\ deal \in Deal
      /\ link.rev \in Nat /\ link.synced \in Nat /\ link.notified \in Nat /\ run.rev \in Nat
  BY LinkTypes
<1>1. CASE ReadAssignment
  <2>1. /\ UNCHANGED <<link, deal, told>> /\ link.deal
        /\ run'.rev = link.rev /\ run'.who = link.who
        /\ run'.at = IF link.rev > link.synced THEN "reassign"
                     ELSE IF link.rev > link.notified THEN "notify" ELSE "pull"
    BY <1>1, <1>t DEF ReadAssignment, portal, Run, AssignInv
  <2> QED BY <1>t, <2>1 DEF AssignInv
<1>2. CASE Reassign
  <2>0. link.deal /\ link.synced < link.rev /\ run.rev <= link.rev /\ told' = told
        /\ (run.rev = link.rev => run.who = link.who)
    BY <1>2 DEF Reassign, AssignInv
  <2>1. CASE /\ deal' = [deal EXCEPT !.who = run.who]
             /\ link' = [link EXCEPT !.synced = Carried(@, run.rev)]
             /\ Goto(IF run.told THEN "pull" ELSE "notify")
    <3>1. /\ deal'.who = run.who /\ link'.synced = Carried(link.synced, run.rev)
          /\ link'.rev = link.rev /\ link'.who = link.who /\ link'.notified = link.notified
          /\ link'.deal = link.deal
      BY <1>t, <2>1 DEF Deal, Link
    <3>2. run'.at \in {"pull", "notify"} /\ run'.rev = run.rev /\ run'.who = run.who
      BY <1>t, <2>1 DEF Goto, Run
    <3>3. CASE link.rev = run.rev
      BY <1>t, <2>0, <3>1, <3>2, <3>3 DEF Carried, AssignInv
    <3>4. CASE link.rev # run.rev
      BY <1>t, <2>0, <3>1, <3>2, <3>4 DEF Carried, AssignInv
    <3> QED BY <3>3, <3>4
  <2>2. CASE Goto("pull") /\ UNCHANGED link
    <3>1. run'.at = "pull"
      BY <1>t, <2>2 DEF Goto, Run
    <3> QED BY <1>t, <2>0, <2>2, <3>1 DEF AssignInv
  <2> QED BY <1>2, <2>1, <2>2 DEF Reassign
<1>3. CASE Notify
  <2>0. /\ link.deal /\ run.rev <= link.rev /\ (run.rev = link.rev => run.who = link.who)
        /\ deal' = deal
    BY <1>3 DEF Notify, AssignInv
  <2>1. run'.at = "pull"
    BY <1>3, <1>t DEF Notify, Goto, Run
  <2>2. CASE /\ told' = told \cup {run.who}
             /\ link' = [link EXCEPT !.notified = Carried(@, run.rev)]
    <3>1. /\ link'.notified = Carried(link.notified, run.rev)
          /\ link'.rev = link.rev /\ link'.who = link.who /\ link'.synced = link.synced
          /\ link'.deal = link.deal
      BY <1>t, <2>2 DEF Link
    <3>2. CASE link.rev = run.rev
      BY <1>t, <2>0, <2>1, <2>2, <3>1, <3>2 DEF Carried, AssignInv
    <3>3. CASE link.rev # run.rev
      BY <1>t, <2>0, <2>1, <2>2, <3>1, <3>3 DEF Carried, AssignInv
    <3> QED BY <3>2, <3>3
  <2>3. CASE told' \in {told, told \cup {run.who}} /\ UNCHANGED link
    BY <1>t, <2>0, <2>1, <2>3 DEF AssignInv
  <2> QED BY <1>3, <2>2, <2>3 DEF Notify
<1> QED BY <1>1, <1>2, <1>3

LEMMA AssignStep ==
  ASSUME IInv, AssignInv, [Next]_vars
  PROVE  AssignInv'
<1>t. TypeOK
  BY DEF IInv
<1>1. CASE UNCHANGED vars
  BY <1>1, <1>t, AssignQuiet DEF vars, SameAssignment, RunApart
<1>2. CASE Step
  BY <1>2, <1>t, AssignWorker, AssignCarried, AssignQuiet DEF Step
<1> QED BY <1>t, <1>1, <1>2, AssignDesk, AssignPortal, AssignWorker, AssignQuiet DEF Next

LEMMA AssignBegins == Init => AssignInv
<1> SUFFICES ASSUME Init PROVE AssignInv
  OBVIOUS
<1>1. /\ ~link.deal /\ link.rev \in {0, 1} /\ link.synced = 0 /\ link.notified = 0
      /\ run.at = "idle"
  BY DEF Init, Idle
<1> QED BY <1>1 DEF AssignInv

-----------------------------------------------------------------------------
(* Nothing is forgotten: messages *)

\* A run that is before or among the messages serves a job, and an unsent message
\* of a managed request is in its hand or has a job of its own.
WorkInv ==
  /\ run.at \in {"find", "create", "list", "post", "send"} => run.job
  /\ link.managed => \A m \in Unsent : jobs > 0 \/ InHand(m)

LEMMA UnsentLess ==
  ASSUME DOMAIN messages' = DOMAIN messages,
         \A k \in DOMAIN messages :
           /\ messages'[k].from = messages[k].from
           /\ messages[k].from # "crm" /\ messages'[k].state # "sent" =>
                messages[k].state # "sent"
  PROVE  Unsent' \subseteq Unsent
BY DEF Unsent, Outgoing

LEMMA UnsentSame ==
  ASSUME UNCHANGED messages
  PROVE  Unsent' = Unsent
BY DEF Unsent, Outgoing

LEMMA WorkQuiet ==
  ASSUME TypeOK, WorkInv, Unsent' \subseteq Unsent, link'.managed => link.managed,
         jobs' = jobs, run'.at = run.at, run'.job = run.job, run'.todo = run.todo
  PROVE  WorkInv'
BY DEF WorkInv, InHand

\* A run that ends early puts its job back, and one without a job had nothing in hand.
LEMMA WorkFailed ==
  ASSUME TypeOK, WorkInv, Failed, Unsent' \subseteq Unsent, link'.managed => link.managed
  PROVE  WorkInv'
<1>1. jobs \in Nat /\ run'.at = "idle"
  BY DEF TypeOK, Failed, Idle
<1>2. CASE run.job
  BY <1>1, <1>2 DEF Failed, WorkInv
<1>3. CASE ~run.job
  BY <1>1, <1>3 DEF Failed, WorkInv, InHand
<1> QED BY <1>2, <1>3

LEMMA WorkDesk ==
  ASSUME TypeOK, WorkInv, Desk
  PROVE  WorkInv'
<1>t. link \in Link /\ jobs \in Nat
  BY DEF TypeOK
<1>1. ASSUME NEW from \in {"customer", "support"}, NEW t \in Said, Reply(from, t)
      PROVE  WorkInv'
  BY <1>1, <1>t DEF Reply, WorkInv
<1>2. ASSUME \/ \E status \in Statuses : SetStatus(status)
             \/ \E side \in {"customer", "support"}, seen \in 0 .. ticket.seq : Read(side, seen)
             \/ \E user \in User : Assign(user)
             \/ \E c \in Company : LinkTenantCompany(c)
      PROVE  /\ UNCHANGED <<messages, jobs, run>> /\ link'.managed = link.managed
  BY <1>2, <1>t DEF SetStatus, Read, Assign, LinkTenantCompany, Link
<1> QED BY <1>1, <1>2, UnsentSame, WorkQuiet DEF Desk

LEMMA WorkPortal ==
  ASSUME TypeOK, WorkInv, Portal
  PROVE  WorkInv'
<1>1. UNCHANGED <<link, messages, jobs, run>>
  BY DEF Portal, StaffWrites, StaffEdits, StaffRemoves, StaffMoves, Arrive, desk
<1> QED BY <1>1, UnsentSame, WorkQuiet

\* Claims, failures and the way to the first message.
LEMMA WorkBegun ==
  ASSUME TypeOK, WorkInv,
         ClaimJob \/ ClaimPoll \/ Refused \/ Crash \/ FindCard \/ CreateCard \/ ListComments
  PROVE  WorkInv'
<1>t. link \in Link /\ run \in Run /\ jobs \in Nat
  BY DEF TypeOK
<1>u. Unsent' = Unsent
  BY UnsentSame DEF ClaimJob, ClaimPoll, Refused, Crash, FindCard, CreateCard, ListComments, desk
<1>f. ASSUME run'.at \in {"find", "create", "list"}, run'.job PROVE WorkInv'
  BY <1>f DEF WorkInv, InHand
<1>g. ASSUME NEW at, Goto(at) PROVE run'.at = at /\ run'.job = run.job
  BY <1>g, <1>t DEF Goto, Run
<1>1. CASE ClaimJob
  BY <1>1, <1>f DEF ClaimJob, Idle
<1>2. CASE ClaimPoll
  <2>1. \A m \in Unsent : ~InHand(m)
    BY <1>2 DEF ClaimPoll, InHand
  <2>2. run'.at = "get" /\ UNCHANGED <<link, jobs>>
    BY <1>2 DEF ClaimPoll, Idle
  <2> QED BY <1>u, <2>1, <2>2 DEF WorkInv
<1>3. CASE Refused \/ Crash
  BY <1>3, <1>u, WorkFailed DEF Refused, Crash
<1>4. CASE FindCard
  <2>0. run.job
    BY <1>4 DEF FindCard, WorkInv
  <2>1. CASE Goto("list")
    BY <2>0, <2>1, <1>f, <1>g
  <2>2. CASE Failed /\ UNCHANGED link
    BY <2>2, <1>u, WorkFailed
  <2>3. CASE Goto("create")
    BY <2>0, <2>3, <1>f, <1>g
  <2> QED BY <1>4, <2>1, <2>2, <2>3 DEF FindCard
<1>5. CASE CreateCard
  <2>0. run.job
    BY <1>5 DEF CreateCard, WorkInv
  <2>1. CASE Goto("list")
    BY <2>0, <2>1, <1>f, <1>g
  <2>2. CASE Failed /\ \E s : link' = [link EXCEPT !.create = s]
    <3>1. link'.managed = link.managed
      BY <2>2, <1>t DEF Link
    <3> QED BY <2>2, <3>1, <1>u, WorkFailed
  <2> QED BY <1>5, <2>1, <2>2 DEF CreateCard
<1>6. CASE ListComments
  <2>1. run'.at = "post" /\ run'.job /\ run'.todo = Unsent
    BY <1>6, <1>t DEF ListComments, Run, WorkInv
  <2> QED BY <1>u, <2>1 DEF WorkInv, InHand
<1> QED BY <1>1, <1>2, <1>3, <1>4, <1>5, <1>6

LEMMA FoundOnCard ==
  ASSUME TypeOK, NEW m, Cardinality(Matches(m)) = 1
  PROVE  Min(Matches(m)) \in Nat
<1>1. Matches(m) \in SUBSET Nat
  BY SetTypes DEF Matches
<1>2. Matches(m) # {}
  BY FS_EmptySet
<1> QED BY <1>1, <1>2, MinIn

\* A message leaves the worker's hand only when it is sent.
LEMMA WorkPosts ==
  ASSUME TypeOK, WorkInv, NextMessage \/ SendMessage
  PROVE  WorkInv'
<1> DEFINE m == Min(run.todo)
<1>t. link \in Link /\ run \in Run /\ jobs \in Nat /\ UNCHANGED link
  BY DEF TypeOK, NextMessage, SendMessage
<1>m. m \in DOMAIN messages /\ m \in Nat /\ run.job /\ run.at \in {"post", "send"}
  BY NextToSend DEF TypeOK, NextMessage, SendMessage, WorkInv
<1>e. \A k \in DOMAIN messages : messages[k] \in Message
  BY ElementTypes
<1>k. \A k \in Unsent : jobs > 0 \/ k \in run.todo \/ ~link.managed
  BY <1>m DEF WorkInv, InHand
<1> HIDE DEF m
<1>1. ASSUME NEW c \in Nat, messages' = Sent(m, c), run'.at = "post", run'.job,
             run'.todo = run.todo \ {m}, UNCHANGED jobs
      PROVE  WorkInv'
  <2>1. /\ DOMAIN messages' = DOMAIN messages
        /\ messages'[m] = [messages[m] EXCEPT !.state = "sent", !.comment = c, !.known = {}]
        /\ \A k \in DOMAIN messages : k # m => messages'[k] = messages[k]
    BY <1>1, <1>m, SentChange
  <2>2. messages'[m].state = "sent"
    BY <1>m, <1>e, <2>1 DEF Message
  <2>3. Unsent' \subseteq Unsent \ {m}
    BY <2>1, <2>2 DEF Unsent, Outgoing
  <2> QED BY <1>1, <1>t, <1>k, <2>3 DEF WorkInv, InHand
<1>2. ASSUME Failed
      PROVE  WorkInv'
  <2>1. run'.at = "idle" /\ jobs' = jobs + 1
    BY <1>2, <1>m DEF Failed, Idle
  <2> QED BY <1>t, <2>1 DEF WorkInv
<1>3. CASE NextMessage
  <2>0. run.at = "post" /\ run.todo # {} /\ m \in run.todo
    BY <1>3, NextToSend DEF NextMessage, m
  <2>1. ASSUME Cardinality(Matches(m)) = 1, messages' = Sent(m, Min(Matches(m))),
               run' = [run EXCEPT !.todo = @ \ {m}], UNCHANGED jobs
        PROVE  WorkInv'
    <3>1. Min(Matches(m)) \in Nat
      BY <2>1, FoundOnCard
    <3>2. run'.at = "post" /\ run'.job /\ run'.todo = run.todo \ {m}
      BY <1>t, <1>m, <2>0, <2>1 DEF Run
    <3> QED BY <1>1, <2>1, <3>1, <3>2
  <2>2. ASSUME Matches(m) = {}, ~Unanswered(m),
               messages' = [messages EXCEPT ![m].state = "sending",
                                            ![m].known = There(run.list) \cup Linked],
               Goto("send"), UNCHANGED jobs
        PROVE  WorkInv'
    <3>1. /\ DOMAIN messages' = DOMAIN messages
          /\ \A k \in DOMAIN messages : k # m => messages'[k] = messages[k]
      BY <1>m, <2>2, SetTypes, SendingChange
    <3>2. Unsent' \subseteq Unsent \cup {m}
      BY <3>1 DEF Unsent, Outgoing
    <3>3. run'.at = "send" /\ run'.job /\ run'.todo = run.todo
      BY <1>t, <1>m, <2>2 DEF Goto, Run
    <3> QED BY <1>t, <1>k, <2>0, <2>2, <3>2, <3>3 DEF WorkInv, InHand
  <2> QED BY <1>3, <1>2, <2>1, <2>2 DEF NextMessage, m
<1>4. CASE SendMessage
  <2>1. ASSUME messages' = Sent(m, Len(comments) + 1),
               run' = [run EXCEPT !.at = "post", !.todo = @ \ {m}], UNCHANGED jobs
        PROVE  WorkInv'
    <3>1. Len(comments) + 1 \in Nat
      BY DEF TypeOK
    <3>2. run'.at = "post" /\ run'.job /\ run'.todo = run.todo \ {m}
      BY <1>t, <1>m, <2>1 DEF Run
    <3> QED BY <1>1, <2>1, <3>1, <3>2
  <2> QED BY <1>4, <1>2, <2>1 DEF SendMessage, m
<1> QED BY <1>3, <1>4

\* After the messages: what is unsent still has a job.
LEMMA WorkDone ==
  ASSUME TypeOK, WorkInv,
         \/ GetDeal \/ DescribeCustomer \/ SyncCustomer \/ ReadAssignment
         \/ Reassign \/ Notify \/ PullComments \/ Finish
  PROVE  WorkInv'
<1>t. link \in Link /\ run \in Run /\ link.managed \in BOOLEAN
  BY LinkTypes
<1>1. UNCHANGED <<messages, jobs>>
  BY DEF GetDeal, DescribeCustomer, SyncCustomer, ReadAssignment, Reassign, Notify,
         PullComments, Finish, desk
<1>2. link'.managed = link.managed
  BY <1>t DEF GetDeal, DescribeCustomer, SyncCustomer, ReadAssignment, Reassign, Notify,
              PullComments, Finish, Link
<1>3. run'.at \notin {"find", "create", "list", "post", "send"}
  <2>g. ASSUME NEW at, Goto(at) PROVE run'.at = at
    BY <2>g, <1>t DEF Goto, Run
  <2>1. CASE GetDeal
    <3>1. run'.at \in {"assign", "describe"}
      BY <2>1 DEF GetDeal, Idle
    <3> QED BY <3>1
  <2>5. CASE PullComments
    <3>1. run'.at = "import"
      BY <2>5 DEF PullComments, Idle
    <3> QED BY <3>1
  <2>6. CASE Finish
    BY <2>6 DEF Finish, Idle
  <2>2. CASE DescribeCustomer \/ ReadAssignment
    BY <2>2, <1>t DEF DescribeCustomer, ReadAssignment, Run
  <2>3. CASE SyncCustomer \/ Notify
    BY <2>3, <2>g DEF SyncCustomer, Notify
  <2>4. CASE Reassign
    BY <2>4, <2>g DEF Reassign
  <2> QED BY <2>1, <2>2, <2>3, <2>4, <2>5, <2>6
<1>4. \A m \in Unsent : ~InHand(m)
  BY DEF GetDeal, DescribeCustomer, SyncCustomer, ReadAssignment, Reassign, Notify,
         PullComments, Finish, InHand
<1> QED BY <1>1, <1>2, <1>3, <1>4, UnsentSame DEF WorkInv

LEMMA WorkImports ==
  ASSUME TypeOK, WorkInv, ImportComment \/ DropRemoved
  PROVE  WorkInv'
<1>q. UNCHANGED <<link, jobs, run>>
  BY DEF ImportComment, DropRemoved
<1>e. \A k \in DOMAIN messages : messages[k] \in Message
  BY ElementTypes
<1>1. ASSUME NEW m \in DOMAIN messages, NEW text \in Texts, NEW deleted \in BOOLEAN,
             Update(m, text, deleted)
      PROVE  Unsent' \subseteq Unsent
  <2> DEFINE r == [messages[m] EXCEPT !.text = text, !.deleted = deleted]
  <2>1. messages' = [messages EXCEPT ![m] = r]
    BY <1>1 DEF TypeOK, Update
  <2>2. r.from = messages[m].from /\ r.state = messages[m].state
    BY <1>1, <1>e DEF Message
  <2> HIDE DEF r
  <2> QED BY <1>1, <2>1, <2>2, UnsentLess DEF TypeOK
<1>2. CASE ImportComment
  <2>1. PICK c \in Fresh :
           /\ c \in DOMAIN run.list /\ c \in Nat /\ c \notin Linked
           /\ \/ /\ ~run.list[c].addressed
                 /\ ImportOf(c) \in DOMAIN messages
                 /\ Update(ImportOf(c), "hidden in CRM", TRUE)
              \/ run.list[c].addressed /\ Import(c)
              \/ /\ run.list[c].addressed
                 /\ ImportOf(c) \in DOMAIN messages
                 /\ Update(ImportOf(c), run.list[c].text, FALSE)
    BY <1>2, ImportCases
  <2>2. run.list[c].text \in Texts /\ "hidden in CRM" \in Texts
    BY <2>1, ElementTypes DEF Comment, Texts
  <2>3. CASE Import(c)
    <3>1. /\ Len(messages') = Len(messages) + 1 /\ messages' \in Seq(Message)
          /\ messages'[Len(messages) + 1].from = "crm"
          /\ \A k \in DOMAIN messages : messages'[k] = messages[k]
      <4>1. messages'[Len(messages) + 1] =
              [from |-> "crm", text |-> run.list[c].text, state |-> "in",
               comment |-> c, known |-> {}, deleted |-> FALSE]
        BY <2>1, <2>3, ImportChange
      <4>2. /\ Len(messages') = Len(messages) + 1 /\ messages' \in Seq(Message)
            /\ \A k \in DOMAIN messages : messages'[k] = messages[k]
        BY <2>1, <2>3, ImportChange
      <4> QED BY <4>1, <4>2
    <3>2. DOMAIN messages' = DOMAIN messages \cup {Len(messages) + 1}
      BY <3>1 DEF TypeOK
    <3>3. Unsent' \subseteq Unsent
      BY <3>1, <3>2 DEF Unsent, Outgoing
    <3> QED BY <1>q, <3>3, WorkQuiet
  <2>4. CASE ~Import(c)
    <3>1. Unsent' \subseteq Unsent
      BY <1>1, <2>1, <2>2, <2>4
    <3> QED BY <1>q, <3>1, WorkQuiet
  <2> QED BY <2>3, <2>4
<1>3. CASE DropRemoved
  <2>1. Min(Gone) \in DOMAIN messages
    BY <1>3, MinIn, SetTypes DEF DropRemoved, Gone
  <2>2. Unsent' \subseteq Unsent
    BY <1>1, <1>3, <2>1 DEF DropRemoved, Texts
  <2> QED BY <1>q, <2>2, WorkQuiet
<1> QED BY <1>2, <1>3

LEMMA WorkStep ==
  ASSUME TypeOK, WorkInv, [Next]_vars
  PROVE  WorkInv'
<1>1. CASE UNCHANGED vars
  BY <1>1, UnsentSame, WorkQuiet DEF vars
<1>2. CASE Step
  BY <1>2, WorkBegun, WorkPosts, WorkDone, WorkImports DEF Step
<1> QED BY <1>1, <1>2, WorkDesk, WorkPortal, WorkBegun DEF Next

LEMMA WorkBegins == Init => WorkInv
<1> SUFFICES ASSUME Init PROVE WorkInv
  OBVIOUS
<1>1. run.at = "idle" /\ (link.managed => jobs = 1)
  BY DEF Init, Idle
<1> QED BY <1>1 DEF WorkInv

\* An unsent message of a managed request never loses its job, whatever is refused,
\* lost or interrupted; and an assignment recorded as carried and notified is the one
\* that is on the card and was notified, however assignments and their carrying interleave.
THEOREM NothingIsForgotten == Spec => []NothingForgotten
<1>1. Init => AssignInv /\ WorkInv
  BY AssignBegins, WorkBegins
<1>2. IInv /\ (AssignInv /\ WorkInv) /\ [Next]_vars => (AssignInv /\ WorkInv)'
  BY AssignStep, WorkStep DEF IInv
<1>3. AssignInv /\ WorkInv => NothingForgotten
  BY DEF AssignInv, WorkInv, NothingForgotten
<1> QED BY <1>1, <1>2, <1>3, Invariant, PTL DEF Spec

-----------------------------------------------------------------------------
(* When the company of the tenant reaches the card *)

\* The tenant is not linked to a company while the worker carries the customer of
\* the request, between describing it and marking it as carried.
NotLinkedMeanwhile == [][run.at = "customer" => company' = company]_vars

\* What is marked as carried is on the card.
CompanyInv ==
  /\ link.deal => link.managed
  /\ link.current => link.deal
  /\ run.at = "customer" => link.deal /\ run.company = company
  /\ link.current /\ company # None => deal.company = company

\* A step that neither links a company nor carries one.
SameCompany ==
  /\ link'.current = link.current /\ company' = company
  /\ deal'.company = deal.company
  /\ link.deal => link'.deal
  /\ link'.deal => link'.managed
  /\ run'.at = "customer" => run.at = "customer" /\ run'.company = run.company

LEMMA CompanyQuiet ==
  ASSUME CompanyInv, SameCompany
  PROVE  CompanyInv'
BY DEF CompanyInv, SameCompany

LEMMA CompanyDesk ==
  ASSUME TypeOK, CompanyInv, Desk, run.at = "customer" => company' = company
  PROVE  CompanyInv'
<1>t. link \in Link /\ link.deal \in BOOLEAN /\ link.managed \in BOOLEAN
  BY LinkTypes
<1>1. ASSUME NEW from \in {"customer", "support"}, NEW t \in Said, Reply(from, t)
      PROVE  SameCompany
  BY <1>1, <1>t DEF Reply, portal, SameCompany, Link
<1>2. ASSUME \/ \E status \in Statuses : SetStatus(status)
             \/ \E side \in {"customer", "support"}, seen \in 0 .. ticket.seq : Read(side, seen)
      PROVE  SameCompany
  BY <1>2 DEF SetStatus, Read, portal, SameCompany, CompanyInv
<1>3. ASSUME NEW user \in User, Assign(user)
      PROVE  SameCompany
  BY <1>3, <1>t DEF Assign, portal, SameCompany, CompanyInv, Link
<1>4. ASSUME NEW c \in Company, LinkTenantCompany(c)
      PROVE  CompanyInv'
  <2>1. /\ link'.deal = link.deal /\ link'.managed = link.managed
        /\ link'.current = IF link.managed THEN FALSE ELSE link.current
        /\ run' = run /\ company' # company
    BY <1>4, <1>t DEF LinkTenantCompany, Link
  <2>2. ~link'.current
    BY <2>1 DEF CompanyInv
  <2> QED BY <2>1, <2>2 DEF CompanyInv
<1> QED BY <1>1, <1>2, <1>3, <1>4, CompanyQuiet DEF Desk

LEMMA CompanyPortal ==
  ASSUME TypeOK, CompanyInv, Portal
  PROVE  SameCompany
<1>t. deal \in Deal
  BY LinkTypes
<1>1. UNCHANGED <<link, company, run>>
  BY DEF Portal, StaffWrites, StaffEdits, StaffRemoves, StaffMoves, Arrive
<1>2. deal'.company = deal.company
  <2>1. ASSUME NEW call \in late, Arrive(call) PROVE deal'.company = deal.company
    BY <2>1, <1>t DEF Arrive, AddCard, AddComment, Deal
  <2>2. ASSUME NEW stage, StaffMoves(stage) PROVE deal'.company = deal.company
    BY <2>2, <1>t DEF StaffMoves, Deal
  <2>3. (\E call \in late : Arrive(call)) \/ (\E stage : StaffMoves(stage)) \/ deal' = deal
    BY DEF Portal, StaffWrites, StaffEdits, StaffRemoves
  <2> QED BY <2>1, <2>2, <2>3
<1> QED BY <1>1, <1>2 DEF SameCompany, CompanyInv

LEMMA CompanyWorker ==
  ASSUME TypeOK, AssignInv, CompanyInv,
         \/ ClaimJob \/ ClaimPoll \/ Refused \/ Crash \/ FindCard \/ CreateCard \/ ListComments
         \/ NextMessage \/ SendMessage \/ GetDeal \/ ReadAssignment \/ Reassign \/ Notify
         \/ PullComments \/ ImportComment \/ DropRemoved \/ Finish
  PROVE  SameCompany
<1>t. link \in Link /\ run \in Run /\ deal \in Deal
  BY LinkTypes
<1>f. Failed => run'.at = "idle"
  BY DEF Failed, Idle
<1>g. ASSUME NEW at, Goto(at) PROVE run'.at = at
  BY <1>g, <1>t DEF Goto, Run
<1>r. ASSUME UNCHANGED <<link, company>>, deal'.company = deal.company, run'.at # "customer"
      PROVE  SameCompany
  BY <1>r DEF SameCompany, CompanyInv
<1>1. CASE ClaimJob \/ ClaimPoll \/ Finish
  <2>1. run'.at \in {"find", "list", "get", "idle"}
    <3>1. CASE ClaimJob \/ ClaimPoll
      BY <3>1 DEF ClaimJob, ClaimPoll, Idle
    <3>2. CASE Finish
      BY <3>2 DEF Finish, Idle
    <3> QED BY <1>1, <3>1, <3>2
  <2>2. UNCHANGED <<link, company, deal>>
    BY <1>1 DEF ClaimJob, ClaimPoll, Finish, portal
  <2> QED BY <1>r, <2>1, <2>2
<1>2. CASE Refused \/ Crash
  BY <1>2, <1>f, <1>r DEF Refused, Crash, portal
<1>3. CASE FindCard
  <2>1. CASE /\ Goto("list")
             /\ link' = [link EXCEPT !.managed = TRUE, !.deal = TRUE, !.create = "linked"]
    BY <1>3, <1>t, <1>g, <2>1 DEF FindCard, portal, SameCompany, Link
  <2>2. CASE Failed /\ UNCHANGED link
    BY <1>3, <1>f, <1>r, <2>2 DEF FindCard, portal
  <2>3. CASE Goto("create") /\ link' = [link EXCEPT !.create = "sending"]
    BY <1>3, <1>t, <1>g, <2>3 DEF FindCard, portal, SameCompany, CompanyInv, Link
  <2> QED BY <1>3, <2>1, <2>2, <2>3 DEF FindCard
<1>4. CASE CreateCard
  <2>0. company' = company /\ deal'.company = deal.company
    BY <1>4, <1>t DEF CreateCard, AddCard, Deal
  <2>1. CASE /\ Goto("list")
             /\ link' = [link EXCEPT !.managed = TRUE, !.deal = TRUE, !.create = "linked"]
    BY <1>t, <1>g, <2>0, <2>1 DEF SameCompany, Link
  <2>2. CASE Failed /\ \E s : link' = [link EXCEPT !.create = s]
    BY <1>t, <1>f, <2>0, <2>2 DEF SameCompany, CompanyInv, Link
  <2> QED BY <1>4, <2>1, <2>2 DEF CreateCard
<1>5. CASE ListComments
  <2>1. run'.at = "post"
    BY <1>5, <1>t DEF ListComments, Run
  <2> QED BY <1>5, <1>r, <2>1 DEF ListComments, portal
<1>6. CASE NextMessage
  <2>1. run'.at \in {"post", "send", "idle"}
    <3>1. \/ run' = [run EXCEPT !.todo = @ \ {Min(run.todo)}] \/ Failed \/ Goto("send")
      BY <1>6 DEF NextMessage
    <3>2. run' = [run EXCEPT !.todo = @ \ {Min(run.todo)}] => run'.at = run.at
      BY <1>t DEF Run
    <3> QED BY <1>6, <1>f, <1>g, <3>1, <3>2 DEF NextMessage
  <2> QED BY <1>6, <1>r, <2>1 DEF NextMessage, portal
<1>7. CASE SendMessage
  <2>1. run'.at \in {"post", "idle"}
    <3>1. \/ run' = [run EXCEPT !.at = "post", !.todo = @ \ {Min(run.todo)}] \/ Failed
      BY <1>7 DEF SendMessage
    <3>2. run' = [run EXCEPT !.at = "post", !.todo = @ \ {Min(run.todo)}] => run'.at = "post"
      BY <1>t DEF Run
    <3> QED BY <1>f, <3>1, <3>2
  <2>2. UNCHANGED <<link, company>> /\ deal'.company = deal.company
    BY <1>7, <1>t DEF SendMessage, AddComment, Deal
  <2> QED BY <1>r, <2>1, <2>2
<1>8. CASE GetDeal
  <2>1. run'.at \in {"assign", "describe"}
    BY <1>8 DEF GetDeal, Idle
  <2> QED BY <1>8, <1>r, <2>1 DEF GetDeal, portal
<1>9. CASE ReadAssignment
  <2>1. run'.at \in {"reassign", "notify", "pull"}
    BY <1>9, <1>t DEF ReadAssignment, Run
  <2> QED BY <1>9, <1>r, <2>1 DEF ReadAssignment, portal
<1>10. CASE Reassign \/ Notify
  <2>1. run'.at \in {"notify", "pull"} /\ company' = company
    BY <1>10, <1>g DEF Reassign, Notify
  <2>2. deal'.company = deal.company
    BY <1>10, <1>t DEF Reassign, Notify, Deal
  <2>3. /\ link'.current = link.current /\ link'.deal = link.deal /\ link'.managed = link.managed
    BY <1>10, <1>t DEF Reassign, Notify, Link
  <2> QED BY <2>1, <2>2, <2>3 DEF SameCompany, CompanyInv
<1>11. CASE PullComments
  BY <1>11, <1>r DEF PullComments, portal, Idle
<1>12. CASE ImportComment \/ DropRemoved
  BY <1>12 DEF ImportComment, DropRemoved, portal, SameCompany, CompanyInv
<1> QED BY <1>1, <1>2, <1>3, <1>4, <1>5, <1>6, <1>7, <1>8, <1>9, <1>10, <1>11, <1>12

\* Bitrix24Customers.sync.
LEMMA CompanyCarried ==
  ASSUME TypeOK, AssignInv, CompanyInv, DescribeCustomer \/ SyncCustomer
  PROVE  CompanyInv'
<1>t. link \in Link /\ run \in Run /\ deal \in Deal
  BY LinkTypes
<1>1. CASE DescribeCustomer
  <2>1. run'.company = company /\ link.deal
    BY <1>1, <1>t DEF DescribeCustomer, Run, AssignInv
  <2> QED BY <1>1, <2>1 DEF DescribeCustomer, portal, CompanyInv
<1>2. CASE SyncCustomer
  <2>1. /\ run.at = "customer" /\ link.deal /\ link.managed /\ run.company = company
        /\ company' = company
    BY <1>2 DEF SyncCustomer, CompanyInv
  <2>2. run'.at = "assign"
    BY <1>2, <1>t DEF SyncCustomer, Goto, Run
  <2> DEFINE named == [deal EXCEPT !.company = IF run.company = None THEN @ ELSE run.company]
  <2>3. company # None => named.company = company
    BY <1>t, <2>1 DEF Deal
  <2>4. CASE deal' = named /\ link' = [link EXCEPT !.current = TRUE]
    <3>1. link'.deal = link.deal /\ link'.managed = link.managed
      BY <1>t, <2>4 DEF Link
    <3>2. company # None => deal'.company = company
      BY <2>3, <2>4
    <3> HIDE DEF named
    <3> QED BY <2>1, <2>2, <3>1, <3>2 DEF CompanyInv
  <2>5. CASE deal' \in {deal, named} /\ link' = link
    <3> HIDE DEF named
    <3> QED BY <2>1, <2>2, <2>3, <2>5 DEF CompanyInv
  <2> QED BY <1>2, <2>4, <2>5 DEF SyncCustomer
<1> QED BY <1>1, <1>2

LEMMA CompanyStep ==
  ASSUME TypeOK, AssignInv, CompanyInv, [Next]_vars, run.at = "customer" => company' = company
  PROVE  CompanyInv'
<1>1. CASE UNCHANGED vars
  BY <1>1 DEF vars, CompanyInv
<1>2. CASE Step
  BY <1>2, CompanyWorker, CompanyCarried, CompanyQuiet DEF Step
<1> QED BY <1>1, <1>2, CompanyDesk, CompanyPortal, CompanyWorker, CompanyQuiet DEF Next

\* A company reaches the card of every request of its tenant, "including requests
\* that are already linked", as long as it is not linked while the worker carries
\* the customer of the request: the order of MCDesk_link.cfg is the only one that
\* loses it (bitrix24.service.ts:383, bitrix24.customers.ts:338-377).
THEOREM LinkedCompanyArrives == Spec /\ NotLinkedMeanwhile => []LinkReachesDeal
<1> DEFINE Waits == run.at = "customer" => company' = company
<1>1. Init => AssignInv /\ CompanyInv
  <2> SUFFICES ASSUME Init PROVE CompanyInv
    BY AssignBegins
  <2>1. ~link.deal /\ ~link.current /\ run.at = "idle"
    BY DEF Init, Idle
  <2> QED BY <2>1 DEF CompanyInv
<1>2. IInv /\ AssignInv /\ [Next]_vars => AssignInv'
  BY AssignStep
<1>3. IInv /\ AssignInv /\ CompanyInv /\ [Next]_vars /\ [Waits]_vars => CompanyInv'
  <2> SUFFICES ASSUME IInv, AssignInv, CompanyInv, [Next]_vars, [Waits]_vars PROVE CompanyInv'
    OBVIOUS
  <2>1. CASE Waits
    BY <2>1, CompanyStep DEF IInv
  <2>2. CASE UNCHANGED vars
    BY <2>2 DEF vars, CompanyInv
  <2> QED BY <2>1, <2>2
<1>4. CompanyInv => LinkReachesDeal
  BY DEF CompanyInv, LinkReachesDeal
<1> QED BY <1>1, <1>2, <1>3, <1>4, Invariant, PTL DEF Spec, NotLinkedMeanwhile
=============================================================================
