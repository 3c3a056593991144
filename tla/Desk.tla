-------------------------------- MODULE Desk --------------------------------
(***************************************************************************)
(* One service request of a tenant (OperationsSupport) and the worker that *)
(* keeps it in step with a card of the Bitrix24 portal (Bitrix24Service).  *)
(*                                                                         *)
(* A command of the desk is one step: store.command runs it in one         *)
(* transaction.  The worker takes one step per call of the portal and one  *)
(* per transaction, so that residents, administrators and the staff of the *)
(* portal act between any two of them.  What the worker keeps in its local *)
(* variables meanwhile is in "run".                                        *)
(*                                                                         *)
(* A call of the portal is answered, refused (nothing happened, and Pass   *)
(* knows it), or its answer is lost: a creation may then still arrive at   *)
(* the portal at any later time, or never ("late"); an update of the card  *)
(* is assumed to happen at once or never.  A crash forgets "run" and       *)
(* leaves what was stored; another worker starts when the leases have      *)
(* lapsed.  A live worker renews its lease every 45 of 180 seconds, so     *)
(* there is never a second one beside it.                                  *)
(*                                                                         *)
(* Abstractions: texts are members of small sets and stand for text and    *)
(* files; a due date is due at any time; refusals by revision or access    *)
(* are commands that do not happen; a tick's job and its polls are         *)
(* separate runs of the same worker.                                       *)
(***************************************************************************)
EXTENDS Integers, Sequences, FiniteSets, FiniteSetsExt, Functions

CONSTANTS
  Said,       \* what residents and administrators write
  Replies,    \* what the staff of the portal writes
  User,       \* users of the portal a request can be assigned to
  Company,    \* companies of the portal a tenant can be linked to
  None,       \* no user, no company
  MaxWords,   \* bound: messages written in Pass
  MaxEvents   \* bound: everything else that is not the worker's own progress:
              \* assignments, links, status changes and readings in Pass, what
              \* the staff does at the portal, crashes, refused and lost calls

ASSUME DeskAssumption ==
  /\ None \notin User \cup Company
  /\ {MaxWords, MaxEvents} \subseteq Nat

VARIABLES
  ticket,    \* the request as the desk shows it
  link,      \* its "bitrix" subdocument
  messages,  \* the conversation; the position of a message is its number
  jobs,      \* jobs of the outbox that are not done and not being served
  company,   \* the company the tenant is linked to (tenant-company)
  run,       \* the local variables of the worker
  deal,      \* the portal: cards, stage, assignee, client and posted messages
  comments,  \* the portal: comments of the card, removed ones included
  told,      \* the portal: users who were notified of the request
  late,      \* creations whose answer was lost and that may still happen
  spent      \* how much of each bound is used

vars == <<ticket, link, messages, jobs, company, run,
          deal, comments, told, late, spent>>

desk == <<ticket, messages>>
portal == <<deal, comments, told, late>>

Closed == {"completed", "cancelled"}
Statuses == Closed \cup {"new", "in_progress"}
Texts == Said \cup Replies \cup {"hidden in CRM", "removed in CRM"}

\* bitrix.state of a message that was never tried is "pending" here.
Message == [from: {"customer", "support", "crm"}, text: Texts,
            state: {"pending", "sending", "uncertain", "sent", "in"},
            comment: Nat, known: SUBSET Nat, deleted: BOOLEAN]

\* origin: the message Pass posted as this comment, 0 for one of the staff;
\* addressed: it begins with the mark of a reply to the tenant.
Comment == [origin: Nat, text: Texts, addressed: BOOLEAN,
            there: BOOLEAN]

Written(from, text) ==
  [from |-> from, text |-> text, state |-> "pending", comment |-> 0,
   known |-> {}, deleted |-> FALSE]

Outgoing == {m \in DOMAIN messages : messages[m].from # "crm"}
Unsent == {m \in Outgoing : messages[m].state # "sent"}
Linked == {messages[m].comment : m \in Outgoing \ Unsent}
There(list) == {c \in DOMAIN list : list[c].there}

\* The message that shows a comment of the staff, 0 if there is none yet.
ImportOf(c) ==
  LET shown == {m \in DOMAIN messages :
                  messages[m].from = "crm" /\ messages[m].comment = c}
  IN  IF shown = {} THEN 0 ELSE Min(shown)

Idle == [at |-> "idle", job |-> FALSE, who |-> None, rev |-> 0,
         told |-> FALSE, current |-> FALSE, company |-> None,
         stage |-> "process", list |-> <<>>, todo |-> {}]

Say ==
  /\ spent.words < MaxWords
  /\ spent' = [spent EXCEPT !.words = @ + 1]

Event ==
  /\ spent.events < MaxEvents
  /\ spent' = [spent EXCEPT !.events = @ + 1]

-----------------------------------------------------------------------------
(* The desk *)

\* The request has just been created: with the portal on it is managed and has
\* its job, one created with the portal off is managed from the next message on.
Init ==
  /\ \E t \in Said, managed \in BOOLEAN, who \in User \cup {None} :
       /\ managed \/ who = None
       /\ messages = <<Written("customer", t)>>
       /\ ticket = [status |-> "new", seq |-> 1, customer |-> 1, support |-> 0,
                    customerRead |-> 1, supportRead |-> 0, preview |-> t]
       /\ link = [managed |-> managed, create |-> "pending", deal |-> FALSE,
                  who |-> who, rev |-> IF who = None THEN 0 ELSE 1,
                  synced |-> 0, notified |-> 0, current |-> FALSE]
       /\ jobs = IF managed THEN 1 ELSE 0
  /\ company = None
  /\ run = Idle
  /\ deal = [cards |-> 0, stage |-> "process", who |-> None, company |-> None,
             posted |-> <<>>]
  /\ comments = <<>>
  /\ told = {}
  /\ late = {}
  /\ spent = [words |-> 1, events |-> 0]

\* support.reply; with the portal on, message() makes the request managed.
Reply(from, text) ==
  LET seq == ticket.seq + 1 IN
  /\ ticket.status \notin Closed
  /\ Say
  /\ messages' = Append(messages, Written(from, text))
  /\ ticket' = [ticket EXCEPT
       !.status = IF from = "support" /\ @ = "new" /\ ~link.managed
                  THEN "in_progress" ELSE @,
       !.seq = seq,
       !.customer = IF from = "customer" THEN seq ELSE @,
       !.customerRead = IF from = "customer" THEN seq ELSE @,
       !.support = IF from = "support" THEN seq ELSE @,
       !.supportRead = IF from = "support" THEN seq ELSE @,
       !.preview = text]
  /\ link' = [link EXCEPT !.managed = TRUE]
  /\ jobs' = jobs + 1
  /\ UNCHANGED <<company, run>> /\ UNCHANGED portal

\* support.status is refused once the CRM manages the request.
SetStatus(status) ==
  /\ ~link.managed
  /\ ticket.status # status
  /\ Event
  /\ ticket' = [ticket EXCEPT !.status = status]
  /\ UNCHANGED <<link, messages, jobs, company, run>> /\ UNCHANGED portal

Assign(user) ==
  /\ link.managed
  /\ Event
  /\ link' = [link EXCEPT !.who = user, !.rev = @ + 1]
  /\ UNCHANGED <<ticket, messages, jobs, company, run>> /\ UNCHANGED portal

\* support.read; seen_seq is whatever the reader's screen showed last.
Read(side, seen) ==
  LET mark == IF side = "customer" THEN "customerRead" ELSE "supportRead" IN
  /\ Event
  /\ ticket' = [ticket EXCEPT ![mark] = Max({@, Min({ticket.seq, seen})})]
  /\ UNCHANGED <<link, messages, jobs, company, run>> /\ UNCHANGED portal

\* linkTenantCompany stores the link and asks every managed request to carry
\* its customer to the portal again.
LinkTenantCompany(c) ==
  /\ c # company
  /\ Event
  /\ company' = c
  /\ link' = [link EXCEPT !.current = IF link.managed THEN FALSE ELSE @]
  /\ UNCHANGED <<ticket, messages, jobs, run>> /\ UNCHANGED portal

-----------------------------------------------------------------------------
(* The portal: its staff, and creations whose answer was lost *)

StaffWrites(text, addressed) ==
  /\ deal.cards = 1
  /\ Event
  /\ comments' = Append(comments, [origin |-> 0, text |-> text,
                                   addressed |-> addressed, there |-> TRUE])
  /\ UNCHANGED <<deal, told, late, link, jobs, company, run>> /\ UNCHANGED desk

\* The staff does not turn a comment of Pass into a reply to the tenant.
StaffEdits(c, text, addressed) ==
  /\ comments[c].there
  /\ addressed => comments[c].origin = 0
  /\ Event
  /\ comments' = [comments EXCEPT ![c].text = text, ![c].addressed = addressed]
  /\ comments' # comments
  /\ UNCHANGED <<deal, told, late, link, jobs, company, run>> /\ UNCHANGED desk

StaffRemoves(c) ==
  /\ comments[c].there
  /\ Event
  /\ comments' = [comments EXCEPT ![c].there = FALSE]
  /\ UNCHANGED <<deal, told, late, link, jobs, company, run>> /\ UNCHANGED desk

StaffMoves(stage) ==
  /\ deal.cards > 0
  /\ deal.stage # stage
  /\ Event
  /\ deal' = [deal EXCEPT !.stage = stage]
  /\ UNCHANGED <<comments, told, late, link, jobs, company, run>>
  /\ UNCHANGED desk

\* What crm.deal.add and crm.timeline.comment.add do at the portal.
AddCard(who) == deal' = [deal EXCEPT !.cards = @ + 1, !.who = who]

AddComment(m) ==
  /\ comments' = Append(comments,
       [origin |-> m, text |-> messages[m].text, addressed |-> FALSE,
        there |-> TRUE])
  /\ deal' = [deal EXCEPT !.posted = Append(@, m)]

Arrive(call) ==
  /\ late' = late \ {call}
  /\ IF call.what = 0 THEN AddCard(call.who) /\ UNCHANGED comments
                      ELSE AddComment(call.what)
  /\ UNCHANGED <<told, link, jobs, company, run, spent>> /\ UNCHANGED desk

-----------------------------------------------------------------------------
(* The worker: what a run begins with, and how it ends *)

\* tick() takes the oldest due job; one whose worker died is due again.
ClaimJob ==
  /\ run.at = "idle"
  /\ jobs > 0
  /\ jobs' = jobs - 1
  /\ run' = [Idle EXCEPT !.at = IF link.deal THEN "list" ELSE "find",
                         !.job = TRUE, !.who = link.who,
                         !.current = link.current]
  /\ UNCHANGED <<link, company, spent>> /\ UNCHANGED <<desk, portal>>

ClaimPoll ==
  /\ run.at = "idle"
  /\ link.deal
  /\ run' = [Idle EXCEPT !.at = "get", !.current = link.current]
  /\ UNCHANGED <<link, jobs, company, spent>> /\ UNCHANGED <<desk, portal>>

\* Variant: a failed job is done.
GiveUp ==
  /\ run' = Idle
  /\ jobs' = jobs

\* An error ends the run; its job waits for a retry.
Failed ==
  /\ run' = Idle
  /\ jobs' = IF run.job THEN jobs + 1 ELSE jobs

\* A call that reads, or a transaction, that fails: nothing was changed.
Refused ==
  /\ run.at \in {"find", "list", "post", "get", "pull", "import"}
  /\ Event
  /\ Failed
  /\ UNCHANGED <<link, company>> /\ UNCHANGED <<desk, portal>>

\* A crash; a creation under way may still arrive.
Crash ==
  /\ run.at # "idle"
  /\ Event
  /\ Failed
  /\ late' = CASE run.at = "create" -> late \cup {[what |-> 0, who |-> run.who]}
               [] run.at = "send" ->
                    late \cup {[what |-> Min(run.todo), who |-> None]}
               [] OTHER -> late
  /\ UNCHANGED <<deal, comments, told, link, company>> /\ UNCHANGED desk

Goto(at) == run' = [run EXCEPT !.at = at]

-----------------------------------------------------------------------------
(* ensureDeal and sendTicket *)

\* The card is looked up by the request's number before one is created, and is
\* never created again while the outcome of an earlier creation is unknown.
FindCard ==
  /\ run.at = "find"
  /\ \/ /\ deal.cards = 1
        /\ link' = [link EXCEPT !.managed = TRUE, !.deal = TRUE,
                                !.create = "linked"]
        /\ Goto("list")
        /\ UNCHANGED jobs
     \/ /\ \/ deal.cards > 1
           \/ deal.cards = 0 /\ link.create \in {"sending", "uncertain"}
        /\ Failed
        /\ UNCHANGED link
     \/ /\ deal.cards = 0
        /\ link.create \notin {"sending", "uncertain"}
        /\ link' = [link EXCEPT !.create = "sending"]
        /\ Goto("create")
        /\ UNCHANGED jobs
  /\ UNCHANGED <<company, spent>> /\ UNCHANGED <<desk, portal>>

CreateCard ==
  /\ run.at = "create"
  /\ \/ /\ AddCard(run.who)
        /\ link' = [link EXCEPT !.managed = TRUE, !.deal = TRUE,
                                !.create = "linked"]
        /\ Goto("list")
        /\ UNCHANGED <<jobs, late, spent>>
     \/ /\ Event
        /\ link' = [link EXCEPT !.create = "pending"]
        /\ Failed
        /\ UNCHANGED <<deal, late>>
     \/ /\ Event
        /\ link' = [link EXCEPT !.create = "uncertain"]
        /\ late' = late \cup {[what |-> 0, who |-> run.who]}
        /\ Failed
        /\ UNCHANGED deal
  /\ UNCHANGED <<comments, told, company>> /\ UNCHANGED desk

\* The comments are listed once, before the first message is posted.
ListComments ==
  /\ run.at = "list"
  /\ run' = [run EXCEPT !.at = "post", !.list = comments, !.todo = Unsent]
  /\ UNCHANGED <<link, jobs, company, spent>> /\ UNCHANGED <<desk, portal>>

\* Variant: a message whose sending a crash interrupted is sent again.
KnownUncertain(m) == messages[m].state = "uncertain"

\* The message may be on the card without Pass knowing it.
Unanswered(m) == messages[m].state \in {"sending", "uncertain"}

\* Variant: a comment is recognised by its text alone.
MatchesText(m) ==
  {c \in There(run.list) : run.list[c].origin # 0
                            /\ run.list[c].text = messages[m].text}

\* matchesPendingComment: a comment that appeared since the attempt, written by
\* the webhook's author, with the text of the message, and of no other message.
Matches(m) ==
  {c \in There(run.list) :
     /\ c \notin Linked
     /\ Unanswered(m)
     /\ c \notin messages[m].known
     /\ run.list[c].origin # 0
     /\ run.list[c].text = messages[m].text}

Sent(m, c) ==
  [messages EXCEPT ![m].state = "sent", ![m].comment = c, ![m].known = {}]

\* The next unsent message: found on the card, held back, or about to be sent.
NextMessage ==
  /\ run.at = "post"
  /\ run.todo # {}
  /\ LET m == Min(run.todo) IN
     \/ /\ Cardinality(Matches(m)) = 1
        /\ messages' = Sent(m, Min(Matches(m)))
        /\ run' = [run EXCEPT !.todo = @ \ {m}]
        /\ UNCHANGED jobs
     \/ /\ \/ Cardinality(Matches(m)) > 1
           \/ Matches(m) = {} /\ Unanswered(m)
        /\ Failed
        /\ UNCHANGED messages
     \/ /\ Matches(m) = {} /\ ~Unanswered(m)
        /\ messages' = [messages EXCEPT
             ![m].state = "sending",
             ![m].known = There(run.list) \cup Linked]
        /\ Goto("send")
        /\ UNCHANGED jobs
  /\ UNCHANGED <<ticket, link, company, spent>> /\ UNCHANGED portal

SendMessage ==
  /\ run.at = "send"
  /\ LET m == Min(run.todo) IN
     \/ /\ AddComment(m)
        /\ messages' = Sent(m, Len(comments) + 1)
        /\ run' = [run EXCEPT !.at = "post", !.todo = @ \ {m}]
        /\ UNCHANGED <<jobs, late, spent>>
     \/ /\ Event
        /\ messages' = [messages EXCEPT ![m].state = "pending"]
        /\ Failed
        /\ UNCHANGED <<deal, comments, late>>
     \/ /\ Event
        /\ messages' = [messages EXCEPT ![m].state = "uncertain"]
        /\ late' = late \cup {[what |-> m, who |-> None]}
        /\ Failed
        /\ UNCHANGED <<deal, comments>>
  /\ UNCHANGED <<ticket, told, link, company>>

-----------------------------------------------------------------------------
(* syncTicket *)

\* After the messages of a job, or as the beginning of a poll.
GetDeal ==
  /\ run.at = "get" \/ (run.at = "post" /\ run.todo = {})
  /\ run' = [Idle EXCEPT !.at = IF run.current THEN "assign" ELSE "describe",
                         !.job = run.job, !.stage = deal.stage]
  /\ UNCHANGED <<link, jobs, company, spent>> /\ UNCHANGED <<desk, portal>>

\* Bitrix24Customers.sync reads the tenant's link when it describes the request.
DescribeCustomer ==
  /\ run.at = "describe"
  /\ run' = [run EXCEPT !.at = "customer", !.company = company]
  /\ UNCHANGED <<link, jobs, company, spent>> /\ UNCHANGED <<desk, portal>>

\* It ends by marking the request as carried; its errors are only recorded.
SyncCustomer ==
  /\ run.at = "customer"
  /\ Goto("assign")
  /\ LET named == [deal EXCEPT !.company =
                     IF run.company = None THEN @ ELSE run.company]
     IN  \/ /\ deal' = named
            /\ link' = [link EXCEPT !.current = TRUE]
            /\ UNCHANGED spent
         \/ /\ Event
            /\ deal' \in {deal, named}
            /\ UNCHANGED link
  /\ UNCHANGED <<jobs, company, comments, told, late>> /\ UNCHANGED desk

\* syncAssignment reads the request again.
ReadAssignment ==
  /\ run.at = "assign"
  /\ run' = [run EXCEPT
       !.at = IF link.rev > link.synced THEN "reassign"
              ELSE IF link.rev > link.notified THEN "notify" ELSE "pull",
       !.who = link.who, !.rev = link.rev, !.told = link.rev <= link.notified]
  /\ UNCHANGED <<link, jobs, company, spent>> /\ UNCHANGED <<desk, portal>>

\* Variant: whichever revision is current is recorded as carried.
CurrentRevision(old, rev) == link.rev

\* A revision is recorded as carried only if it is still the current one.
Carried(old, rev) == IF link.rev = rev THEN rev ELSE old

Reassign ==
  /\ run.at = "reassign"
  /\ \/ /\ deal' = [deal EXCEPT !.who = run.who]
        /\ link' = [link EXCEPT !.synced = Carried(@, run.rev)]
        /\ Goto(IF run.told THEN "pull" ELSE "notify")
        /\ UNCHANGED spent
     \/ /\ Event
        /\ deal' \in {deal, [deal EXCEPT !.who = run.who]}
        /\ Goto("pull")
        /\ UNCHANGED link
  /\ UNCHANGED <<jobs, company, comments, told, late>> /\ UNCHANGED desk

Notify ==
  /\ run.at = "notify"
  /\ \/ /\ told' = told \cup {run.who}
        /\ link' = [link EXCEPT !.notified = Carried(@, run.rev)]
        /\ UNCHANGED spent
     \/ /\ Event
        /\ told' \in {told, told \cup {run.who}}
        /\ UNCHANGED link
  /\ Goto("pull")
  /\ UNCHANGED <<jobs, company, deal, comments, late>> /\ UNCHANGED desk

PullComments ==
  /\ run.at = "pull"
  /\ run' = [Idle EXCEPT !.at = "import", !.job = run.job,
                         !.stage = run.stage, !.list = comments]
  /\ UNCHANGED <<link, jobs, company, spent>> /\ UNCHANGED <<desk, portal>>

\* Variant: a reply that is shown is not looked at again.
StaleIfNew(c) ==
  LET m == ImportOf(c) IN
  /\ c \notin Linked
  /\ IF run.list[c].addressed
     THEN m = 0 \/ messages[m].deleted
     ELSE m # 0 /\ ~messages[m].deleted

\* What the list says of a comment of the staff: shown, or not any more.
Stale(c) ==
  LET m == ImportOf(c) IN
  /\ c \notin Linked
  /\ IF run.list[c].addressed
     THEN m = 0 \/ messages[m].deleted \/ messages[m].text # run.list[c].text
     ELSE m # 0 /\ ~messages[m].deleted

Fresh == {c \in There(run.list) : Stale(c)}

Gone == {m \in DOMAIN messages :
           /\ messages[m].from = "crm"
           /\ ~messages[m].deleted
           /\ messages[m].comment \notin There(run.list)}

\* A reply of the staff is a new message of the conversation.
Import(c) ==
  LET seq == ticket.seq + 1 IN
  /\ messages' = Append(messages,
       [from |-> "crm", text |-> run.list[c].text, state |-> "in",
        comment |-> c, known |-> {}, deleted |-> FALSE])
  /\ ticket' = [ticket EXCEPT !.seq = seq, !.support = seq,
                              !.preview = run.list[c].text]

\* Variant: the preview becomes the text that changed last.
UpdateAndShow(m, text, deleted) ==
  /\ messages' = [messages EXCEPT ![m].text = text, ![m].deleted = deleted]
  /\ ticket' = [ticket EXCEPT !.preview = text]

\* updateImportedMessage and refreshPreview.
Update(m, text, deleted) ==
  /\ messages' = [messages EXCEPT ![m].text = text, ![m].deleted = deleted]
  /\ ticket' = [ticket EXCEPT !.preview = IF m = Len(messages) THEN text ELSE @]

ImportComment ==
  /\ run.at = "import"
  /\ Fresh # {}
  /\ LET c == Min(Fresh)
         m == ImportOf(c)
     IN  IF ~run.list[c].addressed THEN Update(m, "hidden in CRM", TRUE)
         ELSE IF m = 0 THEN Import(c)
         ELSE Update(m, run.list[c].text, FALSE)
  /\ UNCHANGED <<link, jobs, company, run, spent>> /\ UNCHANGED portal

DropRemoved ==
  /\ run.at = "import"
  /\ Fresh = {}
  /\ Gone # {}
  /\ Update(Min(Gone), "removed in CRM", TRUE)
  /\ UNCHANGED <<link, jobs, company, run, spent>> /\ UNCHANGED portal

StatusOf(stage) ==
  CASE stage = "success" -> "completed"
    [] stage = "failure" -> "cancelled"
    [] OTHER -> "in_progress"

\* The status comes from the deal that was read when the sync began.
Finish ==
  /\ run.at = "import"
  /\ Fresh = {}
  /\ Gone = {}
  /\ ticket' = [ticket EXCEPT !.status = StatusOf(run.stage)]
  /\ run' = Idle
  /\ UNCHANGED <<link, messages, jobs, company, spent>> /\ UNCHANGED portal

-----------------------------------------------------------------------------
Desk ==
  \/ \E from \in {"customer", "support"}, t \in Said : Reply(from, t)
  \/ \E status \in Statuses : SetStatus(status)
  \/ \E user \in User : Assign(user)
  \/ \E side \in {"customer", "support"}, seen \in 0 .. ticket.seq :
       Read(side, seen)
  \/ \E c \in Company : LinkTenantCompany(c)

Portal ==
  \/ \E t \in Replies, addressed \in BOOLEAN : StaffWrites(t, addressed)
  \/ \E c \in DOMAIN comments, t \in Replies, addressed \in BOOLEAN :
       StaffEdits(c, t, addressed)
  \/ \E c \in DOMAIN comments : StaffRemoves(c)
  \/ \E stage \in {"process", "success", "failure"} : StaffMoves(stage)
  \/ \E call \in late : Arrive(call)

\* The steps of a run, its failures included.
Step ==
  \/ FindCard \/ CreateCard \/ ListComments \/ NextMessage \/ SendMessage
  \/ GetDeal \/ DescribeCustomer \/ SyncCustomer \/ ReadAssignment
  \/ Reassign \/ Notify \/ PullComments \/ ImportComment \/ DropRemoved
  \/ Finish

Next == Desk \/ Portal \/ ClaimJob \/ ClaimPoll \/ Step \/ Refused \/ Crash

\* A run that began goes on; the timer serves due jobs and due polls again and
\* again, each tick the oldest ones.
Fairness ==
  /\ WF_vars(Step)
  /\ SF_vars(ClaimJob)
  /\ SF_vars(ClaimPoll)

Spec == Init /\ [][Next]_vars /\ Fairness
-----------------------------------------------------------------------------
(* What must hold *)

Points == {"idle", "find", "create", "list", "post", "send", "get", "describe",
           "customer", "assign", "reassign", "notify", "pull", "import"}

Stages == {"process", "success", "failure"}
Ticket == [status: Statuses, seq: Nat, customer: Nat, support: Nat,
           customerRead: Nat, supportRead: Nat, preview: Texts]

Link == [managed: BOOLEAN, deal: BOOLEAN,
         create: {"pending", "sending", "uncertain", "linked"},
         who: User \cup {None}, rev: Nat, synced: Nat, notified: Nat,
         current: BOOLEAN]

Run == [at: Points, job: BOOLEAN, who: User \cup {None}, rev: Nat,
        told: BOOLEAN, current: BOOLEAN, company: Company \cup {None},
        stage: Stages, list: Seq(Comment), todo: SUBSET Nat]

Deal == [cards: Nat, stage: Stages, who: User \cup {None},
         company: Company \cup {None}, posted: Seq(Nat)]

\* A creation under way: of the card (0), or of the comment of a message.
Call == [what: 0 .. Len(messages), who: User \cup {None}]

Spent == [words: Nat, events: Nat]

\* The type invariant.
TypeOK ==
  /\ ticket \in Ticket
  /\ link \in Link
  /\ messages \in Seq(Message)
  /\ jobs \in Nat
  /\ company \in Company \cup {None}
  /\ run \in Run
  /\ run.todo \subseteq DOMAIN messages
  /\ run.at = "send" => run.todo # {}
  /\ deal \in Deal
  /\ comments \in Seq(Comment)
  /\ told \in SUBSET (User \cup {None})
  /\ late \in SUBSET Call
  /\ spent \in Spent

\* The request and its conversation agree, whatever the worker and the two
\* sides of the desk interleave: the counters name the last message of each
\* side, nobody has read what was not written, and the preview is the text
\* of the last message.
ConversationKept ==
  /\ ticket.seq = Len(messages)
  /\ ticket.preview = messages[Len(messages)].text
  /\ ticket.customer = Max({m \in DOMAIN messages :
                              messages[m].from = "customer"})
  /\ ticket.support = Max({0} \cup {m \in DOMAIN messages :
                                     messages[m].from # "customer"})
  /\ ticket.customerRead <= ticket.seq
  /\ ticket.supportRead <= ticket.seq

\* A message is linked to the comment it became and to no other, also when
\* messages have the same text and answers were lost; and no comment that
\* Pass posted comes back as a reply of the staff.
LinksAreTrue ==
  /\ \A m \in Outgoing \ Unsent : comments[messages[m].comment].origin = m
  /\ \A m \in DOMAIN messages \ Outgoing :
       comments[messages[m].comment].origin = 0

\* The worker never makes a second card or a second comment, and never posts a
\* message before an earlier one, whatever is lost, repeated or interrupted.
Promise == INSTANCE Delivery WITH
  cards <- deal.cards,
  written <- Outgoing,
  posted <- deal.posted

OnceAndInOrder == Promise!Spec

\* The worker has a message in hand: its job goes on to list what is unsent, or
\* has listed it.
InHand(m) ==
  /\ run.job
  /\ \/ run.at \in {"find", "create", "list"}
     \/ run.at \in {"post", "send"} /\ m \in run.todo

\* Whatever is refused, lost or interrupted, nothing is forgotten: an unsent
\* message of a managed request is in the worker's hand or has a job, and an
\* assignment recorded as carried and notified is on the card and was notified.
NothingForgotten ==
  /\ link.managed => \A m \in Unsent : jobs > 0 \/ InHand(m)
  /\ link.deal /\ link.rev > 0 =>
       /\ link.synced = link.rev => deal.who = link.who
       /\ link.notified = link.rev => link.who \in told

\* A message waits for a reconciliation by hand: the outcome of creating the
\* card, or of posting it or an earlier message, is unknown and the portal
\* shows nothing that could be taken for it.
Held(m) ==
  \/ deal.cards = 0 /\ link.create \in {"sending", "uncertain"}
  \/ \E k \in Outgoing :
       /\ k <= m
       /\ Unanswered(k)
       /\ \A c \in There(comments) :
            ~(comments[c].origin = k /\ comments[c].text = messages[k].text)

\* Once the request is managed, every message written in Pass is delivered or
\* waits for a reconciliation, after the outages and crashes end.
AllDelivered ==
  <>[](link.managed => \A m \in Outgoing : m \notin Unsent \/ Held(m))

\* What the tenant sees of the CRM: the replies addressed to the tenant, each
\* in one message with its present text, nothing else of the staff's comments,
\* and the status that goes with the stage of the card.
Mirrored ==
  /\ ticket.status = StatusOf(deal.stage)
  /\ \A m \in DOMAIN messages \ Outgoing :
       ~messages[m].deleted =>
         LET c == messages[m].comment IN
         /\ comments[c].there /\ comments[c].addressed
         /\ comments[c].text = messages[m].text
         /\ \A k \in DOMAIN messages \ Outgoing :
              messages[k].comment = c => k = m
  /\ \A c \in There(comments) :
       comments[c].addressed =>
         \E m \in DOMAIN messages \ Outgoing :
           messages[m].comment = c /\ ~messages[m].deleted

\* When the staff has stopped, the request of a linked card mirrors it.
MirrorSettles == <>[](link.deal => Mirrored)

\* The user named last is the assignee of the card and was notified, also when
\* the assignment changes while an earlier one is being carried to the portal.
AssignmentArrives ==
  <>[](link.deal /\ link.rev > 0 => deal.who = link.who /\ link.who \in told)

\* A request that counts as carried to the portal shows there the company the
\* tenant is linked to ("including requests that are already linked").
LinkReachesDeal ==
  run.at = "idle" /\ link.current /\ company # None => deal.company = company
=============================================================================
